-------------------------- MODULE ExtensionProofs ---------------------------
(***************************************************************************)
(* For any tabs, blocks and number of clicks: what was sent to the Bridge  *)
(* is kept as a card that cannot be clicked, while one tab at a time is    *)
(* open and the storage works; and a page never approves a block twice.    *)
(* The argument follows a click: its card is approving on the page before  *)
(* the page is written, and written before the request is sent.            *)
(***************************************************************************)
EXTENDS Extension, TLAPS

Cards == {"none", "pending", "approving", "approved", "failed", "rejected"}
Locked == {"approving", "approved", "failed"}
Click ==
  [tab : Tabs, block : Blocks,
   step : {"saving", "unsent", "staging", "staged", "approving", "done", "refused"},
   watch : {"waiting", "settled", "gone"},
   row : {"none", "pending", "recovered", "reconfirmed", "executed", "over"}]

ExtensionTypes ==
  /\ onScreen \subseteq Tabs /\ declined \subseteq Blocks /\ forgetful \in BOOLEAN
  /\ page \in [Tabs -> [Blocks -> Cards]] /\ kept \in [Blocks -> Cards]
  /\ clicks \in Seq(Click)

(* A click that its page remembers is on an open page, where its card is   *)
(* locked: approving until the answer, approved or failed after it.        *)
Remembered(i) ==
  clicks[i].watch # "gone" =>
    /\ clicks[i].tab \in onScreen
    /\ page[clicks[i].tab][clicks[i].block] \in Locked

(* What the Bridge did of a click belongs to how far the click is.         *)
InStep(i) ==
  /\ clicks[i].step = "saving" => clicks[i].watch = "waiting"
  /\ clicks[i].step \in {"saving", "unsent", "staging"} => clicks[i].row = "none"
  /\ clicks[i].step = "done" => clicks[i].row = "executed"

Saving(i, t, b) == clicks[i].step = "saving" /\ clicks[i].tab = t /\ clicks[i].block = b

(* What is kept is what the one open page shows, but for a click that is   *)
(* about to be written; a rejected card is rejected for good.              *)
PageIsKept ==
  \A t \in onScreen :
    /\ \A u \in onScreen : u = t
    /\ \A b \in Blocks :
         kept[b] = page[t][b] \/ (kept[b] \notin Locked /\ \E i \in Rows : Saving(i, t, b))
    /\ \A b \in declined : page[t][b] = "rejected"

(* A click that is yet to be sent is the only one of its block that will   *)
(* have been.                                                              *)
SavedFirst ==
  \A i, j \in Rows :
    clicks[i].step = "saving" /\ clicks[j].block = clicks[i].block => ~Sent(j)

Careful ==
  /\ PageIsKept /\ SavedFirst
  /\ \A b \in declined : kept[b] = "rejected"

ExtensionInv ==
  /\ ExtensionTypes
  /\ \A i \in Rows : Remembered(i) /\ InStep(i)
  /\ OncePerPage /\ ApprovedHasRun
  /\ ~forgetful => Careful /\ SentOnce

-----------------------------------------------------------------------------
(* At the start nobody has clicked.                                        *)
LEMMA InvInit == ExtensionInit => ExtensionInv
<1> SUFFICES ASSUME ExtensionInit PROVE ExtensionInv
  OBVIOUS
<1>1. clicks = <<>> /\ Rows = {} /\ clicks \in Seq(Click)
  BY DEF ExtensionInit, Rows
<1>2. Blank \in [Blocks -> Cards] /\ \A b \in Blocks : Blank[b] = "none"
  BY DEF Blank, Cards
<1>3. ExtensionTypes
  BY <1>1, <1>2 DEF ExtensionInit, ExtensionTypes
<1>4. ApprovedHasRun
  BY <1>2 DEF ExtensionInit, ApprovedHasRun
<1> QED BY <1>1, <1>3, <1>4
        DEF ExtensionInit, ExtensionInv, Careful, PageIsKept, SavedFirst, SentOnce, OncePerPage

(* A step of the Bridge: no click is sent or forgotten by it, and what was *)
(* executed stays so.                                                      *)
Moved(c, d) ==
  /\ d \in Click
  /\ d.tab = c.tab /\ d.block = c.block /\ d.watch = c.watch
  /\ \A s \in {"saving", "unsent"} : d.step = s <=> c.step = s
  /\ c.row = "executed" => d.row = "executed"
  /\ d.step \in {"saving", "unsent", "staging"} => d.row = "none"
  /\ d.step = "done" => d.row = "executed"

(* What the bridge does keeps the invariant.                               *)
LEMMA BridgeKeeps ==
  ASSUME ExtensionInv, BridgeOnly, clicks' \in Seq(Click), DOMAIN clicks' = Rows,
         \A i \in Rows : Moved(clicks[i], clicks'[i])
  PROVE  ExtensionInv'
<1> USE DEF Moved, Rows, BridgeOnly
<1>1. ExtensionTypes'
  BY DEF ExtensionInv, ExtensionTypes
<1>2. (\A i \in Rows : Remembered(i) /\ InStep(i))'
  BY DEF ExtensionInv, Remembered, InStep
<1>3. OncePerPage'
  BY DEF ExtensionInv, OncePerPage
<1>4. ApprovedHasRun'
  <2> SUFFICES ASSUME NEW p \in {page[t] : t \in Tabs} \cup {kept}, NEW b \in Blocks,
                      p[b] = "approved"
               PROVE  \E i \in Rows : clicks'[i].block = b /\ clicks'[i].row = "executed"
    BY DEF ApprovedHasRun
  <2>1. PICK i \in Rows : clicks[i].block = b /\ clicks[i].row = "executed"
    BY DEF ExtensionInv, ApprovedHasRun
  <2> QED BY <2>1
<1>5. ASSUME ~forgetful PROVE Careful' /\ SentOnce'
  <2>1. PageIsKept'
    BY <1>5 DEF ExtensionInv, Careful, PageIsKept, Saving
  <2>2. SavedFirst'
    BY <1>5 DEF ExtensionInv, Careful, SavedFirst, Sent
  <2>3. SentOnce'
    BY <1>5 DEF ExtensionInv, SentOnce, Sent
  <2> QED BY <1>5, <2>1, <2>2, <2>3 DEF ExtensionInv, Careful
<1> QED BY <1>1, <1>2, <1>3, <1>4, <1>5 DEF ExtensionInv

(* The Bridge queues, approves, refuses, recovers and expires requests.    *)
LEMMA BridgeSteps ==
  ASSUME ExtensionInv,
         RestartBridge \/ \E i \in Rows : QueueRow(i) \/ ServeApproval(i) \/ ServeRecovered(i) \/ Expire(i)
  PROVE  ExtensionInv'
<1> USE DEF Rows
<1>1. clicks \in Seq(Click) /\ \A i \in Rows : InStep(i) /\ clicks[i] \in Click
  BY DEF ExtensionInv, ExtensionTypes
<1>2. CASE RestartBridge
  <2> DEFINE next(i) ==
        [clicks[i] EXCEPT
           !.row = IF @ = "pending" THEN "recovered" ELSE @,
           !.step = IF @ \in {"staging", "approving"} THEN "refused" ELSE @]
  <2>1. BridgeOnly /\ clicks' = [i \in Rows |-> next(i)]
    BY <1>2 DEF RestartBridge
  <2>2. ASSUME NEW i \in Rows PROVE Moved(clicks[i], next(i))
    BY <1>1 DEF Moved, InStep, Click
  <2>3. \A i \in Rows : next(i) \in Click
    BY <2>2 DEF Moved
  <2> HIDE DEF next
  <2>4. clicks' \in Seq(Click) /\ DOMAIN clicks' = Rows
    BY <1>1, <2>1, <2>3
  <2>5. \A i \in Rows : Moved(clicks[i], clicks'[i])
    BY <2>1, <2>2
  <2> QED BY <2>1, <2>4, <2>5, BridgeKeeps
<1>3. ASSUME NEW i \in Rows, NEW d \in Click, BridgeOnly, clicks' = [clicks EXCEPT ![i] = d],
             Moved(clicks[i], d)
      PROVE  ExtensionInv'
  <2>1. clicks' \in Seq(Click) /\ DOMAIN clicks' = Rows
    BY <1>1, <1>3
  <2>2. ASSUME NEW j \in Rows PROVE Moved(clicks[j], clicks'[j])
    BY <1>1, <1>3 DEF Moved, InStep
  <2> QED BY <1>3, <2>1, <2>2, BridgeKeeps
<1>4. ASSUME NEW i \in Rows, QueueRow(i) PROVE ExtensionInv'
  <2>1. CASE clicks' = [clicks EXCEPT ![i].step = "staged", ![i].row = "pending"]
    <3> DEFINE d == [clicks[i] EXCEPT !.step = "staged", !.row = "pending"]
    <3>1. d \in Click /\ Moved(clicks[i], d)
      BY <1>1, <1>4 DEF QueueRow, Moved, InStep, Click
    <3>2. clicks' = [clicks EXCEPT ![i] = d]
      BY <1>1, <2>1
    <3> QED BY <1>3, <1>4, <3>1, <3>2 DEF QueueRow
  <2>2. CASE StepTo(i, "refused")
    <3> DEFINE d == [clicks[i] EXCEPT !.step = "refused"]
    <3>1. d \in Click /\ Moved(clicks[i], d)
      BY <1>1, <1>4 DEF QueueRow, Moved, InStep, Click
    <3>2. clicks' = [clicks EXCEPT ![i] = d]
      BY <1>1, <2>2 DEF StepTo
    <3> QED BY <1>3, <1>4, <3>1, <3>2 DEF QueueRow
  <2> QED BY <1>4, <2>1, <2>2 DEF QueueRow
<1>5. ASSUME NEW i \in Rows, ServeApproval(i) PROVE ExtensionInv'
  <2>1. PICK row \in {clicks[i].row, "executed", "over"}, step \in {"done", "refused"} :
          /\ clicks' = [clicks EXCEPT ![i] = [clicks[i] EXCEPT !.row = row, !.step = step]]
          /\ clicks[i].row = "executed" => row = "executed"
          /\ step = "done" => row = "executed"
    BY <1>1, <1>5 DEF ServeApproval, StepTo, Approvable, Click
  <2>2. Moved(clicks[i], [clicks[i] EXCEPT !.row = row, !.step = step])
    BY <1>1, <1>5, <2>1 DEF ServeApproval, Moved, InStep, Click
  <2> QED BY <1>3, <1>5, <2>1, <2>2 DEF ServeApproval, Moved
<1>6. ASSUME NEW i \in Rows, ServeRecovered(i) \/ Expire(i) PROVE ExtensionInv'
  <2>1. PICK row \in {"reconfirmed", "executed", "over"} :
          /\ clicks' = [clicks EXCEPT ![i] = [clicks[i] EXCEPT !.row = row]]
          /\ clicks[i].row \notin {"none", "executed"}
    BY <1>1, <1>6 DEF ServeRecovered, Expire, MoveRow, Click
  <2>2. Moved(clicks[i], [clicks[i] EXCEPT !.row = row])
    BY <1>1, <2>1 DEF Moved, InStep, Click
  <2> QED BY <1>3, <1>6, <2>1, <2>2 DEF ServeRecovered, Expire, Moved
<1> QED BY <1>2, <1>4, <1>5, <1>6

(* What a page that was written leaves kept.                               *)
LEMMA StoredOrNot ==
  ASSUME NEW p \in [Blocks -> Cards], ExtensionTypes, Stores(p)
  PROVE  /\ kept' \in {kept, p} /\ kept' \in [Blocks -> Cards] /\ forgetful' \in BOOLEAN
         /\ ~forgetful' => ~forgetful /\ kept' = p
BY DEF Stores, ExtensionTypes

(* A step of a tab: a call is sent, which the click waits for.             *)
Called(t, c, d) ==
  /\ d \in Click
  /\ d.tab = c.tab /\ d.block = c.block /\ d.watch = c.watch /\ d.row = c.row
  /\ \/ d.step = c.step
     \/ c.step = "saving" /\ d.step = "staging" /\ c.tab = t
     \/ c.step = "staged" /\ d.step = "approving"

(* The page is written as it is: before a call is sent, or by a refresh.   *)
LEMMA WriteKeeps ==
  ASSUME ExtensionInv, NEW t \in onScreen, Stores(page[t]), UNCHANGED <<onScreen, page, declined>>,
         clicks' \in Seq(Click), DOMAIN clicks' = Rows,
         \A i \in Rows : Called(t, clicks[i], clicks'[i])
  PROVE  ExtensionInv'
<1> USE DEF Rows, Called
<1> ExtensionTypes /\ page[t] \in [Blocks -> Cards]
  BY DEF ExtensionInv, ExtensionTypes
<1>1. /\ kept' \in {kept, page[t]} /\ kept' \in [Blocks -> Cards] /\ forgetful' \in BOOLEAN
      /\ ~forgetful' => ~forgetful /\ kept' = page[t]
  BY StoredOrNot
<1>2. ExtensionTypes'
  BY <1>1 DEF ExtensionTypes
<1>3. (\A i \in Rows : Remembered(i) /\ InStep(i))'
  BY DEF ExtensionInv, Remembered, InStep
<1>4. OncePerPage'
  BY DEF ExtensionInv, OncePerPage
<1>5. ApprovedHasRun'
  <2> SUFFICES ASSUME NEW p \in {page[u] : u \in Tabs} \cup {kept'}, NEW b \in Blocks,
                      p[b] = "approved"
               PROVE  \E i \in Rows : clicks'[i].block = b /\ clicks'[i].row = "executed"
    BY DEF ApprovedHasRun
  <2>1. p \in {page[u] : u \in Tabs} \cup {kept}
    BY <1>1 DEF ExtensionTypes
  <2>2. PICK i \in Rows : clicks[i].block = b /\ clicks[i].row = "executed"
    BY <2>1 DEF ExtensionInv, ApprovedHasRun
  <2> QED BY <2>2
<1>6. ASSUME ~forgetful' PROVE Careful' /\ SentOnce'
  <2>1. /\ ~forgetful /\ kept' = page[t]
        /\ PageIsKept /\ SavedFirst /\ SentOnce /\ OncePerPage
        /\ \A b \in declined : kept[b] = "rejected"
    BY <1>1, <1>6 DEF ExtensionInv, Careful
  <2>2. \A i \in Rows : /\ clicks[i] \in Click /\ Remembered(i) /\ InStep(i)
                        /\ clicks[i].watch # "gone" => clicks[i].tab = t
    BY <2>1 DEF ExtensionInv, ExtensionTypes, PageIsKept, Remembered
  <2>3. ASSUME NEW i \in Rows, Sent(i)', ~Sent(i) PROVE clicks[i].step = "saving"
    BY <2>3 DEF Sent
  <2>4. PageIsKept'
    BY <2>1 DEF PageIsKept
  <2>5. \A b \in declined : kept'[b] = "rejected"
    BY <2>1 DEF PageIsKept
  <2>6. ASSUME NEW i \in Rows, NEW j \in Rows, clicks[i].step = "saving", j # i,
               clicks[j].block = clicks[i].block
        PROVE  ~Sent(j)'
    <3>1. ~Sent(j)
      BY <2>1, <2>6 DEF SavedFirst
    <3>2. clicks[j].step # "saving"
      BY <2>1, <2>2, <2>6 DEF OncePerPage, InStep
    <3> QED BY <2>3, <3>1, <3>2
  <2>7. SavedFirst'
    BY <2>6 DEF SavedFirst, Sent
  <2>8. ASSUME NEW i \in Rows, Sent(i)'
        PROVE  /\ kept'[clicks[i].block] \in Locked /\ clicks[i].block \notin declined
               /\ \A j \in Rows \ {i} : Sent(j)' => clicks[j].block # clicks[i].block
    <3>1. CASE Sent(i)
      <4>1. kept[clicks[i].block] \in Locked /\ clicks[i].block \notin declined
        BY <2>1, <3>1 DEF SentOnce, Locked
      <4>2. kept[clicks[i].block] = page[t][clicks[i].block]
        BY <2>1, <2>2, <4>1 DEF PageIsKept, Click
      <4>3. ASSUME NEW j \in Rows \ {i}, Sent(j)', clicks[j].block = clicks[i].block PROVE FALSE
        BY <2>1, <2>3, <3>1, <4>3 DEF SentOnce, SavedFirst
      <4> QED BY <2>1, <4>1, <4>2, <4>3
    <3>2. CASE ~Sent(i)
      <4>1. clicks[i].step = "saving" /\ clicks[i].watch = "waiting" /\ clicks[i].tab = t
        BY <2>2, <2>3, <2>8, <3>2 DEF InStep
      <4>2. page[t][clicks[i].block] \in Locked
        BY <2>2, <4>1 DEF Remembered
      <4>3. clicks[i].block \notin declined
        BY <2>1, <4>2 DEF PageIsKept, Locked
      <4> QED BY <2>1, <2>6, <4>1, <4>2, <4>3
    <3> QED BY <3>1, <3>2
  <2>9. SentOnce'
    BY <2>8 DEF SentOnce, Sent, Locked
  <2> QED BY <2>4, <2>5, <2>7, <2>9 DEF Careful
<1> QED BY <1>2, <1>3, <1>4, <1>5, <1>6 DEF ExtensionInv

(* refreshApprovals, and the calls of approve.                             *)
LEMMA WriteSteps ==
  ASSUME ExtensionInv,
         \/ \E t \in Tabs : Refresh(t)
         \/ \E i \in Rows : SendStage(i) \/ SendApproval(i)
  PROVE  ExtensionInv'
<1> USE DEF Rows
<1>1. clicks \in Seq(Click) /\ \A i \in Rows : Remembered(i) /\ InStep(i) /\ clicks[i] \in Click
  BY DEF ExtensionInv, ExtensionTypes
<1>2. ASSUME NEW t \in Tabs, Refresh(t) PROVE ExtensionInv'
  <2>1. \A i \in Rows : Called(t, clicks[i], clicks'[i])
    BY <1>1, <1>2 DEF Refresh, Called
  <2> QED BY <1>1, <1>2, <2>1, WriteKeeps DEF Refresh
<1>3. ASSUME NEW i \in Rows, SendStage(i) \/ SendApproval(i) PROVE ExtensionInv'
  <2> DEFINE t == clicks[i].tab
  <2>1. /\ t \in onScreen /\ Stores(page[t]) /\ UNCHANGED <<onScreen, page, declined>>
    BY <1>1, <1>3 DEF SendStage, SendApproval, Remembered, InStep
  <2>2. PICK d \in Click : clicks' = [clicks EXCEPT ![i] = d] /\ Called(t, clicks[i], d)
    <3>1. CASE SendStage(i)
      <4> DEFINE d == [clicks[i] EXCEPT !.step = "staging"]
      <4>1. d \in Click /\ Called(t, clicks[i], d) /\ clicks' = [clicks EXCEPT ![i] = d]
        BY <1>1, <3>1 DEF SendStage, StepTo, Called, Click
      <4> QED BY <4>1
    <3>2. CASE SendApproval(i)
      <4> DEFINE d == [clicks[i] EXCEPT !.step = "approving"]
      <4>1. d \in Click /\ Called(t, clicks[i], d) /\ clicks' = [clicks EXCEPT ![i] = d]
        BY <1>1, <3>2 DEF SendApproval, StepTo, Called, Click
      <4> QED BY <4>1
    <3> QED BY <1>3, <3>1, <3>2
  <2> HIDE DEF t
  <2>3. clicks' \in Seq(Click) /\ DOMAIN clicks' = Rows
    BY <1>1, <2>2
  <2>4. \A j \in Rows : Called(t, clicks[j], clicks'[j])
    BY <1>1, <2>2 DEF Called
  <2> QED BY <2>1, <2>3, <2>4, WriteKeeps
<1> QED BY <1>2, <1>3

(* One card of an open page changes, and the page is written.              *)
LEMMA ShownPage ==
  ASSUME ExtensionTypes, NEW t \in onScreen, NEW b \in Blocks, NEW v \in Cards,
         Updates(t, Shows(t, b, v))
  PROVE  /\ page' \in [Tabs -> [Blocks -> Cards]] /\ kept' \in [Blocks -> Cards]
         /\ forgetful' \in BOOLEAN
         /\ page'[t][b] = v /\ \A c \in Blocks \ {b} : page'[t][c] = page[t][c]
         /\ \A u \in Tabs \ {t} : page'[u] = page[u]
         /\ kept' \in {kept, page'[t]}
         /\ ~forgetful' => ~forgetful /\ kept' = page'[t]
<1>1. t \in Tabs /\ page[t] \in [Blocks -> Cards]
  BY DEF ExtensionTypes
<1>2. Shows(t, b, v) \in [Blocks -> Cards]
  BY <1>1 DEF Shows
<1>3. Stores(Shows(t, b, v)) /\ page' = [page EXCEPT ![t] = Shows(t, b, v)]
  BY DEF Updates
<1>4. page'[t] = Shows(t, b, v)
  BY <1>1, <1>3 DEF ExtensionTypes
<1> QED BY <1>1, <1>2, <1>3, <1>4, StoredOrNot DEF Shows, ExtensionTypes

(* What says approved after it said so before, or of an executed request.  *)
LEMMA ApprovedStays ==
  ASSUME ExtensionInv, NEW t \in onScreen, NEW b \in Blocks, NEW v \in Cards,
         Updates(t, Shows(t, b, v)),
         DOMAIN clicks' = Rows,
         \A i \in Rows : clicks'[i].block = clicks[i].block /\ clicks'[i].row = clicks[i].row,
         v = "approved" => \E i \in Rows : clicks[i].block = b /\ clicks[i].row = "executed"
  PROVE  ApprovedHasRun'
<1> USE DEF Rows
<1>1. ExtensionTypes /\ ApprovedHasRun
  BY DEF ExtensionInv
<1>2. t \in Tabs
  BY <1>1 DEF ExtensionTypes
<1>3. ASSUME NEW u \in Tabs, NEW c \in Blocks, page'[u][c] = "approved"
      PROVE  \E i \in Rows : clicks[i].block = c /\ clicks[i].row = "executed"
  <2>1. CASE u = t /\ c = b
    BY <1>1, <1>3, <2>1, ShownPage
  <2>2. CASE ~(u = t /\ c = b)
    <3>1. page[u][c] = "approved"
      BY <1>1, <1>3, <2>2, ShownPage
    <3> QED BY <1>1, <3>1 DEF ApprovedHasRun
  <2> QED BY <2>1, <2>2
<1>4. ASSUME NEW c \in Blocks, kept'[c] = "approved"
      PROVE  \E i \in Rows : clicks[i].block = c /\ clicks[i].row = "executed"
  <2>1. kept' = kept \/ kept' = page'[t]
    BY <1>1, ShownPage
  <2> QED BY <1>1, <1>2, <1>3, <1>4, <2>1 DEF ApprovedHasRun
<1> QED BY <1>3, <1>4 DEF ApprovedHasRun

(* Capture and reject: a card that nobody approves changes.                *)
LEMMA FreeCardSteps ==
  ASSUME ExtensionInv, NEW t \in Tabs, NEW b \in Blocks, Capture(t, b) \/ Reject(t, b)
  PROVE  ExtensionInv'
<1> USE DEF Rows
<1>1. PICK v \in {"pending", "rejected"} :
        /\ t \in onScreen /\ page[t][b] \in {"none", "pending"}
        /\ Updates(t, Shows(t, b, v)) /\ UNCHANGED <<onScreen, clicks>>
        /\ declined' = IF v = "rejected" THEN declined \cup {b} ELSE declined
  BY DEF Capture, Reject
<1>2. v \in Cards /\ v \notin Locked /\ v # "approved" /\ page[t][b] \notin Locked
  BY <1>1 DEF Cards, Locked
<1>3. ExtensionTypes /\ \A i \in Rows : Remembered(i) /\ InStep(i) /\ clicks[i] \in Click
  BY DEF ExtensionInv, ExtensionTypes
<1>4. /\ page' \in [Tabs -> [Blocks -> Cards]] /\ kept' \in [Blocks -> Cards]
      /\ forgetful' \in BOOLEAN
      /\ page'[t][b] = v /\ \A c \in Blocks \ {b} : page'[t][c] = page[t][c]
      /\ \A u \in Tabs \ {t} : page'[u] = page[u]
      /\ ~forgetful' => ~forgetful /\ kept' = page'[t]
  BY <1>1, <1>2, <1>3, ShownPage
<1>5. ExtensionTypes'
  BY <1>1, <1>3, <1>4 DEF ExtensionTypes
<1>6. (\A i \in Rows : Remembered(i) /\ InStep(i))'
  <2> SUFFICES ASSUME NEW i \in Rows PROVE Remembered(i)' /\ InStep(i)'
    BY <1>1
  <2>1. InStep(i)'
    BY <1>1, <1>3 DEF InStep
  <2>2. ASSUME clicks[i].watch # "gone"
        PROVE  page'[clicks[i].tab][clicks[i].block] = page[clicks[i].tab][clicks[i].block]
    BY <1>2, <1>3, <1>4, <2>2 DEF Remembered, Click
  <2> QED BY <1>1, <1>3, <2>1, <2>2 DEF Remembered
<1>7. OncePerPage'
  BY <1>1 DEF ExtensionInv, OncePerPage
<1>8. ApprovedHasRun'
  BY <1>1, <1>2, ApprovedStays
<1>9. ASSUME ~forgetful' PROVE Careful' /\ SentOnce'
  <2>1. /\ ~forgetful /\ kept' = page'[t] /\ PageIsKept /\ SavedFirst /\ SentOnce
        /\ \A c \in declined : kept[c] = "rejected"
    BY <1>4, <1>9 DEF ExtensionInv, Careful
  <2>2. \A c \in declined' : page'[t][c] = "rejected"
    BY <1>1, <1>3, <1>4, <2>1 DEF PageIsKept, ExtensionTypes
  <2>3. PageIsKept'
    BY <1>1, <2>1, <2>2 DEF PageIsKept
  <2>4. SavedFirst'
    BY <1>1, <2>1 DEF SavedFirst, Sent
  <2>5. ASSUME NEW i \in Rows, Sent(i)
        PROVE  kept'[clicks[i].block] \in Locked /\ clicks[i].block \notin declined'
    <3>1. kept[clicks[i].block] \in Locked /\ clicks[i].block \notin declined
      BY <2>1, <2>5 DEF SentOnce, Locked
    <3>2. kept[clicks[i].block] = page[t][clicks[i].block]
      BY <1>1, <1>3, <2>1, <3>1 DEF PageIsKept, Click
    <3>3. clicks[i].block # b
      BY <1>2, <3>1, <3>2
    <3> QED BY <1>1, <1>3, <1>4, <2>1, <3>1, <3>2, <3>3 DEF Click
  <2>6. SentOnce'
    BY <1>1, <2>1, <2>5 DEF SentOnce, Sent, Locked
  <2> QED BY <2>1, <2>2, <2>3, <2>4, <2>6 DEF Careful
<1> QED BY <1>5, <1>6, <1>7, <1>8, <1>9 DEF ExtensionInv

(* The answer of a call, or that there was none: the card stays locked.    *)
LEMMA SettleSteps ==
  ASSUME ExtensionInv, NEW i \in Rows, MarkApproved(i) \/ FailAction(i)
  PROVE  ExtensionInv'
<1> DEFINE t == clicks[i].tab
           b == clicks[i].block
<1> USE DEF Rows
<1>1. ExtensionTypes /\ \A j \in Rows : Remembered(j) /\ InStep(j) /\ clicks[j] \in Click
  BY DEF ExtensionInv, ExtensionTypes
<1>2. PICK v \in {"approved", "failed"} :
        /\ clicks[i].watch = "waiting" /\ clicks[i].step # "saving"
        /\ clicks' = [clicks EXCEPT ![i].watch = "settled"]
        /\ Updates(t, Shows(t, b, v)) /\ UNCHANGED <<onScreen, declined>>
        /\ v = "approved" => clicks[i].step = "done"
  BY DEF MarkApproved, FailAction, Settles
<1>3. /\ t \in onScreen /\ t \in Tabs /\ b \in Blocks /\ page[t][b] \in Locked
      /\ v \in Cards /\ v \in Locked
      /\ onScreen' = onScreen /\ declined' = declined
  BY <1>1, <1>2 DEF Remembered, Click, ExtensionTypes, Cards, Locked
<1>4. /\ clicks' \in Seq(Click) /\ DOMAIN clicks' = Rows
      /\ \A j \in Rows : clicks'[j] = IF j = i THEN [clicks[i] EXCEPT !.watch = "settled"] ELSE clicks[j]
  <2> DEFINE d == [clicks[i] EXCEPT !.watch = "settled"]
  <2>1. d \in Click
    BY <1>1 DEF Click
  <2>2. clicks' = [clicks EXCEPT ![i] = d]
    BY <1>1, <1>2 DEF ExtensionTypes
  <2> HIDE DEF d
  <2>3. /\ clicks' \in Seq(Click) /\ DOMAIN clicks' = Rows
        /\ \A j \in Rows : clicks'[j] = IF j = i THEN d ELSE clicks[j]
    BY <1>1, <2>1, <2>2 DEF ExtensionTypes
  <2> QED BY <2>3 DEF d
<1>5. \A j \in Rows :
        /\ clicks'[j].tab = clicks[j].tab /\ clicks'[j].block = clicks[j].block
        /\ clicks'[j].step = clicks[j].step /\ clicks'[j].row = clicks[j].row
        /\ clicks'[j].watch = clicks[j].watch \/
             (j = i /\ clicks'[j].watch = "settled" /\ clicks[j].watch = "waiting")
  BY <1>1, <1>2, <1>4 DEF Click
<1> HIDE DEF t, b
<1>6. /\ page' \in [Tabs -> [Blocks -> Cards]] /\ kept' \in [Blocks -> Cards]
      /\ forgetful' \in BOOLEAN
      /\ page'[t][b] = v /\ \A c \in Blocks \ {b} : page'[t][c] = page[t][c]
      /\ \A u \in Tabs \ {t} : page'[u] = page[u]
      /\ ~forgetful' => ~forgetful /\ kept' = page'[t]
  BY <1>1, <1>2, <1>3, ShownPage
<1>7. ExtensionTypes'
  BY <1>1, <1>3, <1>4, <1>6 DEF ExtensionTypes
<1>8. ASSUME NEW j \in Rows PROVE Remembered(j)' /\ InStep(j)'
  <2>1. InStep(j)'
    BY <1>1, <1>2, <1>5 DEF InStep
  <2>2. ASSUME clicks[j].watch # "gone"
        PROVE  page'[clicks[j].tab][clicks[j].block] \in Locked
    <3>1. clicks[j].tab \in Tabs /\ clicks[j].block \in Blocks
      BY <1>1 DEF Click
    <3>2. page[clicks[j].tab][clicks[j].block] \in Locked
      BY <1>1, <2>2 DEF Remembered
    <3>3. CASE clicks[j].tab = t /\ clicks[j].block = b
      BY <1>3, <1>6, <3>3
    <3>4. CASE ~(clicks[j].tab = t /\ clicks[j].block = b)
      BY <1>6, <3>1, <3>2, <3>4
    <3> QED BY <3>3, <3>4
  <2>3. clicks[j].watch # "gone" => clicks[j].tab \in onScreen'
    BY <1>1, <1>3 DEF Remembered
  <2>4. /\ clicks'[j].tab = clicks[j].tab /\ clicks'[j].block = clicks[j].block
        /\ clicks'[j].watch # "gone" => clicks[j].watch # "gone"
    BY <1>5
  <2>5. Remembered(j)'
    BY <2>2, <2>3, <2>4 DEF Remembered
  <2> QED BY <2>1, <2>5
<1>9. OncePerPage'
  BY <1>4, <1>5 DEF ExtensionInv, OncePerPage
<1>10. ApprovedHasRun'
  <2>1. v = "approved" => clicks[i].block = b /\ clicks[i].row = "executed"
    BY <1>1, <1>2 DEF InStep, b
  <2> QED BY <1>2, <1>3, <1>4, <1>5, <2>1, ApprovedStays
<1>11. ASSUME ~forgetful' PROVE Careful' /\ SentOnce'
  <2>1. /\ ~forgetful /\ kept' = page'[t] /\ PageIsKept /\ SavedFirst /\ SentOnce
        /\ \A c \in declined : kept[c] = "rejected"
    BY <1>6, <1>11 DEF ExtensionInv, Careful
  <2>2. \A c \in declined : page'[t][c] = "rejected"
    BY <1>1, <1>3, <1>6, <2>1 DEF PageIsKept, ExtensionTypes, Locked
  <2>3. PageIsKept'
    BY <1>3, <2>1, <2>2 DEF PageIsKept
  <2>4. SavedFirst'
    BY <1>4, <1>5, <2>1 DEF SavedFirst, Sent
  <2>5. ASSUME NEW j \in Rows, Sent(j)
        PROVE  kept'[clicks[j].block] \in Locked /\ clicks[j].block \notin declined
    <3>1. kept[clicks[j].block] \in Locked /\ clicks[j].block \notin declined
      BY <2>1, <2>5 DEF SentOnce, Locked
    <3>2. kept[clicks[j].block] = page[t][clicks[j].block]
      BY <1>1, <1>3, <2>1, <3>1 DEF PageIsKept, Click
    <3> QED BY <1>1, <1>3, <1>6, <2>1, <3>1, <3>2 DEF Click
  <2>6. SentOnce'
    BY <1>3, <1>4, <1>5, <2>1, <2>5 DEF SentOnce, Sent, Locked
  <2> QED BY <1>3, <2>1, <2>2, <2>3, <2>4, <2>6 DEF Careful
<1> QED BY <1>4, <1>7, <1>8, <1>9, <1>10, <1>11 DEF ExtensionInv

(* A click: the card is approving on the page, and not yet written.        *)
LEMMA ClickKeeps ==
  ASSUME ExtensionInv, NEW t \in Tabs, NEW b \in Blocks, ClickApprove(t, b)
  PROVE  ExtensionInv'
<1> PICK n : n = Len(clicks) + 1
  OBVIOUS
<1> DEFINE new == [tab |-> t, block |-> b, step |-> "saving", watch |-> "waiting", row |-> "none"]
<1> USE DEF Rows
<1>1. ExtensionTypes /\ \A j \in Rows : Remembered(j) /\ InStep(j) /\ clicks[j] \in Click
  BY DEF ExtensionInv, ExtensionTypes
<1>2. /\ t \in onScreen /\ page[t][b] = "pending"
      /\ page' = [page EXCEPT ![t] = Shows(t, b, "approving")]
      /\ clicks' = Append(clicks, new)
      /\ UNCHANGED <<onScreen, kept, forgetful, declined>>
  BY DEF ClickApprove
<1> onScreen' = onScreen /\ kept' = kept /\ forgetful' = forgetful /\ declined' = declined
  BY <1>2
<1>3. /\ new \in Click /\ clicks' \in Seq(Click)
      /\ Rows = 1..Len(clicks) /\ DOMAIN clicks' = Rows \cup {n} /\ n \notin Rows
      /\ clicks'[n] = new /\ \A j \in Rows : clicks'[j] = clicks[j]
  BY <1>1, <1>2 DEF ExtensionTypes, Click
<1>4. /\ page' \in [Tabs -> [Blocks -> Cards]]
      /\ page'[t][b] = "approving" /\ \A c \in Blocks \ {b} : page'[t][c] = page[t][c]
      /\ \A u \in Tabs \ {t} : page'[u] = page[u]
  BY <1>1, <1>2 DEF Shows, ExtensionTypes, Cards
<1>5. ExtensionTypes'
  BY <1>1, <1>2, <1>3, <1>4 DEF ExtensionTypes
<1>6. ASSUME NEW j \in Rows, clicks[j].watch # "gone"
      PROVE  /\ ~(clicks[j].tab = t /\ clicks[j].block = b)
             /\ page'[clicks[j].tab][clicks[j].block] = page[clicks[j].tab][clicks[j].block]
  BY <1>1, <1>2, <1>4, <1>6 DEF Remembered, Click, Locked
<1>7. (\A j \in Rows : Remembered(j) /\ InStep(j))'
  <2>1. \A j \in Rows : Remembered(j)' /\ InStep(j)'
    BY <1>1, <1>3, <1>6 DEF Remembered, InStep
  <2>2. Remembered(n)' /\ InStep(n)'
    <3>1. t \in onScreen' /\ page'[t][b] \in Locked
      BY <1>2, <1>4 DEF Locked
    <3>2. /\ clicks'[n].tab = t /\ clicks'[n].block = b /\ clicks'[n].step = "saving"
          /\ clicks'[n].watch = "waiting" /\ clicks'[n].row = "none"
      BY <1>3
    <3> HIDE DEF new
    <3>3. Remembered(n)'
      BY <3>1, <3>2 DEF Remembered
    <3>4. InStep(n)'
      BY <3>2 DEF InStep
    <3> QED BY <3>3, <3>4
  <2> QED BY <1>3, <2>1, <2>2
<1>8. OncePerPage'
  BY <1>3, <1>6 DEF ExtensionInv, OncePerPage
<1>9. ApprovedHasRun'
  <2>1. ASSUME NEW u \in Tabs, NEW c \in Blocks, page'[u][c] = "approved" \/ kept[c] = "approved"
        PROVE  page[u][c] = "approved" \/ kept[c] = "approved"
    BY <1>4, <2>1
  <2> QED BY <1>2, <1>3, <2>1 DEF ExtensionInv, ApprovedHasRun
<1>10. ASSUME ~forgetful' PROVE Careful' /\ SentOnce'
  <2>1. /\ ~forgetful /\ ~forgetful' /\ PageIsKept /\ SavedFirst /\ SentOnce
        /\ \A c \in declined : kept[c] = "rejected"
    BY <1>2, <1>10 DEF ExtensionInv, Careful
  <2>2. kept[b] \notin Locked
    BY <1>2, <2>1 DEF PageIsKept, Locked
  <2>3. PageIsKept'
    <3> SUFFICES ASSUME NEW c \in Blocks
                 PROVE  kept[c] = page'[t][c] \/ (kept[c] \notin Locked /\ \E j \in Rows' : Saving(j, t, c)')
      <4>1. t \in onScreen /\ \A u \in onScreen : u = t
        BY <1>2, <2>1 DEF PageIsKept
      <4>2. \A c \in declined : page'[t][c] = "rejected"
        BY <1>1, <1>2, <1>4, <2>1 DEF PageIsKept, ExtensionTypes
      <4> QED BY <4>1, <4>2 DEF PageIsKept
    <3>1. CASE c = b
      BY <1>3, <2>2, <3>1 DEF Saving
    <3>2. CASE c # b
      BY <1>2, <1>3, <1>4, <2>1, <3>2 DEF PageIsKept, Saving
    <3> QED BY <3>1, <3>2
  <2>4. \A j \in Rows : clicks[j].block = b => ~Sent(j)
    BY <2>1, <2>2 DEF SentOnce, Locked
  <2>5. SavedFirst'
    BY <1>3, <2>1, <2>4 DEF SavedFirst, Sent
  <2>6. SentOnce'
    BY <1>2, <1>3, <2>1 DEF SentOnce, Sent
  <2> QED BY <1>2, <2>1, <2>3, <2>5, <2>6 DEF Careful
<1> QED BY <1>5, <1>7, <1>8, <1>9, <1>10 DEF ExtensionInv

(* A page that opens shows what is kept, when no other page is open.       *)
LEMMA OpenKeeps ==
  ASSUME ExtensionInv, NEW t \in Tabs, OpenTab(t)
  PROVE  ExtensionInv'
<1> USE DEF Rows
<1>1. ExtensionTypes /\ \A i \in Rows : Remembered(i) /\ InStep(i) /\ clicks[i] \in Click
  BY DEF ExtensionInv, ExtensionTypes
<1>2. PICK p \in {kept, Blank} :
        /\ t \notin onScreen /\ onScreen' = onScreen \cup {t}
        /\ page' = [page EXCEPT ![t] = p] /\ forgetful' \in BOOLEAN
        /\ ~forgetful' => ~forgetful /\ onScreen = {} /\ p = kept
  BY <1>1 DEF OpenTab, ExtensionTypes
<1> kept' = kept /\ clicks' = clicks /\ declined' = declined
  BY DEF OpenTab
<1>3. p \in [Blocks -> Cards] /\ \A b \in Blocks : p[b] = "approved" => kept[b] = "approved"
  BY <1>1, <1>2 DEF ExtensionTypes, Blank, Cards
<1>4. /\ page' \in [Tabs -> [Blocks -> Cards]] /\ page'[t] = p
      /\ \A u \in Tabs \ {t} : page'[u] = page[u]
  BY <1>1, <1>2, <1>3 DEF ExtensionTypes
<1>5. ExtensionTypes'
  BY <1>1, <1>2, <1>4 DEF ExtensionTypes
<1>6. (\A i \in Rows : Remembered(i) /\ InStep(i))'
  BY <1>1, <1>2, <1>4 DEF Remembered, InStep, Click
<1>7. OncePerPage'
  BY DEF ExtensionInv, OncePerPage
<1>8. ApprovedHasRun'
  <2> SUFFICES ASSUME NEW q \in {page'[u] : u \in Tabs} \cup {kept}, NEW b \in Blocks,
                      q[b] = "approved"
               PROVE  \E i \in Rows : clicks[i].block = b /\ clicks[i].row = "executed"
    BY DEF ApprovedHasRun
  <2>1. PICK r \in {page[u] : u \in Tabs} \cup {kept} : r[b] = "approved"
    BY <1>3, <1>4
  <2> QED BY <2>1 DEF ExtensionInv, ApprovedHasRun
<1>9. ASSUME ~forgetful' PROVE Careful' /\ SentOnce'
  <2>1. /\ ~forgetful /\ onScreen = {} /\ p = kept /\ SavedFirst /\ SentOnce
        /\ \A b \in declined : kept[b] = "rejected"
    BY <1>2, <1>9 DEF ExtensionInv, Careful
  <2>2. PageIsKept'
    BY <1>2, <1>4, <2>1 DEF PageIsKept
  <2>3. SavedFirst' /\ SentOnce'
    BY <1>9, <2>1 DEF SavedFirst, SentOnce, Sent
  <2> QED BY <2>1, <2>2, <2>3 DEF Careful
<1> QED BY <1>5, <1>6, <1>7, <1>8, <1>9 DEF ExtensionInv

(* A page that goes takes its calls with it: one that was not sent never   *)
(* is, and the others are no longer waited for.                            *)
LEMMA CloseKeeps ==
  ASSUME ExtensionInv, NEW t \in Tabs, CloseTab(t)
  PROVE  ExtensionInv'
<1> USE DEF Rows
<1>1. ExtensionTypes /\ \A i \in Rows : Remembered(i) /\ InStep(i) /\ clicks[i] \in Click
  BY DEF ExtensionInv, ExtensionTypes
<1> DEFINE next(i) ==
      IF clicks[i].tab # t THEN clicks[i]
      ELSE [clicks[i] EXCEPT !.watch = "gone",
              !.step = IF @ = "saving" THEN "unsent" ELSE @]
<1>2. /\ t \in onScreen /\ onScreen' = onScreen \ {t}
      /\ page' = [page EXCEPT ![t] = Blank]
      /\ clicks' = [i \in Rows |-> next(i)]
  BY DEF CloseTab
<1> kept' = kept /\ forgetful' = forgetful /\ declined' = declined
  BY DEF CloseTab
<1>3. ASSUME NEW i \in Rows
      PROVE  /\ next(i) \in Click
             /\ next(i).tab = clicks[i].tab /\ next(i).block = clicks[i].block
             /\ next(i).row = clicks[i].row
             /\ IF clicks[i].tab = t THEN next(i).watch = "gone" ELSE next(i).watch = clicks[i].watch
             /\ IF clicks[i].tab = t /\ clicks[i].step = "saving"
                THEN next(i).step = "unsent" ELSE next(i).step = clicks[i].step
  BY <1>1 DEF Click
<1> HIDE DEF next
<1>4. clicks' \in Seq(Click) /\ DOMAIN clicks' = Rows
  BY <1>1, <1>2, <1>3 DEF ExtensionTypes
<1>5. \A i \in Rows :
        /\ clicks'[i].tab = clicks[i].tab /\ clicks'[i].block = clicks[i].block
        /\ clicks'[i].row = clicks[i].row
        /\ IF clicks[i].tab = t THEN clicks'[i].watch = "gone" ELSE clicks'[i].watch = clicks[i].watch
        /\ IF clicks[i].tab = t /\ clicks[i].step = "saving"
           THEN clicks'[i].step = "unsent" ELSE clicks'[i].step = clicks[i].step
  BY <1>2, <1>3
<1>6. /\ page' \in [Tabs -> [Blocks -> Cards]] /\ page'[t] = Blank
      /\ \A u \in Tabs \ {t} : page'[u] = page[u]
  BY <1>1, <1>2 DEF ExtensionTypes, Blank, Cards
<1>7. ExtensionTypes'
  BY <1>1, <1>2, <1>4, <1>6 DEF ExtensionTypes
<1>8. (\A i \in Rows : Remembered(i) /\ InStep(i))'
  <2> SUFFICES ASSUME NEW i \in Rows PROVE Remembered(i)' /\ InStep(i)'
    BY <1>4
  <2>1. Remembered(i)'
    BY <1>1, <1>2, <1>5, <1>6 DEF Remembered, Click
  <2>2. InStep(i)'
    BY <1>1, <1>5 DEF InStep
  <2> QED BY <2>1, <2>2
<1>9. OncePerPage'
  BY <1>4, <1>5 DEF ExtensionInv, OncePerPage
<1>10. ApprovedHasRun'
  <2> SUFFICES ASSUME NEW p \in {page'[u] : u \in Tabs} \cup {kept}, NEW b \in Blocks,
                      p[b] = "approved"
               PROVE  \E i \in Rows : clicks'[i].block = b /\ clicks'[i].row = "executed"
    BY <1>4 DEF ApprovedHasRun
  <2>1. p \in {page[u] : u \in Tabs} \cup {kept}
    BY <1>6 DEF Blank
  <2>2. PICK i \in Rows : clicks[i].block = b /\ clicks[i].row = "executed"
    BY <2>1 DEF ExtensionInv, ApprovedHasRun
  <2> QED BY <1>5, <2>2
<1>11. ASSUME ~forgetful PROVE Careful' /\ SentOnce'
  <2>1. /\ PageIsKept /\ SavedFirst /\ SentOnce
        /\ \A b \in declined : kept[b] = "rejected"
    BY <1>11 DEF ExtensionInv, Careful
  <2>2. onScreen' = {}
    BY <1>2, <2>1 DEF PageIsKept
  <2>3. PageIsKept'
    BY <2>2 DEF PageIsKept
  <2>4. \A i \in Rows : Sent(i)' <=> Sent(i)
    BY <1>5 DEF Sent
  <2>5. \A i \in Rows : clicks'[i].step = "saving" => clicks[i].step = "saving"
    BY <1>5
  <2>6. SavedFirst'
    BY <1>4, <1>5, <2>1, <2>4, <2>5 DEF SavedFirst
  <2>7. SentOnce'
    BY <1>4, <1>5, <1>11, <2>1, <2>4 DEF SentOnce
  <2> QED BY <2>1, <2>3, <2>6, <2>7 DEF Careful
<1> QED BY <1>7, <1>8, <1>9, <1>10, <1>11 DEF ExtensionInv

(* Every step keeps the invariant.                                         *)
LEMMA NextKeeps ==
  ASSUME ExtensionInv, [ExtensionNext]_extensionVars
  PROVE  ExtensionInv'
<1>1. CASE RestartBridge
  BY <1>1, BridgeSteps
<1>2. ASSUME NEW t \in Tabs, TabSteps(t) PROVE ExtensionInv'
  <2>1. ASSUME NEW b \in Blocks, Capture(t, b) \/ ClickApprove(t, b) \/ Reject(t, b)
        PROVE  ExtensionInv'
    BY <2>1, FreeCardSteps, ClickKeeps
  <2> QED BY <1>2, <2>1, OpenKeeps, CloseKeeps, WriteSteps DEF TabSteps
<1>3. ASSUME NEW i \in Rows, ClickSteps(i) PROVE ExtensionInv'
  BY <1>3, WriteSteps, SettleSteps, BridgeSteps DEF ClickSteps
<1>4. CASE UNCHANGED extensionVars
  BY <1>4 DEF extensionVars, ExtensionInv, ExtensionTypes, Remembered, InStep, OncePerPage,
     ApprovedHasRun, Careful, PageIsKept, SavedFirst, SentOnce, Sent, Saving, Rows
<1> QED BY <1>1, <1>2, <1>3, <1>4 DEF ExtensionNext

-----------------------------------------------------------------------------
(* The cards agree with the Bridge in every reachable state: while one tab *)
(* at a time is open and the storage works nothing is sent twice, or after *)
(* it was rejected; no page approves a block twice; and what says approved *)
(* was executed.                                                           *)
THEOREM CardsAreDecidedOnce == ExtensionSpec => []EachCardIsDecidedOnce
<1>1. ExtensionInv => EachCardIsDecidedOnce
  BY DEF ExtensionInv, EachCardIsDecidedOnce, SentOnce
<1> QED BY <1>1, InvInit, NextKeeps, PTL DEF ExtensionSpec

=============================================================================
