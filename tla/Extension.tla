------------------------------ MODULE Extension ------------------------------
(* The browser extension's cards for the actions a conversation asks for,   *)
(* in src/browser-extension/src: content/controller.ts and state/store.ts.  *)
(* A tab works on a copy of the state of its own and writes all of it to    *)
(* the browser's storage at every update; approving a card stages a request *)
(* on the Bridge and then approves it, in two calls that may time out while *)
(* the Bridge still serves them.  Only actions that need the Bridge's queue *)
(* are modelled: reading ones are approved without it.  That the storage is *)
(* there when the first page opens (onInstalled) is taken for granted.      *)
EXTENDS Naturals, Sequences

CONSTANTS
  Tabs,
  Blocks,     \* action blocks of the conversation, by fingerprint
  MaxClicks   \* bound: clicks on Approve

ASSUME ExtensionAssumption == MaxClicks \in Nat

VARIABLES
  onScreen,    \* the tabs that are open
  page,        \* the state of each tab: its cards, by block
  kept,        \* chrome.storage.local: the page that was written last
  clicks,      \* per click on Approve: its tab, block, request and progress
  \* history variables: only the bound on storage failures reads them
  forgetful,   \* a tab may have been overwritten, or not written at all
  declined     \* blocks whose card was rejected

extensionVars ==
  <<onScreen, page, kept, clicks, forgetful, declined>>

(* createInitialState.                                                      *)
Blank == [b \in Blocks |-> "none"]

ExtensionInit ==
  /\ onScreen = {}
  /\ page = [t \in Tabs |-> Blank]
  /\ kept = Blank
  /\ clicks = <<>>
  /\ forgetful = FALSE
  /\ declined = {}

Rows == DOMAIN clicks

(* How far a click is: what the Bridge knows of it, and whether the tab     *)
(* still waits for an answer.                                               *)
StepTo(i, step) == clicks' = [clicks EXCEPT ![i].step = step]

(* persist: storage errors are swallowed.  Bound: the storage fails once,    *)
(* and not after two tabs were open together.                               *)
Stores(p) ==
  \/ kept' = p /\ UNCHANGED forgetful
  \/ /\ ~forgetful
     /\ forgetful' = TRUE
     /\ UNCHANGED kept

(* update: the patch goes to the tab's copy, then all of it is written.     *)
Updates(t, p) == page' = [page EXCEPT ![t] = p] /\ Stores(p)

Shows(t, b, state) == [page[t] EXCEPT ![b] = state]

------------------------------------------------------------------------------
(* Slip: a card left approving by the last page is offered again.           *)
OpenTabReoffered(t) ==
  /\ t \notin onScreen
  /\ onScreen' = onScreen \cup {t}
  /\ forgetful' = (forgetful \/ onScreen # {})
  /\ page' = [page EXCEPT ![t] =
       [b \in Blocks |-> IF kept[b] = "approving" THEN "pending" ELSE kept[b]]]
  /\ UNCHANGED <<kept, clicks, declined>>

(* bootstrap: hydrate, which starts from nothing when the read fails.       *)
OpenTab(t) ==
  /\ t \notin onScreen
  /\ onScreen' = onScreen \cup {t}
  /\ \/ /\ page' = [page EXCEPT ![t] = kept]
        /\ forgetful' = (forgetful \/ onScreen # {})
     \/ /\ ~forgetful
        /\ forgetful' = TRUE
        /\ page' = [page EXCEPT ![t] = Blank]
  /\ UNCHANGED <<kept, clicks, declined>>

(* The tab is closed or reloaded: its calls are given up, and one that had  *)
(* not been sent never is.                                                  *)
CloseTab(t) ==
  /\ t \in onScreen
  /\ onScreen' = onScreen \ {t}
  /\ page' = [page EXCEPT ![t] = Blank]
  /\ clicks' = [i \in Rows |->
       IF clicks[i].tab # t THEN clicks[i]
       ELSE [clicks[i] EXCEPT !.watch = "gone",
               !.step = IF @ = "saving" THEN "unsent" ELSE @]]
  /\ UNCHANGED <<kept, forgetful, declined>>

(* handleParseResults: one card for each fingerprint.                       *)
Capture(t, b) ==
  /\ t \in onScreen
  /\ page[t][b] = "none"
  /\ Updates(t, Shows(t, b, "pending"))
  /\ UNCHANGED <<onScreen, clicks, declined>>

(* refreshApprovals, every ten seconds: the tab's state is written, with    *)
(* the recovered requests it lists now or after a call that failed.         *)
Refresh(t) ==
  /\ t \in onScreen
  /\ Stores(page[t])
  /\ UNCHANGED <<onScreen, page, clicks, declined>>

(* Slip: the request is sent before the card is known to be approving.      *)
ClickApproveAtOnce(t, b) ==
  /\ t \in onScreen
  /\ page[t][b] = "pending"
  /\ Len(clicks) < MaxClicks
  /\ page' = [page EXCEPT ![t] = Shows(t, b, "approving")]
  /\ clicks' = Append(clicks,
       [tab |-> t, block |-> b, step |-> "staging", watch |-> "waiting", row |-> "none"])
  /\ UNCHANGED <<onScreen, kept, forgetful, declined>>

(* approve, up to the first await: the card is approving in this tab.       *)
ClickApprove(t, b) ==
  /\ t \in onScreen
  /\ page[t][b] = "pending"
  /\ Len(clicks) < MaxClicks
  /\ page' = [page EXCEPT ![t] = Shows(t, b, "approving")]
  /\ clicks' = Append(clicks,
       [tab |-> t, block |-> b, step |-> "saving", watch |-> "waiting", row |-> "none"])
  /\ UNCHANGED <<onScreen, kept, forgetful, declined>>

(* The write has ended: the stage call is sent.                             *)
SendStage(i) ==
  /\ clicks[i].step = "saving"
  /\ StepTo(i, "staging")
  /\ Stores(page[clicks[i].tab])
  /\ UNCHANGED <<onScreen, page, declined>>

(* reject: nothing is sent.                                                 *)
Reject(t, b) ==
  /\ t \in onScreen
  /\ page[t][b] = "pending"
  /\ Updates(t, Shows(t, b, "rejected"))
  /\ declined' = declined \cup {b}
  /\ UNCHANGED <<onScreen, clicks>>

------------------------------------------------------------------------------
(* The Bridge, as far as the extension can tell.  A request is over when it *)
(* failed, expired, or was approved by a Bridge that stopped before it ran. *)

BridgeOnly ==
  UNCHANGED <<onScreen, page, kept, forgetful, declined>>

MoveRow(i, row) == clicks' = [clicks EXCEPT ![i].row = row]

(* /file/write and the like: the request is queued, or refused.             *)
QueueRow(i) ==
  /\ clicks[i].step = "staging"
  /\ \/ clicks' = [clicks EXCEPT ![i].step = "staged", ![i].row = "pending"]
     \/ StepTo(i, "refused")
  /\ BridgeOnly

Approvable(i) == clicks[i].row \in {"pending", "reconfirmed"}

(* /permission/approve, as sent by approve.                                 *)
ServeApproval(i) ==
  /\ clicks[i].step = "approving"
  /\ \/ /\ Approvable(i)
        /\ clicks' = [clicks EXCEPT ![i].row = "executed", ![i].step = "done"]
     \/ /\ Approvable(i)
        /\ clicks' = [clicks EXCEPT ![i].row = "over", ![i].step = "refused"]
     \/ /\ ~Approvable(i)
        /\ StepTo(i, "refused")
  /\ BridgeOnly

(* reconfirm and approveRecovered, of a request that a tab lists: a list    *)
(* that is out of date makes calls that the Bridge refuses.                 *)
ServeRecovered(i) ==
  /\ \/ clicks[i].row = "recovered" /\ MoveRow(i, "reconfirmed")
     \/ /\ clicks[i].row = "reconfirmed"
        /\ \E row \in {"executed", "over"} : MoveRow(i, row)
  /\ BridgeOnly

(* expire_due: the request waited too long.                                 *)
Expire(i) ==
  /\ clicks[i].row \in {"pending", "recovered", "reconfirmed"}
  /\ MoveRow(i, "over")
  /\ BridgeOnly

(* The Bridge stops and starts again: calls are lost, pending requests have *)
(* to be reconfirmed.                                                       *)
RestartBridge ==
  /\ \E i \in Rows : clicks[i].row = "pending" \/ clicks[i].step \in {"staging", "approving"}
  /\ clicks' = [i \in Rows |->
       [clicks[i] EXCEPT
          !.row = IF @ = "pending" THEN "recovered" ELSE @,
          !.step = IF @ \in {"staging", "approving"} THEN "refused" ELSE @]]
  /\ BridgeOnly

------------------------------------------------------------------------------
(* The tab hears of its calls.                                              *)

(* approve, step 2: the request's id is written, then the approval is sent. *)
SendApproval(i) ==
  /\ clicks[i].watch = "waiting" /\ clicks[i].step = "staged"
  /\ StepTo(i, "approving")
  /\ Stores(page[clicks[i].tab])
  /\ UNCHANGED <<onScreen, page, declined>>

Settles(i, state) ==
  /\ clicks[i].watch = "waiting"
  /\ clicks' = [clicks EXCEPT ![i].watch = "settled"]
  /\ Updates(clicks[i].tab, Shows(clicks[i].tab, clicks[i].block, state))
  /\ UNCHANGED <<onScreen, declined>>

(* Slip: the card is approved as soon as the Bridge has staged the request. *)
MarkApprovedStaged(i) == clicks[i].step \in {"staged", "done"} /\ Settles(i, "approved")

(* approve: the answer says that the action was run.                        *)
MarkApproved(i) == clicks[i].step = "done" /\ Settles(i, "approved")

(* Slip: a card whose call timed out can be approved again.                 *)
FailActionRetried(i) == clicks[i].step # "saving" /\ Settles(i, "pending")

(* failAction: the Bridge refused, or there was no answer in eight seconds, *)
(* whatever becomes of the call.                                            *)
FailAction(i) == clicks[i].step # "saving" /\ Settles(i, "failed")

TabSteps(t) ==
  \/ OpenTab(t) \/ CloseTab(t) \/ Refresh(t)
  \/ \E b \in Blocks : Capture(t, b) \/ ClickApprove(t, b) \/ Reject(t, b)

ClickSteps(i) ==
  \/ SendStage(i) \/ SendApproval(i) \/ MarkApproved(i) \/ FailAction(i)
  \/ QueueRow(i) \/ ServeApproval(i) \/ ServeRecovered(i) \/ Expire(i)

ExtensionNext ==
  \/ RestartBridge
  \/ \E t \in Tabs : TabSteps(t)
  \/ \E i \in Rows : ClickSteps(i)

ExtensionSpec == ExtensionInit /\ [][ExtensionNext]_extensionVars

------------------------------------------------------------------------------
Sent(i) == clicks[i].step \notin {"saving", "unsent"}

(* While one tab at a time is open and the storage works, a block is sent   *)
(* to the Bridge at most once and never after it was rejected, whichever    *)
(* page is reloaded, call times out or Bridge restarts in between: what was *)
(* sent is always kept as a card that cannot be clicked any more.           *)
SentOnce ==
  forgetful \/ \A i \in Rows : Sent(i) =>
    /\ kept[clicks[i].block] \in {"approving", "approved", "failed"}
    /\ clicks[i].block \notin declined
    /\ \A j \in Rows \ {i} : Sent(j) => clicks[j].block # clicks[i].block

(* One page approves a block once, even when other tabs or a failing        *)
(* storage let the next page forget it.                                     *)
OncePerPage ==
  \A i, j \in Rows :
    (i # j /\ clicks[i].watch # "gone" /\ clicks[j].watch # "gone"
           /\ clicks[i].tab = clicks[j].tab) => clicks[i].block # clicks[j].block

(* A card that says approved, on any page or kept, is of a block that the   *)
(* Bridge has run.                                                          *)
ApprovedHasRun ==
  \A p \in {page[t] : t \in Tabs} \cup {kept} : \A b \in Blocks :
    p[b] = "approved" => \E i \in Rows : clicks[i].block = b /\ clicks[i].row = "executed"

(* The cards of the extension agree with the Bridge: what approve, reject,  *)
(* failAction and hydrate leave behind lets nobody decide an action twice.  *)
EachCardIsDecidedOnce == SentOnce /\ OncePerPage /\ ApprovedHasRun
=============================================================================
