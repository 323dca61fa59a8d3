--------------------------- MODULE AnalysisProofs ---------------------------
(***************************************************************************)
(* Theorems about what the bridge has learned and what it answers: the     *)
(* list of knowledge improvements (Improvements), the streams of answers   *)
(* that callers wait for (Chat), the verdicts on proposals (Governance),   *)
(* what the patch engine makes of a diff (Patch), and how claims are       *)
(* measured (Validation).                                                  *)
(***************************************************************************)
EXTENDS Improvements, Chat, Governance, Patch, Validation, FiniteSetTheorems,
        SequenceTheorems, WellFoundedInduction, TLAPS

-----------------------------------------------------------------------------
(* The knowledge improvements.                                             *)

Steps == {"absent", "pending", "approved", "rejected", "saved", "executed", "stuck"}
RowsRead == [at: {"rows"}, rows: [Proposals -> Nat], asked: SUBSET Proposals]
Shown == [at: {"shown"}, asked: SUBSET Proposals, shows: [Proposals -> Nat]]

ImprovementTypes ==
  /\ queued \in [Proposals -> Steps] /\ records \in [Proposals -> Nat]
  /\ reading \in [Readers -> {Unread} \cup RowsRead \cup Shown]
  /\ outages \in Nat /\ blurred \in [Readers -> SUBSET Proposals]

(* How often a proposal is stored, by where its request is: a crash leaves *)
(* open which.                                                             *)
StoredAs(p) ==
  /\ queued[p] \in {"absent", "pending", "approved", "rejected"} => records[p] = 0
  /\ queued[p] \in {"saved", "executed"} => records[p] = 1
  /\ queued[p] = "stuck" => records[p] \in {0, 1}

(* A reader that has the records of a proposal nobody was approving has    *)
(* them as they still are, and the queue has the rest.                     *)
ReadAs(r, p) ==
  /\ queued[p] \in {"pending", "rejected", "executed", "stuck"}
  /\ reading[r].rows[p] = records[p]

ShownAs(r, p) ==
  reading[r].shows[p] = 1 \/ (queued[p] = "stuck" /\ records[p] = 1 /\ reading[r].shows[p] = 2)

ImprovementInv ==
  /\ ImprovementTypes
  /\ \A p \in Proposals : StoredAs(p)
  /\ \A r \in Readers : reading[r].at = "rows" =>
       \A p \in reading[r].asked \ blurred[r] : ReadAs(r, p)
  /\ \A r \in Readers : reading[r].at = "shown" =>
       \A p \in reading[r].asked \ blurred[r] : ShownAs(r, p)

(* What a reader's record is made of.                                      *)
LEMMA ReadingHas ==
  ASSUME ImprovementTypes, NEW r \in Readers
  PROVE  /\ reading[r].at \in {"start", "rows", "shown"}
         /\ reading[r].at = "rows" => reading[r] \in RowsRead
         /\ reading[r].at = "shown" => reading[r] \in Shown
BY DEF ImprovementTypes, Unread, RowsRead, Shown

(* At first nothing is stored and nobody reads.                            *)
LEMMA ImprovementInit0 == ImprovementInit => ImprovementInv
BY DEF ImprovementInit, ImprovementInv, ImprovementTypes, Steps, Unread, StoredAs

(* A proposal that moves on while its records change as its new place      *)
(* needs keeps every reader's picture.                                     *)
LEMMA MovesKeep ==
  ASSUME ImprovementInv, NEW p \in Proposals, NEW from \in Steps, NEW to \in Steps,
         Moves(p, from, to), records' \in [Proposals -> Nat],
         \A q \in Proposals \ {p} : records'[q] = records[q], StoredAs(p)',
         from \in {"absent", "pending", "approved", "saved"},
         from = "pending" => (to = "approved" \/ (to = "rejected" /\ records' = records))
  PROVE  ImprovementInv'
<1> USE DEF Moves
<1>1. ImprovementTypes'
  BY DEF ImprovementInv, ImprovementTypes, Midway
<1>2. \A q \in Proposals \ {p} : queued'[q] = queued[q]
  BY DEF ImprovementInv, ImprovementTypes
<1>3. queued'[p] = to
  BY DEF ImprovementInv, ImprovementTypes
<1>4. \A q \in Proposals : StoredAs(q)'
  BY <1>2 DEF ImprovementInv, StoredAs
<1>5. \A r \in Readers : blurred[r] \subseteq blurred'[r]
  BY DEF ImprovementInv, ImprovementTypes
<1>6. ASSUME NEW r \in Readers, reading'[r].at = "rows", NEW q \in reading'[r].asked \ blurred'[r]
      PROVE  ReadAs(r, q)'
  <2>1. reading[r].at = "rows" /\ q \in reading[r].asked \ blurred[r] /\ q \in Proposals
    BY <1>5, <1>6, ReadingHas DEF ImprovementInv, RowsRead
  <2>2. ReadAs(r, q)
    BY <2>1 DEF ImprovementInv
  <2>3. CASE q # p
    BY <1>2, <2>1, <2>2, <2>3 DEF ReadAs
  <2>4. CASE q = p
    <3>1. from = "pending"
      BY <2>2, <2>4 DEF ReadAs
    <3>2. to # "approved"
      BY <2>1, <2>4, <1>6 DEF ImprovementInv, ImprovementTypes, Midway
    <3> QED BY <1>3, <2>2, <2>4, <3>1, <3>2 DEF ReadAs
  <2> QED BY <2>3, <2>4
<1>7. ASSUME NEW r \in Readers, reading'[r].at = "shown", NEW q \in reading'[r].asked \ blurred'[r]
      PROVE  ShownAs(r, q)'
  <2>1. reading[r].at = "shown" /\ q \in reading[r].asked \ blurred[r] /\ q \in Proposals
    BY <1>5, <1>7, ReadingHas DEF ImprovementInv, Shown
  <2>2. ShownAs(r, q)
    BY <2>1 DEF ImprovementInv
  <2>3. CASE q # p
    BY <1>2, <2>1, <2>2, <2>3 DEF ShownAs
  <2>4. CASE q = p
    BY <2>2, <2>4 DEF ShownAs
  <2> QED BY <2>3, <2>4
<1> QED BY <1>1, <1>4, <1>6, <1>7 DEF ImprovementInv

(* Every step keeps the invariant.                                         *)
LEMMA ImprovementStep == ImprovementInv /\ [ImprovementNext]_improvementVars => ImprovementInv'
<1> SUFFICES ASSUME ImprovementInv, [ImprovementNext]_improvementVars PROVE ImprovementInv'
  OBVIOUS
<1>0. /\ queued \in [Proposals -> Steps] /\ records \in [Proposals -> Nat]
      /\ ImprovementTypes
  BY DEF ImprovementInv, ImprovementTypes
<1>1. ASSUME NEW p \in Proposals, ProposeImprovement(p) \/ Approve(p) \/ Reject(p) \/ MarkExecuted(p)
      PROVE  ImprovementInv'
  <2>1. records' = records /\ StoredAs(p)
    BY <1>1 DEF ProposeImprovement, Approve, Reject, MarkExecuted, ImprovementInv
  <2>2. CASE ProposeImprovement(p)
    <3>1. Moves(p, "absent", "pending")
      BY <2>2 DEF ProposeImprovement
    <3>2. StoredAs(p)'
      BY <1>0, <2>1, <3>1 DEF Moves, StoredAs
    <3> QED BY <1>0, <2>1, <3>1, <3>2, MovesKeep DEF Steps
  <2>3. CASE Approve(p)
    <3>1. Moves(p, "pending", "approved")
      BY <2>3 DEF Approve
    <3>2. StoredAs(p)'
      BY <1>0, <2>1, <3>1 DEF Moves, StoredAs
    <3> QED BY <1>0, <2>1, <3>1, <3>2, MovesKeep DEF Steps
  <2>4. CASE Reject(p)
    <3>1. Moves(p, "pending", "rejected")
      BY <2>4 DEF Reject
    <3>2. StoredAs(p)'
      BY <1>0, <2>1, <3>1 DEF Moves, StoredAs
    <3> QED BY <1>0, <2>1, <3>1, <3>2, MovesKeep DEF Steps
  <2>5. CASE MarkExecuted(p)
    <3>1. Moves(p, "saved", "executed")
      BY <2>5 DEF MarkExecuted
    <3>2. StoredAs(p)'
      BY <1>0, <2>1, <3>1 DEF Moves, StoredAs
    <3> QED BY <1>0, <2>1, <3>1, <3>2, MovesKeep DEF Steps
  <2> QED BY <1>1, <2>2, <2>3, <2>4, <2>5
<1>2. ASSUME NEW p \in Proposals, SaveImprovement(p)
      PROVE  ImprovementInv'
  <2>1. StoredAs(p) /\ Moves(p, "approved", "saved") /\ records' = [records EXCEPT ![p] = @ + 1]
    BY <1>2 DEF SaveImprovement, ImprovementInv
  <2>2. StoredAs(p)' /\ records' \in [Proposals -> Nat]
    BY <1>0, <2>1 DEF Moves, StoredAs
  <2>3. \A q \in Proposals \ {p} : records'[q] = records[q]
    BY <1>0, <2>1
  <2> QED BY <2>1, <2>2, <2>3, MovesKeep DEF Steps
<1>3. CASE Outage
  <2> USE <1>3 DEF Outage
  <2>1. /\ \A q \in Proposals : queued'[q] = IF q \in Underway THEN "stuck" ELSE queued[q]
        /\ \A r \in Readers : reading'[r] = IF Midway(r) THEN Unread ELSE reading[r]
    OBVIOUS
  <2>2. ImprovementTypes'
    BY <1>0 DEF ImprovementTypes, Steps
  <2>3. \A q \in Proposals : StoredAs(q)'
    BY <1>0, <2>1 DEF ImprovementInv, StoredAs, Underway
  <2>4. \A r \in Readers : reading'[r].at # "rows"
    BY <2>1 DEF Midway, Unread
  <2>5. ASSUME NEW r \in Readers, reading'[r].at = "shown", NEW q \in reading'[r].asked \ blurred'[r]
        PROVE  ShownAs(r, q)'
    <3>1. reading'[r] = reading[r]
      BY <2>1, <2>5 DEF Unread
    <3>2. q \in Proposals /\ ShownAs(r, q)
      BY <1>0, <2>5, <3>1, ReadingHas DEF ImprovementInv, Shown
    <3> QED BY <2>1, <3>1, <3>2 DEF ShownAs, Underway
  <2> QED BY <2>2, <2>3, <2>4, <2>5 DEF ImprovementInv
<1>4. ASSUME NEW r \in Readers, ReadRecords(r)
      PROVE  ImprovementInv'
  <2> USE <1>4 DEF ReadRecords
  <2>1. ImprovementTypes'
    <3>1. {p \in Proposals : queued[p] # "absent"} \in SUBSET Proposals /\ Underway \in SUBSET Proposals
      BY DEF Underway
    <3>2. [at |-> "rows", rows |-> records, asked |-> {p \in Proposals : queued[p] # "absent"}] \in RowsRead
      BY <1>0, <3>1 DEF RowsRead
    <3> QED BY <1>0, <3>1, <3>2 DEF ImprovementTypes
  <2>2. \A q \in Proposals : StoredAs(q)'
    BY DEF ImprovementInv, StoredAs
  <2>3. \A s \in Readers : s # r => reading'[s] = reading[s] /\ blurred'[s] = blurred[s]
    BY <1>0 DEF ImprovementTypes
  <2>4. /\ reading'[r] = [at |-> "rows", rows |-> records, asked |-> {p \in Proposals : queued[p] # "absent"}]
        /\ blurred'[r] = Underway
    BY <1>0 DEF ImprovementTypes
  <2>5. \A q \in reading'[r].asked \ blurred'[r] : ReadAs(r, q)'
    BY <1>0, <2>4 DEF ReadAs, Underway, Steps
  <2>6. \A s \in Readers : reading'[s].at = "rows" => \A q \in reading'[s].asked \ blurred'[s] : ReadAs(s, q)'
    BY <2>3, <2>5 DEF ImprovementInv, ReadAs
  <2>7. \A s \in Readers : reading'[s].at = "shown" => \A q \in reading'[s].asked \ blurred'[s] : ShownAs(s, q)'
    BY <2>3, <2>4 DEF ImprovementInv, ShownAs
  <2> QED BY <2>1, <2>2, <2>6, <2>7 DEF ImprovementInv
<1>5. ASSUME NEW r \in Readers, ReadQueue(r)
      PROVE  ImprovementInv'
  <2> USE <1>5 DEF ReadQueue
  <2> DEFINE List == [p \in Proposals |->
                        reading[r].rows[p] + IF queued[p] \in {"absent", "executed"} THEN 0 ELSE 1]
  <2>1. reading[r].at = "rows" /\ reading[r] \in RowsRead
    BY <1>0, ReadingHas DEF Midway
  <2>2. List \in [Proposals -> Nat]
    BY <2>1 DEF RowsRead
  <2>3. ImprovementTypes'
    <3>1. [at |-> "shown", asked |-> reading[r].asked, shows |-> List] \in Shown
      BY <2>1, <2>2 DEF Shown, RowsRead
    <3> QED BY <1>0, <3>1 DEF ImprovementTypes
  <2>4. \A q \in Proposals : StoredAs(q)'
    BY DEF ImprovementInv, StoredAs
  <2>5. \A s \in Readers : s # r => reading'[s] = reading[s] /\ blurred'[s] = blurred[s]
    BY <1>0 DEF ImprovementTypes
  <2>6. reading'[r] = [at |-> "shown", asked |-> reading[r].asked, shows |-> List]
    BY <1>0 DEF ImprovementTypes
  <2>7. ASSUME NEW q \in reading[r].asked \ blurred[r]
        PROVE  ShownAs(r, q)'
    <3>1. ReadAs(r, q) /\ q \in Proposals /\ StoredAs(q)
      BY <2>1 DEF ImprovementInv, RowsRead
    <3>2. reading'[r].shows[q] = records[q] + IF queued[q] \in {"absent", "executed"} THEN 0 ELSE 1
      BY <2>6, <3>1 DEF ReadAs
    <3> HIDE DEF List
    <3> QED BY <1>0, <3>1, <3>2 DEF ReadAs, StoredAs, ShownAs
  <2>8. \A s \in Readers : reading'[s].at = "rows" => \A q \in reading'[s].asked \ blurred'[s] : ReadAs(s, q)'
    BY <2>5, <2>6 DEF ImprovementInv, ReadAs
  <2>9. \A s \in Readers : reading'[s].at = "shown" => \A q \in reading'[s].asked \ blurred'[s] : ShownAs(s, q)'
    <3> HIDE DEF List
    <3>1. \A s \in Readers \ {r} : reading'[s].at = "shown" =>
            \A q \in reading'[s].asked \ blurred'[s] : ShownAs(s, q)'
      BY <2>5 DEF ImprovementInv, ShownAs
    <3>2. reading'[r].asked \ blurred'[r] = reading[r].asked \ blurred[r]
      BY <2>6
    <3> QED BY <2>7, <3>1, <3>2
  <2> QED BY <2>3, <2>4, <2>8, <2>9 DEF ImprovementInv
<1>6. CASE UNCHANGED improvementVars
  BY <1>6 DEF improvementVars, ImprovementInv, ImprovementTypes, StoredAs, ReadAs, ShownAs
<1> QED BY <1>1, <1>2, <1>3, <1>4, <1>5, <1>6 DEF ImprovementNext

(* What counts as learned was approved by a human, and the list shows each *)
(* proposal once, for any number of proposals, readers and crashes.        *)
THEOREM LearnedWasApproved == ImprovementSpec => []LearnedIsApproved
<1>1. ImprovementInv => LearnedIsApproved
  <2> SUFFICES ASSUME ImprovementInv PROVE LearnedIsApproved
    OBVIOUS
  <2>1. ListedOnce
    BY DEF ListedOnce, ImprovementInv, ShownAs
  <2>2. KnownWasApproved
    BY DEF KnownWasApproved, ImprovementInv, ImprovementTypes, StoredAs, Steps
  <2> QED BY <2>1, <2>2 DEF LearnedIsApproved
<1> QED BY <1>1, ImprovementInit0, ImprovementStep, PTL DEF ImprovementSpec
-----------------------------------------------------------------------------
(* Answers and streams.                                                    *)

Marks == {"200", "delta", "tool_call", "done", "error", "broken", "refused", "reply"}
AskOf == [face: Faces, way: {"chat", "stream"}, adapter: Adapters, known: BOOLEAN, ready: BOOLEAN]

ChatTypes ==
  /\ ask \in AskOf /\ (ask.adapter = "local" => ask.ready)
  /\ going \in {"asked", "first", "pulling", "ended"}
  /\ sent \in Seq(Parts) /\ client \in Seq(Marks)

(* What is pulled belongs to a stream, and the assistant's response, once  *)
(* it has begun, has an event in it that is not an error.                  *)
HasBegun ==
  /\ going \in {"first", "pulling"} => ask.way = "stream"
  /\ going = "asked" => sent = << >> /\ client = << >>
  /\ going = "first" => client = << >> /\ ask.face = "assistant"
  /\ going = "pulling" => client # << >>
  /\ ask.face = "assistant" /\ going = "pulling" => Len(client) > 1 /\ client[2] # "error"

ChatInv == ChatTypes /\ HasBegun /\ FailsBeforeItBegins /\ StreamIsWhole

(* What Count counts when a sequence grows by one.                         *)
LEMMA CountNone == ASSUME NEW K PROVE Count(<< >>, K) = 0
<1>1. {i \in DOMAIN << >> : << >>[i] \in K} = {}
  OBVIOUS
<1> QED BY <1>1, FS_EmptySet DEF Count

(* How many elements of a sequence are of a kind is a number.              *)
LEMMA CountIs ==
  ASSUME NEW S, NEW s \in Seq(S), NEW K
  PROVE  IsFiniteSet({i \in DOMAIN s : s[i] \in K}) /\ Count(s, K) \in Nat
<1>1. IsFiniteSet(1..Len(s))
  BY FS_Interval
<1>2. {i \in DOMAIN s : s[i] \in K} \subseteq 1..Len(s)
  OBVIOUS
<1>3. IsFiniteSet({i \in DOMAIN s : s[i] \in K})
  BY <1>1, <1>2, FS_Subset
<1> QED BY <1>3, FS_CardinalityType DEF Count

(* An element more counts if it is of the kind.                            *)
LEMMA CountMore ==
  ASSUME NEW S, NEW s \in Seq(S), NEW e \in S, NEW K
  PROVE  Count(Append(s, e), K) = Count(s, K) + IF e \in K THEN 1 ELSE 0
<1> DEFINE Old == {i \in DOMAIN s : s[i] \in K}
<1> DEFINE New == {i \in DOMAIN Append(s, e) : Append(s, e)[i] \in K}
<1>1. /\ DOMAIN Append(s, e) = 1..(Len(s) + 1) /\ DOMAIN s = 1..Len(s) /\ Len(s) \in Nat
      /\ \A i \in 1..Len(s) : Append(s, e)[i] = s[i]
      /\ Append(s, e)[Len(s) + 1] = e
  OBVIOUS
<1>2. IsFiniteSet(Old) /\ Cardinality(Old) \in Nat
  BY CountIs DEF Count
<1>3. CASE e \in K
  <2>1. New = Old \cup {Len(s) + 1}
    BY <1>1, <1>3
  <2>2. Len(s) + 1 \notin Old
    BY <1>1
  <2>3. Cardinality(New) = Cardinality(Old) + 1
    BY <1>2, <2>1, <2>2, FS_AddElement
  <2> QED BY <1>3, <2>3 DEF Count
<1>4. CASE e \notin K
  <2>1. New = Old
    BY <1>1, <1>4
  <2>2. Cardinality(New) = Cardinality(Old)
    BY <2>1, Zenon
  <2>3. Cardinality(New) = Cardinality(Old) + 0
    <3> HIDE DEF Old, New
    <3> QED BY <1>2, <2>2
  <2> QED BY <1>4, <2>3 DEF Count
<1> QED BY <1>3, <1>4

(* An event more, and how many there are of each.                          *)
LEMMA MarksGrow ==
  ASSUME NEW s \in Seq(Marks), NEW e \in Marks
  PROVE  Append(s, e) \in Seq(Marks)
BY AppendProperties

(* Nothing is told before the request is taken up.                         *)
LEMMA ChatInit0 == ChatInit => ChatInv
<1> SUFFICES ASSUME ChatInit PROVE ChatInv
  OBVIOUS
<1>1. ChatTypes /\ HasBegun /\ FailsBeforeItBegins
  BY DEF ChatInit, ChatTypes, AskOf, HasBegun, FailsBeforeItBegins
<1>2. StreamIsWhole
  BY CountNone DEF ChatInit, StreamIsWhole
<1> QED BY <1>1, <1>2 DEF ChatInv

(* An event in the stream leaves what came before it.                      *)
LEMMA Following ==
  ASSUME ChatInv, going \in {"first", "pulling"}, NEW e \in Marks,
         client' = client \o Opening \o <<e>>, e # "error"
  PROVE  /\ client' \in Seq(Marks) /\ Len(client') > 1
         /\ ask.face = "assistant" => client'[2] # "error"
         /\ \A K : "200" \notin K => Count(client', K) = Count(client, K) + IF e \in K THEN 1 ELSE 0
<1>1. client \in Seq(Marks)
  BY DEF ChatInv, ChatTypes
<1>2. CASE going = "first"
  <2>1. client = << >> /\ Opening = <<"200">>
    BY <1>2 DEF ChatInv, HasBegun, Opening
  <2>2. client' = Append(Append(client, "200"), e) /\ "200" \in Marks
    <3>1. client \o Opening = <<"200">> /\ Append(client, "200") = <<"200">>
      BY <2>1
    <3>2. client' = <<"200">> \o <<e>>
      BY <3>1
    <3>3. <<"200">> \in Seq(Marks) /\ "200" \in Marks
      BY DEF Marks
    <3>4. Append(<<"200">>, e) = <<"200">> \o <<e>>
      BY <3>3, AppendIsConcat
    <3> QED BY <3>1, <3>2, <3>3, <3>4
  <2>3. Append(client, "200") \in Seq(Marks) /\ client' \in Seq(Marks)
    BY <1>1, <2>2, MarksGrow
  <2>4. Len(client') = 2 /\ client'[2] = e
    BY <2>1, <2>2
  <2>5. ASSUME NEW K, "200" \notin K
        PROVE  Count(client', K) = Count(client, K) + IF e \in K THEN 1 ELSE 0
    <3>1. Count(client', K) = Count(Append(client, "200"), K) + IF e \in K THEN 1 ELSE 0
      BY <2>2, <2>3, CountMore
    <3>2. Count(Append(client, "200"), K) = Count(client, K) + 0
      BY <1>1, <2>2, <2>5, CountMore
    <3>3. Count(client, K) \in Nat
      BY <1>1, CountIs
    <3> QED BY <3>1, <3>2, <3>3
  <2> QED BY <2>3, <2>4, <2>5
<1>3. CASE going = "pulling"
  <2>1. client' = Append(client, e)
    <3>1. Opening = << >>
      BY <1>3 DEF Opening
    <3>2. client \o Opening = client
      BY <1>1, <3>1, ConcatEmptySeq
    <3>3. client' = client \o <<e>>
      BY <3>2
    <3> QED BY <1>1, <3>3, AppendIsConcat
  <2>2. client' \in Seq(Marks)
    BY <1>1, <2>1, MarksGrow
  <2>3. \A K : Count(client', K) = Count(client, K) + IF e \in K THEN 1 ELSE 0
    BY <1>1, <2>1, CountMore
  <2>4. Len(client') > 1 /\ (ask.face = "assistant" => client'[2] # "error")
    <3>1. Len(client') = Len(client) + 1 /\ Len(client) > 0 /\ Len(client) \in Nat
      BY <1>1, <1>3, <2>1 DEF ChatInv, HasBegun
    <3>2. ASSUME ask.face = "assistant"
          PROVE  client'[2] # "error"
      <4>1. Len(client) > 1 /\ client[2] # "error"
        BY <1>3, <3>2 DEF ChatInv, HasBegun
      <4> QED BY <1>1, <2>1, <4>1
    <3> QED BY <3>1, <3>2
  <2> QED BY <2>2, <2>3, <2>4
<1> QED BY <1>2, <1>3
(* Every step of a request keeps what its caller was told.                 *)
LEMMA ChatStep == ChatInv /\ [ChatNext]_chatVars => ChatInv'
<1> SUFFICES ASSUME ChatInv, [ChatNext]_chatVars PROVE ChatInv'
  OBVIOUS
<1>0. ask \in AskOf /\ sent \in Seq(Parts) /\ client \in Seq(Marks)
  BY DEF ChatInv, ChatTypes
<1>1. CASE Answer
  <2> USE <1>1 DEF Answer
  <2>1. sent' \in Seq(Parts) /\ client' \in Seq({"tool_call", "reply", "refused"})
    <3>1. CASE Resolves /\ \E n \in 0..MaxParts : \E parts \in [1..n -> Parts] :
                 /\ sent' = parts
                 /\ client' = [i \in 1..ChatCalls(ask.adapter, parts) |-> "tool_call"] \o <<"reply">>
      <4>1. PICK n \in 0..MaxParts : \E parts \in [1..n -> Parts] :
                 /\ sent' = parts
                 /\ client' = [i \in 1..ChatCalls(ask.adapter, parts) |-> "tool_call"] \o <<"reply">>
        BY <3>1
      <4>7. PICK parts \in [1..n -> Parts] :
             /\ sent' = parts
             /\ client' = [i \in 1..ChatCalls(ask.adapter, parts) |-> "tool_call"] \o <<"reply">>
        BY <4>1
      <4>2. parts \in Seq(Parts) /\ n \in Nat
        BY ChatAssumption
      <4>3. ChatCalls(ask.adapter, parts) \in Nat
        BY <4>2, CountIs DEF ChatCalls
      <4>4. PICK m \in Nat : m = ChatCalls(ask.adapter, parts)
        BY <4>3
      <4>5. [i \in 1..m |-> "tool_call"] \in Seq({"tool_call", "reply", "refused"})
        BY <4>4
      <4>6. <<"reply">> \in Seq({"tool_call", "reply", "refused"})
        OBVIOUS
      <4> QED BY <4>7, <4>2, <4>4, <4>5, <4>6, ConcatProperties
    <3>2. CASE client' = <<"refused">> /\ UNCHANGED sent
      BY <1>0, <3>2
    <3> QED BY <3>1, <3>2
  <2>2. ChatTypes' /\ HasBegun'
    <3>1. client' \in Seq(Marks)
      BY <2>1 DEF Marks
    <3> QED BY <2>1, <3>1 DEF ChatInv, ChatTypes, HasBegun
  <2>3. FailsBeforeItBegins'
    BY <2>1 DEF FailsBeforeItBegins
  <2>4. StreamIsWhole'
    BY DEF StreamIsWhole
  <2> QED BY <2>2, <2>3, <2>4 DEF ChatInv
<1>2. CASE Begin
  <2> USE <1>2 DEF Begin
  <2>1. sent = << >> /\ client = << >>
    BY DEF ChatInv, HasBegun
  <2>2. client' = IF ask.face = "assistant" THEN << >> ELSE <<"200">>
    BY <2>1
  <2>3. client' \in Seq(Marks) /\ Len(client') < 2
    <3>1. CASE client' = << >>
      BY <3>1
    <3>2. CASE client' = <<"200">>
      BY <3>2 DEF Marks
    <3> QED BY <2>2, <3>1, <3>2
  <2>6. FailsBeforeItBegins'
    BY <2>3 DEF FailsBeforeItBegins
  <2>7. ChatTypes' /\ HasBegun'
    BY <2>2, <2>3 DEF ChatInv, ChatTypes, HasBegun
  <2>4. \A K : "200" \notin K => Count(client', K) = 0
    <3>1. Append(<< >>, "200") = <<"200">> /\ "200" \in Marks /\ << >> \in Seq(Marks)
      BY DEF Marks
    <3>2. ASSUME NEW K, "200" \notin K PROVE Count(<<"200">>, K) = 0
      <4>1. Count(Append(<< >>, "200"), K) = Count(<< >>, K) + IF "200" \in K THEN 1 ELSE 0
        BY <3>1, CountMore
      <4> QED BY <3>1, <3>2, <4>1, CountNone
    <3> QED BY <2>2, <3>2, CountNone
  <2>5. StreamIsWhole'
    BY <2>1, <2>4, CountNone DEF StreamIsWhole
  <2> QED BY <2>5, <2>6, <2>7 DEF ChatInv
<1>3. CASE PullPart
  <2> USE <1>3 DEF PullPart
  <2>1. PICK part \in Parts :
          LET events == EventOf(ask.adapter, part) IN
          /\ sent' = Append(sent, part)
          /\ client' = IF events = << >> THEN client ELSE client \o Opening \o events
          /\ going' = IF events = << >> THEN going ELSE "pulling"
    OBVIOUS
  <2>2. sent' \in Seq(Parts) /\ \A K : Count(sent', K) = Count(sent, K) + IF part \in K THEN 1 ELSE 0
    BY <1>0, <2>1, CountMore, AppendProperties
  <2>3. ask.way = "stream" /\ ask' = ask
    BY DEF ChatInv, HasBegun
  <2>4. /\ Count(client, {"delta"}) = Count(sent, {"text", "directive"})
        /\ ask.adapter = "local" => Count(client, {"tool_call"}) = Count(sent, {"call"})
        /\ \A K : Count(sent, K) \in Nat /\ Count(client, K) \in Nat
    BY <1>0, <2>3, CountIs DEF ChatInv, StreamIsWhole
  <2>5. CASE EventOf(ask.adapter, part) = << >>
    <3>1. part = "call" /\ ask.adapter # "local" /\ client' = client /\ going' = going
      BY <2>1, <2>5 DEF EventOf, KnowsCalls
    <3>2. Count(sent', {"text", "directive"}) = Count(sent, {"text", "directive"})
      BY <2>2, <2>4, <3>1
    <3>3. StreamIsWhole'
      BY <2>3, <2>4, <3>1, <3>2 DEF StreamIsWhole
    <3> QED BY <2>2, <2>3, <3>1, <3>3 DEF ChatInv, ChatTypes, HasBegun, FailsBeforeItBegins
  <2>6. CASE EventOf(ask.adapter, part) # << >>
    <3>1. PICK e \in {"delta", "tool_call"} :
            EventOf(ask.adapter, part) = <<e>> /\ (e = "delta" <=> part # "call")
      BY <2>6 DEF EventOf
    <3>2. client' = client \o Opening \o <<e>> /\ e \in Marks /\ going' = "pulling"
      BY <2>1, <2>6, <3>1 DEF Marks
    <3>3. /\ client' \in Seq(Marks) /\ Len(client') > 1
          /\ ask.face = "assistant" => client'[2] # "error"
          /\ \A K : "200" \notin K => Count(client', K) = Count(client, K) + IF e \in K THEN 1 ELSE 0
      BY <3>1, <3>2, Following
    <3>4. /\ Count(client', {"delta"}) = Count(client, {"delta"}) + IF e = "delta" THEN 1 ELSE 0
          /\ Count(client', {"tool_call"}) = Count(client, {"tool_call"}) + IF e = "tool_call" THEN 1 ELSE 0
      BY <3>3
    <3>5. /\ Count(sent', {"text", "directive"}) =
               Count(sent, {"text", "directive"}) + IF part # "call" THEN 1 ELSE 0
          /\ Count(sent', {"call"}) = Count(sent, {"call"}) + IF part = "call" THEN 1 ELSE 0
      BY <2>2 DEF Parts
    <3>6. StreamIsWhole'
      BY <2>3, <2>4, <3>1, <3>4, <3>5 DEF StreamIsWhole
    <3>7. FailsBeforeItBegins'
      BY <2>3, <3>3 DEF FailsBeforeItBegins
    <3>8. ChatTypes' /\ HasBegun'
      BY <2>2, <2>3, <3>2, <3>3 DEF ChatInv, ChatTypes, HasBegun
    <3> QED BY <3>6, <3>7, <3>8 DEF ChatInv
  <2> QED BY <2>5, <2>6
<1>4. CASE PullEnd
  <2> USE <1>4 DEF PullEnd
  <2>1. /\ client' \in Seq(Marks) /\ Len(client') > 1
        /\ ask.face = "assistant" => client'[2] # "error"
        /\ \A K : "200" \notin K => Count(client', K) = Count(client, K) + IF "done" \in K THEN 1 ELSE 0
    BY Following DEF Marks
  <2>2. /\ Count(client', {"delta"}) = Count(client, {"delta"})
        /\ Count(client', {"tool_call"}) = Count(client, {"tool_call"})
    <3>1. Count(client, {"delta"}) \in Nat /\ Count(client, {"tool_call"}) \in Nat
      BY <1>0, CountIs
    <3>2. \A K \in {{"delta"}, {"tool_call"}} : "200" \notin K /\ "done" \notin K
      OBVIOUS
    <3>3. \A K \in {{"delta"}, {"tool_call"}} : Count(client', K) = Count(client, K) + 0
      BY <2>1, <3>2
    <3> QED BY <3>1, <3>3
  <2>3. StreamIsWhole'
    BY <2>2 DEF ChatInv, StreamIsWhole
  <2> QED BY <2>1, <2>3 DEF ChatInv, ChatTypes, HasBegun, FailsBeforeItBegins
<1>5. CASE PullFails
  <2> USE <1>5 DEF PullFails
  <2>1. PICK e \in {"refused", "error", "broken"} :
          client' = Append(client, e) /\ (going = "first" => e = "refused")
    OBVIOUS
  <2>2. e \in Marks
    BY DEF Marks
  <2>3. client' \in Seq(Marks) /\ \A K : Count(client', K) = Count(client, K) + IF e \in K THEN 1 ELSE 0
    BY <1>0, <2>1, <2>2, CountMore, AppendProperties
  <2>4. /\ Count(client', {"delta"}) = Count(client, {"delta"})
        /\ Count(client', {"tool_call"}) = Count(client, {"tool_call"})
    <3>1. Count(client, {"delta"}) \in Nat /\ Count(client, {"tool_call"}) \in Nat
      BY <1>0, CountIs
    <3> QED BY <2>3, <3>1
  <2>5. StreamIsWhole'
    BY <2>4 DEF ChatInv, StreamIsWhole
  <2>6. FailsBeforeItBegins'
    <3>1. CASE going = "first"
      BY <1>0, <2>1, <3>1 DEF ChatInv, HasBegun, FailsBeforeItBegins
    <3>2. CASE going = "pulling" /\ ask.face = "assistant"
      <4>1. Len(client) > 1 /\ client[2] # "error"
        BY <3>2 DEF ChatInv, HasBegun
      <4> QED BY <1>0, <2>1, <4>1 DEF FailsBeforeItBegins
    <3>3. CASE ask.face # "assistant"
      BY <3>3 DEF FailsBeforeItBegins
    <3> QED BY <3>1, <3>2, <3>3
  <2>7. ChatTypes' /\ HasBegun'
    BY <2>3 DEF ChatInv, ChatTypes, HasBegun
  <2> QED BY <2>5, <2>6, <2>7 DEF ChatInv
<1>6. CASE UNCHANGED chatVars
  BY <1>6 DEF chatVars, ChatInv, ChatTypes, HasBegun, FailsBeforeItBegins, StreamIsWhole
<1> QED BY <1>1, <1>2, <1>3, <1>4, <1>5, <1>6 DEF ChatNext

(* A caller is told the truth of what was answered, of answers of any      *)
(* length: a status for what fails before the stream, and in the stream    *)
(* every text, and of the simulator every tool call, once.                 *)
THEOREM CallersAreToldAll == ChatSpec => []StreamsAreHonest
<1>1. ChatInv => StreamsAreHonest
  BY DEF ChatInv, StreamsAreHonest
<1> QED BY <1>1, ChatInit0, ChatStep, PTL DEF ChatSpec
-----------------------------------------------------------------------------
(* The scores and the policies of the governance.                          *)

Measured == [right: Nat, wrong: Nat, best: Scores \cup {0}, shunned: BOOLEAN]

(* The sum behind the score, with what each factor adds by its condition.  *)
Raw(f, m) ==
  10 + (IF f.unsure THEN 15 ELSE 0)
     + (IF f.outcome = "incorrect" THEN 25 ELSE 0) + (IF f.outcome = "partial" THEN 10 ELSE 0)
     + (IF f.source # "calm" THEN 30 ELSE 0) + (IF Inaccurate(m) THEN 20 ELSE 0)
     + (IF Unreliable(m) THEN 25 ELSE 0) + (IF m.wrong > 0 THEN 20 ELSE 0)
     + (IF f.context = "secret" THEN 10 ELSE 0)
     + (IF f.outcome = "incorrect" \/ f.source # "calm" \/ Unreliable(m) THEN 15 ELSE 0)

(* The risk score is the sum of the weights, cut at 100.                   *)
LEMMA ScoreIs ==
  ASSUME NEW f \in Facts, NEW m \in Measured
  PROVE  RiskScore(f, m) = IF Raw(f, m) > 100 THEN 100 ELSE Raw(f, m)
<1> DEFINE F == Factors(f, m)
<1> DEFINE adds(x) == IF x \in F THEN Weight[x] ELSE 0
<1>1. DOMAIN Weight = {"low_confidence", "incorrect_prediction", "partial_prediction", "high_risk_source",
                       "declining_accuracy", "model_unreliable", "regression_observed", "sensitive_context"}
  BY DEF Weight
<1>2. /\ "low_confidence" \in F <=> f.unsure
      /\ "incorrect_prediction" \in F <=> f.outcome = "incorrect"
      /\ "partial_prediction" \in F <=> f.outcome = "partial"
      /\ "high_risk_source" \in F <=> f.source # "calm"
      /\ "declining_accuracy" \in F <=> Inaccurate(m)
      /\ "model_unreliable" \in F <=> Unreliable(m)
      /\ "regression_observed" \in F <=> m.wrong > 0
      /\ "sensitive_context" \in F <=> f.context = "secret"
  BY <1>1 DEF Factors
<1>3. /\ adds("low_confidence") = IF f.unsure THEN 15 ELSE 0
      /\ adds("incorrect_prediction") = IF f.outcome = "incorrect" THEN 25 ELSE 0
      /\ adds("partial_prediction") = IF f.outcome = "partial" THEN 10 ELSE 0
      /\ adds("high_risk_source") = IF f.source # "calm" THEN 30 ELSE 0
      /\ adds("declining_accuracy") = IF Inaccurate(m) THEN 20 ELSE 0
      /\ adds("model_unreliable") = IF Unreliable(m) THEN 25 ELSE 0
      /\ adds("regression_observed") = IF m.wrong > 0 THEN 20 ELSE 0
      /\ adds("sensitive_context") = IF f.context = "secret" THEN 10 ELSE 0
  BY <1>2 DEF Weight
<1>4. F \cap Critical = {} <=> ~(f.outcome = "incorrect" \/ f.source # "calm" \/ Unreliable(m))
  BY <1>2 DEF Critical
<1> DEFINE sum == 10 + adds("low_confidence") + adds("incorrect_prediction") + adds("partial_prediction")
                     + adds("high_risk_source") + adds("declining_accuracy") + adds("model_unreliable")
                     + adds("regression_observed") + adds("sensitive_context")
                     + IF F \cap Critical = {} THEN 0 ELSE 15
<1>5. RiskScore(f, m) = IF sum > 100 THEN 100 ELSE sum
  BY DEF RiskScore
<1>6. sum = Raw(f, m)
  <2> HIDE DEF adds, F
  <2> QED BY <1>3, <1>4 DEF Raw
<1> QED BY <1>5, <1>6

(* The rank of a score's level and of a result.                            *)
LevelRank(score) == IF score >= 80 THEN 4 ELSE IF score >= 55 THEN 3 ELSE IF score >= 30 THEN 2 ELSE 1
ResultRank(f, m, level, score) ==
  IF level = "CRITICAL" \/ score >= 80 THEN 4
  ELSE IF AsksReview(f, m, level, score) THEN 3 ELSE IF WarnsOnly(f, m) THEN 2 ELSE 1

(* Results and levels are ranked in the order of their tables; the two     *)
(* last results stop a proposal.                                           *)
LEMMA RanksAre ==
  /\ \A k \in 1..4 : RankIn(Results, Results[k]) = k /\ RankIn(Levels, Levels[k]) = k
  /\ \A k \in 1..4 : Results[k] \in {"REVIEW_REQUIRED", "BLOCKED"} <=> k >= 3
  /\ Results[4] = "BLOCKED"
<1>1. /\ DOMAIN Results = 1..4 /\ DOMAIN Levels = 1..4
      /\ Results[1] = "PASS" /\ Results[2] = "WARNING"
      /\ Results[3] = "REVIEW_REQUIRED" /\ Results[4] = "BLOCKED"
      /\ Levels[1] = "LOW" /\ Levels[2] = "MEDIUM" /\ Levels[3] = "HIGH" /\ Levels[4] = "CRITICAL"
  BY DEF Results, Levels
<1>2. \A k \in 1..4 : k = 1 \/ k = 2 \/ k = 3 \/ k = 4
  OBVIOUS
<1>3. ASSUME NEW k \in 1..4 PROVE RankIn(Results, Results[k]) = k
  <2>1. \A i \in DOMAIN Results : Results[i] = Results[k] <=> i = k
    BY <1>1, <1>2
  <2> QED BY <1>1, <2>1 DEF RankIn
<1>4. ASSUME NEW k \in 1..4 PROVE RankIn(Levels, Levels[k]) = k
  <2>1. \A i \in DOMAIN Levels : Levels[i] = Levels[k] <=> i = k
    BY <1>1, <1>2
  <2> QED BY <1>1, <2>1 DEF RankIn
<1>5. \A k \in 1..4 : Results[k] \in {"REVIEW_REQUIRED", "BLOCKED"} <=> k >= 3
  BY <1>1, <1>2
<1> QED BY <1>1, <1>3, <1>4, <1>5

(* The level by the thresholds that the code compares the score with.      *)
LEMMA LevelIs ==
  ASSUME NEW s \in Nat
  PROVE  /\ LevelOf(s) \in {"LOW", "MEDIUM", "HIGH", "CRITICAL"}
         /\ LevelOf(s) = "CRITICAL" <=> s >= 80
         /\ LevelOf(s) \in {"HIGH", "CRITICAL"} <=> s >= 55
BY DEF LevelOf, Levels

(* The result as an entry of the table, at the rank the rules give.        *)
LEMMA ResultIs ==
  ASSUME NEW f, NEW m, NEW level, NEW s \in Nat
  PROVE  /\ ResultRank(f, m, level, s) \in 1..4
         /\ Evaluate(f, m, level, s) = Results[ResultRank(f, m, level, s)]
BY DEF ResultRank, Evaluate

(* The score is between 0 and 100.                                         *)
LEMMA ScoreIsNat ==
  ASSUME NEW f \in Facts, NEW m \in Measured
  PROVE  RiskScore(f, m) \in 0..100 /\ Raw(f, m) \in Nat
<1>1. Raw(f, m) \in Nat
  BY DEF Raw
<1> QED BY <1>1, ScoreIs

RankOf(f, m) == LET s == RiskScore(f, m) IN ResultRank(f, m, LevelOf(s), s)

(* The same for the result of a claim and its measurements.                *)
LEMMA ResultOfIs ==
  ASSUME NEW f \in Facts, NEW m \in Measured
  PROVE  RankOf(f, m) \in 1..4 /\ ResultOf(f, m) = Results[RankOf(f, m)]
BY ScoreIsNat, ResultIs DEF RankOf, ResultOf

(* A pair of claim and metrics that is worse in every respect the score    *)
(* and the policies look at has at least the rank.                         *)
LEMMA WorseRanks ==
  ASSUME NEW f \in Facts, NEW m \in Measured, NEW g \in Facts, NEW n \in Measured,
         Raw(g, n) >= Raw(f, m), f.unsure => g.unsure, Inaccurate(m) => Inaccurate(n),
         Unreliable(m) => Unreliable(n), 5 * m.wrong > Total(m) => 5 * n.wrong > Total(n),
         m.shunned => n.shunned, f.context # "plain" => g.context # "plain"
  PROVE  RankIn(Results, ResultOf(g, n)) >= RankIn(Results, ResultOf(f, m))
<1>1. RiskScore(g, n) >= RiskScore(f, m) /\ RiskScore(g, n) \in Nat /\ RiskScore(f, m) \in Nat
  BY ScoreIs, ScoreIsNat
<1>2. PICK s \in Nat, t \in Nat : s = RiskScore(f, m) /\ t = RiskScore(g, n)
  BY <1>1
<1>3. HighRisk(LevelOf(s), s) => HighRisk(LevelOf(t), t)
  BY <1>1, <1>2, LevelIs DEF HighRisk
<1>4. 5 * m.wrong > 2 * Total(m) => 5 * m.wrong > Total(m)
  BY DEF Total, Measured
<1>5. AsksReview(f, m, LevelOf(s), s) => AsksReview(g, n, LevelOf(t), t)
  BY <1>3, <1>4 DEF AsksReview
<1>6. (LevelOf(s) = "CRITICAL" \/ s >= 80) => (LevelOf(t) = "CRITICAL" \/ t >= 80)
  BY <1>1, <1>2, LevelIs
<1>7. WarnsOnly(f, m) => WarnsOnly(g, n)
  BY DEF WarnsOnly
<1>8. ResultRank(g, n, LevelOf(t), t) >= ResultRank(f, m, LevelOf(s), s)
  BY <1>5, <1>6, <1>7 DEF ResultRank
<1>9. RankOf(g, n) >= RankOf(f, m)
  BY <1>2, <1>8 DEF RankOf
<1> QED BY <1>9, ResultOfIs, RanksAre
(* The sum grows with each of its conditions.                              *)
LEMMA RawIs ==
  ASSUME NEW f \in Facts, NEW g \in Facts, NEW m \in Measured, f.unsure => g.unsure,
         g.outcome \in {f.outcome, "incorrect"}, f.source # "calm" => g.source # "calm",
         f.context = "secret" => g.context = "secret"
  PROVE  Raw(g, m) >= Raw(f, m)
<1>1. PICK i \in 0..20 : i = IF Inaccurate(m) THEN 20 ELSE 0
  OBVIOUS
<1>2. PICK u \in 0..25 : u = IF Unreliable(m) THEN 25 ELSE 0
  OBVIOUS
<1>3. PICK w \in 0..20 : w = IF m.wrong > 0 THEN 20 ELSE 0
  OBVIOUS
<1> DEFINE rest(h) == 10 + (IF h.unsure THEN 15 ELSE 0)
     + (IF h.outcome = "incorrect" THEN 25 ELSE 0) + (IF h.outcome = "partial" THEN 10 ELSE 0)
     + (IF h.source # "calm" THEN 30 ELSE 0) + i + u + w
     + (IF h.context = "secret" THEN 10 ELSE 0)
     + (IF h.outcome = "incorrect" \/ h.source # "calm" \/ Unreliable(m) THEN 15 ELSE 0)
<1>4. Raw(f, m) = rest(f) /\ Raw(g, m) = rest(g)
  BY <1>1, <1>2, <1>3 DEF Raw
<1>5. rest(g) >= rest(f)
  OBVIOUS
<1> QED BY <1>4, <1>5

(* One fact or one metric worse is worse in that sense.                    *)
LEMMA WorseClaims ==
  ASSUME NEW f \in Facts, NEW m \in Measured, NEW g \in Worse(f)
  PROVE  RankIn(Results, ResultOf(g, m)) >= RankIn(Results, ResultOf(f, m))
<1>1. g \in Facts
  BY DEF Worse, Facts
<1>2. CASE g = [f EXCEPT !.unsure = TRUE]
  <2>1. g.unsure = TRUE /\ g.outcome = f.outcome /\ g.source = f.source /\ g.context = f.context
    BY <1>2 DEF Facts
  <2>2. Raw(g, m) >= Raw(f, m)
    BY <2>1, <1>1, RawIs
  <2> QED BY <1>1, <2>1, <2>2, WorseRanks
<1>3. CASE g = [f EXCEPT !.outcome = "incorrect"]
  <2>1. g.unsure = f.unsure /\ g.outcome = "incorrect" /\ g.source = f.source /\ g.context = f.context
    BY <1>3 DEF Facts
  <2>2. Raw(g, m) >= Raw(f, m)
    BY <2>1, <1>1, RawIs
  <2> QED BY <1>1, <2>1, <2>2, WorseRanks
<1>4. CASE g = [f EXCEPT !.source = "high"]
  <2>1. g.unsure = f.unsure /\ g.outcome = f.outcome /\ g.source = "high" /\ g.context = f.context
    BY <1>4 DEF Facts
  <2>2. Raw(g, m) >= Raw(f, m)
    BY <2>1, <1>1, RawIs
  <2> QED BY <1>1, <2>1, <2>2, WorseRanks
<1>5. CASE g = [f EXCEPT !.context = "secret"]
  <2>1. g.unsure = f.unsure /\ g.outcome = f.outcome /\ g.source = f.source /\ g.context = "secret"
    BY <1>5 DEF Facts
  <2>2. Raw(g, m) >= Raw(f, m)
    BY <2>1, <1>1, RawIs
  <2> QED BY <1>1, <2>1, <2>2, WorseRanks
<1> QED BY <1>2, <1>3, <1>4, <1>5 DEF Worse

(* One wrong prediction more never makes the result better.                *)
LEMMA WorsePredictions ==
  ASSUME NEW f \in Facts, NEW m \in Measured
  PROVE  RankIn(Results, ResultOf(f, [m EXCEPT !.wrong = @ + 1])) >= RankIn(Results, ResultOf(f, m))
<1> DEFINE n == [m EXCEPT !.wrong = @ + 1]
<1>1. /\ n \in Measured /\ n.right = m.right /\ n.wrong = m.wrong + 1 /\ n.best = m.best
      /\ n.shunned = m.shunned /\ m.right \in Nat /\ m.wrong \in Nat
  BY DEF Measured
<1> HIDE DEF n
<1>2. /\ Inaccurate(m) => Inaccurate(n)
      /\ 5 * m.wrong > Total(m) => 5 * n.wrong > Total(n)
  BY <1>1 DEF Inaccurate, Total
<1>3. Unreliable(n) <=> Unreliable(m)
  BY <1>1 DEF Unreliable
<1>4. n.wrong > 0
  BY <1>1
<1>5. Raw(f, n) >= Raw(f, m)
  BY <1>1, <1>2, <1>3, <1>4 DEF Raw
<1>6. RankIn(Results, ResultOf(f, n)) >= RankIn(Results, ResultOf(f, m))
  BY <1>1, <1>2, <1>3, <1>5, WorseRanks
<1> QED BY <1>6 DEF n

(* A worse benchmark never makes the result better.                        *)
LEMMA WorseBenchmarks ==
  ASSUME NEW f \in Facts, NEW m \in Measured, m.best # 0, NEW s \in Scores, s < m.best
  PROVE  RankIn(Results, ResultOf(f, [m EXCEPT !.best = s])) >= RankIn(Results, ResultOf(f, m))
<1> DEFINE n == [m EXCEPT !.best = s]
<1>1. /\ n \in Measured /\ n.right = m.right /\ n.wrong = m.wrong /\ n.best = s
      /\ n.shunned = m.shunned /\ m.right \in Nat /\ m.wrong \in Nat /\ m.best \in Scores
  BY DEF Measured
<1> HIDE DEF n
<1>2. (Inaccurate(m) <=> Inaccurate(n)) /\ Total(m) = Total(n)
  BY <1>1 DEF Inaccurate, Total
<1>3. Unreliable(m) => Unreliable(n)
  BY <1>1, GovernanceAssumption DEF Unreliable
<1>4. Raw(f, n) >= Raw(f, m)
  BY <1>1, <1>2, <1>3 DEF Raw
<1>5. RankIn(Results, ResultOf(f, n)) >= RankIn(Results, ResultOf(f, m))
  BY <1>1, <1>2, <1>3, <1>4, WorseRanks
<1> QED BY <1>5 DEF n

(* A preview that asks for a review is followed by a result that does.     *)
LEMMA PreviewIsMilder ==
  ASSUME NEW f \in Facts, NEW m \in Measured, Preview(f, m) \in {"REVIEW_REQUIRED", "BLOCKED"}
  PROVE  ResultOf(f, m) \in {"REVIEW_REQUIRED", "BLOCKED"}
<1>1. ResultRank(f, m, Stated(f), 0) >= 3
  BY ResultIs, RanksAre DEF Preview
<1>2. PICK s \in Nat : s = RiskScore(f, m)
  BY ScoreIsNat
<1>3. CASE f.source # "calm"
  <2>1. Raw(f, m) >= 55
    BY <1>3, ScoreIsNat DEF Raw
  <2>2. s >= 55
    BY <1>2, <2>1, ScoreIs, ScoreIsNat
  <2>3. HighRisk(LevelOf(s), s)
    BY <2>2, LevelIs DEF HighRisk
  <2> QED BY <1>2, <2>3, ResultOfIs, RanksAre DEF RankOf, ResultRank, AsksReview
<1>4. CASE f.source = "calm"
  <2>1. AsksReview(f, m, "LOW", 0)
    BY <1>1, <1>4 DEF ResultRank, Stated
  <2>2. AsksReview(f, m, LevelOf(s), s)
    BY <2>1 DEF AsksReview, HighRisk
  <2> QED BY <1>2, <2>2, ResultOfIs, RanksAre DEF RankOf, ResultRank
<1> QED BY <1>3, <1>4

(* A claim of high risk is to be reviewed, and its violations block.       *)
LEMMA HighIsReviewed ==
  ASSUME NEW f \in Facts, NEW m \in Measured, LevelOf(RiskScore(f, m)) \in {"HIGH", "CRITICAL"}
  PROVE  /\ ResultOf(f, m) \in {"REVIEW_REQUIRED", "BLOCKED"}
         /\ "blocking" \in Violated(f, m, LevelOf(RiskScore(f, m)), RiskScore(f, m))
<1>1. HighRisk(LevelOf(RiskScore(f, m)), RiskScore(f, m))
  BY DEF HighRisk
<1> QED BY <1>1, ResultOfIs, RanksAre DEF RankOf, ResultRank, AsksReview, Violated
-----------------------------------------------------------------------------
(* The governance's claims and reviews.                                    *)

Places == {"asked", "recorded", "found", "noted", "over", "cut"}
RunsOfClaims == [at: Places, facts: Facts, metrics: Measured]
RunsOfReviews == [at: {"read", "decided", "over", "cut"}, of: Claims, decision: Decisions]
Outcome == [level: {"LOW", "MEDIUM", "HIGH", "CRITICAL"},
            result: {"PASS", "WARNING", "REVIEW_REQUIRED", "BLOCKED"}]

GovTypes ==
  /\ measured \in Measured
  /\ claim \in [Claims -> {NoRun} \cup RunsOfClaims]
  /\ record \in [Claims -> {NoRecord} \cup Outcome]
  /\ violation \in [Claims -> SUBSET {"warning", "blocking"}]
  /\ proposal \in [Claims -> {None, "proposed"} \cup Decisions]
  /\ review \in [Reviews -> {NoRun} \cup RunsOfReviews]
  /\ memory \in Seq([of: Claims, decision: Decisions])

(* What is stored of a claim follows from its facts and the metrics of its *)
(* submission, as far as its run has come.                                 *)
Judged(c) ==
  /\ claim[c].at \in {None, "asked"} => record[c] = NoRecord
  /\ claim[c].at \in {"recorded", "found", "noted", "over"} => record[c] # NoRecord
  /\ record[c] # NoRecord =>
       record[c] = [level |-> LevelOf(ScoreOf(c)), result |-> ResultOf(claim[c].facts, claim[c].metrics)]
  /\ claim[c].at \in {"noted", "over"} =>
       violation[c] = Violated(claim[c].facts, claim[c].metrics, LevelOf(ScoreOf(c)), ScoreOf(c))
  /\ claim[c].at = "over" /\ record[c].result \in {"REVIEW_REQUIRED", "BLOCKED"} => proposal[c] # None
  /\ claim[c].at # "over" => proposal[c] = None

Memories(c) == {i \in DOMAIN memory : memory[i].of = c}
Deciding(r, c) == review[r].at = "decided" /\ review[r].of = c
About(r, c) == review[r].at \in {"read", "decided"} /\ review[r].of = c

(* A proposal that nobody disturbs has one review at a time, and reads as  *)
(* the review that is being stored decided, else as the last remembered.   *)
Untouched(c) ==
  proposal[c] = None => Memories(c) = {} /\ \A r \in Reviews : ~About(r, c)
Remembered(c) ==
  /\ \A r, s \in Reviews : About(r, c) /\ About(s, c) => r = s
  /\ \A r \in Reviews : Deciding(r, c) => proposal[c] = review[r].decision
  /\ (\A r \in Reviews : ~Deciding(r, c)) =>
       IF Memories(c) = {} THEN proposal[c] \in {None, "proposed"}
       ELSE proposal[c] = memory[Max(Memories(c))].decision

GovInv ==
  /\ GovTypes
  /\ \A c \in Claims : Judged(c) /\ Untouched(c)
  /\ \A c \in Claims \ disturbed : Remembered(c)

(* At first nothing is claimed, measured or reviewed.                      *)
LEMMA GovInit0 == GovInit => GovInv
<1> SUFFICES ASSUME GovInit PROVE GovInv
  OBVIOUS
<1> USE DEF GovInit, NoRun, None, NoRecord
<1>1. GovTypes
  BY DEF GovTypes, Measured
<1>2. \A c \in Claims : Memories(c) = {}
  BY DEF Memories
<1>3. \A c \in Claims : Judged(c)
  BY DEF Judged
<1>4. \A c \in Claims : Untouched(c) /\ Remembered(c)
  BY <1>2 DEF Untouched, Remembered, About, Deciding
<1> QED BY <1>1, <1>3, <1>4 DEF GovInv

(* What the record of a run, or of a review, is made of.                   *)
LEMMA ClaimHas ==
  ASSUME GovTypes, NEW c \in Claims, claim[c].at # None
  PROVE  claim[c] \in RunsOfClaims /\ claim[c].facts \in Facts /\ claim[c].metrics \in Measured
BY DEF GovTypes, NoRun, RunsOfClaims

(* What a review under way is made of.                                     *)
LEMMA ReviewHas ==
  ASSUME GovTypes, NEW r \in Reviews, review[r].at # None
  PROVE  review[r] \in RunsOfReviews /\ review[r].of \in Claims /\ review[r].decision \in Decisions
BY DEF GovTypes, NoRun, RunsOfReviews

(* No review, no record and no place are values of their own.              *)
LEMMA NoRunIs == NoRun.at = None /\ NoRecord \notin Outcome /\ None \notin Places
BY DEF NoRun, None, NoRecord, Outcome, Places

(* What an evaluation stores is an outcome.                                *)
LEMMA OutcomeIs ==
  ASSUME NEW f \in Facts, NEW m \in Measured
  PROVE  [level |-> LevelOf(RiskScore(f, m)), result |-> ResultOf(f, m)] \in Outcome
<1>1. ResultOf(f, m) \in {"PASS", "WARNING", "REVIEW_REQUIRED", "BLOCKED"}
  BY ResultOfIs DEF Results
<1> QED BY <1>1, ScoreIsNat, LevelIs DEF Outcome

(* A step that leaves the reviews, the memory and the proposals alone      *)
(* leaves what is remembered.                                              *)
LEMMA ReviewsRest ==
  ASSUME GovInv, UNCHANGED <<review, memory, proposal, disturbed>>
  PROVE  (\A c \in Claims : Untouched(c)') /\ (\A c \in Claims \ disturbed' : Remembered(c)')
<1>1. \A c \in Claims : Untouched(c) => Untouched(c)'
  BY DEF Untouched, Memories, About
<1>2. \A c \in Claims : Remembered(c) => Remembered(c)'
  BY DEF Remembered, Memories, About, Deciding
<1> QED BY <1>1, <1>2 DEF GovInv

(* A claim stays judged as long as nothing of it changes.                  *)
LEMMA OthersJudged ==
  ASSUME NEW d, Judged(d), claim'[d] = claim[d], record'[d] = record[d],
         violation'[d] = violation[d], proposal'[d] = proposal[d]
  PROVE  Judged(d)'
BY DEF Judged, ScoreOf

(* The steps of a claim's own run.                                         *)
LEMMA ClaimSteps ==
  ASSUME GovInv, NEW c \in Claims,
         Submit(c) \/ SaveRecord(c) \/ SaveRisk(c) \/ SaveViolations(c)
  PROVE  GovInv'
<1> USE NoRunIs
<1>0. GovTypes /\ Judged(c)
  BY DEF GovInv
<1>1. CASE Submit(c)
  <2> USE <1>1 DEF Submit
  <2>1. PICK f \in Facts :
          claim' = [claim EXCEPT ![c] = [at |-> "asked", facts |-> f, metrics |-> measured]]
    OBVIOUS
  <2>2. [at |-> "asked", facts |-> f, metrics |-> measured] \in RunsOfClaims
    BY <1>0 DEF RunsOfClaims, Places, GovTypes
  <2>3. GovTypes'
    BY <1>0, <2>1, <2>2 DEF GovTypes
  <2>4. \A d \in Claims : Judged(d)'
    <3>1. claim'[c].at = "asked" /\ record[c] = NoRecord /\ proposal[c] = None
      BY <1>0, <2>1 DEF Judged, GovTypes, None
    <3>2. Judged(c)'
      BY <3>1 DEF Judged
    <3>3. \A d \in Claims \ {c} : claim'[d] = claim[d]
      BY <1>0, <2>1 DEF GovTypes
    <3> QED BY <3>2, <3>3, OthersJudged DEF GovInv
  <2> QED BY <2>3, <2>4, ReviewsRest DEF GovInv
<1>2. CASE SaveRecord(c)
  <2> USE <1>2 DEF SaveRecord, Goes
  <2>1. claim[c] \in RunsOfClaims /\ claim[c].facts \in Facts /\ claim[c].metrics \in Measured
    BY <1>0, ClaimHas DEF None
  <2>2. [level |-> LevelOf(ScoreOf(c)), result |-> ResultOf(claim[c].facts, claim[c].metrics)] \in Outcome
    BY <2>1, OutcomeIs DEF ScoreOf
  <2>3. /\ claim' \in [Claims -> {NoRun} \cup RunsOfClaims]
        /\ claim'[c] = [claim[c] EXCEPT !.at = "recorded"]
        /\ \A d \in Claims \ {c} : claim'[d] = claim[d]
    BY <1>0, <2>1 DEF GovTypes, RunsOfClaims, Places
  <2>4. GovTypes'
    BY <1>0, <2>2, <2>3 DEF GovTypes
  <2>5. \A d \in Claims : Judged(d)'
    <3>1. /\ claim'[c].at = "recorded" /\ claim'[c].facts = claim[c].facts
          /\ claim'[c].metrics = claim[c].metrics
      BY <2>1, <2>3 DEF RunsOfClaims
    <3>2. /\ record'[c] = [level |-> LevelOf(ScoreOf(c)), result |-> ResultOf(claim[c].facts, claim[c].metrics)]
          /\ record'[c] # NoRecord
          /\ \A d \in Claims \ {c} : record'[d] = record[d]
      BY <1>0, <2>2 DEF GovTypes
    <3>3. Judged(c)'
      BY <1>0, <3>1, <3>2 DEF Judged, ScoreOf, None
    <3> QED BY <2>3, <3>2, <3>3, OthersJudged DEF GovInv
  <2> QED BY <2>4, <2>5, ReviewsRest DEF GovInv
<1>3. CASE SaveRisk(c)
  <2> USE <1>3 DEF SaveRisk, Goes
  <2>1. claim[c] \in RunsOfClaims
    BY <1>0, ClaimHas DEF None
  <2>2. /\ claim' \in [Claims -> {NoRun} \cup RunsOfClaims]
        /\ claim'[c].at = "found" /\ claim'[c].facts = claim[c].facts
        /\ claim'[c].metrics = claim[c].metrics
        /\ \A d \in Claims \ {c} : claim'[d] = claim[d]
    BY <1>0, <2>1 DEF GovTypes, RunsOfClaims, Places
  <2>3. GovTypes'
    BY <1>0, <2>2 DEF GovTypes
  <2>4. Judged(c)'
    BY <1>0, <2>2 DEF Judged, ScoreOf, None
  <2> QED BY <2>2, <2>3, <2>4, OthersJudged, ReviewsRest DEF GovInv
<1>4. CASE SaveViolations(c)
  <2> USE <1>4 DEF SaveViolations, Goes
  <2>1. claim[c] \in RunsOfClaims
    BY <1>0, ClaimHas DEF None
  <2>2. /\ claim' \in [Claims -> {NoRun} \cup RunsOfClaims]
        /\ claim'[c].at = "noted" /\ claim'[c].facts = claim[c].facts
        /\ claim'[c].metrics = claim[c].metrics
        /\ \A d \in Claims \ {c} : claim'[d] = claim[d]
    BY <1>0, <2>1 DEF GovTypes, RunsOfClaims, Places
  <2>3. /\ violation' \in [Claims -> SUBSET {"warning", "blocking"}]
        /\ violation'[c] = Violated(claim[c].facts, claim[c].metrics, LevelOf(ScoreOf(c)), ScoreOf(c))
        /\ \A d \in Claims \ {c} : violation'[d] = violation[d]
    BY <1>0 DEF GovTypes, Violated
  <2>4. GovTypes'
    BY <1>0, <2>2, <2>3 DEF GovTypes
  <2>5. Judged(c)'
    BY <1>0, <2>2, <2>3 DEF Judged, ScoreOf, None
  <2> QED BY <2>2, <2>3, <2>4, <2>5, OthersJudged, ReviewsRest DEF GovInv
<1> QED BY <1>1, <1>2, <1>3, <1>4
(* The proposal is made when the run ends: nothing was said of it before.  *)
LEMMA ProposeStep ==
  ASSUME GovInv, NEW c \in Claims, Propose(c)
  PROVE  GovInv'
<1> USE NoRunIs DEF Propose, Goes
<1>0. GovTypes /\ Judged(c) /\ Untouched(c)
  BY DEF GovInv
<1>1. claim[c] \in RunsOfClaims /\ record[c] \in Outcome /\ proposal[c] = None
  BY <1>0, ClaimHas DEF None, Judged, GovTypes
<1>2. /\ claim' \in [Claims -> {NoRun} \cup RunsOfClaims]
      /\ claim'[c].at = "over" /\ claim'[c].facts = claim[c].facts
      /\ claim'[c].metrics = claim[c].metrics
      /\ \A d \in Claims \ {c} : claim'[d] = claim[d]
  BY <1>0, <1>1 DEF GovTypes, RunsOfClaims, Places
<1>3. /\ proposal' \in [Claims -> {None, "proposed"} \cup Decisions]
      /\ proposal'[c] = IF record[c].result \in {"REVIEW_REQUIRED", "BLOCKED"} THEN "proposed" ELSE None
      /\ \A d \in Claims \ {c} : proposal'[d] = proposal[d]
  BY <1>0, <1>1 DEF GovTypes
<1>4. GovTypes'
  BY <1>0, <1>2, <1>3 DEF GovTypes
<1>5. \A d \in Claims : Judged(d)'
  <2>1. Judged(c)'
    BY <1>0, <1>2, <1>3 DEF Judged, ScoreOf, None
  <2> QED BY <1>2, <1>3, <2>1, OthersJudged DEF GovInv
<1>6. Memories(c) = {} /\ \A r \in Reviews : ~About(r, c)
  BY <1>0, <1>1 DEF Untouched
<1>7. \A d \in Claims : (Memories(d))' = Memories(d) /\ \A r \in Reviews :
         (About(r, d)' <=> About(r, d)) /\ (Deciding(r, d)' <=> Deciding(r, d))
  BY DEF Memories, About, Deciding
<1>8. \A d \in Claims : Untouched(d)'
  <2>1. Untouched(c)'
    BY <1>6, <1>7 DEF Untouched
  <2>2. ASSUME NEW d \in Claims \ {c} PROVE Untouched(d)'
    BY <1>3, <1>7 DEF Untouched, GovInv
  <2> QED BY <2>1, <2>2
<1>9. \A d \in Claims \ disturbed' : Remembered(d)'
  <2>1. Remembered(c)'
    <3>1. \A r \in Reviews : ~About(r, c)' /\ ~Deciding(r, c)'
      BY <1>6, <1>7 DEF About, Deciding
    <3>2. (Memories(c))' = {} /\ proposal'[c] \in {None, "proposed"}
      BY <1>3, <1>6, <1>7
    <3> QED BY <3>1, <3>2 DEF Remembered
  <2>2. ASSUME NEW d \in (Claims \ {c}) \ disturbed PROVE Remembered(d)'
    <3>1. Remembered(d) /\ proposal'[d] = proposal[d]
      BY <1>3 DEF GovInv
    <3> QED BY <1>7, <3>1 DEF Remembered
  <2> QED BY <2>1, <2>2
<1> QED BY <1>4, <1>5, <1>8, <1>9 DEF GovInv

(* A review begins beside no other, or its proposal is disturbed.          *)
LEMMA BeginReviewStep ==
  ASSUME GovInv, NEW r \in Reviews, BeginReview(r)
  PROVE  GovInv'
<1> USE NoRunIs DEF BeginReview
<1>0. GovTypes
  BY DEF GovInv
<1>1. PICK c \in Claims, d \in Decisions :
         /\ proposal[c] # None
         /\ review' = [review EXCEPT ![r] = [at |-> "read", of |-> c, decision |-> d]]
         /\ disturbed' = disturbed \cup {x \in {c} : \E other \in Reviews :
              review[other].at \in {"read", "decided"} /\ review[other].of = c}
  OBVIOUS
<1>2. /\ review' \in [Reviews -> {NoRun} \cup RunsOfReviews]
      /\ review'[r] = [at |-> "read", of |-> c, decision |-> d]
      /\ \A s \in Reviews \ {r} : review'[s] = review[s]
  BY <1>0, <1>1 DEF GovTypes, RunsOfReviews
<1>3. GovTypes'
  BY <1>0, <1>2 DEF GovTypes
<1>4. \A x \in Claims : Judged(x)'
  BY OthersJudged DEF GovInv
<1>5. /\ \A x \in Claims, s \in Reviews : Deciding(s, x)' <=> Deciding(s, x)
      /\ \A x \in Claims, s \in Reviews : About(s, x)' <=> (About(s, x) \/ (s = r /\ x = c))
  <2>1. review[r] = NoRun
    OBVIOUS
  <2> QED BY <1>2, <2>1 DEF Deciding, About, None
<1>6. \A x \in Claims : Memories(x)' = Memories(x)
  BY DEF Memories
<1>7. \A x \in Claims : Untouched(x)'
  BY <1>1, <1>5, <1>6 DEF GovInv, Untouched
<1>8. ASSUME NEW x \in Claims \ disturbed' PROVE Remembered(x)'
  <2>1. Remembered(x)
    BY <1>1, <1>8 DEF GovInv
  <2>2. x = c => \A s \in Reviews : ~About(s, c)
    BY <1>1, <1>8 DEF About
  <2>3. \A s, t \in Reviews : About(s, x)' /\ About(t, x)' => s = t
    BY <1>5, <2>1, <2>2 DEF Remembered
  <2>4. \A s \in Reviews : Deciding(s, x)' => proposal[x] = review'[s].decision
    BY <1>2, <1>5, <2>1 DEF Remembered, Deciding
  <2> QED BY <1>5, <1>6, <2>1, <2>3, <2>4 DEF Remembered
<1> QED BY <1>3, <1>4, <1>7, <1>8 DEF GovInv

(* The decision is stored: the review is now the one that decided.         *)
LEMMA SaveDecisionStep ==
  ASSUME GovInv, NEW r \in Reviews, SaveDecision(r)
  PROVE  GovInv'
<1> USE NoRunIs DEF SaveDecision
<1>0. GovTypes
  BY DEF GovInv
<1>1. review[r] \in RunsOfReviews /\ review[r].of \in Claims /\ review[r].decision \in Decisions
  BY <1>0, ReviewHas DEF None
<1>2. PICK c \in Claims, d \in Decisions : c = review[r].of /\ d = review[r].decision
  BY <1>1
<1>3. /\ review' \in [Reviews -> {NoRun} \cup RunsOfReviews]
      /\ review'[r].at = "decided" /\ review'[r].of = c /\ review'[r].decision = d
      /\ \A s \in Reviews \ {r} : review'[s] = review[s]
  BY <1>0, <1>1, <1>2 DEF GovTypes, RunsOfReviews
<1>4. /\ proposal' \in [Claims -> {None, "proposed"} \cup Decisions]
      /\ proposal'[c] = d /\ d # None
      /\ \A x \in Claims \ {c} : proposal'[x] = proposal[x]
  BY <1>0, <1>2 DEF GovTypes, Decisions, None
<1>5. GovTypes'
  BY <1>0, <1>3, <1>4 DEF GovTypes
<1>7. /\ \A x \in Claims, s \in Reviews : Deciding(s, x)' <=> (Deciding(s, x) \/ (s = r /\ x = c))
      /\ \A x \in Claims, s \in Reviews : About(s, x)' <=> About(s, x)
  BY <1>2, <1>3 DEF Deciding, About
<1>8. \A x \in Claims : Memories(x)' = Memories(x)
  BY DEF Memories
<1>9. \A x \in Claims : Untouched(x)'
  BY <1>4, <1>7, <1>8 DEF GovInv, Untouched
<1>10. proposal[c] # None
  BY <1>2 DEF GovInv, Untouched, About
<1>11. \A x \in Claims : Judged(x)'
  <2>1. Judged(c)'
    BY <1>4, <1>10 DEF GovInv, Judged, ScoreOf
  <2> QED BY <1>4, <2>1, OthersJudged DEF GovInv
<1>12. ASSUME NEW x \in Claims \ disturbed' PROVE Remembered(x)'
  <2>1. Remembered(x)
    BY <1>12 DEF GovInv
  <2>2. CASE x # c
    BY <1>3, <1>4, <1>7, <1>8, <2>1, <2>2 DEF Remembered, Deciding
  <2>3. CASE x = c
    <3>1. \A s \in Reviews : About(s, c) => s = r
      BY <1>2, <2>1, <2>3 DEF Remembered, About
    <3>2. \A s \in Reviews : Deciding(s, c)' => s = r
      BY <1>7, <3>1 DEF About, Deciding
    <3>3. \A s \in Reviews : Deciding(s, c)' => proposal'[c] = review'[s].decision
      BY <1>3, <1>4, <3>2
    <3>4. \A s, t \in Reviews : About(s, c)' /\ About(t, c)' => s = t
      BY <1>7, <3>1
    <3> QED BY <1>7, <2>3, <3>3, <3>4 DEF Remembered
  <2> QED BY <2>2, <2>3
<1> QED BY <1>5, <1>9, <1>11, <1>12 DEF GovInv

(* A set of numbers that is not empty has a smallest one.                  *)
LEMMA SmallestExists ==
  ASSUME NEW S \in SUBSET Nat, S # {}
  PROVE  \E k \in S : \A j \in S : k <= j
<1>1. PICK k \in S : \A j \in S : ~ (<<j, k>> \in OpToRel(<, Nat))
  BY WFMin, NatLessThanWellFounded
<1>2. SUFFICES ASSUME NEW j \in S, j < k
               PROVE  FALSE
  OBVIOUS
<1>3. <<j, k>> \in Nat \X Nat /\ <<j, k>>[1] < <<j, k>>[2]
  BY <1>2
<1> QED
  BY <1>1, <1>3, Zenon DEF OpToRel

(* A bounded set of numbers that is not empty has a largest one.           *)
LEMMA LargestExists ==
  ASSUME NEW S \in SUBSET Nat, NEW n \in Nat, S # {}, \A i \in S : i <= n
  PROVE  \E i \in S : \A j \in S : j <= i
<1> DEFINE back == {n - i : i \in S}
<1>1. back \subseteq Nat /\ back # {}
  <2>1. \A i \in S : n - i \in Nat
    OBVIOUS
  <2> QED BY <2>1
<1>3. PICK k \in back : \A j \in back : k <= j
  <2> HIDE DEF back
  <2> QED
    BY <1>1, SmallestExists
<1>4. PICK i \in S : k = n - i
  OBVIOUS
<1>5. ASSUME NEW j \in S
      PROVE  j <= i
  <2>1. k <= n - j
    BY <1>3
  <2> QED BY <2>1, <1>4
<1> QED BY <1>5

(* A set of positions that is not empty has a greatest one.                *)
LEMMA SpanHasMax ==
  ASSUME NEW n \in Nat, NEW S \in SUBSET (1..n), S # {}
  PROVE  Max(S) \in S
<1>1. S \in SUBSET Nat /\ \A i \in S : i <= n
  OBVIOUS
<1>2. PICK m \in S : \A x \in S : x <= m
  BY <1>1, LargestExists
<1>3. \A x \in S : m >= x
  BY <1>1, <1>2
<1> QED BY <1>3 DEF Max

(* The maximum of a set of numbers that has one.                           *)
LEMMA MaxOfUpper ==
  ASSUME NEW S \in SUBSET Nat, NEW n \in S, \A x \in S : x <= n
  PROVE  Max(S) = n
<1>1. n \in S /\ \A y \in S : n >= y
  OBVIOUS
<1>2. PICK x : x = CHOOSE z \in S : \A y \in S : z >= y
  OBVIOUS
<1>3. x \in S /\ \A y \in S : x >= y
  BY <1>1, <1>2
<1>4. x = n
  BY <1>1, <1>3
<1> QED BY <1>2, <1>4 DEF Max

(* The memory grows by the decision that the proposal already has.         *)
LEMMA SaveMemoryStep ==
  ASSUME GovInv, NEW r \in Reviews, SaveMemory(r)
  PROVE  GovInv'
<1> USE NoRunIs DEF SaveMemory
<1>0. GovTypes
  BY DEF GovInv
<1>1. review[r] \in RunsOfReviews /\ review[r].of \in Claims /\ review[r].decision \in Decisions
  BY <1>0, ReviewHas DEF None
<1>2. PICK c \in Claims, d \in Decisions : c = review[r].of /\ d = review[r].decision
  BY <1>1
<1>3. /\ review' \in [Reviews -> {NoRun} \cup RunsOfReviews]
      /\ review'[r].at = "over"
      /\ \A s \in Reviews \ {r} : review'[s] = review[s]
  BY <1>0, <1>1 DEF GovTypes, RunsOfReviews
<1> DEFINE L == Len(memory)
<1>4. /\ memory \in Seq([of: Claims, decision: Decisions]) /\ L \in Nat
      /\ memory' \in Seq([of: Claims, decision: Decisions]) /\ Len(memory') = L + 1
      /\ \A i \in 1..L : memory'[i] = memory[i]
      /\ memory'[L + 1] = [of |-> c, decision |-> d]
  <2>1. [of |-> c, decision |-> d] \in [of: Claims, decision: Decisions]
    OBVIOUS
  <2>2. memory' = Append(memory, [of |-> c, decision |-> d])
    BY <1>2
  <2> QED BY <1>0, <2>1, <2>2, AppendProperties DEF GovTypes
<1> HIDE DEF L
<1>5. DOMAIN memory = 1..L /\ DOMAIN memory' = 1..(L + 1)
  BY <1>4 DEF L
<1>6. /\ \A x \in Claims \ {c} : Memories(x)' = Memories(x)
      /\ (Memories(c))' = Memories(c) \cup {L + 1}
      /\ \A x \in Claims : Memories(x) \subseteq 1..L
  BY <1>4, <1>5 DEF Memories
<1>7. GovTypes'
  BY <1>0, <1>3, <1>4 DEF GovTypes
<1>8. \A x \in Claims : Judged(x)'
  BY OthersJudged DEF GovInv
<1>9. /\ \A x \in Claims, s \in Reviews : Deciding(s, x)' <=> (Deciding(s, x) /\ s # r)
      /\ \A x \in Claims, s \in Reviews : About(s, x)' <=> (About(s, x) /\ s # r)
  BY <1>3 DEF Deciding, About
<1>10. proposal[c] # None
  BY <1>2 DEF GovInv, Untouched, About
<1>11. \A x \in Claims : Untouched(x)'
  BY <1>6, <1>9, <1>10 DEF GovInv, Untouched
<1>12. ASSUME NEW x \in Claims \ disturbed' PROVE Remembered(x)'
  <2>1. Remembered(x)
    BY <1>12 DEF GovInv
  <2>2. CASE x # c
    <3>1. ~Deciding(r, x)
      BY <1>2, <2>2 DEF Deciding
    <3>2. \A s \in Reviews : Deciding(s, x)' <=> Deciding(s, x)
      BY <1>9, <3>1
    <3>3. \A s \in Reviews : Deciding(s, x)' => proposal'[x] = review'[s].decision
      BY <1>3, <1>9, <2>1 DEF Remembered
    <3>4. (Memories(x))' = Memories(x) /\ Memories(x) \subseteq 1..L
      BY <1>6, <2>2
    <3>5. Memories(x) # {} => Max(Memories(x)) \in Memories(x)
      BY <1>4, <3>4, SpanHasMax
    <3>6. Memories(x) # {} => memory'[Max(Memories(x))] = memory[Max(Memories(x))]
      BY <1>4, <3>4, <3>5
    <3>7. \A s, t \in Reviews : About(s, x)' /\ About(t, x)' => s = t
      BY <1>9, <2>1 DEF Remembered
    <3>8. (\A s \in Reviews : ~Deciding(s, x)) =>
             IF Memories(x) = {} THEN proposal[x] \in {None, "proposed"}
             ELSE proposal[x] = memory'[Max(Memories(x))].decision
      BY <2>1, <3>6 DEF Remembered
    <3> QED BY <3>2, <3>3, <3>4, <3>7, <3>8 DEF Remembered
  <2>3. CASE x = c
    <3>1. Deciding(r, c) /\ proposal[c] = d
      BY <1>2, <2>1, <2>3 DEF Remembered, Deciding
    <3>2. \A s, t \in Reviews : About(s, c)' /\ About(t, c)' => s = t
      BY <1>9, <2>1, <2>3 DEF Remembered
    <3>3. \A s \in Reviews : Deciding(s, c)' => proposal'[c] = review'[s].decision
      BY <1>3, <1>9, <2>1, <2>3 DEF Remembered
    <3>4. (Memories(c))' # {} /\ Max((Memories(c))') = L + 1
      <4>1. \A i \in (Memories(c))' : i <= L + 1
        BY <1>4, <1>6
      <4>2. (Memories(c))' \in SUBSET Nat /\ L + 1 \in (Memories(c))'
        BY <1>4, <1>6
      <4> QED BY <4>1, <4>2, MaxOfUpper
    <3>5. proposal'[c] = memory'[Max((Memories(c))')].decision
      BY <1>4, <3>1, <3>4
    <3> QED BY <2>3, <3>2, <3>3, <3>4, <3>5 DEF Remembered
  <2> QED BY <2>2, <2>3
<1> QED BY <1>7, <1>8, <1>11, <1>12 DEF GovInv
(* A crash cuts the runs off, and gives up on what was half stored.        *)
LEMMA FallStep == ASSUME GovInv, Fall PROVE GovInv'
<1> USE NoRunIs DEF Fall
<1>0. GovTypes
  BY DEF GovInv
<1>1. ASSUME NEW c \in Claims
      PROVE  /\ claim'[c] \in {NoRun} \cup RunsOfClaims
             /\ \/ claim[c].at \in {None, "over"} /\ claim'[c] = claim[c]
                \/ /\ claim[c].at \notin {None, "over"} /\ claim'[c].at = "cut"
                   /\ claim'[c].facts = claim[c].facts /\ claim'[c].metrics = claim[c].metrics
  <2>1. claim'[c] = IF claim[c].at \in {None, "over"} THEN claim[c] ELSE [claim[c] EXCEPT !.at = "cut"]
    OBVIOUS
  <2>2. CASE claim[c].at \in {None, "over"}
    BY <1>0, <2>1, <2>2 DEF GovTypes
  <2>3. CASE claim[c].at \notin {None, "over"}
    <3>1. claim[c] \in RunsOfClaims
      BY <1>0, <2>3, ClaimHas
    <3> QED BY <2>1, <2>3, <3>1 DEF RunsOfClaims, Places
  <2> QED BY <2>2, <2>3
<1>2. ASSUME NEW r \in Reviews
      PROVE  /\ review'[r] \in {NoRun} \cup RunsOfReviews
             /\ review'[r].at \notin {"read", "decided"}
  <2>1. review'[r] = IF review[r].at \in {None, "over"} THEN review[r] ELSE [review[r] EXCEPT !.at = "cut"]
    OBVIOUS
  <2>2. CASE review[r].at \in {None, "over"}
    BY <1>0, <2>1, <2>2 DEF GovTypes, None
  <2>3. CASE review[r].at \notin {None, "over"}
    <3>1. review[r] \in RunsOfReviews
      BY <1>0, <2>3, ReviewHas
    <3> QED BY <2>1, <2>3, <3>1 DEF RunsOfReviews
  <2> QED BY <2>2, <2>3
<1>3. GovTypes'
  <2>1. claim' \in [Claims -> {NoRun} \cup RunsOfClaims]
    BY <1>1
  <2>2. review' \in [Reviews -> {NoRun} \cup RunsOfReviews]
    BY <1>2
  <2> QED BY <1>0, <2>1, <2>2 DEF GovTypes
<1>4. \A c \in Claims : Judged(c)'
  <2> SUFFICES ASSUME NEW c \in Claims PROVE Judged(c)'
    OBVIOUS
  <2>1. Judged(c)
    BY DEF GovInv
  <2>2. CASE claim'[c] = claim[c]
    BY <2>1, <2>2, OthersJudged
  <2>3. CASE /\ claim[c].at \notin {None, "over"} /\ claim'[c].at = "cut"
             /\ claim'[c].facts = claim[c].facts /\ claim'[c].metrics = claim[c].metrics
    BY <2>1, <2>3 DEF Judged, ScoreOf, None
  <2> QED BY <1>1, <2>2, <2>3
<1>5. /\ \A c \in Claims, r \in Reviews : ~About(r, c)' /\ ~Deciding(r, c)'
      /\ \A c \in Claims : (Memories(c))' = Memories(c)
  BY <1>2 DEF About, Deciding, Memories
<1>6. \A c \in Claims : Untouched(c)'
  BY <1>5 DEF GovInv, Untouched
<1>7. ASSUME NEW c \in Claims \ disturbed' PROVE Remembered(c)'
  <2>1. Remembered(c) /\ \A r \in Reviews : ~Deciding(r, c)
    BY <1>7 DEF GovInv, Deciding
  <2> QED BY <1>5, <2>1 DEF Remembered
<1> QED BY <1>3, <1>4, <1>6, <1>7 DEF GovInv

(* Every step of the governance service keeps the invariant.               *)
LEMMA GovStep == GovInv /\ [GovNext]_govVars => GovInv'
<1> SUFFICES ASSUME GovInv, [GovNext]_govVars PROVE GovInv'
  OBVIOUS
<1>1. CASE Measure
  <2> USE <1>1 DEF Measure
  <2>1. GovTypes
    BY DEF GovInv
  <2>2. measured' \in Measured
    <3>1. measured \in Measured
      BY <2>1 DEF GovTypes
    <3>2. CASE measured' = [measured EXCEPT !.right = @ + 1]
      BY <3>1, <3>2 DEF Measured
    <3>3. CASE measured' = [measured EXCEPT !.wrong = @ + 1]
      BY <3>1, <3>3 DEF Measured
    <3>4. CASE \E s \in Scores : measured' = [measured EXCEPT !.best = s]
      BY <3>1, <3>4 DEF Measured
    <3>5. CASE measured' = [measured EXCEPT !.shunned = ~@]
      BY <3>1, <3>5 DEF Measured
    <3> QED BY <3>2, <3>3, <3>4, <3>5
  <2>3. GovTypes'
    BY <2>1, <2>2 DEF GovTypes
  <2>4. \A c \in Claims : Judged(c)'
    BY OthersJudged DEF GovInv
  <2> QED BY <2>3, <2>4, ReviewsRest DEF GovInv
<1>2. CASE UNCHANGED govVars
  <2> USE <1>2 DEF govVars
  <2>1. GovTypes'
    BY DEF GovInv, GovTypes
  <2>2. \A c \in Claims : Judged(c)'
    BY OthersJudged DEF GovInv
  <2> QED BY <2>1, <2>2, ReviewsRest DEF GovInv
<1>3. ASSUME NEW c \in Claims,
             Submit(c) \/ SaveRecord(c) \/ SaveRisk(c) \/ SaveViolations(c) \/ Propose(c)
      PROVE  GovInv'
  BY <1>3, ClaimSteps, ProposeStep
<1>4. ASSUME NEW r \in Reviews, BeginReview(r) \/ SaveDecision(r) \/ SaveMemory(r)
      PROVE  GovInv'
  BY <1>4, BeginReviewStep, SaveDecisionStep, SaveMemoryStep
<1> QED BY <1>1, <1>2, <1>3, <1>4, FallStep DEF GovNext

(* The parts that judge a claim agree, for any scores and thresholds met:  *)
(* a claim of high risk is reviewed and blocks the gate, its preview said  *)
(* so, a worse one fares no better, and the decision is remembered.        *)
THEOREM ClaimsAreWellJudged == GovSpec => []ClaimsAreJudged
<1>1. GovInv => ClaimsAreJudged
  <2> SUFFICES ASSUME GovInv PROVE ClaimsAreJudged
    OBVIOUS
  <2> USE NoRunIs
  <2>1. GovTypes
    BY DEF GovInv
  <2>2. ASSUME NEW c \in Claims, record[c] # NoRecord
        PROVE  /\ claim[c].facts \in Facts /\ claim[c].metrics \in Measured
               /\ record[c].level = LevelOf(RiskScore(claim[c].facts, claim[c].metrics))
               /\ record[c].result = ResultOf(claim[c].facts, claim[c].metrics)
    <3>1. Judged(c)
      BY DEF GovInv
    <3>2. claim[c].at # None
      BY <2>2, <3>1 DEF Judged
    <3> QED BY <2>1, <2>2, <3>1, <3>2, ClaimHas DEF Judged, ScoreOf
  <2>3. HighRiskIsReviewed
    <3> SUFFICES ASSUME NEW c \in Claims, Grave(c), claim[c].at = "over" PROVE proposal[c] # None
      BY DEF HighRiskIsReviewed
    <3>1. record[c].result \in {"REVIEW_REQUIRED", "BLOCKED"}
      BY <2>2, HighIsReviewed DEF Grave
    <3> QED BY <3>1 DEF GovInv, Judged
  <2>4. HighRiskBlocksGate
    <3> SUFFICES ASSUME NEW c \in Claims, Grave(c), claim[c].at \in {"noted", "over"} PROVE Gate = "BLOCKED"
      BY DEF HighRiskBlocksGate
    <3>1. "blocking" \in violation[c]
      <4>1. PICK f \in Facts, m \in Measured : f = claim[c].facts /\ m = claim[c].metrics
        BY <2>2 DEF Grave
      <4>2. LevelOf(RiskScore(f, m)) \in {"HIGH", "CRITICAL"}
        BY <2>2, <4>1 DEF Grave
      <4>3. "blocking" \in Violated(f, m, LevelOf(RiskScore(f, m)), RiskScore(f, m))
        BY <4>2, HighIsReviewed
      <4>4. Judged(c)
        BY DEF GovInv
      <4>5. violation[c] = Violated(f, m, LevelOf(RiskScore(f, m)), RiskScore(f, m))
        BY <4>1, <4>4 DEF Judged, ScoreOf
      <4> QED BY <4>3, <4>5
    <3>2. "blocking" \in UNION {violation[d] : d \in Claims}
      BY <3>1
    <3> QED BY <3>2, RanksAre DEF Gate
  <2>5. PreviewForesees
    BY <2>2, PreviewIsMilder DEF PreviewForesees
  <2>6. WorseIsNotMilder
    BY <2>2, WorseClaims, WorsePredictions, WorseBenchmarks DEF WorseIsNotMilder
  <2>7. ReviewIsRemembered
    <3> SUFFICES ASSUME NEW c \in Claims \ disturbed, \A r \in Reviews : ~Deciding(r, c)
                 PROVE  IF Memories(c) = {} THEN proposal[c] \in {None, "proposed"}
                        ELSE proposal[c] = memory[Max(Memories(c))].decision
      BY DEF ReviewIsRemembered, Memories, Deciding
    <3> QED BY DEF GovInv, Remembered
  <2> QED BY <2>3, <2>4, <2>5, <2>6, <2>7 DEF ClaimsAreJudged
<1> QED BY <1>1, GovInit0, GovStep, PTL DEF GovSpec

-----------------------------------------------------------------------------
(* Patch.  What a diff's lines and the engine's notes are.                 *)
Words == Texts \cup {"header"}
LineOfDiff == [tag: {"header", "context", "removed", "added"}, text: Words, start: Nat, count: Nat]
Notes == [out: Seq(Words), cursor: Nat, inside: BOOLEAN, hunks: Nat, ok: BOOLEAN]

(* The fields of a line of a diff.                                         *)
LEMMA LineFields ==
  ASSUME NEW line \in LineOfDiff
  PROVE  /\ line.tag \in {"header", "context", "removed", "added"} /\ line.text \in Words
         /\ line.start \in Nat /\ line.count \in Nat /\ StartOf(line) \in Nat
<1>1. line.tag \in {"header", "context", "removed", "added"} /\ line.text \in Words
  BY DEF LineOfDiff
<1>2. line.start \in Nat /\ line.count \in Nat
  BY DEF LineOfDiff
<1>3. StartOf(line) \in Nat
  BY <1>2 DEF StartOf
<1> QED BY <1>1, <1>2, <1>3

(* The fields of the engine's notes.                                       *)
LEMMA NoteFields ==
  ASSUME NEW r \in Notes
  PROVE  /\ r.out \in Seq(Words) /\ r.cursor \in Nat /\ r.inside \in BOOLEAN
         /\ r.hunks \in Nat /\ r.ok \in BOOLEAN
<1>1. r.out \in Seq(Words)
  BY DEF Notes
<1>2. r.cursor \in Nat /\ r.hunks \in Nat
  BY DEF Notes
<1>3. r.inside \in BOOLEAN /\ r.ok \in BOOLEAN
  BY DEF Notes
<1> QED BY <1>1, <1>2, <1>3
(* Changed fields are what they were changed to: an inserted line,         *)
LEMMA NotesInserted ==
  ASSUME NEW r \in Notes, NEW o \in Seq(Words)
  PROVE  [r EXCEPT !.out = o] = 
           [out |-> o, cursor |-> r.cursor, inside |-> r.inside, hunks |-> r.hunks, ok |-> r.ok]
<1>1. PICK s : s = [r EXCEPT !.out = o]
  OBVIOUS
<1>2. s \in Notes
  BY <1>1 DEF Notes
<1>3. s.out = o /\ s.cursor = r.cursor /\ s.inside = r.inside /\ s.hunks = r.hunks /\ s.ok = r.ok
  BY <1>1 DEF Notes
<1>4. s = [out |-> s.out, cursor |-> s.cursor, inside |-> s.inside, hunks |-> s.hunks, ok |-> s.ok]
  BY <1>2 DEF Notes
<1> QED BY <1>1, <1>3, <1>4

(* a removed line,                                                         *)
LEMMA NotesRemoved ==
  ASSUME NEW r \in Notes, NEW c \in Nat
  PROVE  [r EXCEPT !.cursor = c] = 
           [out |-> r.out, cursor |-> c, inside |-> r.inside, hunks |-> r.hunks, ok |-> r.ok]
<1>1. PICK s : s = [r EXCEPT !.cursor = c]
  OBVIOUS
<1>2. s \in Notes
  BY <1>1 DEF Notes
<1>3. s.out = r.out /\ s.cursor = c /\ s.inside = r.inside /\ s.hunks = r.hunks /\ s.ok = r.ok
  BY <1>1 DEF Notes
<1>4. s = [out |-> s.out, cursor |-> s.cursor, inside |-> s.inside, hunks |-> s.hunks, ok |-> s.ok]
  BY <1>2 DEF Notes
<1> QED BY <1>1, <1>3, <1>4

(* a line of context,                                                      *)
LEMMA NotesKept ==
  ASSUME NEW r \in Notes, NEW o \in Seq(Words), NEW c \in Nat
  PROVE  [r EXCEPT !.out = o, !.cursor = c] = 
           [out |-> o, cursor |-> c, inside |-> r.inside, hunks |-> r.hunks, ok |-> r.ok]
<1>1. PICK s : s = [r EXCEPT !.out = o, !.cursor = c]
  OBVIOUS
<1>2. s \in Notes
  BY <1>1 DEF Notes
<1>3. s.out = o /\ s.cursor = c /\ s.inside = r.inside /\ s.hunks = r.hunks /\ s.ok = r.ok
  BY <1>1 DEF Notes
<1>4. s = [out |-> s.out, cursor |-> s.cursor, inside |-> s.inside, hunks |-> s.hunks, ok |-> s.ok]
  BY <1>2 DEF Notes
<1> QED BY <1>1, <1>3, <1>4

(* a header,                                                               *)
LEMMA NotesOpened ==
  ASSUME NEW r \in Notes, NEW o \in Seq(Words), NEW c \in Nat, NEW h \in Nat
  PROVE  [r EXCEPT !.out = o, !.cursor = c, !.inside = TRUE, !.hunks = h] = 
           [out |-> o, cursor |-> c, inside |-> TRUE, hunks |-> h, ok |-> r.ok]
<1>1. PICK s : s = [r EXCEPT !.out = o, !.cursor = c, !.inside = TRUE, !.hunks = h]
  OBVIOUS
<1>2. s \in Notes
  BY <1>1 DEF Notes
<1>3. s.out = o /\ s.cursor = c /\ s.inside = TRUE /\ s.hunks = h /\ s.ok = r.ok
  BY <1>1 DEF Notes
<1>4. s = [out |-> s.out, cursor |-> s.cursor, inside |-> s.inside, hunks |-> s.hunks, ok |-> s.ok]
  BY <1>2 DEF Notes
<1> QED BY <1>1, <1>3, <1>4

(* and a line that ends the hunk.                                          *)
LEMMA NotesLeft ==
  ASSUME NEW r \in Notes
  PROVE  [r EXCEPT !.inside = FALSE] = 
           [out |-> r.out, cursor |-> r.cursor, inside |-> FALSE, hunks |-> r.hunks, ok |-> r.ok]
<1>1. PICK s : s = [r EXCEPT !.inside = FALSE]
  OBVIOUS
<1>2. s \in Notes
  BY <1>1 DEF Notes
<1>3. s.out = r.out /\ s.cursor = r.cursor /\ s.inside = FALSE /\ s.hunks = r.hunks /\ s.ok = r.ok
  BY <1>1 DEF Notes
<1>4. s = [out |-> s.out, cursor |-> s.cursor, inside |-> s.inside, hunks |-> s.hunks, ok |-> s.ok]
  BY <1>2 DEF Notes
<1> QED BY <1>1, <1>3, <1>4

(* The notes to begin with, and those of a refused diff.                   *)
LEMMA ReaderNotes ==
  /\ Reader \in Notes
  /\ \A r \in Notes : Refused(r) \in Notes /\ ~Refused(r).ok
<1>1. << >> \in Seq(Words)
  OBVIOUS
<1>2. Reader \in Notes
  BY <1>1 DEF Reader, Notes
<1>3. ASSUME NEW r \in Notes PROVE Refused(r) \in Notes /\ ~Refused(r).ok
  <2>1. Refused(r) \in Notes
    BY DEF Refused, Notes
  <2>2. ~Refused(r).ok
    BY DEF Refused, Notes
  <2> QED BY <2>1, <2>2
<1> QED BY <1>2, <1>3

(* What lies between two places of a file are lines.                       *)
LEMMA PieceOfFile ==
  ASSUME NEW file \in Seq(Words), NEW i \in Nat, NEW j \in Nat, j <= Len(file)
  PROVE  /\ SubSeq(file, i + 1, j) \in Seq(Words)
         /\ Len(SubSeq(file, i + 1, j)) = (IF i < j THEN j - i ELSE 0)
         /\ \A k \in 1..(j - i) : SubSeq(file, i + 1, j)[k] = file[i + k]
<1>1. CASE i < j
  <2>1. i + 1 \in 1..(Len(file) + 1) /\ j \in i..Len(file)
    BY <1>1
  <2> QED BY <1>1, <2>1, SubSeqProperties
<1>2. CASE ~(i < j)
  <2>1. SubSeq(file, i + 1, j) = << >>
    BY <1>2
  <2> QED BY <1>2, <2>1
<1> QED BY <1>1, <1>2

(* A file's lines are words.                                               *)
LEMMA FileIsWords ==
  ASSUME NEW file \in Seq(Texts)
  PROVE  file \in Seq(Words)
<1>1. \A t \in Texts : t \in Words
  BY DEF Words
<1> QED BY <1>1

(* What is read so far and what lies between two places of the file.       *)
Copied(out, file, i, j) == out \o SubSeq(file, i + 1, j)

(* What is read and copied is again a file of words.                       *)
LEMMA CopiedWords ==
  ASSUME NEW out \in Seq(Words), NEW file \in Seq(Words), NEW i \in Nat, NEW j \in Nat, j <= Len(file)
  PROVE  Copied(out, file, i, j) \in Seq(Words)
<1>1. SubSeq(file, i + 1, j) \in Seq(Words)
  BY PieceOfFile
<1> QED BY <1>1, ConcatProperties DEF Copied

(* A header that is accepted, and one that is not.                         *)
LEMMA OpenedIs ==
  ASSUME NEW file \in Seq(Words), NEW r \in Notes, NEW line \in LineOfDiff
  PROVE  /\ Opened(file, r, line) \in Notes
         /\ Opened(file, r, line).ok => r.cursor <= StartOf(line) /\ StartOf(line) <= Len(file)
         /\ r.cursor <= StartOf(line) /\ StartOf(line) <= Len(file) =>
              Opened(file, r, line) =
                [out |-> Copied(r.out, file, r.cursor, StartOf(line)),
                 cursor |-> StartOf(line), inside |-> TRUE, hunks |-> r.hunks + 1, ok |-> r.ok]
<1>1. StartOf(line) \in Nat /\ r.cursor \in Nat /\ r.out \in Seq(Words) /\ r.hunks \in Nat /\ r.ok \in BOOLEAN
  BY LineFields, NoteFields
<1>2. CASE StartOf(line) < r.cursor \/ StartOf(line) > Len(file)
  <2>1. Opened(file, r, line) = Refused(r)
    BY <1>2 DEF Opened
  <2>2. ~(r.cursor <= StartOf(line) /\ StartOf(line) <= Len(file))
    BY <1>1, <1>2
  <2> QED BY <2>1, <2>2, ReaderNotes
<1>3. CASE ~(StartOf(line) < r.cursor \/ StartOf(line) > Len(file))
  <2>1. r.cursor <= StartOf(line) /\ StartOf(line) <= Len(file)
    BY <1>1, <1>3
  <2>2. PICK mid : mid = Copied(r.out, file, r.cursor, StartOf(line))
    OBVIOUS
  <2>3. mid \in Seq(Words)
    BY <1>1, <2>1, <2>2, CopiedWords
  <2>4. PICK s \in Nat : s = StartOf(line)
    BY <1>1
  <2>h. PICK h \in Nat : h = r.hunks + 1
    BY <1>1
  <2>5. Opened(file, r, line) = [r EXCEPT !.out = mid, !.cursor = s, !.inside = TRUE, !.hunks = h]
    BY <1>3, <2>2, <2>4, <2>h, Zenon DEF Opened, Copied
  <2>6. [r EXCEPT !.out = mid, !.cursor = s, !.inside = TRUE, !.hunks = h]
          = [out |-> mid, cursor |-> s, inside |-> TRUE, hunks |-> h, ok |-> r.ok]
    BY <2>3, NotesOpened
  <2>7. [out |-> mid, cursor |-> s, inside |-> TRUE, hunks |-> r.hunks + 1, ok |-> r.ok] \in Notes
    BY <1>1, <2>3, <2>4 DEF Notes
  <2> QED BY <2>1, <2>2, <2>4, <2>h, <2>5, <2>6, <2>7
<1> QED BY <1>2, <1>3

(* A line of a hunk: an insertion, or a line that must be there.           *)
LEMMA BodyIs ==
  ASSUME NEW file \in Seq(Words), NEW r \in Notes, NEW line \in LineOfDiff
  PROVE  /\ BodyRead(file, r, line) \in Notes
         /\ line.tag = "added" =>
              BodyRead(file, r, line) =
                [out |-> Append(r.out, line.text), cursor |-> r.cursor, inside |-> r.inside,
                 hunks |-> r.hunks, ok |-> r.ok]
         /\ line.tag # "added" /\ BodyRead(file, r, line).ok =>
              r.cursor < Len(file) /\ file[r.cursor + 1] = line.text
         /\ line.tag # "added" /\ r.cursor < Len(file) /\ file[r.cursor + 1] = line.text =>
              BodyRead(file, r, line) =
                [out |-> IF line.tag = "context" THEN Append(r.out, line.text) ELSE r.out,
                 cursor |-> r.cursor + 1, inside |-> r.inside, hunks |-> r.hunks, ok |-> r.ok]
<1>1. /\ r.cursor \in Nat /\ r.out \in Seq(Words) /\ r.hunks \in Nat /\ r.ok \in BOOLEAN /\ r.inside \in BOOLEAN
      /\ line.text \in Words
  BY LineFields, NoteFields
<1>2. PICK more \in Seq(Words) : more = Append(r.out, line.text)
  BY <1>1, AppendProperties
<1>3. PICK c \in Nat : c = r.cursor + 1
  BY <1>1
<1>4. /\ [r EXCEPT !.out = more]
           = [out |-> more, cursor |-> r.cursor, inside |-> r.inside, hunks |-> r.hunks, ok |-> r.ok]
      /\ [r EXCEPT !.out = more, !.cursor = c]
           = [out |-> more, cursor |-> c, inside |-> r.inside, hunks |-> r.hunks, ok |-> r.ok]
      /\ [r EXCEPT !.cursor = c]
           = [out |-> r.out, cursor |-> c, inside |-> r.inside, hunks |-> r.hunks, ok |-> r.ok]
  BY NotesInserted, NotesRemoved, NotesKept
<1>5. /\ [out |-> more, cursor |-> r.cursor, inside |-> r.inside, hunks |-> r.hunks, ok |-> r.ok] \in Notes
      /\ [out |-> more, cursor |-> c, inside |-> r.inside, hunks |-> r.hunks, ok |-> r.ok] \in Notes
      /\ [out |-> r.out, cursor |-> c, inside |-> r.inside, hunks |-> r.hunks, ok |-> r.ok] \in Notes
  BY <1>1, <1>2, <1>3 DEF Notes
<1>6. CASE line.tag = "added"
  <2>1. BodyRead(file, r, line) = [r EXCEPT !.out = more]
    BY <1>2, <1>6, Zenon DEF BodyRead
  <2> QED BY <1>2, <1>4, <1>5, <1>6, <2>1
<1>7. CASE line.tag # "added" /\ (r.cursor >= Len(file) \/ file[r.cursor + 1] # line.text)
  <2>1. BodyRead(file, r, line) = Refused(r)
    BY <1>7 DEF BodyRead
  <2>2. Refused(r) \in Notes /\ ~Refused(r).ok
    BY ReaderNotes
  <2>3. CASE file[r.cursor + 1] # line.text
    BY <1>7, <2>1, <2>2, <2>3
  <2>4. CASE r.cursor >= Len(file) /\ file[r.cursor + 1] = line.text
    <3>1. Len(file) \in Nat
      OBVIOUS
    <3>2. ~(r.cursor < Len(file))
      BY <1>1, <2>4, <3>1
    <3> QED BY <1>7, <2>1, <2>2, <3>2
  <2> QED BY <1>7, <2>3, <2>4
<1>8. CASE line.tag # "added" /\ ~(r.cursor >= Len(file) \/ file[r.cursor + 1] # line.text)
  <2>0. r.cursor < Len(file)
    BY <1>1, <1>8
  <2>1. CASE line.tag = "context"
    <3>1. BodyRead(file, r, line) = [r EXCEPT !.out = more, !.cursor = c]
      BY <1>2, <1>3, <1>8, <2>1, Zenon DEF BodyRead
    <3> QED BY <1>2, <1>3, <1>4, <1>5, <1>8, <2>0, <2>1, <3>1
  <2>2. CASE line.tag # "context"
    <3>1. BodyRead(file, r, line) = [r EXCEPT !.cursor = c]
      BY <1>3, <1>8, <2>2, Zenon DEF BodyRead
    <3> QED BY <1>3, <1>4, <1>5, <1>8, <2>0, <2>2, <3>1
  <2> QED BY <2>1, <2>2
<1> QED BY <1>6, <1>7, <1>8

(* One more line leaves notes, and a refused diff stays refused.           *)
LEMMA ReadLineNotes ==
  ASSUME NEW file \in Seq(Texts), NEW r \in Notes, NEW line \in LineOfDiff
  PROVE  /\ ReadLine(file, r, line) \in Notes
         /\ ReadLine(file, r, line).ok => r.ok
<1>1. Refused(r) \in Notes
  BY ReaderNotes
<1>2. Opened(file, r, line) \in Notes
  BY FileIsWords, OpenedIs
<1>3. BodyRead(file, r, line) \in Notes
  BY FileIsWords, BodyIs
<1>4. [r EXCEPT !.inside = FALSE] \in Notes
  BY DEF Notes
<1>5. ReadLine(file, r, line) \in Notes
  BY <1>1, <1>2, <1>3, <1>4 DEF ReadLine
<1>6. ~r.ok => ReadLine(file, r, line) = r
  BY DEF ReadLine
<1> QED BY <1>5, <1>6

(* Reading is well defined: the function that ReadUpTo stands for exists.  *)
LEMMA ReadUpToIs ==
  ASSUME NEW file, NEW diff \in Seq(LineOfDiff)
  PROVE  ReadUpTo(file, diff) =
           [n \in 0..Len(diff) |-> IF n = 0 THEN Reader
                                   ELSE ReadLine(file, ReadUpTo(file, diff)[n - 1], diff[n])]
<1> DEFINE IsRead(f, m) == f = [n \in 0..m |-> IF n = 0 THEN Reader ELSE ReadLine(file, f[n - 1], diff[n])]
           bad == {m \in Nat : ~ \E f : IsRead(f, m)}
<1>1. SUFFICES bad = {}
  <2>1. PICK f : IsRead(f, Len(diff))
    BY <1>1
  <2> QED BY <2>1, Zenon DEF ReadUpTo
<1>2. SUFFICES ASSUME bad # {} PROVE FALSE
  OBVIOUS
<1>3. PICK m \in bad : \A j \in bad : m <= j
  <2>1. bad \in SUBSET Nat
    OBVIOUS
  <2> HIDE DEF bad
  <2> QED BY <1>2, <2>1, SmallestExists
<1>4. CASE m = 0
  <2>1. IsRead([n \in 0..0 |-> Reader], 0)
    OBVIOUS
  <2> QED BY <1>4, <2>1
<1>5. CASE m # 0
  <2>1. m - 1 \in Nat /\ m - 1 \notin bad
    <3>1. m \in Nat
      OBVIOUS
    <3>2. m - 1 \in Nat /\ ~(m <= m - 1)
      BY <1>5, <3>1
    <3> HIDE DEF bad
    <3> QED BY <1>3, <3>2
  <2>2. PICK f : IsRead(f, m - 1)
    BY <2>1
  <2>3. PICK g : g = [n \in 0..m |-> IF n = m THEN ReadLine(file, f[m - 1], diff[m]) ELSE f[n]]
    OBVIOUS
  <2>4. \A n \in 0..(m - 1) : g[n] = f[n]
    BY <2>1, <2>3
  <2>5. IsRead(g, m)
    <3>1. ASSUME NEW n \in 0..m
          PROVE  g[n] = IF n = 0 THEN Reader ELSE ReadLine(file, g[n - 1], diff[n])
      <4>1. CASE n = m
        BY <1>5, <2>1, <2>3, <2>4, <4>1
      <4>2. CASE n # m
        <5>1. n \in 0..(m - 1) /\ (n # 0 => n - 1 \in 0..(m - 1))
          BY <1>5, <2>1, <4>2
        <5> QED BY <2>2, <2>4, <5>1
      <4> QED BY <4>1, <4>2
    <3> QED BY <2>3, <3>1
  <2> QED BY <2>5
<1> QED BY <1>4, <1>5

(* The notes after some lines, and their beginning.                        *)
LEMMA ReadUpToStarts ==
  ASSUME NEW file, NEW diff \in Seq(LineOfDiff)
  PROVE  /\ ReadUpTo(file, diff)[0] = Reader
         /\ \A n \in 1..Len(diff) :
              ReadUpTo(file, diff)[n] = ReadLine(file, ReadUpTo(file, diff)[n - 1], diff[n])
<1>1. PICK f : f = ReadUpTo(file, diff)
  OBVIOUS
<1>2. f = [n \in 0..Len(diff) |-> IF n = 0 THEN Reader ELSE ReadLine(file, f[n - 1], diff[n])]
  BY <1>1, ReadUpToIs
<1> QED BY <1>1, <1>2

(* They are notes, and nothing makes a refused diff good again.            *)
LEMMA ReadUpToNotes ==
  ASSUME NEW file \in Seq(Texts), NEW diff \in Seq(LineOfDiff)
  PROVE  \A n \in 0..Len(diff) :
           /\ ReadUpTo(file, diff)[n] \in Notes
           /\ ReadUpTo(file, diff)[n].ok => \A m \in 0..n : ReadUpTo(file, diff)[m].ok
<1>1. PICK f : f = ReadUpTo(file, diff)
  OBVIOUS
<1>2. f[0] = Reader /\ \A n \in 1..Len(diff) : f[n] = ReadLine(file, f[n - 1], diff[n])
  BY <1>1, ReadUpToStarts
<1> DEFINE Good(n) == f[n] \in Notes /\ (f[n].ok => \A m \in 0..n : f[m].ok)
           bad == {n \in 0..Len(diff) : ~Good(n)}
<1>3. SUFFICES ASSUME bad # {} PROVE FALSE
  BY <1>1
<1>4. PICK n \in bad : \A j \in bad : n <= j
  <2>1. bad \in SUBSET Nat
    OBVIOUS
  <2> HIDE DEF bad
  <2> QED BY <1>3, <2>1, SmallestExists
<1>5. CASE n = 0
  <2>1. Reader \in Notes
    BY ReaderNotes
  <2> QED BY <1>2, <1>5, <2>1
<1>6. CASE n # 0
  <2>1. n \in 1..Len(diff) /\ n - 1 \in 0..Len(diff) /\ n - 1 \notin bad
    BY <1>4, <1>6
  <2>2. Good(n - 1)
    BY <2>1
  <2>3. diff[n] \in LineOfDiff
    BY <2>1
  <2>4. f[n] \in Notes /\ (f[n].ok => f[n - 1].ok)
    BY <1>2, <2>1, <2>2, <2>3, ReadLineNotes
  <2>5. \A m \in 0..n : m = n \/ m \in 0..(n - 1)
    BY <2>1
  <2> QED BY <2>2, <2>4, <2>5
<1> QED BY <1>5, <1>6

(* Diffs whose first lines read alike leave the same notes.                *)
LEMMA ReadAlike ==
  ASSUME NEW file, NEW p \in Seq(LineOfDiff), NEW q \in Seq(LineOfDiff),
         NEW m \in Nat, m <= Len(p), m <= Len(q),
         \A i \in 1..m : \A r : ReadLine(file, r, p[i]) = ReadLine(file, r, q[i])
  PROVE  \A n \in 0..m : ReadUpTo(file, p)[n] = ReadUpTo(file, q)[n]
<1>1. PICK f, g : f = ReadUpTo(file, p) /\ g = ReadUpTo(file, q)
  OBVIOUS
<1>2. /\ f[0] = Reader /\ \A n \in 1..Len(p) : f[n] = ReadLine(file, f[n - 1], p[n])
      /\ g[0] = Reader /\ \A n \in 1..Len(q) : g[n] = ReadLine(file, g[n - 1], q[n])
  BY <1>1, ReadUpToStarts
<1> DEFINE bad == {n \in 0..m : f[n] # g[n]}
<1>3. SUFFICES ASSUME bad # {} PROVE FALSE
  BY <1>1
<1>4. PICK n \in bad : \A j \in bad : n <= j
  <2>1. bad \in SUBSET Nat
    OBVIOUS
  <2> HIDE DEF bad
  <2> QED BY <1>3, <2>1, SmallestExists
<1>5. n # 0
  BY <1>2, <1>4
<1>6. n \in 1..m /\ n - 1 \in 0..m /\ n - 1 \notin bad
  BY <1>4, <1>5
<1>7. f[n - 1] = g[n - 1]
  BY <1>6
<1>8. f[n] = ReadLine(file, f[n - 1], p[n]) /\ g[n] = ReadLine(file, g[n - 1], q[n])
  BY <1>2, <1>6
<1>9. f[n] = g[n]
  BY <1>6, <1>7, <1>8
<1> QED BY <1>4, <1>9

-----------------------------------------------------------------------------
(* The engine after a whole diff, and what the author's diff looks like.   *)
Read(file, p) == ReadUpTo(file, p)[Len(p)]
SameLine(a, b) == a.tag = b.tag /\ a.text = b.text /\ StartOf(a) = StartOf(b)
Hides(p) == \E i \in DOMAIN p : Skipped(p[i])
PointsAt(p, i) == p[i].tag = "header" /\ p[i].count = 0 /\ p[i].start > 0
FoundIn(file, cl) == \A c \in cl : c[1] <= Len(file) /\ file[c[1]] = c[2]

(* Lines that differ only in their counts are read alike.                  *)
LEMMA SameReads ==
  ASSUME NEW a, NEW b, SameLine(a, b)
  PROVE  /\ \A file, r : ReadLine(file, r, a) = ReadLine(file, r, b)
         /\ Skipped(a) <=> Skipped(b)
<1>1. a.tag = b.tag /\ a.text = b.text /\ StartOf(a) = StartOf(b)
  BY DEF SameLine
<1>2. Skipped(a) <=> Skipped(b)
  BY <1>1 DEF Skipped
<1>3. ASSUME NEW file, NEW r PROVE ReadLine(file, r, a) = ReadLine(file, r, b)
  <2>1. Opened(file, r, a) = Opened(file, r, b)
    BY <1>1, Zenon DEF Opened
  <2>2. BodyRead(file, r, a) = BodyRead(file, r, b)
    BY <1>1, Zenon DEF BodyRead
  <2> QED BY <1>1, <1>2, <2>1, <2>2, Zenon DEF ReadLine
<1> QED BY <1>2, <1>3

(* Two diffs that agree up to a line.                                      *)
AgreeUpTo(p, q, m) ==
  /\ p \in Seq(LineOfDiff) /\ q \in Seq(LineOfDiff) /\ m \in Nat /\ m <= Len(p) /\ m <= Len(q)
  /\ \A i \in 1..m : SameLine(p[i], q[i])

(* Two diffs that agree up to a line are read alike up to that line: what  *)
(* the engine notes there does not depend on what follows.                 *)
LEMMA AgreeRead ==
  ASSUME NEW p, NEW q, NEW m, AgreeUpTo(p, q, m), NEW file
  PROVE  \A n \in 0..m : ReadUpTo(file, p)[n] = ReadUpTo(file, q)[n]
<1>1. p \in Seq(LineOfDiff) /\ q \in Seq(LineOfDiff) /\ m \in Nat /\ m <= Len(p) /\ m <= Len(q)
  BY DEF AgreeUpTo
<1>2. \A i \in 1..m : \A r : ReadLine(file, r, p[i]) = ReadLine(file, r, q[i])
  BY SameReads DEF AgreeUpTo
<1> QED BY <1>1, <1>2, ReadAlike

(* A diff that grew by a line is read as it was, and then that line.       *)
LEMMA ReadGrown ==
  ASSUME NEW file, NEW p \in Seq(LineOfDiff), NEW q \in Seq(LineOfDiff), Len(q) = Len(p) + 1,
         \A i \in 1..Len(p) : SameLine(p[i], q[i])
  PROVE  /\ \A n \in 0..Len(p) : ReadUpTo(file, q)[n] = ReadUpTo(file, p)[n]
         /\ Read(file, q) = ReadLine(file, Read(file, p), q[Len(p) + 1])
         /\ ~Hides(q) => ~Hides(p) /\ ~Skipped(q[Len(p) + 1])
<1>1. Len(p) \in Nat /\ Len(p) <= Len(q) /\ Len(p) + 1 \in 1..Len(q) /\ Len(p) + 1 - 1 = Len(p)
  OBVIOUS
<1>2. \A i \in 1..Len(p) : \A r : ReadLine(file, r, p[i]) = ReadLine(file, r, q[i])
  BY SameReads
<1>3. \A n \in 0..Len(p) : ReadUpTo(file, p)[n] = ReadUpTo(file, q)[n]
  BY <1>1, <1>2, ReadAlike
<1>4. ReadUpTo(file, q)[Len(p) + 1] = ReadLine(file, ReadUpTo(file, q)[Len(p)], q[Len(p) + 1])
  BY <1>1, ReadUpToStarts
<1>5. Read(file, q) = ReadLine(file, Read(file, p), q[Len(p) + 1])
  BY <1>1, <1>3, <1>4 DEF Read
<1>6. \A i \in 1..Len(p) : i \in DOMAIN q /\ (Skipped(p[i]) => Skipped(q[i]))
  BY <1>1, SameReads
<1>7. ~Hides(q) => ~Hides(p) /\ ~Skipped(q[Len(p) + 1])
  BY <1>1, <1>6 DEF Hides
<1> QED BY <1>3, <1>5, <1>7

(* Adding the next line to a piece of a file.                              *)
LEMMA PieceGrows ==
  ASSUME NEW file \in Seq(Words), NEW i \in Nat, NEW j \in Nat, i <= j, j < Len(file),
         NEW out \in Seq(Words)
  PROVE  Copied(out, file, i, j + 1) = Append(Copied(out, file, i, j), file[j + 1])
<1>0. Len(file) \in Nat /\ j <= Len(file) /\ j + 1 \in Nat /\ j + 1 <= Len(file) /\ Len(out) \in Nat
  OBVIOUS
<1>1. PICK s \in Seq(Words) : s = SubSeq(file, i + 1, j)
  BY <1>0, PieceOfFile
<1>2. PICK t \in Seq(Words) : t = SubSeq(file, i + 1, j + 1)
  BY <1>0, PieceOfFile
<1>3. Len(s) = j - i /\ \A k \in 1..(j - i) : s[k] = file[i + k]
  <2>1. Len(s) = (IF i < j THEN j - i ELSE 0)
    BY <1>0, <1>1, PieceOfFile
  <2>2. \A k \in 1..(j - i) : s[k] = file[i + k]
    BY <1>0, <1>1, PieceOfFile
  <2> QED BY <2>1, <2>2
<1>4. Len(t) = j + 1 - i /\ \A k \in 1..(j + 1 - i) : t[k] = file[i + k]
  <2>1. Len(t) = (IF i < j + 1 THEN j + 1 - i ELSE 0)
    BY <1>0, <1>2, PieceOfFile
  <2>2. \A k \in 1..(j + 1 - i) : t[k] = file[i + k]
    BY <1>0, <1>2, PieceOfFile
  <2> QED BY <2>1, <2>2
<1>5. PICK x \in Words : x = file[j + 1]
  OBVIOUS
<1>6. PICK long \in Seq(Words) : long = out \o t
  BY ConcatProperties
<1>7. Len(long) = Len(out) + Len(t) /\ \A k \in 1..Len(long) :
        long[k] = IF k <= Len(out) THEN out[k] ELSE t[k - Len(out)]
  BY <1>6, ConcatProperties
<1>8. PICK short \in Seq(Words) : short = out \o s
  BY ConcatProperties
<1>9. Len(short) = Len(out) + Len(s) /\ \A k \in 1..Len(short) :
        short[k] = IF k <= Len(out) THEN out[k] ELSE s[k - Len(out)]
  BY <1>8, ConcatProperties
<1>10. PICK other \in Seq(Words) : other = Append(short, x)
  BY AppendProperties
<1>11. /\ Len(other) = Len(short) + 1 /\ other[Len(short) + 1] = x
       /\ \A k \in 1..Len(short) : other[k] = short[k]
  BY <1>10, AppendProperties
<1>12. Len(other) = Len(long)
  <2>1. Len(s) = j - i /\ Len(t) = j + 1 - i
    BY <1>3, <1>4
  <2>2. Len(long) = Len(out) + Len(t) /\ Len(short) = Len(out) + Len(s) /\ Len(other) = Len(short) + 1
    BY <1>7, <1>9, <1>11
  <2> QED BY <1>0, <2>1, <2>2
<1>13. ASSUME NEW k \in 1..Len(long) PROVE long[k] = other[k]
  <2>1. CASE k <= Len(out)
    <3>1. k \in 1..Len(short)
      BY <1>3, <1>9, <2>1
    <3> QED BY <1>7, <1>9, <1>11, <2>1, <3>1
  <2>2. CASE ~(k <= Len(out)) /\ k # Len(long)
    <3>0. Len(short) = Len(out) + (j - i) /\ Len(long) = Len(out) + (j + 1 - i)
      BY <1>3, <1>4, <1>7, <1>9
    <3>1. k \in 1..Len(short) /\ k - Len(out) \in 1..(j - i) /\ k - Len(out) \in 1..(j + 1 - i)
      <4>1. PICK lo \in Nat, d \in Nat : lo = Len(out) /\ d = j - i
        BY <1>0
      <4>2. k \in 1..(lo + d + 1) /\ k # lo + d + 1 /\ ~(k <= lo)
        <5>1. Len(long) = lo + d + 1
          BY <3>0, <4>1
        <5>2. k # Len(long) /\ ~(k <= lo)
          BY <2>2, <4>1
        <5> QED BY <5>1, <5>2
      <4>3. k \in 1..(lo + d) /\ k - lo \in 1..d /\ k - lo \in 1..(d + 1)
        BY <4>1, <4>2
      <4>4. j + 1 - i = d + 1 /\ Len(short) = lo + d
        BY <3>0, <4>1
      <4> QED BY <4>1, <4>3, <4>4
    <3> QED BY <1>3, <1>4, <1>7, <1>9, <1>11, <2>2, <3>1
  <2>3. CASE k = Len(long)
    <3>1. /\ k = Len(short) + 1 /\ k - Len(out) = j + 1 - i /\ i + (j + 1 - i) = j + 1
          /\ j + 1 - i \in 1..(j + 1 - i) /\ ~(k <= Len(out))
      BY <1>3, <1>4, <1>7, <1>9, <2>3
    <3>2. long[k] = t[j + 1 - i] /\ t[j + 1 - i] = file[j + 1]
      BY <1>4, <1>7, <3>1
    <3> QED BY <1>5, <1>11, <3>1, <3>2
  <2> QED BY <2>1, <2>2, <2>3
<1>14. long = other
  BY <1>12, <1>13, SeqEqual
<1>15. Copied(out, file, i, j + 1) = long /\ Copied(out, file, i, j) = short
  BY <1>1, <1>2, <1>6, <1>8, Zenon DEF Copied
<1> QED BY <1>5, <1>10, <1>14, <1>15

-----------------------------------------------------------------------------
(* The inductive invariant.  The engine, having read the diff so far on the *)
(* file it was made for, stands where the author stands and has the file   *)
(* the author has so far; on any other file it stands there too, or has    *)
(* refused, and what it did not refuse has every line the diff claims.     *)
Settled(p, h) == IF h # 0 /\ p[h].count = 0 THEN h - 1 ELSE Len(p)

DiffShape(o, p, w, a, h) ==
  /\ o \in Seq(Words) /\ p \in Seq(LineOfDiff) /\ w \in Seq(Words)
  /\ a \in 0..Len(o) /\ h \in 0..Len(p)
  /\ h # 0 => p[h].tag = "header" /\ (p[h].count = 0 => p[h].start = a + 1)

Reproduces(o, p, w, a, h) ==
  ~Hides(p) /\ (\A i \in DOMAIN p : PointsAt(p, i) => i = h) =>
    /\ Read(o, p).ok /\ (p # << >> => Read(o, p).hunks > 0)
    /\ h # 0 => Read(o, p).inside /\ Read(o, p).cursor = a /\ Read(o, p).out = w
    /\ h = 0 => /\ Read(o, p).cursor <= a
                /\ Copied(Read(o, p).out, o, Read(o, p).cursor, a) = w

Verifies(file, p, a, h, cl) ==
  ~Hides(p) =>
    /\ Read(file, p).ok /\ h # 0 => Read(file, p).inside /\ Read(file, p).cursor = a
    /\ ReadUpTo(file, p)[Settled(p, h)].ok => FoundIn(file, cl)

(* The author passes a line between the hunks.                             *)
LEMMA PassReproduces ==
  ASSUME NEW o, NEW p, NEW w, NEW a, DiffShape(o, p, w, a, 0), a < Len(o), o \in Seq(Texts),
         Reproduces(o, p, w, a, 0)
  PROVE  Reproduces(o, p, Append(w, o[a + 1]), a + 1, 0)
<1>1. o \in Seq(Words) /\ p \in Seq(LineOfDiff) /\ a \in Nat /\ a + 1 \in Nat /\ w \in Seq(Words)
  BY DEF DiffShape
<1>2. PICK r \in Notes : r = Read(o, p)
  BY <1>1, ReadUpToNotes DEF Read
<1>3. r.cursor \in Nat /\ r.out \in Seq(Words)
  BY NoteFields
<1>4. r.cursor <= a =>
        Copied(r.out, o, r.cursor, a + 1) = Append(Copied(r.out, o, r.cursor, a), o[a + 1])
  BY <1>1, <1>3, PieceGrows
<1>5. r.cursor <= a => r.cursor <= a + 1
  BY <1>1, <1>3
<1> QED BY <1>2, <1>4, <1>5 DEF Reproduces

(* A new hunk's header takes the engine to where the author is.            *)
LEMMA HeaderRead ==
  ASSUME NEW file \in Seq(Words), NEW r \in Notes, NEW a \in Nat, NEW line \in LineOfDiff,
         line.tag = "header", line.start = a + 1, r.ok
  PROVE  /\ StartOf(line) = a
         /\ ReadLine(file, r, line).ok => ReadLine(file, r, line).inside /\ ReadLine(file, r, line).cursor = a
         /\ r.cursor <= a /\ a <= Len(file) =>
              /\ ReadLine(file, r, line).out = Copied(r.out, file, r.cursor, a)
              /\ ReadLine(file, r, line).hunks = r.hunks + 1 /\ ReadLine(file, r, line).ok
<1>1. StartOf(line) = a
  BY DEF StartOf
<1>2. ReadLine(file, r, line) = Opened(file, r, line)
  BY DEF ReadLine
<1>3. r.ok = TRUE
  BY NoteFields
<1>4. ASSUME r.cursor <= a, a <= Len(file)
      PROVE  /\ Opened(file, r, line).out = Copied(r.out, file, r.cursor, a)
             /\ Opened(file, r, line).hunks = r.hunks + 1 /\ Opened(file, r, line).ok
             /\ Opened(file, r, line).inside /\ Opened(file, r, line).cursor = a
  <2>1. Opened(file, r, line) =
          [out |-> Copied(r.out, file, r.cursor, StartOf(line)), cursor |-> StartOf(line),
           inside |-> TRUE, hunks |-> r.hunks + 1, ok |-> r.ok]
    BY <1>1, <1>4, OpenedIs
  <2> QED BY <1>1, <1>3, <2>1
<1>5. Opened(file, r, line).ok => r.cursor <= a /\ a <= Len(file)
  BY <1>1, OpenedIs
<1>6. ASSUME Opened(file, r, line).ok
      PROVE  Opened(file, r, line).inside /\ Opened(file, r, line).cursor = a
  BY <1>4, <1>5, <1>6
<1> QED BY <1>1, <1>2, <1>4, <1>6, Zenon

(* Headers and bodies are lines of a diff.                                 *)
LEMMA HeaderLine ==
  ASSUME NEW n \in Nat
  PROVE  /\ Header(n, 0) \in LineOfDiff /\ Header(n, 0).tag = "header" /\ Header(n, 0).start = n
         /\ Header(n, 0).count = 0
<1>1. "header" \in Words
  BY DEF Words
<1> QED BY <1>1 DEF Header, LineOfDiff

(* Bodies of each of the three kinds are lines of a diff.                  *)
LEMMA BodyLine ==
  ASSUME NEW tag \in {"context", "removed", "added"}, NEW text \in Words
  PROVE  Body(tag, text) \in LineOfDiff /\ Body(tag, text).tag = tag /\ Body(tag, text).text = text
BY DEF Body, LineOfDiff

(* The author opens a hunk.                                                *)
LEMMA OpenSound ==
  ASSUME NEW o, NEW p, NEW w, NEW a, NEW cl, DiffShape(o, p, w, a, 0), o \in Seq(Texts),
         NEW q, q = Append(p, Header(a + 1, 0)), NEW file \in Seq(Texts)
  PROVE  /\ DiffShape(o, q, w, a, Len(p) + 1)
         /\ Reproduces(o, p, w, a, 0) => Reproduces(o, q, w, a, Len(p) + 1)
         /\ Verifies(file, p, a, 0, cl) => Verifies(file, q, a, Len(p) + 1, cl)
<1>1. /\ o \in Seq(Words) /\ p \in Seq(LineOfDiff) /\ a \in Nat /\ w \in Seq(Words) /\ a <= Len(o)
      /\ a + 1 \in Nat /\ a \in 0..Len(o)
  BY DEF DiffShape
<1>3. PICK line \in LineOfDiff : /\ line = Header(a + 1, 0)
                                 /\ line.tag = "header" /\ line.start = a + 1 /\ line.count = 0
  BY <1>1, HeaderLine
<1>4. q = Append(p, line)
  BY <1>3
<1>5. /\ q \in Seq(LineOfDiff) /\ Len(q) = Len(p) + 1 /\ q[Len(p) + 1] = line
      /\ \A i \in 1..Len(p) : q[i] = p[i]
  BY <1>1, <1>4, AppendProperties
<1>6. \A i \in 1..Len(p) : SameLine(p[i], q[i])
  BY <1>5 DEF SameLine
<1>7. Len(p) + 1 \in 0..Len(q) /\ Len(p) + 1 # 0 /\ Len(p) \in 0..Len(p) /\ Len(p) + 1 - 1 = Len(p)
  BY <1>1, <1>5
<1>8. DiffShape(o, q, w, a, Len(p) + 1)
  BY <1>1, <1>3, <1>5, <1>7 DEF DiffShape
<1>9. ASSUME NEW f \in Seq(Texts)
      PROVE  /\ Read(f, p) \in Notes
             /\ Read(f, q) = ReadLine(f, Read(f, p), line)
             /\ ReadUpTo(f, q)[Len(p)] = Read(f, p)
             /\ ~Hides(q) => ~Hides(p)
             /\ Read(f, q).ok => Read(f, p).ok
  <2>1. Read(f, p) \in Notes
    BY <1>1, <1>7, ReadUpToNotes DEF Read
  <2>2. Read(f, q) = ReadLine(f, Read(f, p), line)
    BY <1>1, <1>5, <1>6, ReadGrown
  <2>3. ReadUpTo(f, q)[Len(p)] = Read(f, p) /\ (~Hides(q) => ~Hides(p))
    BY <1>1, <1>5, <1>6, <1>7, ReadGrown DEF Read
  <2> QED BY <2>1, <2>2, <2>3, ReadLineNotes
<1>10. ASSUME Reproduces(o, p, w, a, 0), ~Hides(q), \A i \in DOMAIN q : PointsAt(q, i) => i = Len(p) + 1
       PROVE  /\ Read(o, q).ok /\ Read(o, q).hunks > 0
              /\ Read(o, q).inside /\ Read(o, q).cursor = a /\ Read(o, q).out = w
  <2>1. PICK r \in Notes : r = Read(o, p)
    BY <1>9
  <2>2. ASSUME NEW i \in DOMAIN p, PointsAt(p, i) PROVE FALSE
    <3>1. i \in 1..Len(p) /\ i \in DOMAIN q /\ i # Len(p) + 1
      BY <1>1, <1>5
    <3>2. PointsAt(q, i)
      BY <1>5, <2>2, <3>1 DEF PointsAt
    <3> QED BY <1>10, <3>1, <3>2
  <2>3. r.ok /\ r.cursor <= a /\ Copied(r.out, o, r.cursor, a) = w
    BY <1>9, <1>10, <2>1, <2>2 DEF Reproduces
  <2>4. /\ r.ok /\ r.cursor <= a /\ a <= Len(o) /\ line.tag = "header" /\ line.start = a + 1
        /\ Read(o, q) = ReadLine(o, r, line)
    BY <1>1, <1>3, <1>9, <2>1, <2>3
  <2>5. PICK s : s = ReadLine(o, r, line)
    OBVIOUS
  <2>6. s.ok /\ s.hunks = r.hunks + 1 /\ s.out = Copied(r.out, o, r.cursor, a) /\ s.inside /\ s.cursor = a
    BY <1>1, <2>4, <2>5, HeaderRead
  <2>7. s.hunks > 0
    BY <2>6, NoteFields
  <2> QED BY <2>3, <2>4, <2>5, <2>6, <2>7
<1>11. Reproduces(o, p, w, a, 0) => Reproduces(o, q, w, a, Len(p) + 1)
  BY <1>7, <1>10 DEF Reproduces
<1>12. ASSUME Verifies(file, p, a, 0, cl), ~Hides(q)
       PROVE  /\ Read(file, q).ok => Read(file, q).inside /\ Read(file, q).cursor = a
              /\ ReadUpTo(file, q)[Settled(q, Len(p) + 1)].ok => FoundIn(file, cl)
  <2>1. PICK r \in Notes : r = Read(file, p)
    BY <1>9
  <2>2. ASSUME Read(file, q).ok PROVE Read(file, q).inside /\ Read(file, q).cursor = a
    <3>1. r.ok /\ Read(file, q) = ReadLine(file, r, line) /\ file \in Seq(Words)
      BY <1>9, <2>1, <2>2, FileIsWords
    <3>2. ReadLine(file, r, line).ok => ReadLine(file, r, line).inside /\ ReadLine(file, r, line).cursor = a
      BY <1>1, <1>3, <3>1, HeaderRead
    <3> QED BY <2>2, <3>1, <3>2
  <2>3. Settled(q, Len(p) + 1) = Len(p) /\ Settled(p, 0) = Len(p)
    <3>1. q[Len(p) + 1].count = 0
      BY <1>3, <1>5
    <3>2. Settled(q, Len(p) + 1) = Len(p)
      <4>1. PICK k : k = Len(p) + 1
        OBVIOUS
      <4>2. k # 0 /\ k - 1 = Len(p) /\ q[k].count = 0
        BY <1>7, <3>1, <4>1
      <4> QED BY <4>1, <4>2 DEF Settled
    <3>3. Settled(p, 0) = Len(p)
      BY DEF Settled
    <3> QED BY <1>7, <3>2, <3>3
  <2>4. ReadUpTo(file, q)[Len(p)] = ReadUpTo(file, p)[Len(p)]
    BY <1>9 DEF Read
  <2> QED BY <1>9, <1>12, <2>2, <2>3, <2>4 DEF Verifies
<1>13. Verifies(file, p, a, 0, cl) => Verifies(file, q, a, Len(p) + 1, cl)
  BY <1>12 DEF Verifies
<1> QED BY <1>8, <1>11, <1>13

(* A line of context or a removal, read where the author wrote it.         *)
LEMMA OldLineRead ==
  ASSUME NEW file \in Seq(Words), NEW r \in Notes, NEW line \in LineOfDiff,
         line.tag \in {"context", "removed"}, ~Skipped(line), r.ok, r.inside
  PROVE  /\ ReadLine(file, r, line).ok =>
              /\ r.cursor < Len(file) /\ file[r.cursor + 1] = line.text
              /\ ReadLine(file, r, line).inside /\ ReadLine(file, r, line).cursor = r.cursor + 1
         /\ r.cursor < Len(file) /\ file[r.cursor + 1] = line.text =>
              /\ ReadLine(file, r, line).ok /\ ReadLine(file, r, line).inside
              /\ ReadLine(file, r, line).hunks = r.hunks
              /\ ReadLine(file, r, line).cursor = r.cursor + 1
              /\ line.tag = "context" => ReadLine(file, r, line).out = Append(r.out, line.text)
              /\ line.tag = "removed" => ReadLine(file, r, line).out = r.out
<1>1. line.tag # "header" /\ line.tag # "added"
  OBVIOUS
<1>2. ReadLine(file, r, line) = BodyRead(file, r, line)
  BY <1>1 DEF ReadLine
<1>3. PICK s : s = BodyRead(file, r, line)
  OBVIOUS
<1>4. s.ok => r.cursor < Len(file) /\ file[r.cursor + 1] = line.text
  BY <1>1, <1>3, BodyIs
<1>5. ASSUME r.cursor < Len(file), file[r.cursor + 1] = line.text
      PROVE  /\ s.ok /\ s.inside /\ s.hunks = r.hunks /\ s.cursor = r.cursor + 1
             /\ s.out = IF line.tag = "context" THEN Append(r.out, line.text) ELSE r.out
  <2>1. s = [out |-> IF line.tag = "context" THEN Append(r.out, line.text) ELSE r.out,
             cursor |-> r.cursor + 1, inside |-> r.inside, hunks |-> r.hunks, ok |-> r.ok]
    BY <1>1, <1>3, <1>5, BodyIs
  <2> QED BY <2>1
<1> QED BY <1>2, <1>3, <1>4, <1>5

(* An insertion, read anywhere in a hunk.                                  *)
LEMMA InsertionRead ==
  ASSUME NEW file \in Seq(Words), NEW r \in Notes, NEW line \in LineOfDiff,
         line.tag = "added", r.ok, r.inside
  PROVE  /\ ReadLine(file, r, line).ok /\ ReadLine(file, r, line).inside
         /\ ReadLine(file, r, line).hunks = r.hunks /\ ReadLine(file, r, line).cursor = r.cursor
         /\ ReadLine(file, r, line).out = Append(r.out, line.text)
<1>1. ReadLine(file, r, line) = BodyRead(file, r, line)
  BY DEF ReadLine, Skipped
<1>2. BodyRead(file, r, line) =
        [out |-> Append(r.out, line.text), cursor |-> r.cursor, inside |-> r.inside,
         hunks |-> r.hunks, ok |-> r.ok]
  BY BodyIs
<1> QED BY <1>1, <1>2

(* A diff that grew inside its open hunk.                                  *)
Grows(p, q, h) ==
  /\ p \in Seq(LineOfDiff) /\ q \in Seq(LineOfDiff) /\ h \in 1..Len(p) /\ Len(q) = Len(p) + 1
  /\ \A i \in 1..Len(p) : SameLine(p[i], q[i]) /\ (i # h => q[i] = p[i])

(* The engine reads the grown diff as it read the old one, and then the    *)
(* new line: the only header that changed counts one line more.            *)
LEMMA GrownInHunk ==
  ASSUME NEW p, NEW q, NEW h, Grows(p, q, h), NEW file \in Seq(Texts)
  PROVE  /\ Read(file, p) \in Notes
         /\ Read(file, q) = ReadLine(file, Read(file, p), q[Len(p) + 1])
         /\ q[Len(p) + 1] \in LineOfDiff
         /\ Read(file, q).ok => Read(file, p).ok
         /\ \A n \in 0..Len(p) : /\ ReadUpTo(file, q)[n] = ReadUpTo(file, p)[n]
                                 /\ ReadUpTo(file, q)[n].ok => \A m \in 0..n : ReadUpTo(file, p)[m].ok
         /\ Read(file, q).ok => ReadUpTo(file, p)[Settled(p, h)].ok
         /\ ~Hides(q) => ~Hides(p) /\ ~Skipped(q[Len(p) + 1])
         /\ (\A i \in DOMAIN q : PointsAt(q, i) => i = h) => (\A i \in DOMAIN p : PointsAt(p, i) => i = h)
         /\ p # << >> /\ q # << >>
<1>0. /\ p \in Seq(LineOfDiff) /\ q \in Seq(LineOfDiff) /\ h \in 1..Len(p) /\ Len(q) = Len(p) + 1
      /\ \A i \in 1..Len(p) : SameLine(p[i], q[i])
      /\ \A i \in 1..Len(p) : i # h => q[i] = p[i]
  BY DEF Grows
<1>1. Len(p) \in 0..Len(p) /\ Len(p) + 1 \in 1..Len(q) /\ Len(p) \in Nat /\ h - 1 \in 0..Len(p)
  BY <1>0
<1>2. Read(file, p) \in Notes
  BY <1>0, <1>1, ReadUpToNotes DEF Read
<1>3. q[Len(p) + 1] \in LineOfDiff
  BY <1>0, <1>1
<1>4. Read(file, q) = ReadLine(file, Read(file, p), q[Len(p) + 1])
  BY <1>0, ReadGrown
<1>5. Read(file, q).ok => Read(file, p).ok
  BY <1>2, <1>3, <1>4, ReadLineNotes
<1>6. \A n \in 0..Len(p) : ReadUpTo(file, q)[n] = ReadUpTo(file, p)[n]
  BY <1>0, ReadGrown
<1>7. \A n \in 0..Len(p) : ReadUpTo(file, p)[n].ok => \A m \in 0..n : ReadUpTo(file, p)[m].ok
  BY <1>0, ReadUpToNotes
<1>8. Settled(p, h) \in 0..Len(p)
  BY <1>0, <1>1 DEF Settled
<1>9. Read(file, q).ok => ReadUpTo(file, p)[Settled(p, h)].ok
  BY <1>1, <1>5, <1>7, <1>8 DEF Read
<1>10. ~Hides(q) => ~Hides(p) /\ ~Skipped(q[Len(p) + 1])
  BY <1>0, ReadGrown
<1>11. ASSUME \A i \in DOMAIN q : PointsAt(q, i) => i = h, NEW i \in DOMAIN p, PointsAt(p, i), i # h
       PROVE  FALSE
  <2>1. i \in 1..Len(p) /\ i \in DOMAIN q
    BY <1>0, <1>1
  <2>2. PointsAt(q, i)
    BY <1>0, <1>11, <2>1 DEF PointsAt
  <2> QED BY <1>11, <2>1, <2>2
<1>12. p # << >> /\ q # << >>
  BY <1>0, <1>1
<1> QED BY <1>2, <1>3, <1>4, <1>5, <1>6, <1>7, <1>9, <1>10, <1>11, <1>12

(* A header that counts one more line.                                     *)
LEMMA CountedLine ==
  ASSUME NEW l \in LineOfDiff
  PROVE  /\ [l EXCEPT !.count = l.count + 1] \in LineOfDiff
         /\ [l EXCEPT !.count = l.count + 1].count # 0
         /\ [l EXCEPT !.count = l.count + 1].tag = l.tag
         /\ SameLine(l, [l EXCEPT !.count = l.count + 1])
<1>1. [l EXCEPT !.count = l.count + 1] \in LineOfDiff
  BY DEF LineOfDiff
<1>2. /\ [l EXCEPT !.count = l.count + 1].tag = l.tag
      /\ [l EXCEPT !.count = l.count + 1].text = l.text
      /\ [l EXCEPT !.count = l.count + 1].start = l.start
      /\ [l EXCEPT !.count = l.count + 1].count = l.count + 1
  BY DEF LineOfDiff
<1>3. [l EXCEPT !.count = l.count + 1].count # 0
  BY <1>2, LineFields
<1>4. SameLine(l, [l EXCEPT !.count = l.count + 1])
  BY <1>2 DEF SameLine, StartOf
<1> QED BY <1>1, <1>2, <1>3, <1>4

(* A diff with one line replaced.                                          *)
Replaced(b, h, c) == [b EXCEPT ![h] = c]

(* The other lines stay as they are.                                       *)
LEMMA LineReplaced ==
  ASSUME NEW b \in Seq(LineOfDiff), NEW h \in 1..Len(b), NEW c \in LineOfDiff
  PROVE  \E q \in Seq(LineOfDiff) :
           /\ q = Replaced(b, h, c) /\ Len(q) = Len(b) /\ q[h] = c
           /\ \A j \in 1..Len(b) : j # h => q[j] = b[j]
<1>1. PICK q : q = [b EXCEPT ![h] = c]
  OBVIOUS
<1>2. q \in Seq(LineOfDiff) /\ Len(q) = Len(b) /\ q[h] = c /\ \A j \in 1..Len(b) : j # h => q[j] = b[j]
  BY <1>1, ExceptSeq
<1> QED BY <1>1, <1>2, Zenon DEF Replaced

(* A diff with one line more.                                              *)
LEMMA LineAppended ==
  ASSUME NEW p \in Seq(LineOfDiff), NEW line \in LineOfDiff
  PROVE  \E q \in Seq(LineOfDiff) :
           /\ q = Append(p, line) /\ Len(q) = Len(p) + 1 /\ q[Len(p) + 1] = line
           /\ \A j \in 1..Len(p) : q[j] = p[j]
<1>1. PICK q : q = Append(p, line)
  OBVIOUS
<1>2. /\ q \in Seq(LineOfDiff) /\ Len(q) = Len(p) + 1 /\ q[Len(p) + 1] = line
      /\ \A j \in 1..Len(p) : q[j] = p[j]
  BY <1>1, AppendProperties
<1> QED BY <1>1, <1>2, Zenon

(* The author writes the next line of the file: as context or removed.     *)
LEMMA OldLineSound ==
  ASSUME NEW o, NEW p, NEW w \in Seq(Words), NEW a, NEW h, NEW cl, DiffShape(o, p, w, a, h), o \in Seq(Texts),
         h # 0, a < Len(o), NEW line \in LineOfDiff, line.tag \in {"context", "removed"}, line.text = o[a + 1],
         NEW q, Grows(p, q, h), q[Len(p) + 1] = line, q[h].tag = p[h].tag, q[h].count # 0,
         NEW v \in Seq(Words), line.tag = "context" => v = Append(w, line.text), line.tag = "removed" => v = w,
         NEW file \in Seq(Texts)
  PROVE  /\ DiffShape(o, q, v, a + 1, h)
         /\ Reproduces(o, p, w, a, h) => Reproduces(o, q, v, a + 1, h)
         /\ Verifies(file, p, a, h, cl) => Verifies(file, q, a + 1, h, cl \cup {<<a + 1, o[a + 1]>>})
<1>1. /\ o \in Seq(Words) /\ p \in Seq(LineOfDiff) /\ a \in Nat /\ w \in Seq(Words)
      /\ a + 1 \in 0..Len(o) /\ h \in 1..Len(p) /\ p[h].tag = "header" /\ h \in 0..Len(q)
      /\ q \in Seq(LineOfDiff)
  <2>1. /\ o \in Seq(Words) /\ p \in Seq(LineOfDiff) /\ a \in 0..Len(o) /\ w \in Seq(Words)
        /\ p[h].tag = "header"
    BY Zenon DEF DiffShape
  <2>2. q \in Seq(LineOfDiff) /\ h \in 1..Len(p) /\ Len(q) = Len(p) + 1
    BY Zenon DEF Grows
  <2>3. h \in 0..Len(q) /\ Len(o) \in Nat
    BY <2>1, <2>2
  <2>4. a \in Nat /\ a + 1 \in 0..Len(o)
    BY <2>1, <2>3
  <2> QED BY <2>1, <2>2, <2>3, <2>4
<1>3. line.text = o[a + 1]
  OBVIOUS
<1>12. DiffShape(o, q, v, a + 1, h)
  BY <1>1 DEF DiffShape
<1>13. ASSUME Reproduces(o, p, w, a, h), ~Hides(q), \A i \in DOMAIN q : PointsAt(q, i) => i = h
       PROVE  /\ Read(o, q).ok /\ Read(o, q).hunks > 0
              /\ Read(o, q).inside /\ Read(o, q).cursor = a + 1 /\ Read(o, q).out = v
  <2>1. PICK r \in Notes : r = Read(o, p)
    BY GrownInHunk
  <2>2. /\ Read(o, q) = ReadLine(o, r, line) /\ ~Skipped(line) /\ p # << >>
        /\ ~Hides(p) /\ \A i \in DOMAIN p : PointsAt(p, i) => i = h
    <3>1. Read(o, q) = ReadLine(o, r, q[Len(p) + 1]) /\ p # << >>
      BY <2>1, GrownInHunk
    <3>2. ~Hides(p) /\ ~Skipped(q[Len(p) + 1])
      BY <1>13, GrownInHunk
    <3>3. \A i \in DOMAIN p : PointsAt(p, i) => i = h
      BY <1>13, GrownInHunk
    <3> QED BY <3>1, <3>2, <3>3
  <2>3. r.ok /\ r.hunks > 0 /\ r.inside /\ r.cursor = a /\ r.out = w
    BY <1>13, <2>1, <2>2 DEF Reproduces
  <2>4. PICK s : s = ReadLine(o, r, line)
    OBVIOUS
  <2>5. /\ s.ok /\ s.inside /\ s.hunks = r.hunks /\ s.cursor = r.cursor + 1
        /\ line.tag = "context" => s.out = Append(r.out, line.text)
        /\ line.tag = "removed" => s.out = r.out
    <3>1. r.cursor < Len(o) /\ o[r.cursor + 1] = line.text
      BY <1>1, <1>3, <2>3
    <3>a. o \in Seq(Words) /\ ~Skipped(line) /\ r.ok /\ r.inside
      BY <1>1, <2>2, <2>3
    <3>2. s.ok /\ s.inside /\ s.hunks = r.hunks /\ s.cursor = r.cursor + 1
      BY <2>4, <3>1, <3>a, OldLineRead, Zenon
    <3>3. /\ line.tag = "context" => s.out = Append(r.out, line.text)
          /\ line.tag = "removed" => s.out = r.out
      <4>2. CASE line.tag = "context"
        BY <2>4, <3>1, <3>a, <4>2, OldLineRead, Zenon
      <4>3. CASE line.tag = "removed"
        BY <2>4, <3>1, <3>a, <4>3, OldLineRead, Zenon
      <4> QED BY <4>2, <4>3
    <3> QED BY <3>2, <3>3
  <2>6. s.out = v
    BY <1>3, <2>3, <2>5
  <2> QED BY <2>2, <2>3, <2>4, <2>5, <2>6
<1>14. Reproduces(o, p, w, a, h) => Reproduces(o, q, v, a + 1, h)
  BY <1>13 DEF Reproduces
<1>15. ASSUME Verifies(file, p, a, h, cl), ~Hides(q), Read(file, q).ok
       PROVE  /\ Read(file, q).inside /\ Read(file, q).cursor = a + 1
              /\ FoundIn(file, cl \cup {<<a + 1, o[a + 1]>>})
  <2>1. PICK r \in Notes : r = Read(file, p)
    BY GrownInHunk
  <2>2. /\ Read(file, q) = ReadLine(file, r, line) /\ ~Skipped(line) /\ ~Hides(p) /\ r.ok
        /\ ReadUpTo(file, p)[Settled(p, h)].ok
    BY <1>15, <2>1, GrownInHunk
  <2>3. r.inside /\ r.cursor = a /\ FoundIn(file, cl)
    BY <1>15, <2>1, <2>2 DEF Verifies
  <2>4. PICK s : s = ReadLine(file, r, line)
    OBVIOUS
  <2>5. s.ok /\ file \in Seq(Words)
    BY <1>15, <2>2, <2>4, FileIsWords
  <2>6. r.cursor < Len(file) /\ file[r.cursor + 1] = line.text /\ s.inside /\ s.cursor = r.cursor + 1
    BY <1>3, <2>2, <2>3, <2>4, <2>5, OldLineRead
  <2>7. a + 1 <= Len(file) /\ file[a + 1] = o[a + 1]
    BY <1>1, <1>3, <2>3, <2>6
  <2>8. FoundIn(file, cl \cup {<<a + 1, o[a + 1]>>})
    BY <2>3, <2>7 DEF FoundIn
  <2> QED BY <2>2, <2>3, <2>4, <2>6, <2>8
<1>16. Settled(q, h) = Len(q)
  BY DEF Settled
<1>17. Verifies(file, p, a, h, cl) => Verifies(file, q, a + 1, h, cl \cup {<<a + 1, o[a + 1]>>})
  BY <1>15, <1>16 DEF Verifies, Read
<1> QED BY <1>12, <1>14, <1>17

(* The author inserts a line.                                              *)
Inserted(p, w, h, line, q, v) ==
  /\ h # 0 /\ line.tag = "added" /\ Grows(p, q, h) /\ q[Len(p) + 1] = line /\ q[h] = p[h]
  /\ v \in Seq(Words) /\ v = Append(w, line.text)

(* Inserting a line keeps the engine where the author stands: what the     *)
(* engine wrote grows by the line, and its place in the file is the same.  *)
LEMMA InsertSound ==
  ASSUME NEW o, NEW p, NEW w \in Seq(Words), NEW a, NEW h, NEW cl, DiffShape(o, p, w, a, h),
         o \in Seq(Texts), NEW line \in LineOfDiff, NEW q, NEW v, Inserted(p, w, h, line, q, v),
         NEW file \in Seq(Texts)
  PROVE  /\ DiffShape(o, q, v, a, h)
         /\ Reproduces(o, p, w, a, h) => Reproduces(o, q, v, a, h)
         /\ Verifies(file, p, a, h, cl) => Verifies(file, q, a, h, cl)
<1>0. /\ h # 0 /\ line.tag = "added" /\ Grows(p, q, h) /\ q[Len(p) + 1] = line /\ q[h] = p[h]
      /\ v \in Seq(Words) /\ v = Append(w, line.text)
  BY DEF Inserted
<1>1. q \in Seq(LineOfDiff) /\ p \in Seq(LineOfDiff) /\ h \in 1..Len(p) /\ Len(q) = Len(p) + 1
  BY <1>0, Zenon DEF Grows
<1>2. h \in 0..Len(q) /\ o \in Seq(Words) /\ file \in Seq(Words)
  BY <1>0, <1>1, FileIsWords
<1>3. DiffShape(o, q, v, a, h)
  BY <1>0, <1>1, <1>2 DEF DiffShape
<1>4. ASSUME Reproduces(o, p, w, a, h), ~Hides(q), \A i \in DOMAIN q : PointsAt(q, i) => i = h
      PROVE  /\ Read(o, q).ok /\ Read(o, q).hunks > 0
             /\ Read(o, q).inside /\ Read(o, q).cursor = a /\ Read(o, q).out = v
  <2>1. PICK r \in Notes : r = Read(o, p)
    BY <1>0, GrownInHunk
  <2>2. Read(o, q) = ReadLine(o, r, line) /\ p # << >>
    BY <1>0, <2>1, GrownInHunk
  <2>3. ~Hides(p) /\ \A i \in DOMAIN p : PointsAt(p, i) => i = h
    BY <1>0, <1>4, GrownInHunk
  <2>4. r.ok /\ r.hunks > 0 /\ r.inside /\ r.cursor = a /\ r.out = w
    BY <1>0, <1>4, <2>1, <2>2, <2>3 DEF Reproduces
  <2>5. PICK s : s = ReadLine(o, r, line)
    OBVIOUS
  <2>6. s.ok /\ s.inside /\ s.hunks = r.hunks /\ s.cursor = r.cursor /\ s.out = Append(r.out, line.text)
    <3>1. o \in Seq(Words) /\ r.ok /\ r.inside /\ line.tag = "added"
      BY <1>0, <1>2, <2>4
    <3> QED BY <2>5, <3>1, InsertionRead, Zenon
  <2>7. s.out = v
    BY <1>0, <2>4, <2>6
  <2> QED BY <2>2, <2>4, <2>5, <2>6, <2>7
<1>5. Reproduces(o, p, w, a, h) => Reproduces(o, q, v, a, h)
  BY <1>0, <1>4 DEF Reproduces
<1>6. ASSUME Verifies(file, p, a, h, cl), ~Hides(q)
      PROVE  /\ Read(file, q).ok => Read(file, q).inside /\ Read(file, q).cursor = a
             /\ ReadUpTo(file, q)[Settled(q, h)].ok => FoundIn(file, cl)
  <2>1. PICK r \in Notes : r = Read(file, p)
    BY <1>0, GrownInHunk
  <2>2. /\ Read(file, q) = ReadLine(file, r, line) /\ ~Hides(p)
        /\ Read(file, q).ok => r.ok /\ ReadUpTo(file, p)[Settled(p, h)].ok
    BY <1>0, <1>6, <2>1, GrownInHunk
  <2>3. ASSUME Read(file, q).ok PROVE Read(file, q).inside /\ Read(file, q).cursor = a
    <3>1. r.ok /\ r.inside /\ r.cursor = a
      BY <1>0, <1>6, <2>1, <2>2, <2>3 DEF Verifies
    <3>2. ReadLine(file, r, line).inside /\ ReadLine(file, r, line).cursor = r.cursor
      BY <1>0, <1>2, <3>1, InsertionRead
    <3> QED BY <2>2, <3>1, <3>2
  <2>4. ASSUME ReadUpTo(file, q)[Settled(q, h)].ok PROVE FoundIn(file, cl)
    <3>1. CASE p[h].count = 0
      <4>1. Settled(q, h) = h - 1 /\ Settled(p, h) = h - 1 /\ h - 1 \in 0..Len(p)
        BY <1>0, <1>1, <3>1 DEF Settled
      <4>2. ReadUpTo(file, q)[h - 1] = ReadUpTo(file, p)[h - 1]
        BY <1>0, <4>1, GrownInHunk
      <4> QED BY <1>6, <2>2, <2>4, <4>1, <4>2 DEF Verifies
    <3>2. CASE p[h].count # 0
      <4>1. Settled(q, h) = Len(q)
        BY <1>0, <3>2 DEF Settled
      <4>2. Read(file, q).ok
        BY <1>0, <2>4, <4>1 DEF Read
      <4> QED BY <1>6, <2>2, <4>2 DEF Verifies
    <3> QED BY <3>1, <3>2
  <2> QED BY <2>3, <2>4
<1>7. Verifies(file, p, a, h, cl) => Verifies(file, q, a, h, cl)
  BY <1>0, <1>6 DEF Verifies
<1> QED BY <1>3, <1>5, <1>7

(* The author closes a hunk: if it has lines of the file, the diff stays;  *)
(* if it only inserts, its header now names the line before.               *)
LEMMA CloseSound ==
  ASSUME NEW o, NEW p, NEW w, NEW a, NEW h, NEW cl, DiffShape(o, p, w, a, h), o \in Seq(Texts),
         h # 0, NEW file \in Seq(Texts),
         NEW q \in Seq(LineOfDiff), Len(q) = Len(p), \A i \in 1..Len(p) : i # h => q[i] = p[i],
         p[h].count # 0 => q = p,
         p[h].count = 0 => /\ q[h].tag = p[h].tag /\ q[h].text = p[h].text /\ q[h].count = 0
                           /\ q[h].start = p[h].start - 1
  PROVE  /\ DiffShape(o, q, w, a, 0)
         /\ Reproduces(o, p, w, a, h) => Reproduces(o, q, w, a, 0)
         /\ Verifies(file, p, a, h, cl) => Verifies(file, q, a, 0, cl)
<1>1. /\ o \in Seq(Words) /\ p \in Seq(LineOfDiff) /\ a \in Nat /\ a <= Len(o) /\ h \in 1..Len(p)
      /\ p[h].tag = "header" /\ (p[h].count = 0 => p[h].start = a + 1) /\ w \in Seq(Words)
  BY DEF DiffShape
<1>2. DiffShape(o, q, w, a, 0)
  BY <1>1 DEF DiffShape
<1>3. \A f \in Seq(Texts) : Read(f, p) \in Notes /\ Len(p) \in 0..Len(p)
  BY <1>1, ReadUpToNotes DEF Read
<1>4. \A i \in 1..Len(p) : Skipped(p[i]) <=> Skipped(q[i])
  BY <1>1 DEF Skipped
<1>5. Hides(q) <=> Hides(p)
  <2>1. DOMAIN p = 1..Len(p) /\ DOMAIN q = 1..Len(p)
    BY <1>1
  <2> QED BY <1>4, <2>1, Zenon DEF Hides
<1>6. ASSUME Reproduces(o, p, w, a, h), ~Hides(q), \A i \in DOMAIN q : ~PointsAt(q, i)
      PROVE  /\ Read(o, q).ok /\ Read(o, q).hunks > 0 /\ Read(o, q).cursor <= a
             /\ Copied(Read(o, q).out, o, Read(o, q).cursor, a) = w
  <2>1. ASSUME NEW i \in DOMAIN p, PointsAt(p, i), i # h PROVE FALSE
    <3>1. i \in 1..Len(p) /\ i \in DOMAIN q
      BY <1>1
    <3> QED BY <1>6, <2>1, <3>1 DEF PointsAt
  <2>2. p # << >>
    BY <1>1
  <2>3. PICK r \in Notes : r = Read(o, p)
    BY <1>3
  <2>4. r.ok /\ r.hunks > 0 /\ r.inside /\ r.cursor = a /\ r.out = w
    BY <1>1, <1>5, <1>6, <2>1, <2>2, <2>3 DEF Reproduces
  <2>5. Read(o, q) = Read(o, p)
    <3>1. CASE p[h].count # 0
      BY <3>1
    <3>2. CASE p[h].count = 0
      <4>1. h \in DOMAIN q /\ ~PointsAt(q, h)
        BY <1>1, <1>6
      <4>2. q[h].start = a
        <5>1. q[h].start = p[h].start - 1 /\ p[h].start = a + 1
          BY <1>1, <3>2
        <5>2. PICK y : y = p[h].start
          OBVIOUS
        <5>3. a \in Nat
          BY <1>1
        <5>4. y - 1 = a
          BY <5>1, <5>2, <5>3
        <5> QED BY <5>1, <5>2, <5>4, Zenon
      <4>3. a = 0
        BY <1>1, <3>2, <4>1, <4>2 DEF PointsAt
      <4>4. SameLine(p[h], q[h])
        BY <1>1, <3>2, <4>2, <4>3 DEF SameLine, StartOf
      <4>5. \A i \in 1..Len(p) : SameLine(p[i], q[i])
        BY <4>4 DEF SameLine
      <4>7. Len(p) \in Nat /\ Len(p) <= Len(p) /\ Len(p) <= Len(q) /\ Len(p) \in 0..Len(p)
        BY <1>1
      <4>8. \A n \in 0..Len(p) : ReadUpTo(o, p)[n] = ReadUpTo(o, q)[n]
        <5>1. AgreeUpTo(p, q, Len(p))
          BY <1>1, <4>5, <4>7 DEF AgreeUpTo
        <5> QED BY <5>1, AgreeRead
      <4> QED BY <4>7, <4>8 DEF Read
    <3> QED BY <3>1, <3>2
  <2>6. Copied(w, o, a, a) = w
    <3>1. SubSeq(o, a + 1, a) = << >>
      BY <1>1
    <3> QED BY <1>1, <3>1, ConcatEmptySeq DEF Copied
  <2> QED BY <1>1, <2>3, <2>4, <2>5, <2>6
<1>7. Reproduces(o, p, w, a, h) => Reproduces(o, q, w, a, 0)
  <2>1. \A i \in DOMAIN q : i # 0
    OBVIOUS
  <2> QED BY <1>6, <2>1 DEF Reproduces
<1>8. ASSUME Verifies(file, p, a, h, cl), ~Hides(q), Read(file, q).ok
      PROVE  FoundIn(file, cl)
  <2>1. CASE p[h].count # 0
    BY <1>5, <1>8, <2>1 DEF Verifies, Read, Settled
  <2>2. CASE p[h].count = 0
    <3>1. h - 1 \in Nat /\ h - 1 <= Len(p) /\ h - 1 <= Len(q) /\ h - 1 \in 0..(h - 1)
          /\ h - 1 \in 0..Len(q) /\ Len(q) \in 0..Len(q)
      BY <1>1
    <3>2. \A i \in 1..(h - 1) : q[i] = p[i]
      BY <1>1
    <3>3. \A n \in 0..(h - 1) : ReadUpTo(file, p)[n] = ReadUpTo(file, q)[n]
      <4>1. \A i \in 1..(h - 1) : SameLine(p[i], q[i])
        BY <3>2 DEF SameLine
      <4>2. AgreeUpTo(p, q, h - 1)
        BY <1>1, <3>1, <4>1 DEF AgreeUpTo
      <4> QED BY <4>2, AgreeRead
    <3>4. ReadUpTo(file, q)[h - 1].ok
      BY <1>8, <3>1, ReadUpToNotes DEF Read
    <3>5. Settled(p, h) = h - 1
      BY <2>2 DEF Settled
    <3> QED BY <1>5, <1>8, <3>1, <3>3, <3>4, <3>5 DEF Verifies
  <2> QED BY <2>1, <2>2
<1>9. Settled(q, 0) = Len(q)
  BY DEF Settled
<1>10. Verifies(file, p, a, h, cl) => Verifies(file, q, a, 0, cl)
  BY <1>8, <1>9 DEF Verifies, Read
<1> QED BY <1>2, <1>7, <1>10

(* A header that names an earlier line.                                    *)
LEMMA EarlierLine ==
  ASSUME NEW l \in LineOfDiff, NEW n \in Nat
  PROVE  /\ [l EXCEPT !.start = n] \in LineOfDiff
         /\ [l EXCEPT !.start = n].tag = l.tag /\ [l EXCEPT !.start = n].text = l.text
         /\ [l EXCEPT !.start = n].count = l.count /\ [l EXCEPT !.start = n].start = n
<1>1. [l EXCEPT !.start = n] \in LineOfDiff
  BY DEF LineOfDiff
<1>2. /\ [l EXCEPT !.start = n].tag = l.tag /\ [l EXCEPT !.start = n].text = l.text
      /\ [l EXCEPT !.start = n].count = l.count /\ [l EXCEPT !.start = n].start = n
  BY DEF LineOfDiff
<1> QED BY <1>1, <1>2

(* An increment of a field, the way a step writes it.                      *)
LEMMA CountingIs ==
  ASSUME NEW b, NEW h
  PROVE  /\ [b EXCEPT ![h].count = @ + 1] = [b EXCEPT ![h] = [b[h] EXCEPT !.count = b[h].count + 1]]
         /\ [b EXCEPT ![h].start = @ - 1] = [b EXCEPT ![h] = [b[h] EXCEPT !.start = b[h].start - 1]]
BY Zenon

(* What the invariant of the patch engine says of the variables.           *)
PatchInv ==
  /\ original \in Files /\ DiffShape(original, patch, wanted, at, hunk)
  /\ Reproduces(original, patch, wanted, at, hunk)
  /\ \A file \in Files : Verifies(file, patch, at, hunk, claims)

(* A file is a sequence of texts.                                          *)
LEMMA FilesAreTexts == \A file \in Files : file \in Seq(Texts) /\ file \in Seq(Words)
<1>1. SUFFICES ASSUME NEW n \in 0..MaxFile, NEW file \in [1..n -> Texts]
               PROVE  file \in Seq(Texts) /\ file \in Seq(Words)
  BY DEF Files
<1>2. file \in Seq(Texts)
  BY PatchAssumption
<1> QED BY <1>2, FileIsWords

(* It holds at the start.                                                  *)
LEMMA PatchInvStarts == PatchInit => PatchInv
<1> SUFFICES ASSUME PatchInit PROVE PatchInv
  OBVIOUS
<1>1. /\ original \in Files /\ patch = << >> /\ wanted = << >> /\ at = 0 /\ hunk = 0 /\ claims = {}
      /\ original \in Seq(Texts) /\ original \in Seq(Words)
  BY FilesAreTexts DEF PatchInit
<1>2. DiffShape(original, << >>, << >>, 0, 0)
  BY <1>1 DEF DiffShape
<1>3. << >> \in Seq(LineOfDiff) /\ Len(<< >>) = 0
  OBVIOUS
<1>4. \A file : Read(file, << >>) = Reader
  BY <1>3, ReadUpToStarts DEF Read
<1>5. Reader.ok /\ Reader.cursor = 0 /\ Reader.out = << >>
  BY DEF Reader
<1>6. Copied(<< >>, original, 0, 0) = << >>
  <2>1. SubSeq(original, 0 + 1, 0) = << >>
    BY <1>1
  <2> QED BY <2>1, ConcatEmptySeq DEF Copied
<1>7. Reproduces(original, << >>, << >>, 0, 0)
  BY <1>4, <1>5, <1>6 DEF Reproduces
<1>8. \A file : FoundIn(file, {})
  BY DEF FoundIn
<1>9. \A file \in Files : Verifies(file, << >>, 0, 0, {})
  BY <1>8 DEF Verifies
<1> QED BY <1>1, <1>2, <1>7, <1>9 DEF PatchInv

(* Every step of the author keeps it.                                      *)
LEMMA PatchInvStays == PatchInv /\ [PatchNext]_patchVars => PatchInv'
<1> SUFFICES ASSUME PatchInv, [PatchNext]_patchVars PROVE PatchInv'
  OBVIOUS
<1>1. PICK o, p, w, a, h, cl : /\ o = original /\ p = patch /\ w = wanted /\ a = at /\ h = hunk
                               /\ cl = claims
  OBVIOUS
<1>2. /\ o \in Files /\ o \in Seq(Texts) /\ DiffShape(o, p, w, a, h) /\ Reproduces(o, p, w, a, h)
      /\ \A file \in Files : file \in Seq(Texts) /\ Verifies(file, p, a, h, cl)
  BY <1>1, FilesAreTexts DEF PatchInv
<1>3. /\ p \in Seq(LineOfDiff) /\ w \in Seq(Words) /\ a \in Nat /\ h \in 0..Len(p) /\ o \in Seq(Words)
  BY <1>2 DEF DiffShape
<1>4. CASE Pass
  <2>1. /\ h = 0 /\ a < Len(o) /\ at' = a + 1 /\ wanted' = Append(w, o[a + 1]) /\ original' = o
        /\ patch' = p /\ hunk' = 0 /\ claims' = cl
    BY <1>1, <1>4, Zenon DEF Pass, Here
  <2>2. DiffShape(o, p, w, a, 0) /\ Reproduces(o, p, w, a, 0)
    BY <1>2, <2>1
  <2>3. Reproduces(o, p, Append(w, o[a + 1]), a + 1, 0)
    BY <1>2, <2>1, <2>2, PassReproduces
  <2>4. DiffShape(o, p, Append(w, o[a + 1]), a + 1, 0)
    <3>1. PICK v : v = Append(w, o[a + 1])
      OBVIOUS
    <3>2. v \in Seq(Words) /\ a + 1 \in 0..Len(o)
      BY <1>3, <2>1, <3>1, AppendProperties
    <3> QED BY <1>3, <2>2, <3>1, <3>2 DEF DiffShape
  <2>5. ASSUME NEW file \in Files PROVE Verifies(file, p, a + 1, 0, cl)
    <3>1. Verifies(file, p, a, 0, cl)
      BY <1>2, <2>1
    <3> QED BY <3>1 DEF Verifies
  <2> QED BY <1>2, <2>1, <2>3, <2>4, <2>5, Zenon DEF PatchInv
<1>5. CASE OpenHunk
  <2>1. /\ h = 0 /\ patch' = Append(p, Header(a + 1, 0)) /\ hunk' = Len(p) + 1
        /\ original' = o /\ wanted' = w /\ at' = a /\ claims' = cl
    BY <1>1, <1>5, Zenon DEF OpenHunk
  <2>2. PICK q : q = Append(p, Header(a + 1, 0))
    OBVIOUS
  <2>3. DiffShape(o, p, w, a, 0) /\ Reproduces(o, p, w, a, 0)
    BY <1>2, <2>1
  <2>4. ASSUME NEW file \in Files
        PROVE  /\ DiffShape(o, q, w, a, Len(p) + 1) /\ Reproduces(o, q, w, a, Len(p) + 1)
               /\ Verifies(file, q, a, Len(p) + 1, cl)
    <3>1. Verifies(file, p, a, 0, cl) /\ file \in Seq(Texts)
      BY <1>2, <2>1
    <3> QED BY <1>2, <2>2, <2>3, <3>1, OpenSound, Zenon
  <2> QED BY <1>2, <2>1, <2>2, <2>4, Zenon DEF PatchInv
<1>6. ASSUME NEW tag \in {"context", "removed"}, OldLine(tag),
             tag = "context" => wanted' = Append(wanted, Here), tag = "removed" => wanted' = wanted
      PROVE  PatchInv'
  <2>1. /\ h # 0 /\ a < Len(o) /\ original' = o /\ hunk' = h /\ at' = a + 1
        /\ claims' = cl \cup {<<a + 1, o[a + 1]>>}
        /\ patch' = [Append(p, Body(tag, o[a + 1])) EXCEPT ![h].count = @ + 1]
        /\ tag = "context" => wanted' = Append(w, o[a + 1])
        /\ tag = "removed" => wanted' = w
    BY <1>1, <1>6, Zenon DEF OldLine, Here
  <2>2. o[a + 1] \in Words /\ tag \in {"context", "removed", "added"} /\ h \in 1..Len(p)
    BY <1>3, <2>1
  <2>3. PICK line \in LineOfDiff : line = Body(tag, o[a + 1]) /\ line.tag = tag /\ line.text = o[a + 1]
    BY <2>2, BodyLine
  <2>4. PICK b \in Seq(LineOfDiff) :
           /\ b = Append(p, line) /\ Len(b) = Len(p) + 1 /\ b[Len(p) + 1] = line
           /\ \A j \in 1..Len(p) : b[j] = p[j]
    BY <1>3, LineAppended, Zenon
  <2>5. b[h] = p[h] /\ b[h] \in LineOfDiff /\ h \in 1..Len(b)
    BY <2>2, <2>4
  <2>6. PICK c \in LineOfDiff : /\ c = [b[h] EXCEPT !.count = b[h].count + 1]
                                /\ c.count # 0 /\ c.tag = b[h].tag /\ SameLine(b[h], c)
    BY <2>5, CountedLine, Zenon
  <2>7. patch' = Replaced(b, h, c)
    BY <2>1, <2>3, <2>4, <2>6, CountingIs, Zenon DEF Replaced
  <2>8. PICK q \in Seq(LineOfDiff) :
           /\ q = Replaced(b, h, c) /\ Len(q) = Len(b) /\ q[h] = c
           /\ \A j \in 1..Len(b) : j # h => q[j] = b[j]
    BY <2>5, LineReplaced, Zenon
  <2>9. Grows(p, q, h) /\ q[Len(p) + 1] = line /\ q[h].tag = p[h].tag /\ q[h].count # 0
    <3>1. SameLine(p[h], c) /\ c.tag = p[h].tag /\ c.count # 0
      BY <2>5, <2>6, Zenon
    <3>2. Len(b) = Len(p) + 1 /\ b[Len(p) + 1] = line /\ \A j \in 1..Len(p) : b[j] = p[j]
      BY <2>4, Zenon
    <3>3. Len(q) = Len(b) /\ q[h] = c /\ \A j \in 1..Len(b) : j # h => q[j] = b[j]
      BY <2>8, Zenon
    <3>4. h \in 1..Len(b) /\ h # Len(p) + 1 /\ Len(p) + 1 \in 1..Len(b) /\ \A j \in 1..Len(p) : j \in 1..Len(b)
      BY <1>3, <2>2, <3>2
    <3>5. q[Len(p) + 1] = line
      BY <3>2, <3>3, <3>4
    <3>6. ASSUME NEW j \in 1..Len(p) PROVE SameLine(p[j], q[j]) /\ (j # h => q[j] = p[j])
      <4>1. CASE j = h
        BY <3>1, <3>3, <4>1
      <4>2. CASE j # h
        <5>1. q[j] = p[j]
          BY <3>2, <3>3, <3>4, <4>2
        <5> QED BY <4>2, <5>1 DEF SameLine
      <4> QED BY <4>1, <4>2
    <3>7. Grows(p, q, h)
      BY <1>3, <2>2, <3>2, <3>3, <3>6 DEF Grows
    <3> QED BY <3>1, <3>3, <3>5, <3>7
  <2>10. PICK v \in Seq(Words) : /\ v = wanted' /\ (line.tag = "context" => v = Append(w, line.text))
                                 /\ (line.tag = "removed" => v = w)
    <3>1. Append(w, o[a + 1]) \in Seq(Words)
      BY <1>3, <2>2, AppendProperties
    <3>2. wanted' \in Seq(Words)
      BY <1>3, <1>6, <2>1, <3>1, Zenon
    <3> QED BY <2>1, <2>3, <3>2, Zenon
  <2>11. line.tag \in {"context", "removed"}
    BY <2>3
  <2>12. ASSUME NEW file \in Files
         PROVE  /\ DiffShape(o, q, v, a + 1, h) /\ Reproduces(o, q, v, a + 1, h)
                /\ Verifies(file, q, a + 1, h, cl \cup {<<a + 1, o[a + 1]>>})
    BY <1>2, <1>3, <2>1, <2>3, <2>9, <2>10, <2>11, OldLineSound, Zenon
  <2> QED BY <1>2, <2>1, <2>7, <2>8, <2>10, <2>12, Zenon DEF PatchInv
<1>7. CASE WriteInsertion
  <2>1. PICK text \in Plain :
           /\ h # 0 /\ original' = o /\ hunk' = h /\ at' = a /\ claims' = cl
           /\ patch' = Append(p, Body("added", text)) /\ wanted' = Append(w, text)
    BY <1>1, <1>7, Zenon DEF WriteInsertion
  <2>2. text \in Words /\ "added" \in {"context", "removed", "added"} /\ h \in 1..Len(p)
    BY <1>3, <2>1 DEF Words, Texts
  <2>3. PICK line \in LineOfDiff : line = Body("added", text) /\ line.tag = "added" /\ line.text = text
    BY <2>2, BodyLine
  <2>4. PICK q \in Seq(LineOfDiff) :
           /\ q = Append(p, line) /\ Len(q) = Len(p) + 1 /\ q[Len(p) + 1] = line
           /\ \A j \in 1..Len(p) : q[j] = p[j]
    BY <1>3, LineAppended, Zenon
  <2>5. Grows(p, q, h) /\ q[h] = p[h]
    BY <1>3, <2>2, <2>4 DEF Grows, SameLine
  <2>6. PICK v \in Seq(Words) : v = Append(w, line.text)
    BY <1>3, <2>2, <2>3, AppendProperties
  <2>7. ASSUME NEW file \in Files
        PROVE  /\ DiffShape(o, q, v, a, h) /\ Reproduces(o, q, v, a, h) /\ Verifies(file, q, a, h, cl)
    <3>1. file \in Seq(Texts) /\ Verifies(file, p, a, h, cl) /\ h # 0
      BY <1>2, <2>1
    <3>2. line.tag = "added" /\ q[Len(p) + 1] = line
      BY <2>3, <2>4, Zenon
    <3>3. /\ w \in Seq(Words) /\ o \in Seq(Texts) /\ DiffShape(o, p, w, a, h)
          /\ Reproduces(o, p, w, a, h) /\ Grows(p, q, h) /\ q[h] = p[h] /\ v = Append(w, line.text)
      BY <1>2, <1>3, <2>5, <2>6, Zenon
    <3>4. Inserted(p, w, h, line, q, v)
      BY <3>1, <3>2, <3>3, Zenon DEF Inserted
    <3>5. w \in Seq(Words) /\ o \in Seq(Texts) /\ DiffShape(o, p, w, a, h)
      BY <3>3
    <3>6. DiffShape(o, q, v, a, h)
      BY <3>1, <3>4, <3>5, InsertSound
    <3>7. Reproduces(o, p, w, a, h) => Reproduces(o, q, v, a, h)
      BY <3>1, <3>4, <3>5, InsertSound
    <3>8. Verifies(file, p, a, h, cl) => Verifies(file, q, a, h, cl)
      BY <3>1, <3>4, <3>5, InsertSound
    <3> QED BY <3>1, <3>3, <3>6, <3>7, <3>8
  <2> QED BY <1>2, <2>1, <2>3, <2>4, <2>6, <2>7, Zenon DEF PatchInv
<1>8. CASE CloseHunk
  <2>1. /\ h # 0 /\ original' = o /\ hunk' = 0 /\ at' = a /\ claims' = cl /\ wanted' = w
        /\ patch' = IF p[h].count = 0 THEN [p EXCEPT ![h].start = @ - 1] ELSE p
    BY <1>1, <1>8, Zenon DEF CloseHunk
  <2>2. h \in 1..Len(p) /\ p[h] \in LineOfDiff
    BY <1>3, <2>1
  <2>3. p[h].count = 0 => p[h].start = a + 1
    BY <1>2, <2>1 DEF DiffShape
  <2>4. PICK q \in Seq(LineOfDiff) :
           /\ q = patch' /\ Len(q) = Len(p) /\ \A i \in 1..Len(p) : i # h => q[i] = p[i]
           /\ p[h].count # 0 => q = p
           /\ p[h].count = 0 => /\ q[h].tag = p[h].tag /\ q[h].text = p[h].text /\ q[h].count = 0
                                /\ q[h].start = p[h].start - 1
    <3>1. CASE p[h].count # 0
      BY <1>3, <2>1, <3>1
    <3>2. CASE p[h].count = 0
      <4>1. PICK n \in Nat : n = p[h].start - 1
        BY <1>3, <2>3, <3>2
      <4>2. PICK c \in LineOfDiff : /\ c = [p[h] EXCEPT !.start = n]
                                    /\ c.tag = p[h].tag /\ c.text = p[h].text /\ c.count = p[h].count
                                    /\ c.start = n
        BY <2>2, EarlierLine
      <4>3. patch' = Replaced(p, h, c)
        BY <2>1, <3>2, <4>1, <4>2, CountingIs, Zenon DEF Replaced
      <4>4. PICK q \in Seq(LineOfDiff) :
               /\ q = Replaced(p, h, c) /\ Len(q) = Len(p) /\ q[h] = c
               /\ \A j \in 1..Len(p) : j # h => q[j] = p[j]
        <5>1. p \in Seq(LineOfDiff) /\ h \in 1..Len(p)
          BY <1>3, <2>2
        <5> QED BY <5>1, LineReplaced, ZenonT(30)
      <4> QED BY <3>2, <4>1, <4>2, <4>3, <4>4, Zenon
    <3> QED BY <3>1, <3>2
  <2>5. ASSUME NEW file \in Files
        PROVE  DiffShape(o, q, w, a, 0) /\ Reproduces(o, q, w, a, 0) /\ Verifies(file, q, a, 0, cl)
    <3>1. file \in Seq(Texts) /\ Verifies(file, p, a, h, cl) /\ h # 0
      BY <1>2, <2>1
    <3> QED BY <1>2, <2>4, <3>1, CloseSound
  <2> QED BY <1>2, <2>1, <2>4, <2>5, Zenon DEF PatchInv
<1>9. CASE UNCHANGED patchVars
  <2>1. /\ original' = o /\ patch' = p /\ wanted' = w /\ at' = a /\ hunk' = h /\ claims' = cl
    BY <1>1, <1>9, Zenon DEF patchVars
  <2> QED BY <1>2, <2>1, Zenon DEF PatchInv
<1>10. CASE WriteContext
  BY <1>6, <1>10 DEF WriteContext
<1>11. CASE WriteRemoval
  BY <1>6, <1>11 DEF WriteRemoval
<1> QED BY <1>4, <1>5, <1>7, <1>8, <1>9, <1>10, <1>11 DEF PatchNext

(* Patch.  A diff that is written as diff tools write it, in whatever      *)
(* order the author inserts, removes and opens hunks, is applied to the    *)
(* very file the author wanted, and to no file that lacks a line the diff  *)
(* claims: for every alphabet, file length and length of a diff.           *)
THEOREM PatchesStayExact == PatchSpec => []PatchIsExact
<1>1. PatchInv => DiffGivesWanted
  <2> SUFFICES ASSUME PatchInv, Written, ~Pointing, ~Hiding
               PROVE  Applied(original, patch) = [ok |-> TRUE, file |-> wanted]
    BY DEF DiffGivesWanted
  <2>1. hunk = 0 /\ at = Len(original) /\ patch # << >>
    BY DEF Written
  <2>2. ~Hides(patch) /\ \A i \in DOMAIN patch : ~PointsAt(patch, i)
    BY DEF Pointing, Hiding, Hides, PointsAt
  <2>3. PICK r : r = Read(original, patch)
    OBVIOUS
  <2>4. r.ok /\ r.hunks > 0 /\ Copied(r.out, original, r.cursor, Len(original)) = wanted
    BY <2>1, <2>2, <2>3 DEF PatchInv, Reproduces
  <2>5. r.ok \in BOOLEAN
    BY <2>3, FilesAreTexts, ReadUpToNotes, NoteFields DEF PatchInv, DiffShape, Read
  <2>6. Applied(original, patch) =
          [ok |-> r.ok /\ r.hunks > 0, file |-> Copied(r.out, original, r.cursor, Len(original))]
    BY <2>3, Zenon DEF Applied, Read, Copied
  <2>7. (r.ok /\ r.hunks > 0) = TRUE
    BY <2>4, <2>5
  <2> QED BY <2>4, <2>6, <2>7
<1>2. PatchInv => StaleIsRefused
  <2> SUFFICES ASSUME PatchInv, Written, ~Hiding, NEW file \in Files, Applied(file, patch).ok,
                      NEW c \in claims
               PROVE  c[1] <= Len(file) /\ file[c[1]] = c[2]
    BY DEF StaleIsRefused
  <2>1. hunk = 0 /\ ~Hides(patch)
    BY DEF Written, Hiding, Hides
  <2>2. Read(file, patch).ok
    BY DEF Applied, Read
  <2>3. FoundIn(file, claims)
    BY <2>1, <2>2 DEF PatchInv, Verifies, Settled, Read
  <2> QED BY <2>3 DEF FoundIn
<1>3. PatchInv => PatchIsExact
  BY <1>1, <1>2 DEF PatchIsExact
<1> QED BY <1>3, PatchInvStarts, PatchInvStays, PTL DEF PatchSpec

-----------------------------------------------------------------------------
(* How claims are measured.                                                *)

ValidationInv ==
  evaluations \in Seq(EvaluationRecords) /\ benchmarks \subseteq {RunOf(a) : a \in Answers}

Splits(S, A, B) == S = A \cup B /\ A \cap B = {}

(* What is not in the one half is in the other.                            *)
LEMMA Halves ==
  ASSUME NEW S, NEW A, NEW B, IsFiniteSet(S), Splits(S, A, B)
  PROVE  /\ Cardinality(A) \in Nat /\ Cardinality(B) \in Nat
         /\ Cardinality(S) = Cardinality(A) + Cardinality(B)
<1>1. S = A \cup B /\ A \cap B = {} /\ A \in SUBSET S /\ B \in SUBSET S
  BY DEF Splits
<1>2. IsFiniteSet(A) /\ IsFiniteSet(B)
  BY <1>1, FS_Subset
<1>3. Cardinality(A) \in Nat /\ Cardinality(B) \in Nat
  BY <1>2, FS_CardinalityType
<1>4. Cardinality(A \cup B) = Cardinality(A) + Cardinality(B) - Cardinality(A \cap B)
  BY <1>2, FS_Union
<1> QED
  BY <1>1, <1>3, <1>4, FS_EmptySet

(* A confidence lies in one calibration bin.                               *)
LEMMA OneBin ==
  ASSUME NEW r \in EvaluationRecords
  PROVE  /\ InBin(r, 1) \/ InBin(r, 2) \/ InBin(r, 3) \/ InBin(r, 4) \/ InBin(r, 5)
         /\ \A a, b \in 1..5 : InBin(r, a) /\ InBin(r, b) => a = b
<1>1. r.confidence \in 0..95
  BY ValidationAssumption DEF EvaluationRecords
<1> QED
  BY <1>1 DEF InBin

(* A larger part of the same whole has a larger share.                     *)
LEMMA ShareGrows ==
  ASSUME NEW a \in Nat, NEW b \in Nat, NEW n \in Nat \ {0}, a <= b
  PROVE  a \div n <= b \div n
  BY SMT

(* Only the whole is all of it.                                            *)
LEMMA FullShare ==
  ASSUME NEW k \in Nat, NEW n \in Nat \ {0}, k <= n, (100 * k) \div n = 100
  PROVE  k = n
  BY SMT

(* Of five parts, each thing in one.                                       *)
LEMMA FiveParts ==
  ASSUME NEW S, NEW P, IsFiniteSet(S),
         \A b \in 1..5 : P[b] \subseteq S,
         \A i \in S : \E b \in 1..5 : i \in P[b],
         \A a, b \in 1..5 : \A i \in S : i \in P[a] /\ i \in P[b] => a = b
  PROVE  Cardinality(S) = Cardinality(P[1]) + Cardinality(P[2]) + Cardinality(P[3])
                            + Cardinality(P[4]) + Cardinality(P[5])
<1> DEFINE two == P[1] \cup P[2]
           three == two \cup P[3]
           four == three \cup P[4]
<1>1. /\ S = four \cup P[5] /\ four \cap P[5] = {} /\ three \cap P[4] = {}
      /\ two \cap P[3] = {} /\ P[1] \cap P[2] = {} /\ four \in SUBSET S
      /\ three \in SUBSET S /\ two \in SUBSET S
      /\ four = three \cup P[4] /\ three = two \cup P[3] /\ two = P[1] \cup P[2]
  <2>1. 1 \in 1..5 /\ 2 \in 1..5 /\ 3 \in 1..5 /\ 4 \in 1..5 /\ 5 \in 1..5
    OBVIOUS
  <2>2. \A b \in 1..5 : b = 1 \/ b = 2 \/ b = 3 \/ b = 4 \/ b = 5
    OBVIOUS
  <2>3. \A i \in S : i \in P[1] \/ i \in P[2] \/ i \in P[3] \/ i \in P[4] \/ i \in P[5]
    BY <2>2
  <2>4. P[1] \subseteq S /\ P[2] \subseteq S /\ P[3] \subseteq S /\ P[4] \subseteq S /\ P[5] \subseteq S
    BY <2>1
  <2>5. \A i \in S : /\ ~(i \in P[1] /\ i \in P[2]) /\ ~(i \in P[1] /\ i \in P[3]) /\ ~(i \in P[1] /\ i \in P[4])
                     /\ ~(i \in P[1] /\ i \in P[5]) /\ ~(i \in P[2] /\ i \in P[3]) /\ ~(i \in P[2] /\ i \in P[4])
                     /\ ~(i \in P[2] /\ i \in P[5]) /\ ~(i \in P[3] /\ i \in P[4]) /\ ~(i \in P[3] /\ i \in P[5])
                     /\ ~(i \in P[4] /\ i \in P[5])
    BY <2>1
  <2> QED
    BY <2>3, <2>4, <2>5
<1>2. IsFiniteSet(four) /\ IsFiniteSet(three) /\ IsFiniteSet(two)
  BY <1>1, FS_Subset
<1> HIDE DEF two, three, four
<1>3. Splits(S, four, P[5]) /\ Splits(four, three, P[4]) /\ Splits(three, two, P[3]) /\ Splits(two, P[1], P[2])
  BY <1>1 DEF Splits
<1>4. /\ Cardinality(four) \in Nat /\ Cardinality(P[5]) \in Nat
      /\ Cardinality(S) = Cardinality(four) + Cardinality(P[5])
  BY <1>3, Halves
<1>5. /\ Cardinality(three) \in Nat /\ Cardinality(P[4]) \in Nat
      /\ Cardinality(four) = Cardinality(three) + Cardinality(P[4])
  BY <1>3, <1>2, Halves
<1>6. /\ Cardinality(two) \in Nat /\ Cardinality(P[3]) \in Nat
      /\ Cardinality(three) = Cardinality(two) + Cardinality(P[3])
  BY <1>3, <1>2, Halves
<1>7. /\ Cardinality(P[1]) \in Nat /\ Cardinality(P[2]) \in Nat
      /\ Cardinality(two) = Cardinality(P[1]) + Cardinality(P[2])
  BY <1>3, <1>2, Halves
<1> QED
  BY <1>4, <1>5, <1>6, <1>7

(* The parts of a report add up.                                           *)
LEMMA ReportAddsUp ==
  ASSUME NEW list \in Seq(EvaluationRecords)
  PROVE  LET r == AccuracyReport(list) IN
           /\ r.predictions = r.counted + r.unknown
           /\ r.counted = r.correct + r.incorrect
           /\ r.correct = r.truePositive + r.trueNegative
           /\ r.incorrect = r.falsePositive + r.falseNegative
           /\ r.counted = r.bins[1] + r.bins[2] + r.bins[3] + r.bins[4] + r.bins[5]
<1> DEFINE all == DOMAIN list
           counted == {i \in all : list[i].result \in CountedResults}
           unknown == {i \in all : list[i].result = "unknown"}
           right == {i \in counted : list[i].result = "correct"}
           sure == {i \in counted : list[i].confidence >= 50}
           bin(b) == {i \in counted : InBin(list[i], b)}
           bins == [b \in 1..5 |-> bin(b)]
           r == AccuracyReport(list)
<1>1. \A i \in all : list[i] \in EvaluationRecords
  OBVIOUS
<1>2. IsFiniteSet(all) /\ Cardinality(all) = Len(list)
  <2>1. all = 1..Len(list) /\ Len(list) \in Nat
    OBVIOUS
  <2> QED
    BY <2>1, FS_Interval
<1>3. all = counted \cup unknown /\ counted \cap unknown = {}
  BY <1>1 DEF EvaluationRecords, EvaluationResults, CountedResults
<1>4. counted \in SUBSET all /\ right \in SUBSET counted
  OBVIOUS
<1>5. IsFiniteSet(counted)
  BY <1>2, <1>4, FS_Subset
<1>6. IsFiniteSet(right)
  BY <1>4, <1>5, FS_Subset
<1>7. \A b \in 1..5 : r.bins[b] = Cardinality(bin(b))
  BY DEF AccuracyReport
<1>8. /\ r.predictions = Len(list) /\ r.counted = Cardinality(counted) /\ r.unknown = Cardinality(unknown)
      /\ r.correct = Cardinality(right) /\ r.incorrect = Cardinality(counted) - Cardinality(right)
      /\ r.truePositive = Cardinality(right \cap sure) /\ r.trueNegative = Cardinality(right \ sure)
      /\ r.falsePositive = Cardinality(sure \ right)
      /\ r.falseNegative = Cardinality(counted \ (right \cup sure))
  BY DEF AccuracyReport
<1>9. Cardinality(all) = Cardinality(counted) + Cardinality(unknown)
  <2> HIDE DEF all, counted, unknown
  <2>1. Splits(all, counted, unknown)
    BY <1>3 DEF Splits
  <2> QED BY <1>2, <2>1, Halves
<1>10. /\ Cardinality(right) \in Nat /\ Cardinality(counted \ right) \in Nat
       /\ Cardinality(counted) = Cardinality(right) + Cardinality(counted \ right)
  <2>1. Splits(counted, right, counted \ right)
    BY DEF Splits
  <2> HIDE DEF counted, right
  <2> QED BY <1>5, <2>1, Halves
<1>11. Cardinality(right) = Cardinality(right \cap sure) + Cardinality(right \ sure)
  <2>1. Splits(right, right \cap sure, right \ sure)
    BY DEF Splits
  <2> HIDE DEF right, sure
  <2> QED BY <1>6, <2>1, Halves
<1>12. Cardinality(counted \ right) = Cardinality(sure \ right) + Cardinality(counted \ (right \cup sure))
  <2>1. Splits(counted \ right, sure \ right, counted \ (right \cup sure))
    BY DEF Splits
  <2>2. IsFiniteSet(counted \ right)
    BY <1>5, FS_Difference
  <2> HIDE DEF counted, right, sure
  <2> QED BY <2>1, <2>2, Halves
<1>13. Cardinality(counted) = Cardinality(bin(1)) + Cardinality(bin(2)) + Cardinality(bin(3))
                                + Cardinality(bin(4)) + Cardinality(bin(5))
  <2>1. \A b \in 1..5 : bin(b) \subseteq counted
    OBVIOUS
  <2>2. \A i \in counted : \E b \in 1..5 : i \in bin(b)
    <3>1. SUFFICES ASSUME NEW i \in counted PROVE \E b \in 1..5 : InBin(list[i], b)
      OBVIOUS
    <3> QED BY <1>1, OneBin
  <2>3. \A a, b \in 1..5 : \A i \in counted : i \in bin(a) /\ i \in bin(b) => a = b
    BY <1>1, OneBin
  <2>4. \A b \in 1..5 : bins[b] = bin(b)
    OBVIOUS
  <2> HIDE DEF counted, bin, bins
  <2>5. /\ \A b \in 1..5 : bins[b] \subseteq counted
        /\ \A i \in counted : \E b \in 1..5 : i \in bins[b]
        /\ \A a, b \in 1..5 : \A i \in counted : i \in bins[a] /\ i \in bins[b] => a = b
    BY <2>1, <2>2, <2>3, <2>4
  <2>6. Cardinality(counted) = Cardinality(bins[1]) + Cardinality(bins[2]) + Cardinality(bins[3])
                                 + Cardinality(bins[4]) + Cardinality(bins[5])
    BY <1>5, <2>5, FiveParts
  <2> QED BY <2>4, <2>6
<1>14. r.bins[1] = Cardinality(bin(1)) /\ r.bins[2] = Cardinality(bin(2)) /\ r.bins[3] = Cardinality(bin(3))
         /\ r.bins[4] = Cardinality(bin(4)) /\ r.bins[5] = Cardinality(bin(5))
  BY <1>7
<1> HIDE DEF all, counted, unknown, right, sure, bin, r
<1>15. r.counted = r.bins[1] + r.bins[2] + r.bins[3] + r.bins[4] + r.bins[5]
  BY <1>8, <1>13, <1>14
<1>16. r.predictions = r.counted + r.unknown /\ r.correct = r.truePositive + r.trueNegative
  BY <1>2, <1>8, <1>9, <1>11
<1>17. r.counted = r.correct + r.incorrect /\ r.incorrect = r.falsePositive + r.falseNegative
  BY <1>8, <1>10, <1>12
<1> QED
  BY <1>15, <1>16, <1>17 DEF r

(* An outcome nobody knows is not counted.                                 *)
LEMMA UnknownChangesNothing ==
  ASSUME NEW list \in Seq(EvaluationRecords), NEW e \in EvaluationRecords, e.result = "unknown"
  PROVE  /\ Measures(Append(list, e)) = Measures(list)
         /\ AccuracyReport(Append(list, e)).counted = AccuracyReport(list).counted
<1> DEFINE more == Append(list, e)
           counted(s) == {i \in DOMAIN s : s[i].result \in CountedResults}
           right(s) == {i \in counted(s) : s[i].result = "correct"}
           sure(s) == {i \in counted(s) : s[i].confidence >= 50}
           bin(s, b) == {i \in counted(s) : InBin(s[i], b)}
<1>1. /\ DOMAIN more = DOMAIN list \cup {Len(list) + 1}
      /\ more[Len(list) + 1] = e /\ Len(list) + 1 \notin DOMAIN list
      /\ \A i \in DOMAIN list : more[i] = list[i]
  OBVIOUS
<1>2. counted(more) = counted(list)
  BY <1>1 DEF CountedResults
<1>3. \A i \in counted(list) : more[i] = list[i]
  BY <1>1
<1>4. right(more) = right(list) /\ sure(more) = sure(list)
  BY <1>2, <1>3
<1>5. \A b \in 1..5 : bin(more, b) = bin(list, b)
  BY <1>2, <1>3
<1>6. [b \in 1..5 |-> Cardinality(bin(more, b))] = [b \in 1..5 |-> Cardinality(bin(list, b))]
  <2> HIDE DEF bin
  <2> QED BY <1>5
<1>7. \A s : LET tp == Cardinality(right(s) \cap sure(s))
                 total == Cardinality(counted(s))
                 fp == Cardinality(sure(s) \ right(s))
                 fn == Cardinality(counted(s) \ (right(s) \cup sure(s))) IN
         /\ Measures(s) = <<Rate(Cardinality(right(s)), total), Rate(tp, tp + fp), Rate(tp, tp + fn),
                            [b \in 1..5 |-> Cardinality(bin(s, b))]>>
         /\ AccuracyReport(s).counted = total
  BY DEF Measures, AccuracyReport
<1> HIDE DEF more, counted, right, sure, bin
<1> QED
  BY <1>2, <1>4, <1>6, <1>7 DEF more

(* What a sum is made of.                                                  *)
LEMMA SumIs ==
  ASSUME NEW s \in [1..Cases -> Nat]
  PROVE  \E f \in [0..Cases -> Nat] :
           /\ SumOf(s) = f[Cases] /\ f[0] = 0
           /\ \A c \in 1..Cases : f[c] = f[c - 1] + s[c]
<1> DEFINE Sums(f, m) == f = [c \in 0..m |-> IF c = 0 THEN 0 ELSE f[c - 1] + s[c]]
           bad == {m \in Nat : m <= Cases /\ ~ \E f \in [0..m -> Nat] : Sums(f, m)}
<1>0. Cases \in Nat
  BY ValidationAssumption
<1>1. bad = {}
  <2>1. SUFFICES ASSUME bad # {} PROVE FALSE
    OBVIOUS
  <2>2. PICK m \in bad : \A j \in bad : m <= j
    <3>1. bad \in SUBSET Nat
      OBVIOUS
    <3> HIDE DEF bad
    <3> QED BY <2>1, <3>1, SmallestExists
  <2>3. CASE m = 0
    <3>1. Sums([c \in 0..0 |-> 0], 0) /\ [c \in 0..0 |-> 0] \in [0..0 -> Nat]
      OBVIOUS
    <3> QED BY <2>3, <3>1
  <2>4. CASE m # 0
    <3>1. m - 1 \in Nat /\ m - 1 \notin bad /\ m - 1 <= Cases /\ m <= Cases /\ m \in Nat
      <4>1. m \in Nat /\ m <= Cases
        OBVIOUS
      <4>2. m - 1 \in Nat /\ ~(m <= m - 1) /\ m - 1 <= Cases
        BY <1>0, <2>4, <4>1
      <4> HIDE DEF bad
      <4> QED BY <2>2, <4>1, <4>2
    <3>2. PICK f \in [0..(m - 1) -> Nat] : Sums(f, m - 1)
      BY <3>1
    <3>3. PICK g : g = [c \in 0..m |-> IF c = m THEN f[m - 1] + s[m] ELSE f[c]]
      OBVIOUS
    <3>4. /\ g[m] = f[m - 1] + s[m] /\ g[m] \in Nat
          /\ \A c \in 0..(m - 1) : g[c] = f[c] /\ g[c] \in Nat
      <4>1. m \in 1..Cases /\ m - 1 \in 0..(m - 1) /\ m \in 0..m
        BY <1>0, <2>4, <3>1
      <4>2. s[m] \in Nat /\ f[m - 1] \in Nat
        BY <4>1
      <4>3. \A c \in 0..(m - 1) : c \in 0..m /\ c # m /\ f[c] \in Nat
        BY <3>1
      <4> QED BY <3>3, <4>1, <4>2, <4>3
    <3>5. g \in [0..m -> Nat]
      <4>1. \A c \in 0..m : c = m \/ c \in 0..(m - 1)
        BY <3>1
      <4> QED BY <3>3, <3>4, <4>1
    <3>6. Sums(g, m)
      <4>1. ASSUME NEW c \in 0..m
            PROVE  g[c] = IF c = 0 THEN 0 ELSE g[c - 1] + s[c]
        <5>1. CASE c = m
          BY <2>4, <3>1, <3>4, <5>1
        <5>2. CASE c # m
          <6>1. c \in 0..(m - 1) /\ (c # 0 => c - 1 \in 0..(m - 1))
            BY <3>1, <5>2
          <6> QED BY <3>2, <3>4, <6>1
        <5> QED BY <5>1, <5>2
      <4> QED BY <3>3, <4>1
    <3> QED BY <3>5, <3>6
  <2> QED BY <2>3, <2>4
<1>2. PICK f : Sums(f, Cases) /\ SumOf(s) = f[Cases]
  <2>1. PICK g : Sums(g, Cases)
    <3>1. Cases \notin bad
      <4> HIDE DEF bad
      <4> QED BY <1>1
    <3>2. Cases <= Cases
      BY <1>0
    <3> HIDE DEF Sums
    <3> QED BY <1>0, <3>1, <3>2
  <2> DEFINE upTo == CHOOSE h : Sums(h, Cases)
  <2>2. Sums(upTo, Cases)
    BY <2>1, Zenon
  <2>3. SumOf(s) = upTo[Cases]
    BY Zenon DEF SumOf
  <2> HIDE DEF upTo, Sums
  <2> QED BY <2>2, <2>3
<1>3. f \in [0..Cases -> Nat]
  <2>1. PICK g \in [0..Cases -> Nat] : Sums(g, Cases)
    <3>1. Cases \notin bad
      <4> HIDE DEF bad
      <4> QED BY <1>1
    <3>2. Cases <= Cases
      BY <1>0
    <3> HIDE DEF Sums
    <3> QED BY <1>0, <3>1, <3>2
  <2> DEFINE apart == {c \in Nat : c <= Cases /\ f[c] # g[c]}
  <2>2. apart = {}
    <3>1. SUFFICES ASSUME apart # {} PROVE FALSE
      OBVIOUS
    <3>2. PICK c \in apart : \A j \in apart : c <= j
      <4>1. apart \in SUBSET Nat
        OBVIOUS
      <4> HIDE DEF apart
      <4> QED BY <3>1, <4>1, SmallestExists
    <3>3. c \in 0..Cases
      BY <1>0
    <3>4. f[c] = (IF c = 0 THEN 0 ELSE f[c - 1] + s[c]) /\ g[c] = IF c = 0 THEN 0 ELSE g[c - 1] + s[c]
      BY <1>2, <2>1, <3>3
    <3>5. c # 0
      BY <3>4
    <3>6. c - 1 \in Nat /\ c - 1 <= Cases /\ ~(c <= c - 1)
      BY <1>0, <3>3, <3>5
    <3>7. c - 1 \notin apart
      <4> HIDE DEF apart
      <4> QED BY <3>2, <3>6
    <3>8. f[c - 1] = g[c - 1]
      BY <3>6, <3>7
    <3> QED BY <3>4, <3>8
  <2>3. \A c \in 0..Cases : f[c] = g[c]
    BY <1>0, <2>2
  <2>4. f = g
    BY <1>2, <2>1, <2>3
  <2> QED BY <2>4
<1>4. f[0] = 0 /\ \A c \in 1..Cases : f[c] = f[c - 1] + s[c]
  BY <1>0, <1>2
<1> QED BY <1>2, <1>3, <1>4

(* Summand by summand no less, no less in sum.                             *)
LEMMA SumGrows ==
  ASSUME NEW s \in [1..Cases -> Nat], NEW t \in [1..Cases -> Nat], \A c \in 1..Cases : s[c] <= t[c]
  PROVE  SumOf(s) \in Nat /\ SumOf(t) \in Nat /\ SumOf(s) <= SumOf(t)
<1>0. Cases \in Nat
  BY ValidationAssumption
<1>1. PICK f \in [0..Cases -> Nat] :
        SumOf(s) = f[Cases] /\ f[0] = 0 /\ \A c \in 1..Cases : f[c] = f[c - 1] + s[c]
  BY SumIs
<1>2. PICK g \in [0..Cases -> Nat] :
        SumOf(t) = g[Cases] /\ g[0] = 0 /\ \A c \in 1..Cases : g[c] = g[c - 1] + t[c]
  BY SumIs
<1> DEFINE bad == {c \in 0..Cases : ~(f[c] <= g[c])}
<1>3. bad = {}
  <2>1. SUFFICES ASSUME bad # {} PROVE FALSE
    OBVIOUS
  <2>2. PICK c \in bad : \A j \in bad : c <= j
    <3>1. bad \in SUBSET Nat
      BY <1>0
    <3> HIDE DEF bad
    <3> QED BY <2>1, <3>1, SmallestExists
  <2>3. c \in 1..Cases /\ c - 1 \in 0..Cases
    BY <1>0, <1>1, <1>2
  <2>4. f[c - 1] <= g[c - 1]
    <3>1. c - 1 \notin bad
      <4>1. ~(c <= c - 1)
        BY <2>3
      <4> HIDE DEF bad
      <4> QED BY <2>2, <4>1
    <3> QED BY <2>3, <3>1
  <2>5. f[c] = f[c - 1] + s[c] /\ g[c] = g[c - 1] + t[c] /\ s[c] <= t[c]
    BY <1>1, <1>2, <2>3
  <2>6. f[c - 1] \in Nat /\ g[c - 1] \in Nat /\ s[c] \in Nat /\ t[c] \in Nat
    BY <2>3
  <2>7. ~(f[c] <= g[c])
    BY <2>2
  <2> QED BY <2>4, <2>5, <2>6, <2>7
<1>4. Cases \in 0..Cases
  BY <1>0
<1>5. f[Cases] <= g[Cases]
  BY <1>3, <1>4
<1> QED
  BY <1>1, <1>2, <1>4, <1>5

(* The cases that are right score 100 each.                                *)
LEMMA SumCovers ==
  ASSUME NEW s \in [1..Cases -> Nat]
  PROVE  LET right == {c \in 1..Cases : s[c] = 100} IN
         /\ Cardinality(right) \in Nat /\ Cardinality(right) <= Cases
         /\ Cardinality(right) = Cases => right = 1..Cases
         /\ SumOf(s) \in Nat /\ 100 * Cardinality(right) <= SumOf(s)
<1>0. Cases \in Nat
  BY ValidationAssumption
<1> DEFINE right(c) == {i \in 1..c : s[i] = 100}
<1>1. \A c \in Nat : /\ IsFiniteSet(right(c)) /\ Cardinality(right(c)) \in Nat /\ Cardinality(right(c)) <= c
                     /\ Cardinality(right(c)) = c => right(c) = 1..c
  <2>1. TAKE c \in Nat
  <2>2. IsFiniteSet(1..c) /\ Cardinality(1..c) = c
    BY FS_Interval
  <2>3. right(c) \in SUBSET (1..c)
    OBVIOUS
  <2> HIDE DEF right
  <2>4. IsFiniteSet(right(c)) /\ Cardinality(right(c)) <= c /\ (Cardinality(right(c)) = c => right(c) = 1..c)
    BY <2>2, <2>3, FS_Subset
  <2> QED BY <2>4, FS_CardinalityType
<1>2. PICK f \in [0..Cases -> Nat] :
        SumOf(s) = f[Cases] /\ f[0] = 0 /\ \A c \in 1..Cases : f[c] = f[c - 1] + s[c]
  BY SumIs
<1> DEFINE bad == {c \in 0..Cases : ~(100 * Cardinality(right(c)) <= f[c])}
<1>3. bad = {}
  <2>1. SUFFICES ASSUME bad # {} PROVE FALSE
    OBVIOUS
  <2>2. PICK c \in bad : \A j \in bad : c <= j
    <3>1. bad \in SUBSET Nat
      BY <1>0
    <3> HIDE DEF bad
    <3> QED BY <2>1, <3>1, SmallestExists
  <2>3. c \in 0..Cases /\ ~(100 * Cardinality(right(c)) <= f[c])
    BY <2>2
  <2>4. c # 0
    <3>1. right(0) = {}
      OBVIOUS
    <3> HIDE DEF right
    <3>2. SUFFICES ASSUME c = 0 PROVE FALSE
      OBVIOUS
    <3>3. Cardinality(right(c)) = 0
      BY <3>1, <3>2, FS_EmptySet
    <3>4. f[c] = 0
      BY <1>2, <3>2
    <3> QED BY <2>3, <3>3, <3>4
  <2>5. c \in 1..Cases /\ c - 1 \in 0..Cases /\ c - 1 \in Nat
    BY <1>0, <2>3, <2>4
  <2>6. 100 * Cardinality(right(c - 1)) <= f[c - 1]
    <3>1. c - 1 \notin bad
      <4>1. ~(c <= c - 1)
        BY <2>5
      <4> HIDE DEF bad
      <4> QED BY <2>2, <4>1
    <3> QED BY <2>5, <3>1
  <2>7. f[c] = f[c - 1] + s[c] /\ f[c - 1] \in Nat /\ s[c] \in Nat
    BY <1>2, <2>5
  <2>8. Cardinality(right(c - 1)) \in Nat /\ IsFiniteSet(right(c - 1))
    BY <1>1, <2>5
  <2>9. CASE s[c] = 100
    <3>1. right(c) = right(c - 1) \cup {c} /\ c \notin right(c - 1)
      BY <2>5, <2>9
    <3> HIDE DEF right
    <3>2. Cardinality(right(c)) = Cardinality(right(c - 1)) + 1
      BY <2>8, <3>1, FS_AddElement
    <3> QED BY <2>3, <2>6, <2>7, <2>8, <2>9, <3>2
  <2>10. CASE s[c] # 100
    <3>1. right(c) = right(c - 1)
      BY <2>5, <2>10
    <3> HIDE DEF right
    <3> QED BY <2>3, <2>6, <2>7, <2>8, <3>1
  <2> QED BY <2>9, <2>10
<1>4. Cases \in 0..Cases
  BY <1>0
<1>5. 100 * Cardinality(right(Cases)) <= f[Cases]
  BY <1>3, <1>4
<1>6. f[Cases] \in Nat
  BY <1>4
<1> QED
  BY <1>0, <1>1, <1>2, <1>5, <1>6

ScoresOf(answers) == [c \in 1..Cases |-> ScoreCase(AnswerTo(answers, c))]

(* A run, by the scores of its cases.                                      *)
LEMMA RunIs ==
  ASSUME NEW a
  PROVE  /\ ScoresOf(a) \in [1..Cases -> Nat]
         /\ \A c \in 1..Cases : ScoresOf(a)[c] = ScoreCase(AnswerTo(a, c))
         /\ RunOf(a).answers = a /\ RunOf(a).score = SumOf(ScoresOf(a)) \div Cases
         /\ RunOf(a).accuracy =
              (100 * Cardinality({c \in 1..Cases : ScoresOf(a)[c] = 100})) \div Cases
<1>1. \A x : ScoreCase(x) \in Nat
  BY DEF ScoreCase
<1>2. ScoresOf(a) \in [1..Cases -> Nat] /\ \A c \in 1..Cases : ScoresOf(a)[c] = ScoreCase(AnswerTo(a, c))
  BY <1>1 DEF ScoresOf
<1>3. Cases # 0
  BY ValidationAssumption
<1>4. /\ RunOf(a).answers = a /\ RunOf(a).score = SumOf(ScoresOf(a)) \div Cases
      /\ RunOf(a).accuracy = Rate(Cardinality({c \in 1..Cases : ScoresOf(a)[c] = 100}), Cases)
  BY DEF RunOf, ScoresOf
<1> QED
  BY <1>2, <1>3, <1>4 DEF Rate

(* A list of answers is a sequence.                                        *)
LEMMA AnswersAre ==
  ASSUME NEW a \in Answers
  PROVE  /\ a \in Seq({"right", "close", "wrong"}) /\ Len(a) \in Nat
         /\ DOMAIN a = 1..Len(a)
<1>1. PICK n \in 0..Cases + 1 : a \in [1..n -> {"right", "close", "wrong"}]
  BY DEF Answers
<1>2. n \in Nat
  BY ValidationAssumption
<1>3. a \in Seq({"right", "close", "wrong"})
  BY <1>1, <1>2
<1> QED
  BY <1>3

(* No run claims more accuracy than score.                                 *)
LEMMA ScoresCover ==
  ASSUME NEW a \in Answers
  PROVE  /\ RunOf(a).accuracy <= RunOf(a).score
         /\ RunOf(a).accuracy = 100 => \A i \in DOMAIN a : i <= Cases => a[i] = "right"
<1>0. Cases \in Nat \ {0}
  BY ValidationAssumption
<1> DEFINE s == ScoresOf(a)
           right == {c \in 1..Cases : s[c] = 100}
<1>1. s \in [1..Cases -> Nat]
  BY RunIs
<1>2. /\ Cardinality(right) \in Nat /\ Cardinality(right) <= Cases
      /\ Cardinality(right) = Cases => right = 1..Cases
      /\ SumOf(s) \in Nat /\ 100 * Cardinality(right) <= SumOf(s)
  <2> HIDE DEF s
  <2> QED BY <1>1, SumCovers
<1>3. RunOf(a).score = SumOf(s) \div Cases /\ RunOf(a).accuracy = (100 * Cardinality(right)) \div Cases
  BY RunIs
<1>4. \A c \in 1..Cases : s[c] = ScoreCase(AnswerTo(a, c))
  BY RunIs
<1> HIDE DEF s, right
<1>5. RunOf(a).accuracy <= RunOf(a).score
  <2>1. 100 * Cardinality(right) \in Nat
    BY <1>2
  <2> QED BY <1>0, <1>2, <1>3, <2>1, ShareGrows
<1>6. ASSUME RunOf(a).accuracy = 100, NEW i \in DOMAIN a, i <= Cases
      PROVE  a[i] = "right"
  <2>1. right = 1..Cases
    <3>1. Cardinality(right) = Cases
      BY <1>0, <1>2, <1>3, <1>6, FullShare
    <3> QED BY <1>2, <3>1
  <2>2. i \in 1..Cases /\ i <= Len(a)
    BY <1>0, <1>6, AnswersAre
  <2>3. ScoreCase(a[i]) = 100
    <3>1. s[i] = 100
      BY <2>1, <2>2 DEF right
    <3> QED BY <1>4, <2>2, <3>1 DEF AnswerTo
  <2> QED BY <2>3 DEF ScoreCase
<1> QED
  BY <1>5, <1>6

(* No answer is worth more than none.                                      *)
LEMMA AnswersCost ==
  ASSUME NEW a \in Answers, NEW n \in 0..Len(a)
  PROVE  RunOf(a).score <= RunOf(SubSeq(a, 1, n)).score
<1>0. Cases \in Nat \ {0}
  BY ValidationAssumption
<1> DEFINE cut == SubSeq(a, 1, n)
<1>1. Len(cut) = n /\ n \in Nat /\ n <= Len(a) /\ Len(a) \in Nat
      /\ \A c \in 1..n : cut[c] = a[c]
  <2>1. a \in Seq({"right", "close", "wrong"}) /\ Len(a) \in Nat
    BY AnswersAre
  <2> QED BY <2>1
<1>2. ASSUME NEW c \in 1..Cases
      PROVE  ScoresOf(a)[c] <= ScoresOf(cut)[c]
  <2>1. ScoresOf(a)[c] = ScoreCase(AnswerTo(a, c)) /\ ScoresOf(cut)[c] = ScoreCase(AnswerTo(cut, c))
    <3> HIDE DEF cut
    <3> QED BY RunIs
  <2>2. AnswerTo(cut, c) = AnswerTo(a, c) \/ AnswerTo(cut, c) = "right"
    <3> HIDE DEF cut
    <3> QED BY <1>0, <1>1 DEF AnswerTo
  <2> QED BY <2>1, <2>2 DEF ScoreCase
<1> HIDE DEF cut
<1>3. ScoresOf(a) \in [1..Cases -> Nat] /\ ScoresOf(cut) \in [1..Cases -> Nat]
  BY RunIs
<1>4. SumOf(ScoresOf(a)) \in Nat /\ SumOf(ScoresOf(cut)) \in Nat /\ SumOf(ScoresOf(a)) <= SumOf(ScoresOf(cut))
  BY <1>2, <1>3, SumGrows
<1>5. RunOf(a).score = SumOf(ScoresOf(a)) \div Cases /\ RunOf(cut).score = SumOf(ScoresOf(cut)) \div Cases
  BY RunIs
<1> QED
  BY <1>0, <1>4, <1>5, ShareGrows DEF cut

(* The evaluations are records, the benchmarks are runs.                   *)
LEMMA ValidationInvHolds ==
  /\ ValidationInit => ValidationInv
  /\ ValidationInv /\ [ValidationNext]_validationVars => ValidationInv'
<1>1. ValidationInit => ValidationInv
  BY DEF ValidationInit, ValidationInv
<1>2. ASSUME ValidationInv, RecordEvaluation
      PROVE  ValidationInv'
  <2>1. PICK r \in EvaluationRecords : evaluations' = Append(evaluations, r)
    BY <1>2 DEF RecordEvaluation
  <2>2. evaluations' \in Seq(EvaluationRecords)
    BY <1>2, <2>1 DEF ValidationInv
  <2> QED BY <1>2, <2>2 DEF ValidationInv, RecordEvaluation
<1>3. ASSUME ValidationInv, RunBenchmark
      PROVE  ValidationInv'
  BY <1>3 DEF ValidationInv, RunBenchmark
<1>4. ASSUME ValidationInv, UNCHANGED validationVars
      PROVE  ValidationInv'
  BY <1>4 DEF ValidationInv, validationVars
<1> QED
  BY <1>1, <1>2, <1>3, <1>4 DEF ValidationNext

(* Recording what nobody knows moves no rate and no gate.                  *)
LEMMA UnknownStep ==
  ASSUME ValidationInv, [ValidationNext]_validationVars,
         Len(evaluations') > Len(evaluations), evaluations'[Len(evaluations')].result = "unknown"
  PROVE  Measures(evaluations') = Measures(evaluations) /\ Gate13' = Gate13
<1>0. evaluations \in Seq(EvaluationRecords)
  BY DEF ValidationInv
<1>1. evaluations' # evaluations
  BY <1>0
<1>2. PICK r \in EvaluationRecords : evaluations' = Append(evaluations, r)
  BY <1>1 DEF ValidationNext, RecordEvaluation, RunBenchmark, validationVars
<1>3. r.result = "unknown"
  BY <1>0, <1>2
<1>4. /\ Measures(evaluations') = Measures(evaluations)
      /\ AccuracyReport(evaluations').counted = AccuracyReport(evaluations).counted
  BY <1>0, <1>2, <1>3, UnknownChangesNothing
<1>5. evaluations = << >> => AccuracyReport(evaluations).counted = 0
  <2>1. SUFFICES ASSUME evaluations = << >> PROVE AccuracyReport(<< >>).counted = 0
    OBVIOUS
  <2>2. {i \in DOMAIN << >> : << >>[i].result \in CountedResults} = {}
    OBVIOUS
  <2>3. AccuracyReport(<< >>).counted =
          Cardinality({i \in DOMAIN << >> : << >>[i].result \in CountedResults})
    BY DEF AccuracyReport
  <2> QED BY <2>2, <2>3, FS_EmptySet
<1>6. evaluations' # << >>
  BY <1>0, <1>2
<1> QED
  BY <1>4, <1>5, <1>6 DEF Gate13

(* The measures of accuracy and of benchmarks add up, whatever was         *)
(* recorded and answered: reports and runs (AccuracySystem.report,         *)
(* BenchmarkRunner.run) are functions of what is stored, and a step        *)
(* that records an unknown outcome moves none of them.                     *)
THEOREM MeasuresStayRight == ValidationSpec => MeasuresAddUp
<1>1. ValidationSpec => []ValidationInv
  BY ValidationInvHolds, PTL DEF ValidationSpec
<1>2. ValidationInv => PartsAddUp /\ ScoreCoversAccuracy /\ AnswersOnlyCost
  <2>1. SUFFICES ASSUME ValidationInv
                 PROVE  PartsAddUp /\ ScoreCoversAccuracy /\ AnswersOnlyCost
    OBVIOUS
  <2>2. PartsAddUp
    BY <2>1, ReportAddsUp DEF ValidationInv, PartsAddUp
  <2>3. ASSUME NEW b \in benchmarks
        PROVE  \E a \in Answers : b = RunOf(a) /\ b.answers = a
    <3>1. PICK a \in Answers : b = RunOf(a)
      BY <2>1 DEF ValidationInv
    <3>2. RunOf(a).answers = a
      BY RunIs
    <3> QED BY <3>1, <3>2
  <2>4. ScoreCoversAccuracy
    BY <2>3, ScoresCover DEF ScoreCoversAccuracy
  <2>5. AnswersOnlyCost
    BY <2>3, AnswersCost DEF AnswersOnlyCost
  <2> QED BY <2>2, <2>4, <2>5
<1>3. ValidationInv /\ [ValidationNext]_validationVars =>
        [Len(evaluations') > Len(evaluations) /\ evaluations'[Len(evaluations')].result = "unknown" =>
           Measures(evaluations') = Measures(evaluations) /\ Gate13' = Gate13]_validationVars
  BY UnknownStep
<1> QED
  BY <1>1, <1>2, <1>3, PTL DEF ValidationSpec, MeasuresAddUp, UnknownSaysNothing
=============================================================================
