------------------------------ MODULE Records -------------------------------
(***************************************************************************)
(* Records that only tell where something stands, and are moved along by   *)
(* approved requests: technical debt (governance/debt), benchmarks and     *)
(* validations (benchmark, validation; all under local-bridge/app).  The   *)
(* request shows the human a move, "current -> target", which nobody       *)
(* checks; when it runs, the record is read and checked anew, and then     *)
(* saved whatever it is by then.  Every request has a connection of its    *)
(* own.  One record is followed, from the request that creates it.         *)
(***************************************************************************)
EXTENDS Naturals, Sequences

CONSTANTS
  MaxAsked,  \* bound: approval requests about the record
  MaxLosses  \* bound: crashes

ASSUME RecordsAssumption == MaxAsked \in Nat /\ MaxLosses \in Nat

VARIABLES
  family,   \* what kind of record it is
  stands,   \* its status column, "missing" before it is saved
  cases,    \* have its cases (a validation's scenarios) been saved
  request,  \* per request: the approval row, what it shows and what it does
  losses,
  \* history variables: no guard reads them
  saves,    \* the requests that moved the record, in order
  outrun    \* requests whose check was out of date when they saved

recordVars == <<family, stands, cases, request, losses, saves, outrun>>

-----------------------------------------------------------------------------
DebtMoves ==
  [OPEN |-> {"ANALYZING"}, ANALYZING |-> {"PROPOSED"}, PROPOSED |-> {"APPROVED"},
   APPROVED |-> {"RESOLVED"}, RESOLVED |-> {"VERIFIED"}, VERIFIED |-> {}]
TrialMoves ==
  [CREATED |-> {"RUNNING", "CANCELLED"}, RUNNING |-> {"COMPLETED", "FAILED", "CANCELLED"},
   COMPLETED |-> {}, FAILED |-> {}, CANCELLED |-> {}]
LegalMoves == IF family = "debt" THEN DebtMoves ELSE TrialMoves
FirstStatus == IF family = "debt" THEN "OPEN" ELSE "CREATED"

Requested == 1..MaxAsked
Unasked == [row |-> "absent", at |-> "none", shown |-> << >>, seen |-> "missing", since |-> 0]
Creates(q) == request[q].shown = << >>

RecordsInit ==
  /\ family \in {"debt", "benchmark", "validation"}
  /\ stands = "missing" /\ cases = FALSE
  /\ request = [q \in Requested |-> Unasked]
  /\ losses = 0 /\ saves = << >> /\ outrun = {}

With(q, row, at) == [request EXCEPT ![q].row = row, ![q].at = at]

-----------------------------------------------------------------------------
AskToCreate(q) ==
  /\ q = 1 /\ request[q] = Unasked
  /\ request' = With(q, "pending", "asked")
  /\ UNCHANGED <<family, stands, cases, losses, saves, outrun>>

(* The record must be there; the move it shows need not be legal.          *)
AskToMove(q) ==
  /\ request[q] = Unasked /\ stands # "missing" /\ request[q - 1] # Unasked
  /\ \E target \in DOMAIN LegalMoves :
       request' = [request EXCEPT ![q] = [row |-> "pending", at |-> "asked",
                                          shown |-> <<stands, target>>, seen |-> "missing",
                                          since |-> Len(saves)]]
  /\ UNCHANGED <<family, stands, cases, losses, saves, outrun>>

ApproveRecord(q) ==
  /\ request[q].row = "pending"
  /\ request' = With(q, "approved", IF Creates(q) THEN "create" ELSE "check")
  /\ UNCHANGED <<family, stands, cases, losses, saves, outrun>>

(* DebtManager.create validates first and saves once.                      *)
CreateDebt(q) ==
  /\ request[q].at = "create" /\ family = "debt"
  /\ \/ stands' = FirstStatus /\ cases' = TRUE /\ request' = With(q, "approved", "mark")
     \/ UNCHANGED <<stands, cases>> /\ request' = With(q, "failed", "over")
  /\ UNCHANGED <<family, losses, saves, outrun>>

(* The other managers save the project first, and then its cases.          *)
CreateTrial(q) ==
  /\ request[q].at = "create" /\ family # "debt"
  /\ stands' = FirstStatus /\ request' = With(q, "approved", "cases")
  /\ UNCHANGED <<family, cases, losses, saves, outrun>>

(* Slip: a scenario that cannot be stored is passed over.                  *)
SaveCasesLeniently(q) ==
  /\ request[q].at = "cases"
  /\ cases' \in {TRUE, FALSE} /\ request' = With(q, "approved", "mark")
  /\ UNCHANGED <<family, stands, losses, saves, outrun>>

(* A scenario of an unknown type is a ValueError.                          *)
SaveCases(q) ==
  /\ request[q].at = "cases"
  /\ \/ cases' = TRUE /\ request' = With(q, "approved", "mark")
     \/ family = "validation" /\ UNCHANGED cases /\ request' = With(q, "approved", "over")
  /\ UNCHANGED <<family, stands, losses, saves, outrun>>

Checks(q) ==
  /\ request[q].at = "check"
  /\ request' = [request EXCEPT ![q].at = "save", ![q].seen = stands]
  /\ UNCHANGED <<family, stands, cases, losses, saves, outrun>>

(* Slip: the move is checked against what the request shows.               *)
CheckMoveAsShown(q) ==
  /\ request[q].shown # << >> /\ request[q].shown[2] \in LegalMoves[request[q].shown[1]]
  /\ Checks(q)

(* transition: the move must be legal from where the record is.            *)
CheckMove(q) ==
  /\ request[q].shown # << >> /\ request[q].shown[2] \in LegalMoves[stands]
  /\ Checks(q)

(* A BridgeError fails the debt's request; the other managers raise a      *)
(* ValueError, which leaves theirs approved.                               *)
RefuseMove(q) ==
  /\ request[q].at = "check" /\ request[q].shown[2] \notin LegalMoves[stands]
  /\ request' = With(q, IF family = "debt" THEN "failed" ELSE "approved", "over")
  /\ UNCHANGED <<family, stands, cases, losses, saves, outrun>>

(* update_status: the row is read again for its other columns, and saved.  *)
SaveStatus(q) ==
  /\ request[q].at = "save"
  /\ stands' = request[q].shown[2]
  /\ saves' = Append(saves, q)
  /\ outrun' = outrun \cup (IF stands = request[q].seen THEN {} ELSE {q})
  /\ request' = With(q, "approved", "mark")
  /\ UNCHANGED <<family, cases, losses>>

MarkMoved(q) ==
  /\ request[q].at = "mark"
  /\ request' = With(q, "executed", "over")
  /\ UNCHANGED <<family, stands, cases, losses, saves, outrun>>

Working(q) == request[q].at \notin {"none", "asked", "over"}

LoseProcess ==
  /\ losses < MaxLosses /\ losses' = losses + 1
  /\ \E q \in Requested : Working(q)
  /\ request' = [q \in Requested |-> IF Working(q) THEN [request[q] EXCEPT !.at = "lost"] ELSE request[q]]
  /\ UNCHANGED <<family, stands, cases, saves, outrun>>
RecordsNext ==
  \/ \E q \in Requested :
       \/ AskToCreate(q) \/ AskToMove(q) \/ ApproveRecord(q)
       \/ CreateDebt(q) \/ CreateTrial(q) \/ SaveCases(q)
       \/ CheckMove(q) \/ RefuseMove(q) \/ SaveStatus(q) \/ MarkMoved(q)
  \/ LoseProcess

RecordsSpec == RecordsInit /\ [][RecordsNext]_recordVars

-----------------------------------------------------------------------------
(* Properties.                                                             *)

(* A request that is EXECUTED did what its row says, once: it created the  *)
(* record with all its cases, or it moved it.  What the move was from is   *)
(* what the human was shown, unless another move came in between.          *)
ExecutedDidIt ==
  \A q \in Requested :
    /\ (request[q].row = "executed" /\ Creates(q)) => (stands # "missing" /\ cases)
    /\ (request[q].row = "executed" /\ ~Creates(q)) =>
         \E i \in DOMAIN saves :
           /\ saves[i] = q /\ \A j \in DOMAIN saves : saves[j] = q => j = i
           /\ request[q].seen = request[q].shown[1] \/ i > request[q].since + 1

(* A debt item's request is only left approved by a crash; a trial's also  *)
(* by a refused move or scenario, and it never runs again.                 *)
ApprovedIsUnfinished ==
  \A q \in Requested :
    (request[q].row = "approved" /\ request[q].at = "over") =>
      family # "debt" /\ \A i \in DOMAIN saves : saves[i] # q

(* The record takes one legal step at a time, and does not leave its last  *)
(* status: only a save whose check was out of date can make it.            *)
StepsAreLegal ==
  [][(stands # "missing" /\ stands' # stands) =>
       (stands' \in LegalMoves[stands] \/ outrun' # outrun)]_recordVars

(* debt/manager.py, benchmark/manager.py and validation/manager.py keep    *)
(* their records' state machines, and their requests say what became of it.*)
RecordsMoveLegally ==
  /\ [](ExecutedDidIt /\ ApprovedIsUnfinished)
  /\ StepsAreLegal
=============================================================================
