------------------------------ MODULE Gateway -------------------------------
(***************************************************************************)
(* From an HTTP call to the last line about it in the audit log, for every *)
(* action there is (local-bridge/app/main.py, with the tables of Routes):  *)
(* a read is answered and logged; anything else becomes a row of the       *)
(* approval queue, and a decision on the row runs it through               *)
(* _execute_action.  Row and lines are written apart, by threads that may  *)
(* be anywhere when the process dies.                                      *)
(*                                                                         *)
(* Here one thread decides a row; how decisions race, and what a restart   *)
(* does to the queue, is ApprovalStore's, and requests bound to a stage    *)
(* are WorkflowManager's.                                                  *)
(***************************************************************************)
EXTENDS Routes, FiniteSets

CONSTANTS
  MaxRows, \* bound: rows of the approvals table
  Sample,  \* actions that are tried together; every action is tried alone
  MaxCuts  \* bound: crashes

ASSUME GatewayAssumption == MaxRows \in Nat /\ MaxCuts \in Nat /\ Sample \subseteq Posted

VARIABLES
  menu,    \* the actions this behaviour tries
  left,    \* bound: how many calls are still to come
  asked,   \* approvals: the action of a row, "none" before the INSERT
  status,  \* approvals.status
  noted,   \* audit log: the results noted with a row's request id
  book,    \* audit log: the lines without a request id
  owing,   \* rows whose pending line their creator has not written yet
  decider, \* per row: where the thread that decides it is
  origin,  \* of a row queued by a running action: the row of that action
  cuts,
  \* history variables: no guard reads them
  severed,   \* rows a thread of which was killed
  unserved,  \* actions answered with "unknown action" or "cannot be executed"
  altered,   \* rows that changed files of the workspace
  captured,  \* rows that a rollback snapshot was captured for
  approvals  \* per row: how often a human approved it

gatewayVars == <<menu, left, asked, status, noted, book, owing, decider, origin, cuts,
                 severed, unserved, altered, captured, approvals>>
history == <<severed, unserved, altered, captured, approvals>>

-----------------------------------------------------------------------------
Rows == 1..MaxRows
Budget(actions) == IF Cardinality(actions) = 1 THEN 1 ELSE 2

GatewayInit ==
  /\ menu \in {{a} : a \in Reads \cup Posted} \cup {Sample}
  /\ left = Budget(menu)
  /\ asked = [r \in Rows |-> "none"] /\ status = [r \in Rows |-> "absent"]
  /\ noted = [r \in Rows |-> {}] /\ book = {} /\ owing = {}
  /\ decider = [r \in Rows |-> "idle"] /\ origin = [r \in Rows |-> r]
  /\ cuts = 0
  /\ severed = {} /\ unserved = {} /\ altered = {} /\ captured = {}
  /\ approvals = [r \in Rows |-> 0]

Called(a) == a \in menu /\ left > 0 /\ left' = left - 1
NoRow == UNCHANGED <<asked, status, noted, owing, decider, origin, cuts, severed, altered, captured, approvals>>

(* A GET, or a POST that changes nothing.                                  *)
Read(a) ==
  /\ a \in Reads /\ Called(a)
  /\ \/ a \in Unlogged /\ UNCHANGED book
     \/ /\ a \notin Unlogged
        /\ \/ book' = book \cup {<<a, "success">>}
           \/ UNCHANGED book
           \/ a \in Telling /\ book' = book \cup {<<a, "rejected">>}
  /\ NoRow /\ UNCHANGED <<menu, unserved>>

(* _register_pending, or the handler before it, refuses the call.          *)
Refuse(a) ==
  /\ a \in Posted /\ Called(a)
  /\ \/ /\ ~HasLevel(a) /\ unserved' = unserved \cup {a} /\ UNCHANGED book
     \/ /\ a \in Vetted /\ UNCHANGED <<book, unserved>>
     \/ /\ a \in Previewed /\ HasLevel(a)
        /\ book' = book \cup {<<a, "rejected">>} /\ UNCHANGED unserved
  /\ NoRow /\ UNCHANGED menu

Inserts(r, a, by) ==
  /\ asked[r] = "none" /\ \A o \in 1..(r - 1) : asked[o] # "none"
  /\ HasLevel(a)
  /\ asked' = [asked EXCEPT ![r] = a] /\ status' = [status EXCEPT ![r] = "pending"]
  /\ origin' = [origin EXCEPT ![r] = by]
  /\ owing' = owing \cup {r}

(* The row can be seen, and decided, before its line is written.           *)
Queue(r, a) ==
  /\ a \in Posted /\ Called(a) /\ Inserts(r, a, r)
  /\ UNCHANGED <<menu, noted, book, decider, cuts, history>>

Notes(r, result) == noted' = [noted EXCEPT ![r] = @ \cup {result}]

(* Slip: no line for a row that was decided in the meantime.               *)
NotePendingIfPending(r) ==
  /\ r \in owing /\ owing' = owing \ {r}
  /\ IF status[r] = "pending" THEN Notes(r, "pending_approval") ELSE UNCHANGED noted
  /\ UNCHANGED <<menu, left, asked, status, book, decider, origin, cuts, history>>

NotePending(r) ==
  /\ r \in owing /\ owing' = owing \ {r}
  /\ Notes(r, "pending_approval")
  /\ UNCHANGED <<menu, left, asked, status, book, decider, origin, cuts, history>>

-----------------------------------------------------------------------------
DeciderTo(r, to) == decider' = [decider EXCEPT ![r] = to]
Marks(r, outcome) == status' = [status EXCEPT ![r] = outcome]
AwaitsDecision(r) == status[r] = "pending" /\ decider[r] = "idle"

(* mark_rejected, and then its line.                                       *)
RejectRow(r) ==
  /\ AwaitsDecision(r) /\ Marks(r, "rejected") /\ DeciderTo(r, "rejected")
  /\ UNCHANGED <<menu, left, asked, noted, book, owing, origin, cuts, history>>

(* mark_approved.  A restart asks for a reconfirmation first.              *)
ApproveRow(r) ==
  /\ AwaitsDecision(r) /\ Marks(r, "approved") /\ DeciderTo(r, "run")
  /\ approvals' = [approvals EXCEPT ![r] = @ + 1]
  /\ UNCHANGED <<menu, left, asked, noted, book, owing, origin, cuts,
                 severed, unserved, altered, captured>>

(* _execute_action, up to the memory append it may queue: the snapshot is  *)
(* taken, then the action's branch runs and comes to an end, a BridgeError *)
(* or another exception.  Nobody catches the last.                         *)
Run(r) ==
  LET a == asked[r] IN
  /\ decider[r] = "run"
  /\ captured' = captured \cup (IF a \in Uncaptured THEN {} ELSE {r})
  /\ \/ /\ a \in Executable
        /\ altered' = altered \cup (IF a \in WritesFiles THEN {r} ELSE {})
        /\ \/ DeciderTo(r, IF a \in DOMAIN Follows THEN "follow" ELSE "executed")
           \/ DeciderTo(r, "failed")
           \/ a \in Careless /\ DeciderTo(r, "idle")
        /\ UNCHANGED unserved
     \/ /\ a \notin Executable
        /\ DeciderTo(r, "failed") /\ unserved' = unserved \cup {a} /\ UNCHANGED altered
  /\ UNCHANGED <<menu, left, asked, status, noted, book, owing, origin, cuts, severed, approvals>>

(* Slip: the append is approved along with what it records.                *)
FollowUpApproved(r, f) ==
  /\ decider[r] = "follow" /\ asked[f] = "none"
  /\ asked' = [asked EXCEPT ![f] = Follows[asked[r]]] /\ status' = [status EXCEPT ![f] = "approved"]
  /\ origin' = [origin EXCEPT ![f] = r] /\ owing' = owing \cup {f}
  /\ decider' = [decider EXCEPT ![r] = "followed", ![f] = "run"]
  /\ UNCHANGED <<menu, left, noted, book, cuts, history>>

(* The memory append is a request of its own.                              *)
FollowUp(r, f) ==
  /\ decider[r] = "follow" /\ Inserts(f, Follows[asked[r]], r)
  /\ DeciderTo(r, "followed")
  /\ UNCHANGED <<menu, left, noted, book, cuts, history>>

(* An execution that belongs to a loop leaves its memory to the loop.      *)
FollowUpLeftToLoop(r) ==
  /\ decider[r] = "follow" /\ asked[r] = "execution_execute" /\ DeciderTo(r, "executed")
  /\ UNCHANGED <<menu, left, asked, status, noted, book, owing, origin, cuts, history>>

FollowUpQueued(r) ==
  /\ decider[r] = "followed" /\ ~\E f \in owing : origin[f] = r /\ f # r
  /\ DeciderTo(r, "executed")
  /\ UNCHANGED <<menu, left, asked, status, noted, book, owing, origin, cuts, history>>

(* Slip: the line about the outcome is written first.                      *)
MarkOutcomeLineFirst(r) ==
  /\ status[r] = "approved" /\ decider[r] \in {"executed", "failed"}
  /\ IF {"success", "failed"} \cap noted[r] = {}
     THEN Notes(r, IF decider[r] = "executed" THEN "success" ELSE "failed") /\ UNCHANGED status
     ELSE Marks(r, decider[r]) /\ UNCHANGED noted
  /\ UNCHANGED <<menu, left, asked, book, owing, decider, origin, cuts, history>>

(* mark_executed, mark_failed.                                             *)
MarkOutcome(r) ==
  /\ status[r] = "approved" /\ decider[r] \in {"executed", "failed"}
  /\ Marks(r, decider[r])
  /\ UNCHANGED <<menu, left, asked, noted, book, owing, decider, origin, cuts, history>>

(* The line about the decision, once the row tells the same.               *)
NoteOutcome(r) ==
  /\ decider[r] \in {"executed", "failed", "rejected"} /\ status[r] = decider[r]
  /\ Notes(r, IF decider[r] = "executed" THEN "success" ELSE decider[r])
  /\ DeciderTo(r, "idle")
  /\ UNCHANGED <<menu, left, asked, status, book, owing, origin, cuts, history>>

InHand(r) == r \in owing \/ decider[r] # "idle"

(* The process dies.  No thread of it is taken up again.                   *)
Cut ==
  /\ cuts < MaxCuts /\ cuts' = cuts + 1
  /\ \E r \in Rows : InHand(r)
  /\ severed' = severed \cup {r \in Rows : InHand(r)}
  /\ owing' = {} /\ decider' = [r \in Rows |-> "idle"]
  /\ UNCHANGED <<menu, left, asked, status, noted, book, origin,
                 unserved, altered, captured, approvals>>

GatewayNext ==
  \/ \E a \in menu : Read(a) \/ Refuse(a) \/ \E r \in Rows : Queue(r, a)
  \/ \E r \in Rows :
       \/ NotePending(r) \/ RejectRow(r) \/ ApproveRow(r) \/ Run(r)
       \/ \E f \in Rows : FollowUp(r, f)
       \/ FollowUpLeftToLoop(r) \/ FollowUpQueued(r) \/ MarkOutcome(r) \/ NoteOutcome(r)
  \/ Cut

GatewaySpec == GatewayInit /\ [][GatewayNext]_gatewayVars

-----------------------------------------------------------------------------
(* Properties.                                                             *)

(* The line that tells of a row's fate: see QueueIsTruthful.               *)
Outcomes == [executed |-> "success", failed |-> "failed", rejected |-> "rejected"]

(* What the log says of a row is never more than what the queue says; and  *)
(* once all threads are through with a row, unless one was killed, the log *)
(* says how it was asked for and how it ended, and nothing else, and only  *)
(* an action that can fail in a way nobody catches is left approved.       *)
LogFollowsQueue ==
  \A r \in Rows :
    /\ \A s \in DOMAIN Outcomes : Outcomes[s] \in noted[r] => status[r] = s
    /\ (asked[r] # "none" /\ ~InHand(r) /\ r \notin severed) =>
         /\ "pending_approval" \in noted[r]
         /\ status[r] \in DOMAIN Outcomes => Outcomes[status[r]] \in noted[r]
         /\ status[r] = "approved" => asked[r] \in Careless

(* What ran was approved once, by a human, and what it recorded in the     *)
(* memory was approved apart from it; nothing that failed left a record to *)
(* be approved.                                                            *)
EachRunWasApproved ==
  \A r \in Rows :
    /\ status[r] \in {"approved", "executed", "failed"} => approvals[r] = 1
    /\ origin[r] # r =>
         /\ status[origin[r]] \in {"approved", "executed"}
         /\ asked[r] = Follows[asked[origin[r]]]

(* The queue and the audit log tell the same, and what was done was        *)
(* approved (main.py: _register_pending, permission_approve).              *)
QueueIsTruthful == LogFollowsQueue /\ EachRunWasApproved

(* The tables agree: whatever can be asked for has a level and a branch,   *)
(* and so does what it queues; what changes files can be rolled back; and  *)
(* no line without a request id claims the success of what needs one.      *)
ActionsAreServed ==
  /\ unserved = {}
  /\ altered \subseteq captured
  /\ \A line \in book : line[2] = "success" => line[1] \notin WriteLevel \cup DestructiveLevel
=============================================================================
