---------------------------- MODULE ApprovalStore ----------------------------
(***************************************************************************)
(* The durable approval queue (local-bridge/app/security/permissions.py)   *)
(* and the two endpoints that decide a request and run its action          *)
(* (/permission/approve, /permission/reject in local-bridge/app/main.py).  *)
(*                                                                         *)
(* FastAPI runs the handlers on a thread pool and they share one store.    *)
(* The store's lock covers each SELECT and each UPDATE, but not the pair:  *)
(* every mark_* method reads a row with get(), releases the lock, and      *)
(* later tests and rewrites the row from that copy.  So a call is here a   *)
(* sequence of steps, and the copy it holds is part of the state.          *)
(***************************************************************************)
EXTENDS Naturals, FiniteSets

CONSTANTS
  Requests,     \* approval requests that can be created
  Handlers,     \* threads of the pool that serve HTTP calls
  MaxRestarts   \* bound: how often the process may crash and restart

ASSUME RestartsAssumption == MaxRestarts \in Nat

VARIABLES
  status,    \* approvals.status column; "absent" before the INSERT
  bound,     \* is the row bound to a workflow, stage or session
  due,       \* requests whose expires_at has passed
  boot,      \* the process: "down", "recovering" (startup) or "serving"
  restarts,  \* crashes so far
  call,      \* per thread: the call it serves, where it is, the copy it holds
  \* history variables: no action's guard reads them
  awaiting,  \* recovered by a restart and not reconfirmed since
  stale,     \* rewritten at some time from a copy that was out of date
  ran,       \* how often the action was run (2 stands for "2 or more")
  lost       \* a run was cut off by a crash or an unforeseen exception

storeVars == <<status, bound>>
historyVars == <<awaiting, stale, ran, lost>>
vars == <<status, bound, due, boot, restarts, call, awaiting, stale, ran, lost>>

-----------------------------------------------------------------------------
(* ApprovalStatus, and the statuses each operation accepts.                *)

Open == {"pending", "recovered", "reconfirmed"}
Terminal == {"executed", "rejected", "expired", "failed"}
Status == {"absent", "approved"} \cup Open \cup Terminal

(* Slips: approving a recovered row as it is, or an approved one again.    *)
ApprovableRecovered == {"pending", "recovered", "reconfirmed"}
ApprovableAgain == {"pending", "reconfirmed", "approved"}

Approvable == {"pending", "reconfirmed"}
(* Slip: mark_failed forgets that an expired row is final.                 *)
NeverFailedNotExpired == {"executed", "rejected"}

NeverFailed == {"executed", "rejected", "expired"}

(* What a call may be, and the points between its critical sections.       *)
Ops == {"none", "approve", "reconfirm", "reject", "attach", "void"}
Points == {"idle", "get", "write", "run", "get_executed", "write_executed",
           "get_failed", "write_failed"}

NoRequest == "no_request"
CallOf(op, req, at, seen, seenBound, late) ==
  [op |-> op, req |-> req, at |-> at,
   seen |-> seen, seenBound |-> seenBound, late |-> late]

Idle == CallOf("none", NoRequest, "idle", "absent", FALSE, FALSE)

Calls == [op: Ops, req: Requests \cup {NoRequest}, at: Points,
          seen: Status, seenBound: BOOLEAN, late: BOOLEAN]

(* Slip: reconfirmed rows are left out of the sweep.                       *)
ExpireDueNotReconfirmed(st) ==
  [r \in Requests |->
     IF r \in due /\ st[r] \in Open \ {"reconfirmed"} THEN "expired" ELSE st[r]]

(* expire_due: one critical section over the rows that are still open.     *)
ExpireDue(st) ==
  [r \in Requests |-> IF r \in due /\ st[r] \in Open THEN "expired" ELSE st[r]]

(* _write: the row is rewritten from the copy, with the call's new status. *)
Write(h, newStatus, newBound) ==
  LET r == call[h].req IN
  /\ status' = [status EXCEPT ![r] = newStatus]
  /\ bound' = [bound EXCEPT ![r] = newBound]
  /\ stale' = IF status[r] = call[h].seen THEN stale ELSE stale \cup {r}

Finish(h) == call' = [call EXCEPT ![h] = Idle]

(* Slip: calls are served while startup still recovers the queue.          *)
ServingEarly(h, r) == call[h].at = "idle" /\ status[r] # "absent"

Serving(h, r) ==
  /\ boot = "serving"
  /\ call[h].at = "idle"
  /\ status[r] # "absent"

At(h, point) == call[h].at = point

-----------------------------------------------------------------------------
(* A fresh database; the first start finds nothing to recover.             *)

Init ==
  /\ status = [r \in Requests |-> "absent"]
  /\ bound = [r \in Requests |-> FALSE]
  /\ due = {}
  /\ boot = "down"
  /\ restarts = 0
  /\ call = [h \in Handlers |-> Idle]
  /\ awaiting = {}
  /\ stale = {}
  /\ ran = [r \in Requests |-> 0]
  /\ lost = {}

-----------------------------------------------------------------------------
(* Requests appear, age, and are listed.                                   *)

(* create (through _register_pending): one INSERT in status pending.       *)
Create(r) ==
  /\ boot = "serving"
  /\ status[r] = "absent"
  /\ status' = [status EXCEPT ![r] = "pending"]
  /\ UNCHANGED <<bound, due, boot, restarts, call, historyVars>>

(* The clock passes expires_at, also while the process is down.            *)
TtlElapses(r) ==
  /\ status[r] # "absent"
  /\ r \notin due
  /\ due' = due \cup {r}
  /\ UNCHANGED <<storeVars, boot, restarts, call, historyVars>>

(* list_pending: served by a free thread; its expire_due is the only write.*)
ListPending(h) ==
  /\ boot = "serving"
  /\ At(h, "idle")
  /\ status' = ExpireDue(status)
  /\ UNCHANGED <<bound, due, boot, restarts, call, historyVars>>

-----------------------------------------------------------------------------
(* The first critical section of each call.                                *)

(* Slip: the sweep is left out and only the row itself is read.            *)
BeginWithoutExpiring(h, r, op) ==
  /\ Serving(h, r)
  /\ call' = [call EXCEPT ![h] =
       CallOf(op, r, "get", "absent", FALSE, r \in due)]
  /\ UNCHANGED <<storeVars, due, boot, restarts, historyVars>>

(* mark_approved and reconfirm start with expire_due.                      *)
BeginExpiring(h, r, op) ==
  /\ Serving(h, r)
  /\ status' = ExpireDue(status)
  /\ call' = [call EXCEPT ![h] =
       CallOf(op, r, "get", "absent", FALSE, r \in due)]
  /\ UNCHANGED <<bound, due, boot, restarts, historyVars>>

BeginApprove(h, r) == BeginExpiring(h, r, "approve")
BeginReconfirm(h, r) == BeginExpiring(h, r, "reconfirm")

(* mark_rejected and attach_binding start with get; neither expires.       *)
BeginReading(h, r, op) ==
  /\ Serving(h, r)
  /\ call' = [call EXCEPT ![h] =
       CallOf(op, r, "write", status[r], bound[r], FALSE)]
  /\ UNCHANGED <<storeVars, due, boot, restarts, historyVars>>

BeginReject(h, r) == BeginReading(h, r, "reject")
BeginAttach(h, r) == BeginReading(h, r, "attach")

(* A workflow's cancellation or a stage's rejection voids the requests it  *)
(* finds pending: a get that tests the status, then a call of mark_failed. *)
BeginVoid(h, r) ==
  /\ Serving(h, r)
  /\ status[r] = "pending"
  /\ call' = [call EXCEPT ![h] =
       CallOf("void", r, "get_failed", "absent", FALSE, FALSE)]
  /\ UNCHANGED <<storeVars, due, boot, restarts, historyVars>>

-----------------------------------------------------------------------------
(* get: copy the row, to the point where it is tested and rewritten.       *)

ReadTo(h, from, to) ==
  LET c == call[h] IN
  /\ At(h, from)
  /\ call' = [call EXCEPT ![h] =
       CallOf(c.op, c.req, to, status[c.req], bound[c.req], c.late)]
  /\ UNCHANGED <<storeVars, due, boot, restarts, historyVars>>

Get(h) == ReadTo(h, "get", "write")
GetExecuted(h) == ReadTo(h, "get_executed", "write_executed")
GetFailed(h) == ReadTo(h, "get_failed", "write_failed")

-----------------------------------------------------------------------------
(* The critical section that tests the copy and rewrites the row.          *)

(* Slip: the outcome is recorded before the action is run.                 *)
WriteApprovedAsExecuted(h) ==
  /\ At(h, "write") /\ call[h].op = "approve"
  /\ call[h].seen \in Approvable
  /\ Write(h, "executed", call[h].seenBound)
  /\ call' = [call EXCEPT ![h] = [@ EXCEPT !.at = "run"]]
  /\ UNCHANGED <<due, boot, restarts, awaiting, ran, lost>>

WriteApproved(h) ==
  /\ At(h, "write") /\ call[h].op = "approve"
  /\ call[h].seen \in Approvable
  /\ Write(h, "approved", call[h].seenBound)
  /\ call' = [call EXCEPT ![h] = [@ EXCEPT !.at = "run"]]
  /\ UNCHANGED <<due, boot, restarts, awaiting, ran, lost>>

WriteReconfirmed(h) ==
  /\ At(h, "write") /\ call[h].op = "reconfirm"
  /\ call[h].seen = "recovered"
  /\ Write(h, "reconfirmed", call[h].seenBound)
  /\ awaiting' = awaiting \ {call[h].req}
  /\ Finish(h)
  /\ UNCHANGED <<due, boot, restarts, ran, lost>>

(* Slip: mark_rejected does not test the status.                           *)
WriteRejectedAlways(h) ==
  /\ At(h, "write") /\ call[h].op = "reject"
  /\ Write(h, "rejected", call[h].seenBound)
  /\ Finish(h)
  /\ UNCHANGED <<due, boot, restarts, awaiting, ran, lost>>

WriteRejected(h) ==
  /\ At(h, "write") /\ call[h].op = "reject"
  /\ call[h].seen \in Open
  /\ Write(h, "rejected", call[h].seenBound)
  /\ Finish(h)
  /\ UNCHANGED <<due, boot, restarts, awaiting, ran, lost>>

(* attach_binding has no guard: it writes the status of its copy back.     *)
WriteBinding(h) ==
  /\ At(h, "write") /\ call[h].op = "attach"
  /\ Write(h, call[h].seen, TRUE)
  /\ Finish(h)
  /\ UNCHANGED <<due, boot, restarts, awaiting, ran, lost>>

(* The copy does not allow the decision: ApprovalError, nothing written.   *)
Refuse(h) ==
  /\ At(h, "write")
  /\ \/ call[h].op = "approve" /\ call[h].seen \notin Approvable
     \/ call[h].op = "reconfirm" /\ call[h].seen # "recovered"
     \/ call[h].op = "reject" /\ call[h].seen \notin Open
  /\ Finish(h)
  /\ UNCHANGED <<storeVars, due, boot, restarts, historyVars>>

-----------------------------------------------------------------------------
(* permission_approve after mark_approved: _execute_action, which returns, *)
(* raises a BridgeError, or raises something the handler does not catch.   *)

CountRun(r) == ran' = [ran EXCEPT ![r] = IF @ = 0 THEN 1 ELSE 2]

Run(h, next) ==
  /\ At(h, "run")
  /\ CountRun(call[h].req)
  /\ call' = [call EXCEPT ![h] = [@ EXCEPT !.at = next]]
  /\ UNCHANGED <<storeVars, due, boot, restarts, awaiting, stale, lost>>

RunSucceeds(h) == Run(h, "get_executed")
(* Slip: the BridgeError is reported to the caller but not to the store.   *)
RunFailsSilently(h) ==
  /\ At(h, "run")
  /\ CountRun(call[h].req)
  /\ Finish(h)
  /\ UNCHANGED <<storeVars, due, boot, restarts, awaiting, stale, lost>>

RunFails(h) == Run(h, "get_failed")

RunBreaks(h) ==
  /\ At(h, "run")
  /\ CountRun(call[h].req)
  /\ lost' = lost \cup {call[h].req}
  /\ Finish(h)
  /\ UNCHANGED <<storeVars, due, boot, restarts, awaiting, stale>>

WriteExecuted(h) ==
  /\ At(h, "write_executed")
  /\ call[h].seen = "approved"
  /\ Write(h, "executed", call[h].seenBound)
  /\ Finish(h)
  /\ UNCHANGED <<due, boot, restarts, awaiting, ran, lost>>

WriteFailed(h) ==
  /\ At(h, "write_failed")
  /\ call[h].seen \notin NeverFailed
  /\ Write(h, "failed", call[h].seenBound)
  /\ Finish(h)
  /\ UNCHANGED <<due, boot, restarts, awaiting, ran, lost>>

(* mark_executed raises, mark_failed returns the copy: nothing is written. *)
RefuseOutcome(h) ==
  /\ \/ At(h, "write_executed") /\ call[h].seen # "approved"
     \/ At(h, "write_failed") /\ call[h].seen \in NeverFailed
  /\ Finish(h)
  /\ UNCHANGED <<storeVars, due, boot, restarts, historyVars>>

-----------------------------------------------------------------------------
(* Crash and startup.  A crash takes the threads and their copies with it; *)
(* every committed write survives.                                         *)

Crash ==
  /\ boot # "down"
  /\ restarts < MaxRestarts
  /\ restarts' = restarts + 1
  /\ boot' = "down"
  /\ call' = [h \in Handlers |-> Idle]
  /\ lost' = lost \cup {call[h].req : h \in {g \in Handlers :
                          call[g].op = "approve" /\ call[g].at \notin {"get", "write"}}}
  /\ UNCHANGED <<storeVars, due, awaiting, stale, ran>>

(* recover_pending: expire_due, then one commit per pending row.           *)
StartupExpire ==
  /\ boot = "down"
  /\ status' = ExpireDue(status)
  /\ boot' = "recovering"
  /\ UNCHANGED <<bound, due, restarts, call, historyVars>>

(* Slip: rows left approved by the crash are put back into the queue.      *)
RecoverRowApproved(r) ==
  /\ boot = "recovering"
  /\ status[r] \in {"pending", "approved"}
  /\ status' = [status EXCEPT ![r] = "recovered"]
  /\ awaiting' = awaiting \cup {r}
  /\ UNCHANGED <<bound, due, boot, restarts, call, stale, ran, lost>>

RecoverRow(r) ==
  /\ boot = "recovering"
  /\ status[r] = "pending"
  /\ status' = [status EXCEPT ![r] = "recovered"]
  /\ awaiting' = awaiting \cup {r}
  /\ UNCHANGED <<bound, due, boot, restarts, call, stale, ran, lost>>

(* The startup hook calls recover_pending a second time, which can only    *)
(* expire what became due meanwhile; then requests are served.             *)
StartupDone ==
  /\ boot = "recovering"
  /\ \A r \in Requests : status[r] # "pending"
  /\ status' = ExpireDue(status)
  /\ boot' = "serving"
  /\ UNCHANGED <<bound, due, restarts, call, historyVars>>

-----------------------------------------------------------------------------

Startup == StartupExpire \/ StartupDone \/ \E r \in Requests : RecoverRow(r)

Begin(h) ==
  \E r \in Requests :
    \/ BeginApprove(h, r)
    \/ BeginReconfirm(h, r)
    \/ BeginReject(h, r)
    \/ BeginAttach(h, r)
    \/ BeginVoid(h, r)

(* The steps a thread takes once it has a call to serve.                   *)
Continue(h) ==
  \/ Get(h) \/ GetExecuted(h) \/ GetFailed(h)
  \/ WriteApproved(h) \/ WriteReconfirmed(h) \/ WriteRejected(h)
  \/ WriteBinding(h) \/ Refuse(h)
  \/ RunSucceeds(h) \/ RunFails(h) \/ RunBreaks(h)
  \/ WriteExecuted(h) \/ WriteFailed(h) \/ RefuseOutcome(h)

Next ==
  \/ \E r \in Requests : Create(r) \/ TtlElapses(r)
  \/ \E h \in Handlers : ListPending(h) \/ Begin(h) \/ Continue(h)
  \/ Crash
  \/ Startup

Spec == Init /\ [][Next]_vars

(* A started call runs to its end, the process is started again after a    *)
(* crash, and the extension polls /permission/pending every ten seconds:   *)
(* the pool's queue is first come first served, so a poll gets a thread.   *)
Fairness ==
  /\ \A h \in Handlers : WF_vars(Continue(h))
  /\ WF_vars(Startup)
  /\ SF_vars(\E h \in Handlers : ListPending(h))

FairSpec == Spec /\ Fairness

-----------------------------------------------------------------------------
(* Properties.                                                             *)

(* Every variable has its type, and a thread that serves no call holds no  *)
(* request and no copy: a copy lives no longer than its call.              *)
TypeOK ==
  /\ status \in [Requests -> Status]
  /\ bound \in [Requests -> BOOLEAN]
  /\ due \subseteq Requests
  /\ boot \in {"down", "recovering", "serving"}
  /\ restarts \in 0..MaxRestarts
  /\ call \in [Handlers -> Calls]
  /\ \A h \in Handlers :
       /\ At(h, "idle") <=> call[h] = Idle
       /\ ~At(h, "idle") => call[h].req \in Requests /\ boot = "serving"
  /\ awaiting \subseteq Requests
  /\ stale \subseteq Requests
  /\ ran \in [Requests -> 0..2]
  /\ lost \subseteq Requests

(* "A request recovered after a restart ... can never execute until a user *)
(* explicitly reconfirms it" (permissions.py): however the calls of the    *)
(* threads interleave and whenever the process crashes, no thread runs the *)
(* action of a request that a startup recovered and nobody reconfirmed.    *)
RecoveredNeedsReconfirmation ==
  \A h \in Handlers : At(h, "run") => call[h].req \notin awaiting

(* An approval that arrives after the request's time to live never leads   *)
(* to a run, unless an out-of-date copy brought the expired row back.      *)
LateApprovalNeverRuns ==
  \A h \in Handlers :
    At(h, "run") /\ call[h].late => call[h].req \in stale

(* A request's action is run at most once, unless some thread rewrote the  *)
(* row from an out-of-date copy.                                           *)
AtMostOnceUnlessStale == \A r \in Requests : ran[r] = 2 => r \in stale

(* A row says "executed" only when the action was run, whatever copies the *)
(* threads write back.                                                     *)
ExecutedHasRun == \A r \in Requests : status[r] = "executed" => ran[r] # 0

(* A request is settled when its status is terminal and no thread holds a  *)
(* different copy of it.  A settled request stays settled in that status:  *)
(* the calls that can still undo a decision are those that read the row    *)
(* before the decision was written.                                        *)
Settled(r) ==
  /\ status[r] \in Terminal
  /\ \A h \in Handlers :
       call[h].req = r /\ call[h].at \in {"write", "write_executed", "write_failed"}
         => call[h].seen = status[r]

SettledForever ==
  [][\A r \in Requests :
       Settled(r) => Settled(r)' /\ status'[r] = status[r]]_vars

(* A request that is past its time to live does not stay in the queue of   *)
(* requests to decide: the extension's polling takes it out, also when the *)
(* process restarts or a copy written back puts it there again.            *)
DueLeavesQueue ==
  \A r \in Requests : (r \in due /\ status[r] \in Open) ~> status[r] \notin Open

(* An approved request gets an outcome; one that stays approved for ever   *)
(* is one whose run was cut off (a crash, an exception permission_approve  *)
(* does not catch) or whose row an out-of-date copy rewrote.               *)
ApprovedGetsOutcome ==
  \A r \in Requests :
    status[r] = "approved" ~> status[r] \in Terminal \/ r \in lost \cup stale

(* With one thread, so with one call at a time, the queue implements the   *)
(* atomic lifecycle of ApprovalLifecycle, crashes included.                *)
Lifecycle == INSTANCE ApprovalLifecycle WITH
  state <- status,
  tied <- {r \in Requests : bound[r]},
  done <- {r \in Requests : ran[r] # 0}

ImplementsLifecycle == Lifecycle!Spec

(* A second approval is refused (test_double_approval_is_rejected), so an  *)
(* action is run once.  Two approvals that both read the row before either *)
(* writes it break this.                                                   *)
AtMostOnce == \A r \in Requests : ran[r] < 2

(* An action is run only on a decision that still holds: not one that a    *)
(* restart put in question, not one that came too late, not one that was   *)
(* already used.                                                           *)
RunsWereAllowed ==
  RecoveredNeedsReconfirmation /\ LateApprovalNeverRuns /\ AtMostOnceUnlessStale

(* What the queue's rows say is what happened.                             *)
StatusIsTrue == TypeOK /\ ExecutedHasRun

(* Whatever is asked is settled: nothing waits longer than its time to     *)
(* live, and what was approved gets an outcome.                            *)
RequestsSettle == DueLeavesQueue /\ ApprovedGetsOutcome
=============================================================================
