--------------------------- MODULE WorkflowManager ---------------------------
(***************************************************************************)
(* One engineering workflow (local-bridge/app/workflow/): its document on  *)
(* disk, the stages in it, and the approval requests that are bound to a   *)
(* stage or that ask for a stage's approval.                               *)
(*                                                                         *)
(* Every operation of WorkflowManager loads the whole document, edits its  *)
(* copy and saves the whole document; the storage lock covers the load and *)
(* the save, not what lies between.  So an operation is here a sequence of *)
(* steps and the copy is part of the state.  The approval rows are those   *)
(* of module ApprovalStore; its calls are single steps in this module, so  *)
(* that what is explored here is how they interleave with the documents.   *)
(***************************************************************************)
EXTENDS Naturals, Sequences, FiniteSets

CONSTANTS
  Actions,        \* requests for an action, created for this workflow
  Kind,           \* what each action does when it is run
  StageRequests,  \* requests of action "workflow_stage_approval"
  StartTypes,     \* stage types the user starts
  Handlers,       \* threads of the pool that serve HTTP calls
  Lapsing,        \* bound: requests whose time to live may run out
  MaxStages,      \* bound: stages started in the workflow
  MaxRestarts     \* bound: how often the process may crash and restart

Kinds == {"write", "test", "agent", "gate"}

ASSUME KindAssumption == Kind \in [Actions -> Kinds]
ASSUME BoundsAssumption == MaxStages \in Nat /\ MaxRestarts \in Nat

VARIABLES
  workflow,  \* the document: status and stages
  approval,  \* approvals.status column, per request
  target,    \* the stage in an action's payload, 0 if it names none
  due,       \* requests whose expires_at has passed
  restarts,  \* crashes so far
  call,      \* per thread: the call it serves, where it is, its copy
  \* history variables: no action's guard reads them
  consented, \* requests the user has approved, each by itself
  lost       \* requests that were approved when the process crashed

rowVars == <<approval, target, due>>
historyVars == <<consented, lost>>
vars == <<workflow, approval, target, due, restarts, call, consented, lost>>

-----------------------------------------------------------------------------
(* Stages, statuses and the two transition tables.                         *)

NextStage ==
  [requirement |-> "analysis", analysis |-> "architecture",
   architecture |-> "implementation", implementation |-> "testing",
   testing |-> "debug", debug |-> "delivery"]

StageTypes == DOMAIN NextStage \cup {"delivery"}

ASSUME StartTypesAssumption == StartTypes \subseteq StageTypes

StageToStatus ==
  [requirement |-> "created", analysis |-> "analyzing",
   architecture |-> "designing", implementation |-> "implementing",
   testing |-> "testing", debug |-> "testing", delivery |-> "testing"]

Ended == {"cancelled", "failed"}

WorkflowTransitions ==
  [created |-> {"analyzing", "waiting_approval"} \cup Ended,
   analyzing |-> {"designing", "waiting_approval"} \cup Ended,
   designing |-> {"waiting_approval", "implementing"} \cup Ended,
   waiting_approval |-> {"created", "implementing", "designing", "testing",
                         "analyzing", "completed"} \cup Ended,
   implementing |-> {"testing", "waiting_approval"} \cup Ended,
   testing |-> {"waiting_approval", "implementing", "completed"} \cup Ended,
   completed |-> {}, failed |-> {}, cancelled |-> {}]

WorkflowStatus == DOMAIN WorkflowTransitions
TerminalStatuses == {"completed", "failed", "cancelled"}

StageTransitions ==
  [pending |-> {"in_progress", "skipped"},
   in_progress |-> {"reported", "skipped"},
   reported |-> {"waiting_approval", "in_progress"},
   waiting_approval |-> {"approved", "rejected", "in_progress"},
   approved |-> {}, rejected |-> {"in_progress"}, skipped |-> {}]

StageStatus == DOMAIN StageTransitions

(* _transition_workflow and _transition_stage: no move is always legal.    *)
WorkflowMoves(from, to) == from = to \/ to \in WorkflowTransitions[from]
StageMoves(from, to) == from = to \/ to \in StageTransitions[from]

(* The status _advance_after_approval gives the workflow.                  *)
StatusAfter(type) ==
  IF type \in DOMAIN NextStage THEN StageToStatus[NextStage[type]]
                               ELSE "completed"

Editable == {"in_progress", "reported"}
Reportable == {"in_progress", "rejected", "reported"}

-----------------------------------------------------------------------------
(* Documents, rows and calls.                                              *)

Rows == Actions \cup StageRequests
NoRow == "no_row"

ASSUME RowsAssumption ==
  /\ Actions \cap StageRequests = {}
  /\ NoRow \notin Rows
  /\ Lapsing \subseteq Rows

Stage == [type: StageTypes, status: StageStatus,
          req: StageRequests \cup {NoRow}, actions: SUBSET Actions,
          agents: BOOLEAN, gate: BOOLEAN]
Workflow == [status: WorkflowStatus, stages: Seq(Stage)]

StageOf(type, status, req, actions, agents, gate) ==
  [type |-> type, status |-> status, req |-> req, actions |-> actions,
   agents |-> agents, gate |-> gate]
NewStage(type) == StageOf(type, "in_progress", NoRow, {}, FALSE, FALSE)

WithStatus(s, status) ==
  StageOf(s.type, status, s.req, s.actions, s.agents, s.gate)
WithAction(s, a) ==
  StageOf(s.type, s.status, s.req, s.actions \cup {a}, s.agents, s.gate)
WithAgent(s) == StageOf(s.type, s.status, s.req, s.actions, TRUE, s.gate)
WithGate(s) == StageOf(s.type, s.status, s.req, s.actions, s.agents, TRUE)
AwaitingAnswer(s, q) ==
  StageOf(s.type, "waiting_approval", q, s.actions, s.agents, s.gate)

Doc(status, stages) == [status |-> status, stages |-> stages]
WithStage(doc, i, stage) == Doc(doc.status, [doc.stages EXCEPT ![i] = stage])
Moved(doc, i, status) == WithStage(doc, i, WithStatus(doc.stages[i], status))
NewWorkflow == Doc("created", << >>)

Open == {"pending", "recovered", "reconfirmed"}
ApprovalStatus ==
  Open \cup {"absent", "approved", "executed", "rejected", "expired", "failed"}
Approvable == {"pending", "reconfirmed"}

(* expire_due, with which the store's deciding calls begin.                *)
ExpireDue ==
  [r \in Rows |-> IF r \in due /\ approval[r] \in Open THEN "expired"
                                                       ELSE approval[r]]

(* The calls that last several steps, and the points between their steps.  *)
(* "edit" stands for every operation that just loads, edits and saves.     *)
PointsOf ==
  [none   |-> {"idle"},
   edit   |-> {"save"},
   cancel |-> {"void", "save"},
   stage  |-> {"locate", "bound", "save", "run", "keep", "record", "fail"},
   own    |-> {"apply", "save", "settle", "fail"},
   revert |-> {"revert", "void", "save"}]

Ops == DOMAIN PointsOf
Points == {"idle", "save", "void", "locate", "bound", "run", "keep", "record",
           "apply", "settle", "fail", "revert"}

CallOf(op, at, row, copy, todo, batch) ==
  [op |-> op, at |-> at, row |-> row, copy |-> copy,
   todo |-> todo, batch |-> batch]

Calls == [op: Ops, at: Points, row: Rows \cup {NoRow}, copy: Workflow,
          todo: SUBSET Rows, batch: SUBSET Actions]

(* A call that holds no document has NewWorkflow in place of one.          *)
Waiting(op, at, row) == CallOf(op, at, row, NewWorkflow, {}, {})
Idle == Waiting("none", "idle", NoRow)
At(h, point) == call[h].at = point
Fits(op, at, row) ==
  /\ at \in PointsOf[op]
  /\ row \in IF op = "own" THEN Actions
             ELSE IF op \in {"stage", "revert"} THEN StageRequests
             ELSE {NoRow}
Becomes(h, newCall) == call' = [call EXCEPT ![h] = newCall]

(* Slip: the stage is looked up by the request it waits for, whichever.    *)
LocateWaiting(doc, q) ==
  {i \in DOMAIN doc.stages : doc.stages[i].status = "waiting_approval"}

(* The stages that carry a request's id; _locate_by_request takes one.     *)
Locate(doc, q) == {i \in DOMAIN doc.stages : doc.stages[i].req = q}

-----------------------------------------------------------------------------

Init ==
  /\ workflow = NewWorkflow
  /\ approval = [r \in Rows |-> "absent"]
  /\ target = [a \in Actions |-> 0]
  /\ due = {}
  /\ restarts = 0
  /\ call = [h \in Handlers |-> Idle]
  /\ consented = {}
  /\ lost = {}

-----------------------------------------------------------------------------
(* The user's edits of the document: load, check and edit the copy.        *)

Edit(h, doc) ==
  /\ Becomes(h, CallOf("edit", "save", NoRow, doc, {}, {}))
  /\ UNCHANGED <<workflow, restarts, historyVars>>

StartStage(h, type) ==
  LET status == StageToStatus[type] IN
  /\ At(h, "idle")
  /\ Len(workflow.stages) < MaxStages
  /\ workflow.status \notin TerminalStatuses
  /\ WorkflowMoves(workflow.status, status)
  /\ Edit(h, Doc(status, Append(workflow.stages, NewStage(type))))
  /\ UNCHANGED rowVars

(* submit_report; a rejected stage passes through IN_PROGRESS on the way.  *)
SubmitReport(h, i) ==
  /\ At(h, "idle")
  /\ workflow.stages[i].status \in Reportable
  /\ Edit(h, Moved(workflow, i, "reported"))
  /\ UNCHANGED rowVars

AttachAction(h, i, a) ==
  /\ At(h, "idle")
  /\ approval[a] # "absent"
  /\ workflow.status \notin TerminalStatuses
  /\ workflow.stages[i].status \in Editable
  /\ Edit(h, WithStage(workflow, i, WithAction(workflow.stages[i], a)))
  /\ UNCHANGED rowVars

GateHolds(stage) == stage.type = "delivery" /\ stage.agents => stage.gate

(* Slip: the stage may be submitted again while it waits.                  *)
RequestStageApprovalAgain(h, i, q) ==
  /\ At(h, "idle")
  /\ approval[q] = "absent"
  /\ workflow.stages[i].status \in {"reported", "waiting_approval"}
  /\ GateHolds(workflow.stages[i])
  /\ WorkflowMoves(workflow.status, "waiting_approval")
  /\ approval' = [approval EXCEPT ![q] = "pending"]
  /\ Edit(h, Doc("waiting_approval",
                 [workflow.stages EXCEPT ![i] = AwaitingAnswer(@, q)]))
  /\ UNCHANGED <<target, due>>

(* request_stage_approval inserts the request before it checks whether the *)
(* workflow may wait: if not it raises, and the request stays queued.      *)
RequestStageApproval(h, i, q) ==
  LET stage == workflow.stages[i] IN
  /\ At(h, "idle")
  /\ approval[q] = "absent"
  /\ stage.status = "reported"
  /\ GateHolds(stage)
  /\ approval' = [approval EXCEPT ![q] = "pending"]
  /\ IF WorkflowMoves(workflow.status, "waiting_approval")
     THEN Edit(h, Doc("waiting_approval",
                      [workflow.stages EXCEPT ![i] = AwaitingAnswer(stage, q)]))
     ELSE UNCHANGED <<workflow, restarts, call, historyVars>>
  /\ UNCHANGED <<target, due>>

(* cancel, up to the calls that void the requests the copy names.          *)
Cancel(h) ==
  LET stages == workflow.stages
      named == UNION {stages[i].actions \cup {stages[i].req} : i \in DOMAIN stages}
  IN
  /\ At(h, "idle")
  /\ workflow.status \notin TerminalStatuses
  /\ Becomes(h, CallOf("cancel", "void", NoRow, workflow, named \ {NoRow}, {}))
  /\ UNCHANGED <<workflow, rowVars, restarts, historyVars>>

(* Slip: the requests for a stage's approval are left in the queue.        *)
VoidPendingActions(rows) ==
  approval' = [r \in Rows |->
    IF r \in rows \cap Actions /\ approval[r] = "pending"
    THEN "failed" ELSE approval[r]]

(* The rows that are found pending fail, the others keep their status.     *)
VoidPending(rows) ==
  approval' = [r \in Rows |->
    IF r \in rows /\ approval[r] = "pending" THEN "failed" ELSE approval[r]]

VoidCancelled(h) ==
  LET c == call[h] IN
  /\ At(h, "void") /\ c.op = "cancel"
  /\ VoidPending(c.todo)
  /\ Becomes(h, CallOf("cancel", "save", NoRow,
                       Doc("cancelled", c.copy.stages), {}, {}))
  /\ UNCHANGED <<workflow, target, due, restarts, historyVars>>

(* The copy replaces the document, whatever that has become meanwhile.     *)
Save(h) ==
  LET c == call[h] IN
  /\ At(h, "save")
  /\ workflow' = c.copy
  /\ Becomes(h, IF c.op = "stage" THEN CallOf("stage", "run", c.row, NewWorkflow, {}, c.batch)
                ELSE IF c.op = "own" THEN Waiting("own", "settle", c.row)
                ELSE Idle)
  /\ UNCHANGED <<rowVars, restarts, historyVars>>

-----------------------------------------------------------------------------
(* The approval queue: requests appear, age, are listed and reconfirmed.   *)

(* A write belongs to no stage until it is attached.  The other kinds are  *)
(* queued for one stage, and their endpoints call validate_binding.        *)
CreateAction(a, i) ==
  /\ approval[a] = "absent"
  /\ IF Kind[a] = "write"
     THEN i = 0
     ELSE /\ i \in DOMAIN workflow.stages
          /\ workflow.status \notin TerminalStatuses
          /\ Kind[a] = "test" => workflow.stages[i].type = "testing"
  /\ approval' = [approval EXCEPT ![a] = "pending"]
  /\ target' = [target EXCEPT ![a] = i]
  /\ UNCHANGED <<workflow, due, restarts, call, historyVars>>

TtlElapses(r) ==
  /\ r \in Lapsing \ due
  /\ approval[r] # "absent"
  /\ due' = due \cup {r}
  /\ UNCHANGED <<workflow, approval, target, restarts, call, historyVars>>

(* list_pending; also what is left of a decision that the store refuses.   *)
Sweep ==
  /\ approval' = ExpireDue
  /\ UNCHANGED <<workflow, target, due, restarts, call, historyVars>>

Reconfirm(r) ==
  /\ ExpireDue[r] = "recovered"
  /\ approval' = [ExpireDue EXCEPT ![r] = "reconfirmed"]
  /\ UNCHANGED <<workflow, target, due, restarts, call, historyVars>>

-----------------------------------------------------------------------------
(* permission_approve.  mark_approved, then the action's executor.         *)

MarkApproved(h, r, op, point) ==
  /\ At(h, "idle")
  /\ ExpireDue[r] \in Approvable
  /\ approval' = [ExpireDue EXCEPT ![r] = "approved"]
  /\ consented' = consented \cup {r}
  /\ Becomes(h, Waiting(op, point, r))
  /\ UNCHANGED <<workflow, target, due, restarts, lost>>

ApproveStage(h, q) == MarkApproved(h, q, "stage", "locate")
ApproveAction(h, a) == MarkApproved(h, a, "own", "apply")

(* resolve_stage_approval(approved=True): load, and move the stage.        *)
LocateStage(h) ==
  LET q == call[h].row
      movable == {i \in Locate(workflow, q) :
                    StageMoves(workflow.stages[i].status, "approved")}
  IN
  /\ At(h, "locate")
  /\ \/ \E i \in movable :
          Becomes(h, CallOf("stage", "bound", q,
            Moved(workflow, i, "approved"),
            workflow.stages[i].actions, {}))
     \/ movable = {} /\ Becomes(h, Waiting("stage", "fail", q))
  /\ UNCHANGED <<workflow, rowVars, restarts, historyVars>>

(* _approve_bound_actions, one request at a time: a request that is not    *)
(* pending is passed over, and one that has lapsed breaks the resolution.  *)
ApproveBound(h, a) ==
  LET c == call[h]
      passed == CallOf("stage", "bound", c.row, c.copy, c.todo \ {a}, c.batch)
  IN
  /\ At(h, "bound") /\ a \in c.todo
  /\ \/ /\ approval[a] # "pending"
        /\ approval' = approval
        /\ Becomes(h, passed)
     \/ /\ approval[a] = "pending" /\ a \notin due
        /\ approval' = [ExpireDue EXCEPT ![a] = "approved"]
        /\ Becomes(h, CallOf("stage", "bound", c.row, c.copy,
                             c.todo \ {a}, c.batch \cup {a}))
     \/ /\ approval[a] = "pending" /\ a \in due
        /\ approval' = ExpireDue
        /\ Becomes(h, Waiting("stage", "fail", c.row))
  /\ UNCHANGED <<workflow, target, due, restarts, historyVars>>

(* Slips of Advance: the error of an illegal move is swallowed; the move   *)
(* is not checked; the batch is run before the document is saved; the      *)
(* stages are read afresh when the document is saved.                      *)
AdvanceSwallowing(h) ==
  LET c == call[h] IN
  /\ At(h, "bound") /\ c.todo = {}
  /\ \E i \in Locate(c.copy, c.row) :
       LET next == StatusAfter(c.copy.stages[i].type)
           legal == WorkflowMoves(c.copy.status, next)
       IN
       Becomes(h, CallOf("stage", IF legal THEN "save" ELSE "run", c.row,
                         Doc(next, c.copy.stages), {}, c.batch))
  /\ UNCHANGED <<workflow, rowVars, restarts, historyVars>>

AdvanceTo(h, point, stages) ==
  LET c == call[h] IN
  /\ At(h, "bound") /\ c.todo = {}
  /\ \E i \in Locate(c.copy, c.row) :
       Becomes(h, CallOf("stage", point, c.row,
                         Doc(StatusAfter(c.copy.stages[i].type), stages),
                         {}, c.batch))
  /\ UNCHANGED <<workflow, rowVars, restarts, historyVars>>

AdvanceUnchecked(h) == AdvanceTo(h, "save", call[h].copy.stages)
AdvanceRunsFirst(h) == AdvanceTo(h, "run", call[h].copy.stages)
AdvanceRereads(h) == AdvanceTo(h, "save", workflow.stages)

(* _advance_after_approval, on the copy.                                   *)
Advance(h) ==
  LET c == call[h] IN
  /\ At(h, "bound") /\ c.todo = {}
  /\ \E i \in Locate(c.copy, c.row) :
       LET next == StatusAfter(c.copy.stages[i].type) IN
       Becomes(h, IF WorkflowMoves(c.copy.status, next)
                  THEN CallOf("stage", "save", c.row,
                              Doc(next, c.copy.stages), {}, c.batch)
                  ELSE Waiting("stage", "fail", c.row))
  /\ UNCHANGED <<workflow, rowVars, restarts, historyVars>>

(* Slip: attaching an agent or a gate does not ask for the stage's status. *)
AppliesAlways(a, doc) ==
  target[a] \in DOMAIN doc.stages /\ doc.status \notin TerminalStatuses

(* What _execute_action does to the document: record_test_result,          *)
(* attach_agent or attach_quality_gate on the stage in the payload.        *)
Applies(a, doc) ==
  /\ target[a] \in DOMAIN doc.stages
  /\ doc.status \notin TerminalStatuses
  /\ doc.stages[target[a]].status \in Editable

(* Slip: the verdict of the test becomes the status of the stage.          *)
AppliedVerdict(a, doc) ==
  CASE Kind[a] = "test"  -> Moved(doc, target[a], "passed")
    [] Kind[a] = "agent" -> WithStage(doc, target[a], WithAgent(doc.stages[target[a]]))
    [] Kind[a] = "gate"  -> WithStage(doc, target[a], WithGate(doc.stages[target[a]]))

Applied(a, doc) ==
  CASE Kind[a] = "test"  -> Moved(doc, target[a], "reported")
    [] Kind[a] = "agent" -> WithStage(doc, target[a], WithAgent(doc.stages[target[a]]))
    [] Kind[a] = "gate"  -> WithStage(doc, target[a], WithGate(doc.stages[target[a]]))

(* A file operation or a test command may also fail by itself.             *)
MayFail(a) == Kind[a] \in {"write", "test"} \/ ~Applies(a, workflow)

(* The stage is saved as approved; then its batch is run, each request's   *)
(* outcome being recorded before the next one is run.  A request that only *)
(* writes files, or that fails, leaves the document alone.                 *)
RunBound(h, a) ==
  LET c == call[h] IN
  /\ At(h, "run") /\ a \in c.batch
  /\ \/ Kind[a] = "write" /\ approval' = [approval EXCEPT ![a] = "executed"]
     \/ MayFail(a) /\ approval' = [approval EXCEPT ![a] = "failed"]
  /\ Becomes(h, CallOf("stage", "run", c.row, NewWorkflow, {}, c.batch \ {a}))
  /\ UNCHANGED <<workflow, target, due, restarts, historyVars>>

(* The others load, edit and save it as any operation does.                *)
LoadBound(h, a) ==
  LET c == call[h] IN
  /\ At(h, "run") /\ a \in c.batch
  /\ Kind[a] # "write" /\ Applies(a, workflow)
  /\ Becomes(h, CallOf("stage", "keep", c.row, Applied(a, workflow), {a}, c.batch \ {a}))
  /\ UNCHANGED <<workflow, rowVars, restarts, historyVars>>

SaveBound(h) ==
  LET c == call[h] IN
  /\ At(h, "keep")
  /\ workflow' = c.copy
  /\ Becomes(h, CallOf("stage", "record", c.row, NewWorkflow, c.todo, c.batch))
  /\ UNCHANGED <<rowVars, restarts, historyVars>>

RecordBound(h, a) ==
  LET c == call[h] IN
  /\ At(h, "record") /\ a \in c.todo
  /\ approval' = [approval EXCEPT ![a] = "executed"]
  /\ Becomes(h, CallOf("stage", "run", c.row, NewWorkflow, {}, c.batch))
  /\ UNCHANGED <<workflow, target, due, restarts, historyVars>>

(* A request the user approved by itself.                                  *)
RunOwn(h) ==
  LET a == call[h].row IN
  /\ At(h, "apply")
  /\ \/ Kind[a] = "write" /\ Becomes(h, Waiting("own", "settle", a))
     \/ /\ Kind[a] # "write" /\ Applies(a, workflow)
        /\ Becomes(h, CallOf("own", "save", a, Applied(a, workflow), {}, {}))
     \/ MayFail(a) /\ Becomes(h, Waiting("own", "fail", a))
  /\ UNCHANGED <<workflow, rowVars, restarts, historyVars>>

(* mark_executed for the request that was approved.                        *)
Settle(h) ==
  /\ \/ At(h, "settle")
     \/ At(h, "run") /\ call[h].batch = {}
  /\ approval' = [approval EXCEPT ![call[h].row] = "executed"]
  /\ Becomes(h, Idle)
  /\ UNCHANGED <<workflow, target, due, restarts, historyVars>>

(* Slip: an action that fails by itself leaves its row as it is.           *)
FailSilently(h) ==
  LET q == call[h].row IN
  /\ At(h, "fail")
  /\ Becomes(h, IF call[h].op = "stage" THEN Waiting("revert", "revert", q)
                                        ELSE Idle)
  /\ UNCHANGED <<workflow, rowVars, restarts, historyVars>>

(* The executor raised: mark_failed, and a stage is then to be rejected.   *)
Fail(h) ==
  LET q == call[h].row IN
  /\ At(h, "fail")
  /\ approval' = [approval EXCEPT ![q] = "failed"]
  /\ Becomes(h, IF call[h].op = "stage" THEN Waiting("revert", "revert", q)
                                        ELSE Idle)
  /\ UNCHANGED <<workflow, target, due, restarts, historyVars>>

-----------------------------------------------------------------------------
(* permission_reject, and resolve_stage_approval(approved=False).          *)

Reject(h, r) ==
  /\ At(h, "idle")
  /\ approval[r] \in Open
  /\ approval' = [approval EXCEPT ![r] = "rejected"]
  /\ Becomes(h, IF r \in StageRequests THEN Waiting("revert", "revert", r)
                                       ELSE Idle)
  /\ UNCHANGED <<workflow, target, due, restarts, historyVars>>

(* Load, and move the stage; if that is illegal the call ends here.        *)
Revert(h) ==
  LET q == call[h].row
      movable == {i \in Locate(workflow, q) :
                    StageMoves(workflow.stages[i].status, "rejected")}
  IN
  /\ At(h, "revert")
  /\ \/ \E i \in movable :
          Becomes(h, CallOf("revert", "void", q,
            Moved(workflow, i, "rejected"),
            workflow.stages[i].actions, {}))
     \/ movable = {} /\ Becomes(h, Idle)
  /\ UNCHANGED <<workflow, rowVars, restarts, historyVars>>

(* The bound requests are voided before the workflow's move is checked: if *)
(* it is illegal they stay void and the rejected stage is not saved.       *)
VoidRejected(h) ==
  LET c == call[h] IN
  /\ At(h, "void") /\ c.op = "revert"
  /\ VoidPending(c.todo)
  /\ \E i \in Locate(c.copy, c.row) :
       LET back == StageToStatus[c.copy.stages[i].type] IN
       Becomes(h, IF WorkflowMoves(c.copy.status, back)
                  THEN CallOf("revert", "save", c.row,
                              Doc(back, c.copy.stages), {}, {})
                  ELSE Idle)
  /\ UNCHANGED <<workflow, target, due, restarts, historyVars>>

-----------------------------------------------------------------------------
(* A crash takes the calls and their copies; the startup that follows      *)
(* expires and recovers the queue before anything is served.               *)

Crash ==
  /\ restarts < MaxRestarts
  /\ restarts' = restarts + 1
  /\ approval' = [r \in Rows |-> IF ExpireDue[r] = "pending" THEN "recovered"
                                                             ELSE ExpireDue[r]]
  /\ lost' = lost \cup {r \in Rows : approval[r] = "approved"}
  /\ call' = [h \in Handlers |-> Idle]
  /\ UNCHANGED <<workflow, target, due, consented>>

-----------------------------------------------------------------------------

EditStage(h, i) ==
  \/ SubmitReport(h, i)
  \/ \E a \in Actions : AttachAction(h, i, a)
  \/ \E q \in StageRequests : RequestStageApproval(h, i, q)

Begin(h) ==
  \/ \E type \in StartTypes : StartStage(h, type)
  \/ \E i \in DOMAIN workflow.stages : EditStage(h, i)
  \/ Cancel(h)
  \/ \E q \in StageRequests : ApproveStage(h, q)
  \/ \E a \in Actions : ApproveAction(h, a)
  \/ \E r \in Rows : Reject(h, r)

Continue(h) ==
  \/ Save(h) \/ VoidCancelled(h)
  \/ LocateStage(h) \/ Advance(h)
  \/ \E a \in Actions : ApproveBound(h, a) \/ RunBound(h, a) \/ LoadBound(h, a)
  \/ SaveBound(h) \/ \E a \in Actions : RecordBound(h, a)
  \/ RunOwn(h) \/ Settle(h) \/ Fail(h)
  \/ Revert(h) \/ VoidRejected(h)

Next ==
  \/ \E h \in Handlers : Begin(h) \/ Continue(h)
  \/ \E a \in Actions, i \in 0..MaxStages : CreateAction(a, i)
  \/ \E r \in Rows : TtlElapses(r) \/ Reconfirm(r)
  \/ Sweep
  \/ Crash

Spec == Init /\ [][Next]_vars

-----------------------------------------------------------------------------
(* Properties.                                                             *)

(* Every variable has its type, a thread that serves no call holds nothing *)
(* and each call is at a point of its own, with a request it can be for.   *)
TypeOK ==
  /\ workflow \in Workflow
  /\ approval \in [Rows -> ApprovalStatus]
  /\ target \in [Actions -> 0..MaxStages]
  /\ due \subseteq Rows
  /\ restarts \in 0..MaxRestarts
  /\ call \in [Handlers -> Calls]
  /\ \A h \in Handlers :
       /\ At(h, "idle") <=> call[h] = Idle
       /\ Fits(call[h].op, call[h].at, call[h].row)
  /\ consented \subseteq Rows
  /\ lost \subseteq Rows

(* Awaiting a human decision, or past it.                                  *)
Submitted(stage) == stage.status \in {"waiting_approval", "approved"}

(* A DELIVERY stage that agents worked on is put before the human, and     *)
(* accepted, only with a quality gate (manager.py request_stage_approval,  *)
(* attach_agent): no order of attaching agents, reporting, rejecting and   *)
(* overwriting the document gets around it.                                *)
DeliveryIsGated ==
  \A i \in DOMAIN workflow.stages :
    Submitted(workflow.stages[i]) => GateHolds(workflow.stages[i])

(* A stage is APPROVED only if the user approved the very request that was *)
(* created for it, even when stale documents are saved over newer ones.    *)
ApprovedStageHasConsent ==
  \A i \in DOMAIN workflow.stages :
    workflow.stages[i].status = "approved" => workflow.stages[i].req \in consented

(* A workflow is COMPLETED only by a DELIVERY stage that was approved.     *)
CompletedByDelivery ==
  workflow.status = "completed" =>
    \E i \in DOMAIN workflow.stages :
      /\ workflow.stages[i].type = "delivery"
      /\ workflow.stages[i].status = "approved"

(* A request that runs without the user's own approval of it runs as part  *)
(* of a stage that holds it and that is at that time saved as APPROVED on  *)
(* a request the user approved (_execute_action, workflow_stage_approval). *)
BatchRunsInApprovedStage ==
  [][\A a \in Actions \ consented :
       approval[a] = "approved" /\ approval'[a] = "executed" =>
         \E i \in DOMAIN workflow.stages :
           /\ a \in workflow.stages[i].actions
           /\ workflow.stages[i].status = "approved"
           /\ workflow.stages[i].req \in consented]_vars

(* "Terminal states from which no further transition is legal" (models.py).*)
TerminalIsFinal ==
  [][workflow.status \in TerminalStatuses =>
       workflow'.status = workflow.status]_vars

(* What the user approved is not edited afterwards: neither the requests   *)
(* bound to an APPROVED stage nor its gate or report change.               *)
ApprovedStageIsFrozen ==
  [][\A i \in DOMAIN workflow.stages :
       workflow.stages[i].status = "approved" =>
         i \in DOMAIN workflow'.stages /\ workflow'.stages[i] = workflow.stages[i]]_vars

Quiet == \A h \in Handlers : At(h, "idle")

(* When no call is under way, an approved request that never got an        *)
(* outcome, and that no crash cut off, is one of a batch whose stage       *)
(* approval failed after the batch was approved: its own approval would    *)
(* have given it an outcome.                                               *)
StrandedOnlyByFailedStage ==
  Quiet => \A a \in Actions :
    approval[a] = "approved" /\ a \notin lost =>
      /\ a \notin consented
      /\ \E q \in StageRequests \cap consented : approval[q] = "failed"

(* When no call is under way and none was cut off by a crash, a stage and  *)
(* the request it carries tell the same story: a stage is APPROVED exactly *)
(* if its request is executed, and REJECTED only if it was turned down.    *)
RowAgreesWithStage ==
  Quiet /\ restarts = 0 =>
    \A i \in DOMAIN workflow.stages :
      LET stage == workflow.stages[i] IN
      stage.req # NoRow =>
        /\ stage.status = "approved" <=> approval[stage.req] = "executed"
        /\ stage.status = "rejected" => approval[stage.req] \in {"rejected", "failed"}

(* The requests a workflow's stages name.                                  *)
Named == UNION {workflow.stages[i].actions \cup ({workflow.stages[i].req} \ {NoRow}) :
                i \in DOMAIN workflow.stages}

(* Cancelling voids every request of the workflow that is still PENDING,   *)
(* and none becomes pending later.                                         *)
CancelVoidsPending ==
  workflow.status = "cancelled" => \A r \in Named : approval[r] # "pending"

(* The user is asked about a stage only while it waits for the answer: a   *)
(* stage request in the queue is carried by a stage that waits, unless the *)
(* workflow is over or a crash came between the request and the document.  *)
QueuedRequestIsAwaited ==
  Quiet /\ restarts = 0 /\ workflow.status \notin TerminalStatuses =>
    \A q \in StageRequests : approval[q] \in Open =>
      \E i \in Locate(workflow, q) : workflow.stages[i].status = "waiting_approval"

(* The workflow's document and the rows of the queue, two stores that are  *)
(* saved one after the other, tell the same story.                         *)
StagesMatchRequests == TypeOK /\ RowAgreesWithStage /\ QueuedRequestIsAwaited

(* The gate of the delivery cannot be got around, on the way to the human  *)
(* or on the way to COMPLETED.                                             *)
DeliveryIsEarned == DeliveryIsGated /\ CompletedByDelivery

(* Two threads, and a stage that fails or a workflow that is cancelled     *)
(* between them, leave no request behind that is pending or approved for   *)
(* ever without a reason.                                                  *)
NothingIsLeftBehind == StrandedOnlyByFailedStage /\ CancelVoidsPending
=============================================================================
