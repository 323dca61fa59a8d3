---------------------------- MODULE ExecutionLoop ----------------------------
(***************************************************************************)
(* One execution loop (local-bridge/app/execution_loop/), the tasks it     *)
(* plans (local-bridge/app/execution/), the proposals and results of those *)
(* tasks, and the files that a snapshot captures and a rollback restores.  *)
(*                                                                         *)
(* Loops, tasks, results and snapshots are four stores, each written by    *)
(* commits of its own.  An approved request is served by one thread, which *)
(* loads rows, edits its copies and writes whole rows back, one step per   *)
(* commit; several requests are served at once and a crash ends them all.  *)
(* The approval of the requests is the subject of module ApprovalStore.    *)
(***************************************************************************)
EXTENDS Naturals, Sequences, FiniteSets

CONSTANTS
  Tasks,       \* the tasks the plan is split into
  First,       \* task_ids[0]: the one task prepare makes a proposal for
  Proposals,   \* ids of proposals, as they are generated
  Files,       \* the files the plan lists: each of its tasks touches them all
  Contents,    \* what a file may hold
  Handlers,    \* threads that serve approved requests
  MaxPlans,    \* bound: how often the plan may be split into tasks
  MaxRestarts  \* bound: how often the process may crash and restart

None == "none"

ASSUME TasksAssumption == First \in Tasks
ASSUME NoneAssumption == None \notin Tasks \cup Proposals
ASSUME BoundAssumption == MaxPlans \in Nat /\ MaxRestarts \in Nat

VARIABLES
  loop,       \* the row of execution_loops
  task,       \* execution_tasks.status
  planned,    \* how often each task was written by a planning of the plan
  proposal,   \* the task each row of execution_proposals is for
  results,    \* how many rows of execution_results each proposal has
  snapshots,  \* the snapshots' metadata files, in the order of capturedAt
  file,       \* what the files hold
  learning,   \* learning memory proposals queued for the loop
  restarts,   \* crashes so far
  call,       \* per thread: the request it serves, where it is, its copies
  \* history variables: no action's guard reads them
  overlap,    \* two requests have been served at the same time
  contended,  \* tasks of which two threads held a copy at the same time
  edited      \* files edited since a rollback last began

rows == <<loop, task, planned, proposal, results, learning>>
disk == <<snapshots, file>>
history == <<overlap, contended, edited>>
vars == <<rows, disk, restarts, call, history>>

-----------------------------------------------------------------------------
(* The two transition tables; statuses no code leads to are left out.      *)

LoopTransitions ==
  [absent |-> {},
   planning |-> {"proposal_ready", "failed", "recovered"},
   proposal_ready |-> {"waiting_approval", "failed", "recovered"},
   waiting_approval |-> {"executing", "failed", "recovered"},
   executing |-> {"verifying", "failed", "rolled_back", "recovered"},
   verifying |-> {"completed", "failed", "rolled_back", "recovered"},
   recovered |-> {"waiting_approval", "failed", "rolled_back"},
   failed |-> {"rolled_back"},
   completed |-> {}, rolled_back |-> {}]

LoopStatus == DOMAIN LoopTransitions
LoopMoves(from, to) == to \in LoopTransitions[from]

TaskStatus == {"absent", "proposed", "approval_required", "approved",
               "executing", "verifying", "completed"}

(* Slip: an attempt that failed or was cut off may be approved again.      *)
TaskMovesAgain(from, to) ==
  \/ from = "proposed" /\ to = "approval_required"
  \/ from \in {"approval_required", "approved", "executing"} /\ to = "approved"

(* The moves ExecutionManager checks; the executor assigns the rest.       *)
TaskMoves(from, to) ==
  \/ from = "proposed" /\ to = "approval_required"
  \/ from = "approval_required" /\ to = "approved"

Interrupted == {"planning", "proposal_ready", "waiting_approval", "executing", "verifying"}

-----------------------------------------------------------------------------
(* Rows and calls.                                                         *)

Loop == [status: LoopStatus, proposal: Proposals \cup {None},
         result: Proposals \cup {None}, memory: BOOLEAN]
LoopOf(status, p, r, memory) ==
  [status |-> status, proposal |-> p, result |-> r, memory |-> memory]
NoLoop == LoopOf("absent", None, None, FALSE)
WithStatus(doc, status) == LoopOf(status, doc.proposal, doc.result, doc.memory)

FileStates == [Files -> Contents]
Snapshot == [task: Tasks, files: FileStates]
Captured == {snapshots[i].task : i \in DOMAIN snapshots}

(* The requests, and the points between the steps of serving each.         *)
PointsOf ==
  [none     |-> {"idle"},
   create   |-> {"plan"},
   replan   |-> {"plan"},
   propose  |-> {"propose", "require"},
   prepare  |-> {"draft", "propose", "require", "ready", "wait"},
   execute  |-> {"approve", "snapshot", "run", "result", "verifying",
                 "finish", "hook", "start", "started"},
   verify   |-> {"verdict", "learn", "remember"},
   recover  |-> {"recovered"},
   rollback |-> {"restore", "mark", "rolled_back"}]
Ops == DOMAIN PointsOf

Calls == [op: Ops, at: UNION {PointsOf[op] : op \in Ops},
          task: Tasks \cup {None}, proposal: Proposals \cup {None},
          copy: Loop, ok: BOOLEAN, todo: SUBSET Tasks]

CallOf(op, at, t, p, copy, ok, todo) ==
  [op |-> op, at |-> at, task |-> t, proposal |-> p, copy |-> copy,
   ok |-> ok, todo |-> todo]
Idle == CallOf("none", "idle", None, None, NoLoop, FALSE, {})

At(h, point) == call[h].at = point
Becomes(h, newCall) == call' = [call EXCEPT ![h] = newCall]
MovesTo(h, point) ==
  LET c == call[h] IN
  Becomes(h, CallOf(c.op, point, c.task, c.proposal, c.copy, c.ok, c.todo))
Ends(h) == Becomes(h, Idle)
Quiet == \A h \in Handlers : At(h, "idle")

(* A call holds a copy of a task from its load to its last save of it.     *)
HoldsTask(h, t) ==
  /\ call[h].task = t
  /\ call[h].at \in {"propose", "require", "approve", "snapshot", "run",
                     "result", "verifying", "finish"}

Begins(h, newCall) ==
  /\ At(h, "idle")
  /\ Becomes(h, newCall)
  /\ overlap' = (overlap \/ \E g \in Handlers \ {h} : ~At(g, "idle"))

Loads(h, t) ==
  contended' = IF \E g \in Handlers \ {h} : HoldsTask(g, t)
               THEN contended \cup {t} ELSE contended

-----------------------------------------------------------------------------

Init ==
  /\ loop = NoLoop
  /\ task = [t \in Tasks |-> "absent"]
  /\ planned = [t \in Tasks |-> 0]
  /\ proposal = [p \in Proposals |-> None]
  /\ results = [p \in Proposals |-> 0]
  /\ snapshots = << >>
  /\ file \in [Files -> Contents]
  /\ learning = 0
  /\ restarts = 0
  /\ call = [h \in Handlers |-> Idle]
  /\ overlap = FALSE
  /\ contended = {}
  /\ edited = {}

-----------------------------------------------------------------------------
(* create, for one loop, and execution_create, which makes no loop.  Both  *)
(* save the tasks one by one, under ids that follow from the plan's id: a  *)
(* plan that is split again overwrites its tasks, and they are PROPOSED.   *)

BeginCreate(h) ==
  /\ loop.status = "absent"
  /\ \A g \in Handlers : call[g].op # "create"
  /\ \A t \in Tasks : planned[t] < MaxPlans
  /\ Begins(h, CallOf("create", "plan", None, None, NoLoop, TRUE, Tasks))
  /\ UNCHANGED <<rows, disk, restarts, contended, edited>>

BeginReplan(h) ==
  /\ \A t \in Tasks : planned[t] < MaxPlans
  /\ Begins(h, CallOf("replan", "plan", None, None, NoLoop, TRUE, Tasks))
  /\ UNCHANGED <<rows, disk, restarts, contended, edited>>

PlanTask(h, t) ==
  LET c == call[h] IN
  /\ At(h, "plan") /\ t \in c.todo
  /\ task' = [task EXCEPT ![t] = "proposed"]
  /\ planned' = [planned EXCEPT ![t] = @ + 1]
  /\ Loads(h, t)
  /\ Becomes(h, CallOf(c.op, "plan", None, None, NoLoop, TRUE, c.todo \ {t}))
  /\ UNCHANGED <<loop, proposal, results, learning, disk, restarts,
                 overlap, edited>>

SaveLoop(h, doc) ==
  /\ loop' = doc
  /\ UNCHANGED <<task, planned, proposal, results, learning, disk, restarts, history>>

SavePlanned(h) ==
  /\ At(h, "plan") /\ call[h].op = "create" /\ call[h].todo = {}
  /\ SaveLoop(h, LoopOf("planning", None, None, FALSE))
  /\ Ends(h)

Replanned(h) ==
  /\ At(h, "plan") /\ call[h].op = "replan" /\ call[h].todo = {}
  /\ Ends(h)
  /\ UNCHANGED <<rows, disk, restarts, history>>

-----------------------------------------------------------------------------
(* generate_proposal: the proposal is saved before the task's move is      *)
(* checked, so that a refused call leaves a proposal behind.               *)

BeginPropose(h, t) ==
  /\ task[t] # "absent"
  /\ Begins(h, CallOf("propose", "propose", t, None, NoLoop,
                      TaskMoves(task[t], "approval_required"), {}))
  /\ Loads(h, t)
  /\ UNCHANGED <<rows, disk, restarts, edited>>

(* prepare first loads the loop, of which it only checks the proposal.     *)
BeginPrepare(h) ==
  /\ loop.status # "absent"
  /\ loop.proposal = None
  /\ Begins(h, CallOf("prepare", "draft", First, None, loop, TRUE, {}))
  /\ UNCHANGED <<rows, disk, restarts, contended, edited>>

Draft(h) ==
  /\ At(h, "draft")
  /\ Becomes(h, CallOf("prepare", "propose", First, None, call[h].copy,
                       TaskMoves(task[First], "approval_required"), {}))
  /\ Loads(h, First)
  /\ UNCHANGED <<rows, disk, restarts, overlap, edited>>

SaveProposal(h, p) ==
  LET c == call[h] IN
  /\ At(h, "propose")
  /\ proposal[p] = None
  /\ proposal' = [proposal EXCEPT ![p] = c.task]
  /\ IF c.ok
     THEN Becomes(h, CallOf(c.op, "require", c.task, p, c.copy, TRUE, {}))
     ELSE Ends(h)
  /\ UNCHANGED <<loop, task, planned, results, learning, disk, restarts, history>>

(* The task is saved before the loop's move is checked.                    *)
RequireApproval(h) ==
  LET c == call[h] IN
  /\ At(h, "require")
  /\ task' = [task EXCEPT ![c.task] = "approval_required"]
  /\ IF c.op = "prepare" /\ LoopMoves(c.copy.status, "proposal_ready")
     THEN Becomes(h, CallOf("prepare", "ready", c.task, c.proposal,
            LoopOf("proposal_ready", c.proposal, c.copy.result, c.copy.memory), TRUE, {}))
     ELSE Ends(h)
  /\ UNCHANGED <<loop, planned, proposal, results, learning, disk, restarts, history>>

SaveReady(h) ==
  LET c == call[h] IN
  /\ At(h, "ready")
  /\ SaveLoop(h, c.copy)
  /\ Becomes(h, CallOf("prepare", "wait", c.task, c.proposal,
                       WithStatus(c.copy, "waiting_approval"), TRUE, {}))

SaveWaiting(h) ==
  /\ At(h, "wait")
  /\ SaveLoop(h, call[h].copy)
  /\ Ends(h)

-----------------------------------------------------------------------------
(* execution_execute: ExecutionManager.execute, ControlledExecutor.execute *)
(* and the hook of the loop that the task belongs to.                      *)

(* Slip: the executor's own assignment of APPROVED is taken for the check. *)
BeginExecuteUnchecked(h, p) ==
  LET t == proposal[p] IN
  /\ t # None
  /\ Begins(h, CallOf("execute", "approve", t, p, NoLoop, TRUE, {}))
  /\ Loads(h, t)
  /\ UNCHANGED <<rows, disk, restarts, edited>>

BeginExecute(h, p) ==
  LET t == proposal[p] IN
  /\ t # None
  /\ TaskMoves(task[t], "approved")
  /\ Begins(h, CallOf("execute", "approve", t, p, NoLoop, TRUE, {}))
  /\ Loads(h, t)
  /\ UNCHANGED <<rows, disk, restarts, edited>>

(* The save of the copy with the status that the point of the call stands  *)
(* for.                                                                    *)
SaveTask(h, at, status, next) ==
  /\ At(h, at)
  /\ task' = [task EXCEPT ![call[h].task] = status]
  /\ MovesTo(h, next)
  /\ UNCHANGED <<loop, planned, proposal, results, learning, disk, restarts, history>>

SaveApproved(h) == SaveTask(h, "approve", "approved", "snapshot")
SaveExecuting(h) == SaveTask(h, "run", "executing", "result")
SaveVerifying(h) == SaveTask(h, "verifying", "verifying", "finish")
SaveCompleted(h) == SaveTask(h, "finish", "completed", "hook")

(* Slip: nobody asks whether the snapshot was written.                     *)
CaptureUnchecked(h) ==
  LET t == call[h].task IN
  /\ At(h, "snapshot")
  /\ \/ snapshots' = IF t \in Captured THEN snapshots
                     ELSE Append(snapshots, [task |-> t, files |-> file])
     \/ snapshots' = snapshots
  /\ MovesTo(h, "run")
  /\ UNCHANGED <<rows, file, restarts, history>>

(* A check (paths, workflow) may fail, and leaves the task APPROVED.  A    *)
(* snapshot that exists already is kept.                                   *)
Capture(h) ==
  LET t == call[h].task IN
  /\ At(h, "snapshot")
  /\ \/ /\ snapshots' = IF t \in Captured THEN snapshots
                        ELSE Append(snapshots, [task |-> t, files |-> file])
        /\ MovesTo(h, "run")
     \/ snapshots' = snapshots /\ Ends(h)
  /\ UNCHANGED <<rows, file, restarts, history>>

(* Slip: the result is handed to the loop and not saved.                   *)
ResultUnsaved(h) ==
  /\ At(h, "result")
  /\ MovesTo(h, "verifying")
  /\ UNCHANGED <<rows, disk, restarts, history>>

SaveResult(h) ==
  LET p == call[h].proposal IN
  /\ At(h, "result")
  /\ results' = [results EXCEPT ![p] = @ + 1]
  /\ MovesTo(h, "verifying")
  /\ UNCHANGED <<loop, task, planned, proposal, learning, disk, restarts, history>>

(* Slip: the loop's row is saved without the id of the result.             *)
HookForgets(h) ==
  LET c == call[h] IN
  /\ At(h, "hook")
  /\ IF LoopMoves(loop.status, "executing")
     THEN Becomes(h, CallOf("execute", "start", c.task, c.proposal,
                            WithStatus(loop, "executing"), TRUE, {}))
     ELSE Ends(h)
  /\ UNCHANGED <<rows, disk, restarts, history>>

(* on_executed: load the loop.  If its move is illegal the request fails,  *)
(* although the task has been executed; with no loop it just ends.         *)
Hook(h) ==
  LET c == call[h] IN
  /\ At(h, "hook")
  /\ IF LoopMoves(loop.status, "executing")
     THEN Becomes(h, CallOf("execute", "start", c.task, c.proposal,
            LoopOf("executing", loop.proposal, c.proposal, loop.memory), TRUE, {}))
     ELSE Ends(h)
  /\ UNCHANGED <<rows, disk, restarts, history>>

SaveStart(h) ==
  LET c == call[h] IN
  /\ At(h, "start")
  /\ SaveLoop(h, c.copy)
  /\ Becomes(h, CallOf("execute", "started", c.task, c.proposal,
                       WithStatus(c.copy, "verifying"), TRUE, {}))

SaveStarted(h) ==
  /\ At(h, "started")
  /\ SaveLoop(h, call[h].copy)
  /\ Ends(h)

-----------------------------------------------------------------------------
(* verify: the verdict depends on what the user says of the tests; then    *)
(* the learning memory is queued, for either verdict.                      *)

BeginVerify(h, verdict) ==
  /\ loop.result # None
  /\ LoopMoves(loop.status, verdict)
  /\ Begins(h, CallOf("verify", "verdict", None, None,
                      WithStatus(loop, verdict), TRUE, {}))
  /\ UNCHANGED <<rows, disk, restarts, contended, edited>>

(* Slip: only a loop that completes is learned from.                       *)
LearnSuccess(h) ==
  LET c == call[h] IN
  /\ At(h, "verdict")
  /\ SaveLoop(h, c.copy)
  /\ IF c.copy.memory \/ c.copy.status = "failed" THEN Ends(h) ELSE MovesTo(h, "learn")

(* Slip: the verdict itself becomes the status of the loop.                *)
SaveVerdictAsIs(h) ==
  LET c == call[h] IN
  /\ At(h, "verdict")
  /\ SaveLoop(h, WithStatus(c.copy, "PASS"))
  /\ IF c.copy.memory THEN Ends(h) ELSE MovesTo(h, "learn")

SaveVerdict(h) ==
  LET c == call[h] IN
  /\ At(h, "verdict")
  /\ SaveLoop(h, c.copy)
  /\ IF c.copy.memory THEN Ends(h) ELSE MovesTo(h, "learn")

QueueLearning(h) ==
  LET doc == call[h].copy IN
  /\ At(h, "learn")
  /\ learning' = learning + 1
  /\ Becomes(h, CallOf("verify", "remember", None, None,
                       LoopOf(doc.status, doc.proposal, doc.result, TRUE), TRUE, {}))
  /\ UNCHANGED <<loop, task, planned, proposal, results, disk, restarts, history>>

SaveMemory(h) ==
  /\ At(h, "remember")
  /\ SaveLoop(h, call[h].copy)
  /\ Ends(h)

-----------------------------------------------------------------------------
(* recover, as an approved request.                                        *)

(* Slip: whatever its status, the loop is marked.                          *)
BeginRecoverAnyway(h) ==
  /\ loop.status # "absent"
  /\ Begins(h, CallOf("recover", "recovered", None, None,
                      WithStatus(loop, "recovered"), TRUE, {}))
  /\ UNCHANGED <<rows, disk, restarts, contended, edited>>

BeginRecover(h) ==
  /\ LoopMoves(loop.status, "recovered")
  /\ Begins(h, CallOf("recover", "recovered", None, None,
                      WithStatus(loop, "recovered"), TRUE, {}))
  /\ UNCHANGED <<rows, disk, restarts, contended, edited>>

SaveRecovered(h) ==
  /\ At(h, "recovered")
  /\ SaveLoop(h, call[h].copy)
  /\ Ends(h)

-----------------------------------------------------------------------------
(* rollback: the snapshots are restored, then the loop's move is checked.  *)

BeginRollback(h) ==
  /\ loop.status # "absent"
  /\ Captured # {}
  /\ Begins(h, CallOf("rollback", "restore", None, None, loop, TRUE, Captured))
  /\ edited' = {}
  /\ UNCHANGED <<rows, disk, restarts, contended>>

(* Slip: the snapshots are restored in the order they were taken.          *)
EarliestOf(todo) ==
  CHOOSE i \in DOMAIN snapshots :
    /\ snapshots[i].task \in todo
    /\ \A j \in DOMAIN snapshots : snapshots[j].task \in todo => j >= i

LatestOf(todo) ==
  CHOOSE i \in DOMAIN snapshots :
    /\ snapshots[i].task \in todo
    /\ \A j \in DOMAIN snapshots : snapshots[j].task \in todo => j <= i

(* One snapshot, the latest of those that are left.                        *)
Restore(h) ==
  LET c == call[h]
      s == snapshots[LatestOf(c.todo)]
  IN
  /\ At(h, "restore") /\ c.todo # {}
  /\ file' = s.files
  /\ Becomes(h, CallOf("rollback", "restore", None, None, c.copy, TRUE, c.todo \ {s.task}))
  /\ UNCHANGED <<rows, snapshots, restarts, history>>

(* The files are back; resetting the index of a git repository may fail.   *)
RestoreDone(h) ==
  /\ At(h, "restore") /\ call[h].todo = {}
  /\ MovesTo(h, "mark") \/ Ends(h)
  /\ UNCHANGED <<rows, disk, restarts, history>>

MarkRolledBack(h) ==
  LET doc == call[h].copy IN
  /\ At(h, "mark")
  /\ IF LoopMoves(doc.status, "rolled_back")
     THEN Becomes(h, CallOf("rollback", "rolled_back", None, None,
                            WithStatus(doc, "rolled_back"), TRUE, {}))
     ELSE Ends(h)
  /\ UNCHANGED <<rows, disk, restarts, history>>

SaveRolledBack(h) ==
  /\ At(h, "rolled_back")
  /\ SaveLoop(h, call[h].copy)
  /\ Ends(h)

-----------------------------------------------------------------------------
(* Other approved requests write project files at any time; and a crash,   *)
(* with the startup that marks an interrupted loop RECOVERED.              *)

EditFile(f, content) ==
  /\ file[f] # content
  /\ file' = [file EXCEPT ![f] = content]
  /\ edited' = edited \cup {f}
  /\ UNCHANGED <<rows, snapshots, restarts, call, overlap, contended>>

Crash ==
  /\ restarts < MaxRestarts
  /\ restarts' = restarts + 1
  /\ call' = [h \in Handlers |-> Idle]
  /\ loop' = IF loop.status \in Interrupted THEN WithStatus(loop, "recovered") ELSE loop
  /\ UNCHANGED <<task, planned, proposal, results, learning, disk, history>>

-----------------------------------------------------------------------------

Begin(h) ==
  \/ BeginCreate(h) \/ BeginReplan(h) \/ BeginPrepare(h) \/ BeginRecover(h) \/ BeginRollback(h)
  \/ \E t \in Tasks : BeginPropose(h, t)
  \/ \E p \in Proposals : BeginExecute(h, p)
  \/ \E verdict \in {"completed", "failed"} : BeginVerify(h, verdict)

Continue(h) ==
  \/ \E t \in Tasks : PlanTask(h, t)
  \/ SavePlanned(h) \/ Replanned(h)
  \/ Draft(h)
  \/ \E p \in Proposals : SaveProposal(h, p)
  \/ RequireApproval(h) \/ SaveReady(h) \/ SaveWaiting(h)
  \/ SaveApproved(h) \/ Capture(h) \/ SaveExecuting(h) \/ SaveResult(h)
  \/ SaveVerifying(h) \/ SaveCompleted(h)
  \/ Hook(h) \/ SaveStart(h) \/ SaveStarted(h)
  \/ SaveVerdict(h) \/ QueueLearning(h) \/ SaveMemory(h)
  \/ SaveRecovered(h)
  \/ Restore(h) \/ RestoreDone(h) \/ MarkRolledBack(h) \/ SaveRolledBack(h)

Next ==
  \/ \E h \in Handlers : Begin(h) \/ Continue(h)
  \/ \E f \in Files, content \in Contents : EditFile(f, content)
  \/ Crash

Spec == Init /\ [][Next]_vars

-----------------------------------------------------------------------------
(* Properties.                                                             *)

(* Every row and call has its type, and each call is at a point of its op. *)
TypeOK ==
  /\ loop \in Loop
  /\ task \in [Tasks -> TaskStatus]
  /\ planned \in [Tasks -> Nat]
  /\ proposal \in [Proposals -> Tasks \cup {None}]
  /\ results \in [Proposals -> Nat]
  /\ snapshots \in Seq(Snapshot)
  /\ file \in FileStates
  /\ learning \in Nat /\ restarts \in 0..MaxRestarts
  /\ call \in [Handlers -> Calls]
  /\ \A h \in Handlers : call[h].at \in PointsOf[call[h].op]
  /\ overlap \in BOOLEAN
  /\ contended \subseteq Tasks /\ edited \subseteq Files

(* Whatever is loaded stale, saved over newer rows or cut off by a crash,  *)
(* a loop that says it executed something has a saved result, of a task    *)
(* whose snapshot was captured, to show for it.                            *)
LoopRestsOnResult ==
  /\ loop.status \in {"executing", "verifying", "completed", "failed"} => loop.result # None
  /\ loop.result # None =>
       /\ results[loop.result] > 0
       /\ proposal[loop.result] \in Captured

(* No task is executed before its snapshot exists, so that there is always *)
(* something to roll back to (phase-15.md: "Snapshot exists").             *)
SnapshotFirst ==
  \A t \in Tasks :
    \/ task[t] \in {"executing", "verifying", "completed"}
    \/ \E p \in Proposals : proposal[p] = t /\ results[p] > 0
    => t \in Captured

(* The rows of execution_results that the proposals of a task have.        *)
ResultRows(t) ==
  UNION {{p} \X (1..results[p]) : p \in {q \in Proposals : proposal[q] = t}}

(* A task is executed at most once for each time it was planned, through   *)
(* any number of proposals, failed attempts and restarts, if no thread     *)
(* ever loaded or wrote it while another one held a copy of it.            *)
RunsOncePerPlan ==
  \A t \in Tasks \ contended : Cardinality(ResultRows(t)) <= planned[t]

(* When a rollback has restored the files, and no other rollback is under  *)
(* way, every file that nobody edited meanwhile is as it was before the    *)
(* first of the tasks was run, although each task has a snapshot.          *)
RestoreUndoesAllTasks ==
  \A h \in Handlers :
    /\ call[h].at \in {"mark", "rolled_back"}
    /\ \A g \in Handlers \ {h} : call[g].op # "rollback"
    => \A f \in Files \ edited : file[f] = snapshots[1].files[f]

(* Without concurrent requests and crashes, a loop whose own proposal was  *)
(* executed has a result (of that proposal, or of another task's that was  *)
(* executed before), unless it was marked RECOVERED before the execution.  *)
OwnExecutionIsRecorded ==
  Quiet /\ ~overlap /\ restarts = 0 /\ loop.proposal # None =>
    \/ results[loop.proposal] = 0
    \/ loop.result # None
    \/ loop.status \in {"recovered", "rolled_back"}

(* Without concurrent requests, exactly one learning memory is queued for  *)
(* a loop that was verified, whatever the verdict, and never a second one; *)
(* a crash may lose it but not repeat it.                                  *)
LearnsOnce ==
  ~overlap =>
    /\ learning <= 1
    /\ Quiet /\ restarts = 0 /\ loop.status \in {"completed", "failed"} => learning = 1

(* The loop as others see it (module LoopLifecycle).  For one thread only: *)
(* two can save an old status over a newer one.                            *)
PhaseOf(st) ==
  CASE st \in {"absent", "planning", "completed"} -> st
    [] st \in {"failed", "rolled_back"} -> "stopped"
    [] OTHER -> "underway"

Lifecycle == INSTANCE LoopLifecycle
  WITH Loops <- {"loop"}, phase <- [l \in {"loop"} |-> PhaseOf(loop.status)]

(* With one thread, and however often the process restarts, the loop only  *)
(* goes forward: from planning on its way, and from there to a verdict or  *)
(* a stop, COMPLETED being the end.                                        *)
ImplementsLoopLifecycle == Lifecycle!LifecycleSpec

(* What stands in a loop's row was earned: a status past the execution     *)
(* rests on a result, a result on a run, and a run on a snapshot.          *)
StatusIsEarned == LoopRestsOnResult /\ SnapshotFirst

(* What a loop ran is told of by the loop, and learned from once.          *)
RunsAreRecorded == TypeOK /\ OwnExecutionIsRecorded /\ LearnsOnce
=============================================================================
