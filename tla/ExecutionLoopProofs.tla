------------------------- MODULE ExecutionLoopProofs -------------------------
(***************************************************************************)
(* Theorems about ExecutionLoop, for every plan, any proposals, files and  *)
(* threads, and every bound.  Rows are saved from copies that may be out   *)
(* of date, so what holds of the loop's row must hold of every copy of it; *)
(* and a copy stays good because snapshots, results and proposals only     *)
(* grow.                                                                   *)
(***************************************************************************)
EXTENDS ExecutionLoop, NaturalsInduction, WellFoundedInduction, FiniteSetTheorems, TLAPS

-----------------------------------------------------------------------------
(* Types of the loops and of the calls.                                    *)

CallOK(c) ==
  /\ c \in Calls
  /\ c.at \in PointsOf[c.op]
  /\ c.op = "execute" => c.task \in Tasks /\ c.proposal \in Proposals

(* A rollback only restores snapshots that there are.                      *)
TypeInv ==
  /\ TypeOK
  /\ \A h \in Handlers :
       /\ CallOK(call[h])
       /\ call[h].op = "rollback" => call[h].todo \subseteq Captured

(* The statuses the requests write are statuses of loops.                  *)
LEMMA LoopStatusType ==
  {"absent", "planning", "proposal_ready", "waiting_approval", "executing",
   "verifying", "completed", "failed", "recovered", "rolled_back"} \subseteq LoopStatus
BY DEF LoopStatus, LoopTransitions

(* A loop put together from its parts is a loop.                           *)
LEMMA LoopType ==
  ASSUME NEW status \in LoopStatus, NEW p \in Proposals \cup {None},
         NEW r \in Proposals \cup {None}, NEW memory \in BOOLEAN
  PROVE  LoopOf(status, p, r, memory) \in Loop
BY DEF LoopOf, Loop

(* A loop with another status is a loop.                                   *)
LEMMA StatusType ==
  ASSUME NEW doc \in Loop, NEW status \in LoopStatus
  PROVE  WithStatus(doc, status) \in Loop
BY LoopType DEF WithStatus, Loop

(* A call under way.                                                       *)
LEMMA CallType ==
  ASSUME NEW op \in Ops, NEW at \in PointsOf[op], NEW t \in Tasks \cup {None},
         NEW p \in Proposals \cup {None}, NEW copy \in Loop, NEW ok \in BOOLEAN,
         NEW todo \in SUBSET Tasks,
         op = "execute" => t \in Tasks /\ p \in Proposals
  PROVE  CallOK(CallOf(op, at, t, p, copy, ok, todo))
BY DEF CallOK, CallOf, Calls

(* An idle thread's call.                                                  *)
LEMMA IdleType ==
  CallOK(Idle) /\ Idle.op = "none" /\ Idle.copy = NoLoop /\ NoLoop \in Loop
<1>1. NoLoop \in Loop
  BY LoopStatusType, LoopType DEF NoLoop
<1>2. CallOK(Idle)
  BY <1>1, CallType DEF Idle, Ops, PointsOf
<1>3. QED
  BY <1>1, <1>2 DEF Idle, CallOf

(* The latest of the snapshots that are left is the last of them.          *)
LEMMA LatestIsLast ==
  ASSUME snapshots \in Seq(Snapshot), NEW todo \in SUBSET Captured, todo # {}
  PROVE  /\ LatestOf(todo) \in DOMAIN snapshots
         /\ snapshots[LatestOf(todo)].task \in todo
         /\ \A j \in DOMAIN snapshots : snapshots[j].task \in todo => j <= LatestOf(todo)
<1> DEFINE n == Len(snapshots)
           left == {i \in DOMAIN snapshots : snapshots[i].task \in todo}
           back == {n - i : i \in left}
<1>1. n \in Nat /\ DOMAIN snapshots = 1..n
  OBVIOUS
<1>2. left # {} /\ left \subseteq 1..n
  BY <1>1 DEF Captured
<1>3. back \subseteq Nat /\ back # {}
  BY <1>1, <1>2
<1>4. PICK k \in back : \A j \in back : ~ (<<j, k>> \in OpToRel(<, Nat))
  BY <1>3, WFMin, NatLessThanWellFounded
<1>5. \A j \in back : k <= j
  <2>0. k \in Nat /\ \A j \in back : j \in Nat
    BY <1>3
  <2> HIDE DEF back
  <2> SUFFICES ASSUME NEW j \in back, j < k
               PROVE  FALSE
    BY <2>0
  <2>1. <<j, k>> \in Nat \X Nat /\ <<j, k>>[1] < <<j, k>>[2]
    BY <2>0
  <2>2. QED
    BY <2>1, <1>4, Zenon DEF OpToRel
<1>6. PICK i \in left : k = n - i
  OBVIOUS
<1>7. \A j \in left : j <= i
  <2> SUFFICES ASSUME NEW j \in left
               PROVE  j <= i
    OBVIOUS
  <2>1. k <= n - j
    BY <1>5
  <2>2. QED
    BY <2>1, <1>1, <1>2, <1>6
<1>8. i \in DOMAIN snapshots /\ snapshots[i].task \in todo
      /\ \A j \in DOMAIN snapshots : snapshots[j].task \in todo => j <= i
  BY <1>1, <1>2, <1>6, <1>7
<1>9. QED
  BY <1>8 DEF LatestOf

-----------------------------------------------------------------------------
(* Type correctness: rows, copies and files keep their types, every call   *)
(* stays at a point of its own, and a rollback restores what was captured. *)

(* What TypeInv says of the threads, call by call.                         *)
LEMMA CallsType ==
  ASSUME TypeInv, NEW h \in Handlers, NEW c, CallOK(c), Becomes(h, c),
         Captured \subseteq Captured',
         c.op = "rollback" => c.todo \subseteq Captured
  PROVE  /\ call' \in [Handlers -> Calls]
         /\ \A g \in Handlers :
              /\ CallOK(call'[g])
              /\ call'[g].op = "rollback" => call'[g].todo \subseteq Captured'
<1>1. call' \in [Handlers -> Calls]
  BY DEF TypeInv, TypeOK, Becomes, CallOK
<1>2. ASSUME NEW g \in Handlers
      PROVE  /\ CallOK(call'[g])
             /\ call'[g].op = "rollback" => call'[g].todo \subseteq Captured'
  <2>1. call'[g] = IF g = h THEN c ELSE call[g]
    BY DEF TypeInv, TypeOK, Becomes
  <2>2. QED
    BY <2>1 DEF TypeInv
<1>3. QED
  BY <1>1, <1>2

(* A call that moves on to another point.                                  *)
LEMMA MovesType ==
  ASSUME NEW c, CallOK(c), NEW at \in PointsOf[c.op]
  PROVE  CallOK(CallOf(c.op, at, c.task, c.proposal, c.copy, c.ok, c.todo))
BY CallType DEF CallOK, Calls

(* Loop, tasks, results, snapshots and calls keep their types, for any     *)
(* threads and tasks.                                                      *)
THEOREM TypesHold == Spec => []TypeInv
<1>1. Init => TypeInv
  <2> SUFFICES ASSUME Init
               PROVE  TypeInv
    OBVIOUS
  <2>1. call = [h \in Handlers |-> Idle] /\ Idle \in Calls /\ Idle.at \in PointsOf[Idle.op]
    BY IdleType DEF Init, CallOK
  <2>2. snapshots \in Seq(Snapshot)
    BY DEF Init
  <2>3. /\ task \in [Tasks -> TaskStatus] /\ planned \in [Tasks -> Nat]
        /\ proposal \in [Proposals -> Tasks \cup {None}]
        /\ results \in [Proposals -> Nat]
    BY DEF Init, TaskStatus
  <2>4. /\ loop \in Loop /\ file \in FileStates /\ learning \in Nat
        /\ overlap \in BOOLEAN
        /\ contended \subseteq Tasks /\ edited \subseteq Files
    BY IdleType DEF Init, FileStates
  <2>5. restarts \in 0..MaxRestarts
    BY BoundAssumption DEF Init
  <2>6. \A h \in Handlers : CallOK(call[h]) /\ call[h].op = "none"
    BY <2>1, IdleType
  <2>7. QED
    BY <2>1, <2>2, <2>3, <2>4, <2>5, <2>6 DEF TypeInv, TypeOK
<1>2. TypeInv /\ [Next]_vars => TypeInv'
  <2> SUFFICES ASSUME TypeInv, [Next]_vars
               PROVE  TypeInv'
    OBVIOUS
  <2>a. /\ TypeOK /\ loop \in Loop /\ Captured \subseteq Tasks
        /\ \A h \in Handlers :
             /\ CallOK(call[h])
             /\ call[h].op \in Ops /\ call[h].at \in PointsOf[call[h].op]
             /\ call[h].task \in Tasks \cup {None}
             /\ call[h].proposal \in Proposals \cup {None}
             /\ call[h].copy \in Loop /\ call[h].ok \in BOOLEAN
             /\ call[h].todo \in SUBSET Tasks
             /\ call[h].op = "execute" =>
                  call[h].task \in Tasks /\ call[h].proposal \in Proposals
             /\ call[h].op = "rollback" => call[h].todo \subseteq Captured
    <3>1. Captured \subseteq Tasks
      <4>1. \A i \in DOMAIN snapshots : snapshots[i] \in Snapshot
        BY DEF TypeInv, TypeOK
      <4>2. QED
        BY <4>1 DEF Captured, Snapshot
    <3>2. QED
      BY <3>1 DEF TypeInv, TypeOK, CallOK, Calls
  <2>b. UNCHANGED snapshots => Captured' = Captured
    BY DEF Captured
  (* A thread's step that leaves the snapshots alone.                      *)
  <2>c. ASSUME NEW h \in Handlers, NEW c, CallOK(c), Becomes(h, c),
               c.op = "rollback" => c.todo \subseteq Captured,
               UNCHANGED <<snapshots, restarts>>,
               loop' \in Loop, task' \in [Tasks -> TaskStatus],
               planned' \in [Tasks -> Nat],
               proposal' \in [Proposals -> Tasks \cup {None}],
               results' \in [Proposals -> Nat], learning' \in Nat,
               file' \in FileStates,
               overlap' \in BOOLEAN,
               contended' \subseteq Tasks, edited' \subseteq Files
        PROVE  TypeInv'
    <3>1. /\ call' \in [Handlers -> Calls]
          /\ \A g \in Handlers :
               /\ CallOK(call'[g])
               /\ call'[g].op = "rollback" => call'[g].todo \subseteq Captured'
      BY <2>b, <2>c, CallsType
    <3>2. QED
      BY <3>1, <2>c DEF TypeInv, TypeOK, CallOK
  (* In particular one that only loads or moves on.                        *)
  <2>d. ASSUME NEW h \in Handlers, NEW c, CallOK(c), Becomes(h, c),
               c.op = "rollback" => c.todo \subseteq Captured,
               UNCHANGED <<rows, disk, restarts>>,
               overlap' \in BOOLEAN,
               contended' \subseteq Tasks, edited' \subseteq Files
        PROVE  TypeInv'
    BY <2>c, <2>d DEF TypeInv, TypeOK, rows, disk
  (* Or one that saves its copy of the loop.                               *)
  <2>e. ASSUME NEW h \in Handlers, NEW c, CallOK(c), Becomes(h, c),
               c.op = "rollback" => c.todo \subseteq Captured,
               NEW doc \in Loop, SaveLoop(h, doc)
        PROVE  TypeInv'
    BY <2>c, <2>e DEF TypeInv, TypeOK, SaveLoop, disk, history
  <2>1. ASSUME NEW h \in Handlers, BeginCreate(h)
        PROVE  TypeInv'
    <3>1. CallOK(CallOf("create", "plan", None, None, NoLoop, TRUE, Tasks))
      BY CallType, IdleType DEF Ops, PointsOf
    <3>2. QED
      BY <3>1, <2>a, <2>d, <2>1 DEF BeginCreate, Begins, Loads, TypeOK, CallOf
  <2>2. ASSUME NEW h \in Handlers, BeginReplan(h)
        PROVE  TypeInv'
    <3>1. CallOK(CallOf("replan", "plan", None, None, NoLoop, TRUE, Tasks))
      BY CallType, IdleType DEF Ops, PointsOf
    <3>2. QED
      BY <3>1, <2>a, <2>d, <2>2 DEF BeginReplan, Begins, Loads, TypeOK, CallOf
  <2>3. ASSUME NEW h \in Handlers, NEW t \in Tasks, PlanTask(h, t)
        PROVE  TypeInv'
    <3> DEFINE c == call[h]
    <3>1. c.op \in {"create", "replan"}
      BY <2>3, <2>a DEF PlanTask, At, Ops, PointsOf
    <3>2. CallOK(CallOf(c.op, "plan", None, None, NoLoop, TRUE, c.todo \ {t}))
      <4>1. c.todo \ {t} \in SUBSET Tasks
        BY <2>a
      <4> DEFINE left == c.todo \ {t}
      <4> HIDE DEF left
      <4>2. CallOK(CallOf(c.op, "plan", None, None, NoLoop, TRUE, left))
        BY <3>1, <4>1, CallType, IdleType DEF Ops, PointsOf, left
      <4>3. QED
        BY <4>2 DEF left
    <3>3. /\ task' \in [Tasks -> TaskStatus] /\ planned' \in [Tasks -> Nat]
          /\ contended' \subseteq Tasks
      BY <2>3, <2>a DEF PlanTask, TypeOK, TaskStatus, Loads
    <3>4. QED
      BY <3>1, <3>2, <3>3, <2>a, <2>c, <2>3 DEF PlanTask, TypeOK, disk, CallOf
  <2>4. ASSUME NEW h \in Handlers, SavePlanned(h)
        PROVE  TypeInv'
    <3>1. LoopOf("planning", None, None, FALSE) \in Loop
      BY <2>a, LoopType, StatusType, LoopStatusType
    <3>2. QED
      BY <3>1, <2>e, <2>4, IdleType DEF SavePlanned, Ends
  <2>5. ASSUME NEW h \in Handlers, Replanned(h)
        PROVE  TypeInv'
    BY <2>a, <2>d, <2>5, IdleType DEF Replanned, Ends, TypeOK, history
  <2>6. ASSUME NEW h \in Handlers, NEW t \in Tasks, BeginPropose(h, t)
        PROVE  TypeInv'
    <3>0. TaskMoves(task[t], "approval_required") \in BOOLEAN
      BY DEF TaskMoves
    <3>1. CallOK(CallOf("propose", "propose", t, None, NoLoop,
                      TaskMoves(task[t], "approval_required"), {}))
      BY <3>0, CallType, IdleType DEF Ops, PointsOf
    <3>2. PICK c : c = CallOf("propose", "propose", t, None, NoLoop,
                              TaskMoves(task[t], "approval_required"), {})
      OBVIOUS
    <3>3. c.op = "propose"
      BY <3>2 DEF CallOf
    <3>4. Becomes(h, c) /\ UNCHANGED <<rows, disk, restarts, edited>>
      BY <2>6, <3>2 DEF BeginPropose, Begins
    <3>5. overlap' \in BOOLEAN /\ contended' \subseteq Tasks /\ edited' \subseteq Files
      BY <2>a, <2>6 DEF BeginPropose, Begins, Loads, TypeOK
    <3> QED
      BY <3>1, <3>2, <3>3, <3>4, <3>5, <2>d
  <2>7. ASSUME NEW h \in Handlers, BeginPrepare(h)
        PROVE  TypeInv'
    <3>1. CallOK(CallOf("prepare", "draft", First, None, loop, TRUE, {}))
      <4>1. loop \in Loop
        BY <2>a DEF TypeOK
      <4>2. "prepare" \in Ops /\ "draft" \in PointsOf["prepare"]
        BY DEF Ops, PointsOf
      <4> QED
        BY <4>1, <4>2, CallType, TasksAssumption
    <3>2. QED
      BY <3>1, <2>a, <2>d, <2>7 DEF BeginPrepare, Begins, Loads, TypeOK, CallOf
  <2>8. ASSUME NEW h \in Handlers, Draft(h)
        PROVE  TypeInv'
    <3>0. TaskMoves(task[First], "approval_required") \in BOOLEAN
      BY DEF TaskMoves
    <3>1. CallOK(CallOf("prepare", "propose", First, None, call[h].copy,
                      TaskMoves(task[First], "approval_required"), {}))
      BY <3>0, <2>a, CallType, TasksAssumption DEF Ops, PointsOf
    <3>2. QED
      BY <3>1, <2>a, <2>d, <2>8, TasksAssumption DEF Draft, Loads, TypeOK, CallOf
  <2>9. ASSUME NEW h \in Handlers, NEW p \in Proposals, SaveProposal(h, p)
        PROVE  TypeInv'
    <3> DEFINE c == call[h]
               next == CallOf(c.op, "require", c.task, p, c.copy, TRUE, {})
    <3>1. c.op \in {"propose", "prepare"}
      BY <2>9, <2>a DEF SaveProposal, At, Ops, PointsOf
    <3>2. CallOK(next) /\ next.op # "rollback"
      BY <3>1, <2>a, CallType DEF Ops, PointsOf, CallOf
    <3>3. proposal' \in [Proposals -> Tasks \cup {None}]
      BY <2>9, <2>a DEF SaveProposal, TypeOK
    <3> HIDE DEF next
    <3>4. PICK d : CallOK(d) /\ d.op # "rollback" /\ Becomes(h, d)
      BY <3>2, <2>9, IdleType DEF SaveProposal, Ends, next
    <3>5. QED
      BY <3>3, <3>4, <2>a, <2>c, <2>9 DEF SaveProposal, TypeOK, disk, history
  <2>10. ASSUME NEW h \in Handlers, RequireApproval(h)
        PROVE  TypeInv'
    <3> DEFINE c == call[h]
               next == CallOf("prepare", "ready", c.task, c.proposal,
                         LoopOf("proposal_ready", c.proposal, c.copy.result, c.copy.memory), TRUE, {})
    <3>1. LoopOf("proposal_ready", c.proposal, c.copy.result, c.copy.memory) \in Loop
      BY <2>a, LoopType, LoopStatusType DEF Loop
    <3>2. CallOK(next) /\ next.op # "rollback"
      BY <3>1, <2>a, CallType DEF Ops, PointsOf, CallOf
    <3>3. task' \in [Tasks -> TaskStatus]
      BY <2>10, <2>a DEF RequireApproval, TypeOK, TaskStatus
    <3> HIDE DEF next
    <3>4. PICK d : CallOK(d) /\ d.op # "rollback" /\ Becomes(h, d)
      BY <3>2, <2>10, IdleType DEF RequireApproval, Ends, next
    <3>5. QED
      BY <3>3, <3>4, <2>a, <2>c, <2>10 DEF RequireApproval, TypeOK, disk, history
  <2>11. ASSUME NEW h \in Handlers, SaveReady(h)
        PROVE  TypeInv'
    <3> DEFINE c == call[h]
    <3>1. CallOK(CallOf("prepare", "wait", c.task, c.proposal,
                        WithStatus(c.copy, "waiting_approval"), TRUE, {}))
      BY <2>a, CallType, StatusType, LoopStatusType DEF Ops, PointsOf
    <3>2. QED
      BY <3>1, <2>a, <2>e, <2>11 DEF SaveReady, CallOf
  <2>12. ASSUME NEW h \in Handlers, SaveWaiting(h)
        PROVE  TypeInv'
    BY <2>a, <2>e, <2>12, IdleType DEF SaveWaiting, Ends
  <2>13. ASSUME NEW h \in Handlers, NEW p \in Proposals, BeginExecute(h, p)
        PROVE  TypeInv'
    <3>1. CallOK(CallOf("execute", "approve", proposal[p], p, NoLoop, TRUE, {}))
      <4>1. proposal[p] \in Tasks
        BY <2>a, <2>13 DEF BeginExecute, TypeOK
      <4>2. QED
        BY <4>1, CallType, IdleType DEF Ops, PointsOf
    <3>2. proposal[p] \in Tasks
      BY <2>a, <2>13 DEF BeginExecute, TypeOK
    <3>3. QED
      BY <3>1, <3>2, <2>a, <2>d, <2>13 DEF BeginExecute, Begins, Loads, TypeOK, CallOf
  <2>14. ASSUME NEW h \in Handlers, SaveApproved(h)
        PROVE  TypeInv'
    <3> DEFINE c == call[h]
    <3>1. c.op = "execute"
      BY <2>14, <2>a DEF SaveApproved, SaveTask, At, Ops, PointsOf
    <3>2. CallOK(CallOf(c.op, "snapshot", c.task, c.proposal, c.copy, c.ok, c.todo))
      BY <3>1, <2>a, MovesType DEF PointsOf
    <3>3. task' \in [Tasks -> TaskStatus]
      BY <2>14, <2>a DEF SaveApproved, SaveTask, TypeOK, TaskStatus
    <3>4. QED
      BY <3>1, <3>2, <3>3, <2>a, <2>c, <2>14
         DEF SaveApproved, SaveTask, MovesTo, TypeOK, disk, history, CallOf
  <2>15. ASSUME NEW h \in Handlers, SaveExecuting(h)
        PROVE  TypeInv'
    <3> DEFINE c == call[h]
    <3>1. c.op = "execute"
      BY <2>15, <2>a DEF SaveExecuting, SaveTask, At, Ops, PointsOf
    <3>2. CallOK(CallOf(c.op, "result", c.task, c.proposal, c.copy, c.ok, c.todo))
      BY <3>1, <2>a, MovesType DEF PointsOf
    <3>3. task' \in [Tasks -> TaskStatus]
      BY <2>15, <2>a DEF SaveExecuting, SaveTask, TypeOK, TaskStatus
    <3>4. QED
      BY <3>1, <3>2, <3>3, <2>a, <2>c, <2>15
         DEF SaveExecuting, SaveTask, MovesTo, TypeOK, disk, history, CallOf
  <2>16. ASSUME NEW h \in Handlers, SaveVerifying(h)
        PROVE  TypeInv'
    <3> DEFINE c == call[h]
    <3>1. c.op = "execute"
      BY <2>16, <2>a DEF SaveVerifying, SaveTask, At, Ops, PointsOf
    <3>2. CallOK(CallOf(c.op, "finish", c.task, c.proposal, c.copy, c.ok, c.todo))
      BY <3>1, <2>a, MovesType DEF PointsOf
    <3>3. task' \in [Tasks -> TaskStatus]
      BY <2>16, <2>a DEF SaveVerifying, SaveTask, TypeOK, TaskStatus
    <3>4. QED
      BY <3>1, <3>2, <3>3, <2>a, <2>c, <2>16
         DEF SaveVerifying, SaveTask, MovesTo, TypeOK, disk, history, CallOf
  <2>17. ASSUME NEW h \in Handlers, SaveCompleted(h)
        PROVE  TypeInv'
    <3> DEFINE c == call[h]
    <3>1. c.op = "execute"
      BY <2>17, <2>a DEF SaveCompleted, SaveTask, At, Ops, PointsOf
    <3>2. CallOK(CallOf(c.op, "hook", c.task, c.proposal, c.copy, c.ok, c.todo))
      BY <3>1, <2>a, MovesType DEF PointsOf
    <3>3. task' \in [Tasks -> TaskStatus]
      BY <2>17, <2>a DEF SaveCompleted, SaveTask, TypeOK, TaskStatus
    <3>4. QED
      BY <3>1, <3>2, <3>3, <2>a, <2>c, <2>17
         DEF SaveCompleted, SaveTask, MovesTo, TypeOK, disk, history, CallOf
  <2>18. ASSUME NEW h \in Handlers, Capture(h)
        PROVE  TypeInv'
    <3> DEFINE c == call[h]
               taken == [task |-> c.task, files |-> file]
    <3>1. c.op = "execute" /\ c.task \in Tasks
      BY <2>18, <2>a DEF Capture, At, Ops, PointsOf
    <3>2. CallOK(CallOf(c.op, "run", c.task, c.proposal, c.copy, c.ok, c.todo))
      BY <3>1, <2>a, MovesType DEF PointsOf
    <3>3. taken \in Snapshot
      BY <3>1, <2>a DEF Snapshot, TypeOK
    <3>4. snapshots' = snapshots \/ snapshots' = Append(snapshots, taken)
      BY <2>18 DEF Capture
    <3>5. snapshots' \in Seq(Snapshot) /\ Captured \subseteq Captured'
      <4> HIDE DEF taken
      <4>1. CASE snapshots' = snapshots
        BY <4>1, <2>a DEF TypeOK, Captured
      <4>2. CASE snapshots' = Append(snapshots, taken)
        <5>1. /\ snapshots \in Seq(Snapshot) /\ snapshots' \in Seq(Snapshot)
              /\ Len(snapshots') = Len(snapshots) + 1
              /\ \A i \in 1..Len(snapshots) : snapshots'[i] = snapshots[i]
          BY <4>2, <3>3, <2>a DEF TypeOK
        <5>2. QED
          BY <5>1 DEF Captured
      <4>3. QED
        BY <3>4, <4>1, <4>2
    <3>6. PICK d : CallOK(d) /\ d.op # "rollback" /\ Becomes(h, d)
      BY <3>1, <3>2, <2>18, IdleType DEF Capture, MovesTo, Ends, CallOf
    <3>7. /\ call' \in [Handlers -> Calls]
          /\ \A g \in Handlers :
               /\ CallOK(call'[g])
               /\ call'[g].op = "rollback" => call'[g].todo \subseteq Captured'
      BY <3>5, <3>6, CallsType
    <3>8. QED
      BY <3>5, <3>7, <2>a, <2>18 DEF Capture, TypeInv, TypeOK, CallOK, rows, history
  <2>19. ASSUME NEW h \in Handlers, SaveResult(h)
        PROVE  TypeInv'
    <3> DEFINE c == call[h]
    <3>1. c.op = "execute"
      BY <2>19, <2>a DEF SaveResult, At, Ops, PointsOf
    <3>2. CallOK(CallOf(c.op, "verifying", c.task, c.proposal, c.copy, c.ok, c.todo))
      BY <3>1, <2>a, MovesType DEF PointsOf
    <3>3. results' \in [Proposals -> Nat]
      <4>1. results \in [Proposals -> Nat] /\ results[c.proposal] + 1 \in Nat
        BY <3>1, <2>a DEF TypeOK
      <4>2. QED
        BY <4>1, <2>19 DEF SaveResult
    <3>4. QED
      BY <3>1, <3>2, <3>3, <2>a, <2>c, <2>19 DEF SaveResult, MovesTo, TypeOK, disk,
         history, CallOf
  <2>20. ASSUME NEW h \in Handlers, Hook(h)
        PROVE  TypeInv'
    <3> DEFINE c == call[h]
               next == CallOf("execute", "start", c.task, c.proposal,
                         LoopOf("executing", loop.proposal, c.proposal, loop.memory), TRUE, {})
    <3>1. c.op = "execute"
      BY <2>20, <2>a DEF Hook, At, Ops, PointsOf
    <3>2. LoopOf("executing", loop.proposal, c.proposal, loop.memory) \in Loop
      BY <2>a, LoopType, LoopStatusType DEF Loop
    <3>3. CallOK(next) /\ next.op # "rollback"
      BY <3>1, <3>2, <2>a, CallType DEF Ops, PointsOf, CallOf
    <3> HIDE DEF next
    <3>4. PICK d : CallOK(d) /\ d.op # "rollback" /\ Becomes(h, d)
      BY <3>3, <2>20, IdleType DEF Hook, Ends, next
    <3>5. QED
      BY <3>4, <2>a, <2>d, <2>20 DEF Hook, TypeOK, history
  <2>21. ASSUME NEW h \in Handlers, SaveStart(h)
        PROVE  TypeInv'
    <3> DEFINE c == call[h]
    <3>1. c.op = "execute"
      BY <2>21, <2>a DEF SaveStart, At, Ops, PointsOf
    <3>2. CallOK(CallOf("execute", "started", c.task, c.proposal,
                        WithStatus(c.copy, "verifying"), TRUE, {}))
      BY <3>1, <2>a, CallType, StatusType, LoopStatusType DEF Ops, PointsOf
    <3>3. QED
      BY <3>2, <2>a, <2>e, <2>21 DEF SaveStart, CallOf
  <2>22. ASSUME NEW h \in Handlers, SaveStarted(h)
        PROVE  TypeInv'
    BY <2>a, <2>e, <2>22, IdleType DEF SaveStarted, Ends
  <2>23. ASSUME NEW h \in Handlers, NEW verdict \in {"completed", "failed"}, BeginVerify(h, verdict)
        PROVE  TypeInv'
    <3>1. CallOK(CallOf("verify", "verdict", None, None, WithStatus(loop, verdict), TRUE, {}))
      BY <2>a, <2>23, CallType, LoopStatusType, StatusType, IdleType, TasksAssumption
         DEF BeginVerify, Ops, PointsOf, TypeOK, Idle, CallOf
    <3>2. QED
      BY <3>1, <2>a, <2>d, <2>23 DEF BeginVerify, Begins, Loads, TypeOK, CallOf
  <2>24. ASSUME NEW h \in Handlers, SaveVerdict(h)
        PROVE  TypeInv'
    <3> DEFINE c == call[h]
    <3>1. c.op = "verify"
      BY <2>24, <2>a DEF SaveVerdict, At, Ops, PointsOf
    <3>2. CallOK(CallOf(c.op, "learn", c.task, c.proposal, c.copy, c.ok, c.todo))
      BY <3>1, <2>a, MovesType DEF PointsOf
    <3>3. PICK d : CallOK(d) /\ d.op # "rollback" /\ Becomes(h, d)
      BY <3>1, <3>2, <2>24, IdleType DEF SaveVerdict, MovesTo, Ends, CallOf
    <3>4. QED
      BY <3>3, <2>a, <2>e, <2>24 DEF SaveVerdict
  <2>25. ASSUME NEW h \in Handlers, QueueLearning(h)
        PROVE  TypeInv'
    <3> DEFINE doc == call[h].copy
    <3>1. LoopOf(doc.status, doc.proposal, doc.result, TRUE) \in Loop
      BY <2>a, LoopType DEF Loop
    <3>2. CallOK(CallOf("verify", "remember", None, None,
                        LoopOf(doc.status, doc.proposal, doc.result, TRUE), TRUE, {}))
      BY <3>1, CallType DEF Ops, PointsOf
    <3>3. learning' \in Nat
      BY <2>a, <2>25 DEF QueueLearning, TypeOK
    <3>4. QED
      BY <3>2, <3>3, <2>a, <2>c, <2>25 DEF QueueLearning, TypeOK, disk, history, CallOf
  <2>26. ASSUME NEW h \in Handlers, SaveMemory(h)
        PROVE  TypeInv'
    BY <2>a, <2>e, <2>26, IdleType DEF SaveMemory, Ends
  <2>27. ASSUME NEW h \in Handlers, BeginRecover(h)
        PROVE  TypeInv'
    <3>1. CallOK(CallOf("recover", "recovered", None, None,
                      WithStatus(loop, "recovered"), TRUE, {}))
      BY <2>a, <2>27, CallType, LoopStatusType, StatusType, IdleType, TasksAssumption
         DEF BeginRecover, Ops, PointsOf, TypeOK, Idle, CallOf
    <3>2. QED
      BY <3>1, <2>a, <2>d, <2>27 DEF BeginRecover, Begins, Loads, TypeOK, CallOf
  <2>28. ASSUME NEW h \in Handlers, SaveRecovered(h)
        PROVE  TypeInv'
    BY <2>a, <2>e, <2>28, IdleType DEF SaveRecovered, Ends
  <2>29. ASSUME NEW h \in Handlers, BeginRollback(h)
        PROVE  TypeInv'
    <3>1. CallOK(CallOf("rollback", "restore", None, None, loop, TRUE, Captured))
      BY <2>a, <2>29, CallType, LoopStatusType, StatusType, IdleType, TasksAssumption
         DEF BeginRollback, Ops, PointsOf, TypeOK, Idle, CallOf
    <3>2. QED
      BY <3>1, <2>a, <2>d, <2>29 DEF BeginRollback, Begins, Loads, TypeOK, CallOf
  <2>30. ASSUME NEW h \in Handlers, Restore(h)
        PROVE  TypeInv'
    <3> DEFINE c == call[h]
               s == snapshots[LatestOf(c.todo)]
    <3>1. c.op = "rollback"
      BY <2>30, <2>a DEF Restore, At, Ops, PointsOf
    <3>2. c.todo \in SUBSET Captured /\ c.todo # {}
      BY <3>1, <2>a, <2>30 DEF Restore
    <3>3. LatestOf(c.todo) \in DOMAIN snapshots
      BY <3>2, <2>a, LatestIsLast DEF TypeOK
    <3>4. s \in Snapshot
      BY <3>3, <2>a DEF TypeOK
    <3>5. s.files \in FileStates
      BY <3>4 DEF Snapshot
    <3>6. CallOK(CallOf("rollback", "restore", None, None, c.copy, TRUE, c.todo \ {s.task}))
      BY <2>a, CallType DEF Ops, PointsOf
    <3>7. /\ file' = s.files
          /\ Becomes(h, CallOf("rollback", "restore", None, None, c.copy, TRUE, c.todo \ {s.task}))
          /\ UNCHANGED <<rows, snapshots, restarts, history>>
      BY <2>30 DEF Restore
    <3>8. c.todo \ {s.task} \subseteq Captured
      BY <3>2
    <3> HIDE DEF s
    <3>9. QED
      BY <3>5, <3>6, <3>7, <3>8, <2>a, <2>c DEF TypeOK, rows, history, CallOf
  <2>31. ASSUME NEW h \in Handlers, RestoreDone(h)
        PROVE  TypeInv'
    <3> DEFINE c == call[h]
    <3>1. c.op = "rollback"
      BY <2>31, <2>a DEF RestoreDone, At, Ops, PointsOf
    <3>2. CallOK(CallOf(c.op, "mark", c.task, c.proposal, c.copy, c.ok, c.todo))
      BY <3>1, <2>a, MovesType DEF PointsOf
    <3>3. PICK d : CallOK(d) /\ Becomes(h, d) /\ (d.op = "rollback" => d.todo \subseteq Captured)
      BY <3>1, <3>2, <2>a, <2>31, IdleType DEF RestoreDone, MovesTo, Ends, CallOf
    <3>4. QED
      BY <3>3, <2>a, <2>d, <2>31 DEF RestoreDone, TypeOK, history
  <2>32. ASSUME NEW h \in Handlers, MarkRolledBack(h)
        PROVE  TypeInv'
    <3> DEFINE c == call[h]
               next == CallOf("rollback", "rolled_back", None, None,
                              WithStatus(c.copy, "rolled_back"), TRUE, {})
    <3>1. CallOK(next) /\ next.todo = {}
      BY <2>a, CallType, StatusType, LoopStatusType DEF Ops, PointsOf, CallOf
    <3> HIDE DEF next
    <3>2. PICK d : CallOK(d) /\ Becomes(h, d) /\ (d.op = "rollback" => d.todo \subseteq Captured)
      BY <3>1, <2>32, IdleType DEF MarkRolledBack, Ends, next
    <3>3. QED
      BY <3>2, <2>a, <2>d, <2>32 DEF MarkRolledBack, TypeOK, history
  <2>33. ASSUME NEW h \in Handlers, SaveRolledBack(h)
        PROVE  TypeInv'
    BY <2>a, <2>e, <2>33, IdleType DEF SaveRolledBack, Ends
  <2>34. ASSUME NEW f \in Files, NEW content \in Contents, EditFile(f, content)
        PROVE  TypeInv'
    BY <2>a, <2>b, <2>34 DEF EditFile, TypeInv, TypeOK, rows, FileStates
  <2>35. ASSUME Crash
        PROVE  TypeInv'
    <3>1. loop' \in Loop
      BY <2>a, <2>35, StatusType, LoopStatusType DEF Crash
    <3>2. call' = [g \in Handlers |-> Idle] /\ Idle \in Calls
      BY <2>35, IdleType DEF Crash, CallOK
    <3>3. restarts' \in 0..MaxRestarts
      BY <2>35, <2>a, BoundAssumption DEF Crash, TypeOK
    <3>4. QED
      BY <3>1, <3>2, <3>3, <2>a, <2>b, <2>35, IdleType
         DEF Crash, TypeInv, TypeOK, CallOK, disk, history
  <2>36. CASE UNCHANGED vars
    BY <2>a, <2>b, <2>36 DEF TypeInv, TypeOK, vars, rows, disk, history
  <2>37. QED
    BY <2>1, <2>2, <2>3, <2>4, <2>5, <2>6, <2>7, <2>8, <2>9, <2>10, <2>11, <2>12,
       <2>13, <2>14, <2>15, <2>16, <2>17, <2>18, <2>19, <2>20, <2>21, <2>22, <2>23,
       <2>24, <2>25, <2>26, <2>27, <2>28, <2>29, <2>30, <2>31, <2>32, <2>33, <2>34,
       <2>35, <2>36
       DEF Next, Begin, Continue
<1>3. QED
  BY <1>1, <1>2, PTL DEF Spec

(* The module's type invariant, for every value of the constants.          *)
THEOREM TypeCorrect == Spec => []TypeOK
<1>1. TypeInv => TypeOK
  BY DEF TypeInv
<1>2. QED
  BY <1>1, TypesHold, PTL

-----------------------------------------------------------------------------
(* What a loop says it executed.  Done: the proposals whose result is saved *)
(* and whose task was captured.  A call of execute has captured its task   *)
(* once it is past the snapshot, and has saved its result once it is past  *)
(* that; it keeps the proposal's task.                                     *)

Ran == {"executing", "verifying", "completed"}
PastSnapshot == {"run", "result", "verifying", "finish", "hook", "start", "started"}
PastResult == {"verifying", "finish", "hook", "start", "started"}

Done == {p \in Proposals : results[p] > 0 /\ proposal[p] \in Captured}

Rests(doc, D) ==
  /\ doc.status \in {"executing", "verifying", "completed", "failed"} => doc.result # None
  /\ doc.result # None => doc.result \in D

CallRests(c, C, D, taskOf) ==
  /\ Rests(c.copy, D)
  /\ c.op = "execute" =>
       /\ taskOf[c.proposal] = c.task
       /\ c.at \in PastSnapshot => c.task \in C
       /\ c.at \in PastResult => c.proposal \in D
       /\ c.at = "start" => c.copy.result # None

RestInv ==
  /\ Rests(loop, Done)
  /\ \A h \in Handlers : CallRests(call[h], Captured, Done, proposal)
  /\ \A p \in Proposals : results[p] > 0 => proposal[p] \in Captured
  /\ \A t \in Tasks : task[t] \in Ran => t \in Captured

(* A loop put together from its parts keeps them.                          *)
LEMMA LoopParts ==
  ASSUME NEW status, NEW p, NEW q, NEW memory
  PROVE  /\ LoopOf(status, p, q, memory).status = status
         /\ LoopOf(status, p, q, memory).result = q
BY DEF LoopOf

(* A call keeps its parts, too.                                            *)
LEMMA CallParts ==
  ASSUME NEW op, NEW at, NEW t, NEW p, NEW copy, NEW ok, NEW todo
  PROVE  /\ CallOf(op, at, t, p, copy, ok, todo).op = op
         /\ CallOf(op, at, t, p, copy, ok, todo).at = at
         /\ CallOf(op, at, t, p, copy, ok, todo).task = t
         /\ CallOf(op, at, t, p, copy, ok, todo).proposal = p
         /\ CallOf(op, at, t, p, copy, ok, todo).copy = copy
BY DEF CallOf

(* A call of execute that has come this far, or a call of another kind.    *)
LEMMA CallRestsIf ==
  ASSUME NEW C, NEW D, NEW taskOf, NEW op, NEW at, NEW t, NEW p, NEW copy, NEW ok, NEW todo,
         Rests(copy, D),
         op = "execute" =>
           /\ taskOf[p] = t
           /\ at \in PastSnapshot => t \in C
           /\ at \in PastResult => p \in D
           /\ at = "start" => copy.result # None
  PROVE  CallRests(CallOf(op, at, t, p, copy, ok, todo), C, D, taskOf)
BY CallParts DEF CallRests

(* A call that moves on, but not past a save it has not made.              *)
LEMMA MovesRests ==
  ASSUME NEW C, NEW D, NEW taskOf, NEW c, NEW at, CallRests(c, C, D, taskOf),
         at \in PastSnapshot => c.task \in C,
         at \in PastResult => c.proposal \in D, at # "start"
  PROVE  CallRests(CallOf(c.op, at, c.task, c.proposal, c.copy, c.ok, c.todo), C, D, taskOf)
<1>1. Rests(c.copy, D) /\ (c.op = "execute" => taskOf[c.proposal] = c.task)
  BY DEF CallRests
<1>2. QED
  BY <1>1, CallRestsIf

(* An idle thread's call rests on anything.                                *)
LEMMA IdleRests ==
  ASSUME NEW C, NEW D, NEW taskOf
  PROVE  Rests(NoLoop, D) /\ CallRests(Idle, C, D, taskOf)
<1>1. Rests(NoLoop, D)
  BY DEF Rests, NoLoop, LoopOf
<1>2. QED
  BY <1>1, IdleType DEF CallRests

(* What a copy rests on does not go away.                                  *)
LEMMA RestsGrows ==
  ASSUME NEW C, NEW C2, NEW D, NEW D2, NEW taskOf, NEW taskOf2, NEW doc, NEW c,
         C \subseteq C2, D \subseteq D2,
         c.op = "execute" => taskOf2[c.proposal] = taskOf[c.proposal]
  PROVE  /\ Rests(doc, D) => Rests(doc, D2)
         /\ CallRests(c, C, D, taskOf) => CallRests(c, C2, D2, taskOf2)
BY DEF Rests, CallRests

(* A copy with another status rests on the same result.                    *)
LEMMA StatusRests ==
  ASSUME NEW D, NEW doc, NEW st, Rests(doc, D),
         st \in {"executing", "verifying", "completed", "failed"} => doc.result # None
  PROVE  Rests(WithStatus(doc, st), D)
<1>1. WithStatus(doc, st).status = st /\ WithStatus(doc, st).result = doc.result
  BY LoopParts DEF WithStatus
<1>2. QED
  BY <1>1 DEF Rests

(* However the threads' copies are saved over one another, RestInv holds.  *)
THEOREM RestsHold == Spec => []RestInv
<1>1. Init => RestInv
  BY IdleRests DEF Init, RestInv, Ran
<1>2. TypeInv /\ RestInv /\ [Next]_vars => RestInv'
  <2> SUFFICES ASSUME TypeInv, RestInv, [Next]_vars
               PROVE  RestInv'
    OBVIOUS
  <2>a. /\ Rests(loop, Done)
        /\ \A h \in Handlers :
             /\ CallOK(call[h]) /\ call[h].at \in PointsOf[call[h].op]
             /\ call[h].op \in Ops
             /\ CallRests(call[h], Captured, Done, proposal)
             /\ Rests(call[h].copy, Done)
             /\ call[h].op = "execute" =>
                  /\ call[h].task \in Tasks /\ call[h].proposal \in Proposals
                  /\ proposal[call[h].proposal] = call[h].task
                  /\ call[h].at \in PastSnapshot => call[h].task \in Captured
                  /\ call[h].at \in PastResult => call[h].proposal \in Done
                  /\ call[h].at = "start" => call[h].copy.result # None
    BY DEF TypeInv, RestInv, CallRests, CallOK, Calls
  <2>b. UNCHANGED <<snapshots, results, proposal>> => Captured' = Captured /\ Done' = Done
    BY DEF Captured, Done
  (* A thread's step that leaves what copies rest on alone.                *)
  <2>c. ASSUME NEW h \in Handlers, NEW c, Becomes(h, c),
               CallRests(c, Captured, Done, proposal),
               UNCHANGED <<snapshots, results, proposal>>,
               Rests(loop', Done),
               \A t \in Tasks : task'[t] \in Ran => t \in Captured
        PROVE  RestInv'
    <3>1. Captured' = Captured /\ Done' = Done /\ UNCHANGED <<results, proposal>>
      BY <2>b, <2>c
    <3>2. ASSUME NEW g \in Handlers
          PROVE  CallRests(call'[g], Captured', Done', proposal')
      <4>1. call'[g] = IF g = h THEN c ELSE call[g]
        BY <2>c DEF TypeInv, TypeOK, Becomes
      <4>2. QED
        BY <4>1, <3>1, <2>a, <2>c
    <3>3. QED
      BY <3>1, <3>2, <2>c DEF RestInv
  (* In particular one that only loads or moves on.                        *)
  <2>d. ASSUME NEW h \in Handlers, NEW c, Becomes(h, c),
               CallRests(c, Captured, Done, proposal), UNCHANGED <<rows, snapshots>>
        PROVE  RestInv'
    BY <2>a, <2>c, <2>d DEF RestInv, rows
  (* Or one that saves its copy of the loop.                               *)
  <2>e. ASSUME NEW h \in Handlers, NEW c, Becomes(h, c),
               CallRests(c, Captured, Done, proposal),
               NEW doc, Rests(doc, Done), SaveLoop(h, doc)
        PROVE  RestInv'
    BY <2>a, <2>c, <2>e DEF RestInv, SaveLoop, disk
  (* Or one after which the rest of the copies rest on more.               *)
  <2>f. ASSUME NEW h \in Handlers, NEW c, Becomes(h, c),
               CallRests(c, Captured', Done', proposal'),
               Captured \subseteq Captured', Done \subseteq Done',
               \A p \in Proposals : proposal[p] \in Tasks => proposal'[p] = proposal[p],
               UNCHANGED <<loop, task>>,
               \A p \in Proposals : results'[p] > 0 => proposal'[p] \in Captured'
        PROVE  RestInv'
    <3>1. ASSUME NEW g \in Handlers
          PROVE  CallRests(call'[g], Captured', Done', proposal')
      <4>1. call'[g] = IF g = h THEN c ELSE call[g]
        BY <2>f DEF TypeInv, TypeOK, Becomes
      <4>2. CallRests(call[g], Captured', Done', proposal')
        BY <2>a, <2>f, RestsGrows
      <4>3. QED
        BY <4>1, <4>2, <2>f
    <3>2. Rests(loop', Done')
      BY <2>a, <2>f DEF Rests
    <3>3. QED
      BY <3>1, <3>2, <2>f DEF RestInv
  <2>1. ASSUME NEW h \in Handlers, BeginCreate(h)
        PROVE  RestInv'
    <3>1. CallRests(CallOf("create", "plan", None, None, NoLoop, TRUE, Tasks), Captured, Done, proposal)
      BY IdleRests, CallRestsIf
    <3>2. QED
      BY <3>1, <2>d, <2>1 DEF BeginCreate, Begins, disk
  <2>2. ASSUME NEW h \in Handlers, BeginReplan(h)
        PROVE  RestInv'
    <3>1. CallRests(CallOf("replan", "plan", None, None, NoLoop, TRUE, Tasks), Captured, Done, proposal)
      BY IdleRests, CallRestsIf
    <3>2. QED
      BY <3>1, <2>d, <2>2 DEF BeginReplan, Begins, disk
  <2>3. ASSUME NEW h \in Handlers, NEW t \in Tasks, PlanTask(h, t)
        PROVE  RestInv'
    <3> DEFINE next == CallOf(call[h].op, "plan", None, None, NoLoop, TRUE, call[h].todo \ {t})
    <3>1. call[h].op \in {"create", "replan"}
      BY <2>3, <2>a DEF PlanTask, At, Ops, PointsOf
    <3>2. CallRests(next, Captured, Done, proposal)
      BY <3>1, IdleRests, CallRestsIf
    <3>3. \A u \in Tasks : task'[u] \in Ran => u \in Captured
      BY <2>3 DEF PlanTask, Ran, RestInv, TypeInv, TypeOK
    <3> HIDE DEF next
    <3>4. Becomes(h, next) /\ UNCHANGED <<loop, snapshots, results, proposal>>
      BY <2>3 DEF PlanTask, disk, next
    <3>5. QED
      BY <3>2, <3>3, <3>4, <2>a, <2>c
  <2>4. ASSUME NEW h \in Handlers, SavePlanned(h)
        PROVE  RestInv'
    <3>1. Rests(LoopOf("planning", None, None, FALSE), Done)
      BY DEF Rests, LoopOf
    <3>2. QED
      BY <3>1, <2>e, <2>4, IdleRests DEF SavePlanned, Ends
  <2>5. ASSUME NEW h \in Handlers, Replanned(h)
        PROVE  RestInv'
    BY <2>d, <2>5, IdleRests DEF Replanned, Ends, disk
  <2>6. ASSUME NEW h \in Handlers, NEW t \in Tasks, BeginPropose(h, t)
        PROVE  RestInv'
    <3>1. CallRests(CallOf("propose", "propose", t, None, NoLoop,
                   TaskMoves(task[t], "approval_required"), {}), Captured, Done, proposal)
      BY IdleRests, CallRestsIf
    <3>2. QED
      BY <3>1, <2>d, <2>6 DEF BeginPropose, Begins, disk
  <2>7. ASSUME NEW h \in Handlers, BeginPrepare(h)
        PROVE  RestInv'
    <3>1. CallRests(CallOf("prepare", "draft", First, None, loop, TRUE, {}), Captured, Done, proposal)
      BY <2>a, CallRestsIf
    <3>2. QED
      BY <3>1, <2>d, <2>7 DEF BeginPrepare, Begins, disk
  <2>8. ASSUME NEW h \in Handlers, Draft(h)
        PROVE  RestInv'
    <3>1. CallRests(CallOf("prepare", "propose", First, None, call[h].copy,
                   TaskMoves(task[First], "approval_required"), {}), Captured, Done, proposal)
      BY <2>a, CallRestsIf
    <3>2. QED
      BY <3>1, <2>d, <2>8 DEF Draft, disk
  <2>9. ASSUME NEW h \in Handlers, NEW p \in Proposals, SaveProposal(h, p)
        PROVE  RestInv'
    <3> DEFINE c == call[h]
               next == CallOf(c.op, "require", c.task, p, c.copy, TRUE, {})
    <3>1. c.op \in {"propose", "prepare"}
      BY <2>9, <2>a DEF SaveProposal, At, Ops, PointsOf
    <3>2. \A q \in Proposals : proposal[q] \in Tasks => proposal'[q] = proposal[q]
      BY <2>9, NoneAssumption DEF SaveProposal, TypeInv, TypeOK
    <3>3. UNCHANGED <<loop, task, results, snapshots>>
      BY <2>9 DEF SaveProposal, disk
    <3>4. Captured' = Captured /\ Captured \subseteq Tasks
      <4>1. \A i \in DOMAIN snapshots : snapshots[i] \in Snapshot
        BY DEF TypeInv, TypeOK
      <4>2. QED
        BY <4>1, <3>3 DEF Captured, Snapshot
    <3>5. /\ Done \subseteq Done'
          /\ \A q \in Proposals : results'[q] > 0 => proposal'[q] \in Captured'
      BY <3>2, <3>3, <3>4 DEF Done, RestInv
    <3>6. Rests(c.copy, Done')
      BY <3>5, <2>a DEF Rests
    <3>7. CallRests(next, Captured', Done', proposal')
      BY <3>1, <3>6, CallRestsIf
    <3> HIDE DEF next
    <3>8. PICK d : CallRests(d, Captured', Done', proposal') /\ Becomes(h, d)
      BY <3>7, <2>9, IdleRests DEF SaveProposal, Ends, next
    <3>9. QED
      BY <3>2, <3>3, <3>4, <3>5, <3>8, <2>f
  <2>10. ASSUME NEW h \in Handlers, RequireApproval(h)
        PROVE  RestInv'
    <3> DEFINE c == call[h]
               doc == LoopOf("proposal_ready", c.proposal, c.copy.result, c.copy.memory)
               next == CallOf("prepare", "ready", c.task, c.proposal, doc, TRUE, {})
    <3>1. Rests(doc, Done)
      BY <2>a, LoopParts DEF Rests
    <3>2. CallRests(next, Captured, Done, proposal)
      BY <3>1, CallRestsIf
    <3> HIDE DEF next
    <3>3. PICK d : CallRests(d, Captured, Done, proposal) /\ Becomes(h, d)
      BY <3>2, <2>10, IdleRests DEF RequireApproval, Ends, next
    <3>4. \A t \in Tasks : task'[t] \in Ran => t \in Captured
      BY <2>10 DEF RequireApproval, Ran, RestInv, TypeInv, TypeOK
    <3>5. QED
      BY <3>3, <3>4, <2>a, <2>c, <2>10 DEF RequireApproval, disk
  <2>11. ASSUME NEW h \in Handlers, SaveReady(h)
        PROVE  RestInv'
    <3> DEFINE c == call[h]
    <3>1. Rests(WithStatus(c.copy, "waiting_approval"), Done)
      BY <2>a, StatusRests
    <3>2. CallRests(CallOf("prepare", "wait", c.task, c.proposal,
                           WithStatus(c.copy, "waiting_approval"), TRUE, {}),
                    Captured, Done, proposal)
      BY <3>1, CallRestsIf
    <3>3. QED
      BY <3>2, <2>a, <2>e, <2>11 DEF SaveReady
  <2>12. ASSUME NEW h \in Handlers, SaveWaiting(h)
        PROVE  RestInv'
    BY <2>a, <2>e, <2>12, IdleRests DEF SaveWaiting, Ends
  <2>13. ASSUME NEW h \in Handlers, NEW p \in Proposals, BeginExecute(h, p)
        PROVE  RestInv'
    <3>1. CallRests(CallOf("execute", "approve", proposal[p], p, NoLoop, TRUE, {}),
                    Captured, Done, proposal)
      BY IdleRests, CallRestsIf DEF PastSnapshot, PastResult
    <3>2. QED
      BY <3>1, <2>d, <2>13 DEF BeginExecute, Begins, disk
  <2>14. ASSUME NEW h \in Handlers, SaveApproved(h)
        PROVE  RestInv'
    <3> DEFINE c == call[h]
               next == CallOf(c.op, "snapshot", c.task, c.proposal, c.copy, c.ok, c.todo)
    <3>1. c.op = "execute" /\ c.at = "approve"
      BY <2>14, <2>a DEF SaveApproved, SaveTask, At, Ops, PointsOf
    <3>2. CallRests(next, Captured, Done, proposal)
      BY <3>1, <2>a, MovesRests DEF PastSnapshot, PastResult
    <3>3. \A t \in Tasks : task'[t] \in Ran => t \in Captured
      BY <3>1, <2>14, <2>a DEF SaveApproved, SaveTask, Ran, PastSnapshot, RestInv,
         TypeInv, TypeOK
    <3> HIDE DEF next
    <3>4. Becomes(h, next) /\ UNCHANGED <<loop, snapshots, results, proposal>>
      BY <2>14 DEF SaveApproved, SaveTask, MovesTo, disk, next
    <3>5. QED
      BY <3>2, <3>3, <3>4, <2>a, <2>c
  <2>15. ASSUME NEW h \in Handlers, SaveExecuting(h)
        PROVE  RestInv'
    <3> DEFINE c == call[h]
               next == CallOf(c.op, "result", c.task, c.proposal, c.copy, c.ok, c.todo)
    <3>1. c.op = "execute" /\ c.at = "run"
      BY <2>15, <2>a DEF SaveExecuting, SaveTask, At, Ops, PointsOf
    <3>2. CallRests(next, Captured, Done, proposal)
      BY <3>1, <2>a, MovesRests DEF PastSnapshot, PastResult
    <3>3. \A t \in Tasks : task'[t] \in Ran => t \in Captured
      BY <3>1, <2>15, <2>a DEF SaveExecuting, SaveTask, Ran, PastSnapshot, RestInv,
         TypeInv, TypeOK
    <3> HIDE DEF next
    <3>4. Becomes(h, next) /\ UNCHANGED <<loop, snapshots, results, proposal>>
      BY <2>15 DEF SaveExecuting, SaveTask, MovesTo, disk, next
    <3>5. QED
      BY <3>2, <3>3, <3>4, <2>a, <2>c
  <2>16. ASSUME NEW h \in Handlers, SaveVerifying(h)
        PROVE  RestInv'
    <3> DEFINE c == call[h]
               next == CallOf(c.op, "finish", c.task, c.proposal, c.copy, c.ok, c.todo)
    <3>1. c.op = "execute" /\ c.at = "verifying"
      BY <2>16, <2>a DEF SaveVerifying, SaveTask, At, Ops, PointsOf
    <3>2. CallRests(next, Captured, Done, proposal)
      BY <3>1, <2>a, MovesRests DEF PastSnapshot, PastResult
    <3>3. \A t \in Tasks : task'[t] \in Ran => t \in Captured
      BY <3>1, <2>16, <2>a DEF SaveVerifying, SaveTask, Ran, PastSnapshot, RestInv,
         TypeInv, TypeOK
    <3> HIDE DEF next
    <3>4. Becomes(h, next) /\ UNCHANGED <<loop, snapshots, results, proposal>>
      BY <2>16 DEF SaveVerifying, SaveTask, MovesTo, disk, next
    <3>5. QED
      BY <3>2, <3>3, <3>4, <2>a, <2>c
  <2>17. ASSUME NEW h \in Handlers, SaveCompleted(h)
        PROVE  RestInv'
    <3> DEFINE c == call[h]
               next == CallOf(c.op, "hook", c.task, c.proposal, c.copy, c.ok, c.todo)
    <3>1. c.op = "execute" /\ c.at = "finish"
      BY <2>17, <2>a DEF SaveCompleted, SaveTask, At, Ops, PointsOf
    <3>2. CallRests(next, Captured, Done, proposal)
      BY <3>1, <2>a, MovesRests DEF PastSnapshot, PastResult
    <3>3. \A t \in Tasks : task'[t] \in Ran => t \in Captured
      BY <3>1, <2>17, <2>a DEF SaveCompleted, SaveTask, Ran, PastSnapshot, RestInv,
         TypeInv, TypeOK
    <3> HIDE DEF next
    <3>4. Becomes(h, next) /\ UNCHANGED <<loop, snapshots, results, proposal>>
      BY <2>17 DEF SaveCompleted, SaveTask, MovesTo, disk, next
    <3>5. QED
      BY <3>2, <3>3, <3>4, <2>a, <2>c
  <2>18. ASSUME NEW h \in Handlers, Capture(h)
        PROVE  RestInv'
    <3> DEFINE c == call[h]
               taken == [task |-> c.task, files |-> file]
               next == CallOf(c.op, "run", c.task, c.proposal, c.copy, c.ok, c.todo)
    <3>1. c.op = "execute" /\ c.task \in Tasks
      BY <2>18, <2>a DEF Capture, At, Ops, PointsOf
    <3>2. \/ /\ snapshots' = snapshots
             /\ c.task \in Captured \/ Becomes(h, Idle)
          \/ snapshots' = Append(snapshots, taken)
      BY <2>18 DEF Capture, Ends
    <3>3. UNCHANGED <<loop, task, proposal, results>>
      BY <2>18 DEF Capture, rows
    <3>4. Captured \subseteq Captured' /\ (c.task \in Captured' \/ Becomes(h, Idle))
      <4> DEFINE t == c.task
      <4>1. CASE snapshots' = snapshots
        BY <4>1, <3>2 DEF Captured
      <4>2. CASE snapshots' = Append(snapshots, taken)
        <5>0. taken \in Snapshot /\ taken.task = t
          BY <3>1 DEF Snapshot, TypeInv, TypeOK
        <5> HIDE DEF taken, t
        <5>1. /\ snapshots \in Seq(Snapshot) /\ snapshots' \in Seq(Snapshot)
              /\ Len(snapshots') = Len(snapshots) + 1
              /\ \A i \in 1..Len(snapshots) : snapshots'[i] = snapshots[i]
              /\ snapshots'[Len(snapshots) + 1] = taken
          BY <4>2, <5>0 DEF TypeInv, TypeOK
        <5>2. Captured \subseteq Captured' /\ t \in Captured'
          BY <5>0, <5>1 DEF Captured
        <5>3. QED
          BY <5>2 DEF t
      <4>3. QED
        BY <3>2, <4>1, <4>2
    <3>5. /\ Done \subseteq Done'
          /\ \A p \in Proposals : results'[p] > 0 => proposal'[p] \in Captured'
      BY <3>3, <3>4 DEF Done, RestInv
    <3>6. ASSUME c.task \in Captured'
          PROVE  CallRests(next, Captured', Done', proposal')
      <4>1. CallRests(c, Captured', Done', proposal')
        BY <2>a, <3>3, <3>4, <3>5, RestsGrows
      <4>2. QED
        BY <3>6, <4>1, MovesRests DEF PastResult
    <3> HIDE DEF next
    <3>7. PICK d : CallRests(d, Captured', Done', proposal') /\ Becomes(h, d)
      <4>1. Becomes(h, next) \/ Becomes(h, Idle)
        BY <2>18 DEF Capture, MovesTo, Ends, next
      <4>2. QED
        BY <4>1, <3>4, <3>6, IdleRests
    <3>8. QED
      BY <3>3, <3>4, <3>5, <3>7, <2>f
  <2>19. ASSUME NEW h \in Handlers, SaveResult(h)
        PROVE  RestInv'
    <3> DEFINE c == call[h]
               next == CallOf(c.op, "verifying", c.task, c.proposal, c.copy, c.ok, c.todo)
    <3>1. c.op = "execute" /\ c.task \in Captured /\ c.proposal \in Proposals
      BY <2>19, <2>a DEF SaveResult, At, Ops, PointsOf, PastSnapshot
    <3>2. UNCHANGED <<loop, task, proposal, snapshots>> /\ Captured' = Captured
      BY <2>19 DEF SaveResult, disk, Captured
    <3>3. /\ results \in [Proposals -> Nat]
          /\ \A p \in Proposals :
               results'[p] = IF p = c.proposal THEN results[p] + 1 ELSE results[p]
      BY <2>19 DEF SaveResult, TypeInv, TypeOK
    <3>4. proposal[c.proposal] = c.task
      BY <3>1, <2>a
    <3>5. \A p \in Proposals : results'[p] > 0 => proposal'[p] \in Captured'
      BY <3>1, <3>2, <3>3, <3>4 DEF RestInv
    <3>6. results[c.proposal] \in Nat /\ results'[c.proposal] > 0
      BY <3>1, <3>3
    <3>7. Done \subseteq Done' /\ c.proposal \in Done'
      <4>1. \A p \in Proposals : results[p] > 0 => results'[p] > 0
        BY <3>3
      <4>2. QED
        BY <4>1, <3>1, <3>2, <3>4, <3>6 DEF Done
    <3>8. CallRests(next, Captured', Done', proposal')
      <4>1. CallRests(c, Captured', Done', proposal')
        BY <2>a, <3>2, <3>7, RestsGrows
      <4>2. QED
        BY <3>1, <3>2, <3>7, <4>1, MovesRests
    <3> HIDE DEF next
    <3>9. Becomes(h, next)
      BY <2>19 DEF SaveResult, MovesTo, next
    <3>10. QED
      BY <3>2, <3>5, <3>7, <3>8, <3>9, <2>f
  <2>20. ASSUME NEW h \in Handlers, Hook(h)
        PROVE  RestInv'
    <3> DEFINE c == call[h]
               doc == LoopOf("executing", loop.proposal, c.proposal, loop.memory)
               next == CallOf("execute", "start", c.task, c.proposal, doc, TRUE, {})
    <3>1. c.op = "execute" /\ c.task \in Captured /\ c.proposal \in Done
      BY <2>20, <2>a DEF Hook, At, Ops, PointsOf, PastSnapshot, PastResult
    <3>2. c.proposal # None
      BY <3>1, NoneAssumption DEF Done
    <3>3. Rests(doc, Done)
      BY <3>1, <3>2, LoopParts DEF Rests
    <3>4. doc.result # None
      BY <3>2 DEF LoopOf
    <3>5. CallRests(next, Captured, Done, proposal)
      <4> HIDE DEF doc
      <4>1. QED
        BY <3>1, <3>3, <3>4, <2>a, CallRestsIf
    <3> HIDE DEF next
    <3>6. PICK d : CallRests(d, Captured, Done, proposal) /\ Becomes(h, d)
      BY <3>5, <2>20, IdleRests DEF Hook, Ends, next
    <3>7. QED
      BY <3>6, <2>d, <2>20 DEF Hook, disk
  <2>21. ASSUME NEW h \in Handlers, SaveStart(h)
        PROVE  RestInv'
    <3> DEFINE c == call[h]
               next == CallOf("execute", "started", c.task, c.proposal,
                              WithStatus(c.copy, "verifying"), TRUE, {})
    <3>1. /\ c.op = "execute" /\ c.task \in Captured /\ c.proposal \in Done
          /\ c.copy.result # None
      BY <2>21, <2>a DEF SaveStart, At, Ops, PointsOf, PastSnapshot, PastResult
    <3>2. Rests(WithStatus(c.copy, "verifying"), Done)
      BY <3>1, <2>a, StatusRests
    <3>3. CallRests(next, Captured, Done, proposal)
      BY <3>1, <3>2, <2>a, CallRestsIf
    <3> HIDE DEF next
    <3>4. Becomes(h, next) /\ SaveLoop(h, c.copy)
      BY <2>21 DEF SaveStart, next
    <3>5. QED
      BY <3>3, <3>4, <2>a, <2>e
  <2>22. ASSUME NEW h \in Handlers, SaveStarted(h)
        PROVE  RestInv'
    BY <2>a, <2>e, <2>22, IdleRests DEF SaveStarted, Ends
  <2>23. ASSUME NEW h \in Handlers, NEW verdict \in {"completed", "failed"}, BeginVerify(h, verdict)
        PROVE  RestInv'
    <3>1. Rests(WithStatus(loop, verdict), Done)
      BY <2>23, <2>a, StatusRests DEF BeginVerify
    <3>2. CallRests(CallOf("verify", "verdict", None, None, WithStatus(loop, verdict), TRUE, {}),
                    Captured, Done, proposal)
      BY <3>1, CallRestsIf
    <3>3. QED
      BY <3>2, <2>d, <2>23 DEF BeginVerify, Begins, disk
  <2>24. ASSUME NEW h \in Handlers, SaveVerdict(h)
        PROVE  RestInv'
    <3> DEFINE c == call[h]
               next == CallOf(c.op, "learn", c.task, c.proposal, c.copy, c.ok, c.todo)
    <3>1. CallRests(next, Captured, Done, proposal)
      BY <2>a, MovesRests DEF PastSnapshot, PastResult
    <3> HIDE DEF next
    <3>2. PICK d : CallRests(d, Captured, Done, proposal) /\ Becomes(h, d)
      BY <3>1, <2>24, IdleRests DEF SaveVerdict, MovesTo, Ends, next
    <3>3. QED
      BY <3>2, <2>a, <2>e, <2>24 DEF SaveVerdict
  <2>25. ASSUME NEW h \in Handlers, QueueLearning(h)
        PROVE  RestInv'
    <3> DEFINE doc == call[h].copy
               learned == LoopOf(doc.status, doc.proposal, doc.result, TRUE)
    <3>1. Rests(learned, Done)
      BY <2>a DEF Rests, LoopOf
    <3>2. CallRests(CallOf("verify", "remember", None, None, learned, TRUE, {}),
                    Captured, Done, proposal)
      BY <3>1, CallRestsIf
    <3>3. QED
      BY <3>2, <2>a, <2>c, <2>25 DEF QueueLearning, disk, RestInv
  <2>26. ASSUME NEW h \in Handlers, SaveMemory(h)
        PROVE  RestInv'
    BY <2>a, <2>e, <2>26, IdleRests DEF SaveMemory, Ends
  <2>27. ASSUME NEW h \in Handlers, BeginRecover(h)
        PROVE  RestInv'
    <3>1. Rests(WithStatus(loop, "recovered"), Done)
      BY <2>a, StatusRests
    <3>2. CallRests(CallOf("recover", "recovered", None, None,
                           WithStatus(loop, "recovered"), TRUE, {}), Captured, Done, proposal)
      BY <3>1, CallRestsIf
    <3>3. QED
      BY <3>2, <2>d, <2>27 DEF BeginRecover, Begins, disk
  <2>28. ASSUME NEW h \in Handlers, SaveRecovered(h)
        PROVE  RestInv'
    BY <2>a, <2>e, <2>28, IdleRests DEF SaveRecovered, Ends
  <2>29. ASSUME NEW h \in Handlers, BeginRollback(h)
        PROVE  RestInv'
    <3>1. CallRests(CallOf("rollback", "restore", None, None, loop, TRUE, Captured), Captured, Done, proposal)
      BY <2>a, CallRestsIf
    <3>2. QED
      BY <3>1, <2>d, <2>29 DEF BeginRollback, Begins, disk
  <2>30. ASSUME NEW h \in Handlers, Restore(h)
        PROVE  RestInv'
    <3> DEFINE c == call[h]
               left == c.todo \ {snapshots[LatestOf(c.todo)].task}
    <3>1. CallRests(CallOf("rollback", "restore", None, None, c.copy, TRUE, left),
                    Captured, Done, proposal)
      BY <2>a, CallRestsIf
    <3>2. QED
      BY <3>1, <2>d, <2>30 DEF Restore
  <2>31. ASSUME NEW h \in Handlers, RestoreDone(h)
        PROVE  RestInv'
    <3> DEFINE c == call[h]
               next == CallOf(c.op, "mark", c.task, c.proposal, c.copy, c.ok, c.todo)
    <3>1. CallRests(next, Captured, Done, proposal)
      BY <2>a, MovesRests DEF PastSnapshot, PastResult
    <3> HIDE DEF next
    <3>2. PICK d : CallRests(d, Captured, Done, proposal) /\ Becomes(h, d)
      BY <3>1, <2>31, IdleRests DEF RestoreDone, MovesTo, Ends, next
    <3>3. QED
      BY <3>2, <2>d, <2>31 DEF RestoreDone, disk
  <2>32. ASSUME NEW h \in Handlers, MarkRolledBack(h)
        PROVE  RestInv'
    <3> DEFINE c == call[h]
               next == CallOf("rollback", "rolled_back", None, None,
                              WithStatus(c.copy, "rolled_back"), TRUE, {})
    <3>1. Rests(WithStatus(c.copy, "rolled_back"), Done)
      BY <2>a, StatusRests
    <3>2. CallRests(next, Captured, Done, proposal)
      BY <3>1, CallRestsIf
    <3> HIDE DEF next
    <3>3. PICK d : CallRests(d, Captured, Done, proposal) /\ Becomes(h, d)
      BY <3>2, <2>32, IdleRests DEF MarkRolledBack, Ends, next
    <3>4. QED
      BY <3>3, <2>d, <2>32 DEF MarkRolledBack, disk
  <2>33. ASSUME NEW h \in Handlers, SaveRolledBack(h)
        PROVE  RestInv'
    BY <2>a, <2>e, <2>33, IdleRests DEF SaveRolledBack, Ends
  <2>34. ASSUME NEW f \in Files, NEW content \in Contents, EditFile(f, content)
        PROVE  RestInv'
    <3>1. UNCHANGED <<loop, task, proposal, results, snapshots, call>>
      BY <2>34 DEF EditFile, rows
    <3>2. QED
      BY <3>1, <2>b DEF RestInv
  <2>35. ASSUME Crash
        PROVE  RestInv'
    <3>1. UNCHANGED <<task, proposal, results, snapshots>>
      BY <2>35 DEF Crash, disk
    <3>2. Rests(WithStatus(loop, "recovered"), Done)
      BY <2>a, StatusRests
    <3>3. Rests(loop', Done)
      BY <3>2, <2>a, <2>35 DEF Crash
    <3>4. \A h \in Handlers : CallRests(call'[h], Captured, Done, proposal)
      BY <2>35, IdleRests DEF Crash
    <3>5. QED
      BY <3>1, <3>3, <3>4, <2>b DEF RestInv
  <2>36. CASE UNCHANGED vars
    <3>1. UNCHANGED <<loop, task, proposal, results, snapshots, call>>
      BY <2>36 DEF vars, rows, disk
    <3>2. QED
      BY <3>1, <2>b DEF RestInv
  <2>37. QED
    BY <2>1, <2>2, <2>3, <2>4, <2>5, <2>6, <2>7, <2>8, <2>9, <2>10, <2>11, <2>12,
       <2>13, <2>14, <2>15, <2>16, <2>17, <2>18, <2>19, <2>20, <2>21, <2>22, <2>23,
       <2>24, <2>25, <2>26, <2>27, <2>28, <2>29, <2>30, <2>31, <2>32, <2>33, <2>34,
       <2>35, <2>36
       DEF Next, Begin, Continue
<1>3. QED
  BY <1>1, <1>2, TypesHold, PTL DEF Spec

(* A loop that says it executed something has a saved result, of a task    *)
(* that was captured (orchestrator.py on_executed, verify), whatever is    *)
(* saved stale and wherever the process crashes.                           *)
THEOREM LoopHasResult == Spec => []LoopRestsOnResult
<1>1. RestInv => LoopRestsOnResult
  BY DEF RestInv, Rests, Done, LoopRestsOnResult
<1>2. QED
  BY <1>1, RestsHold, PTL

(* No task is executed before its snapshot exists (executor.py execute).   *)
THEOREM CapturedFirst == Spec => []SnapshotFirst
<1>1. RestInv => SnapshotFirst
  BY DEF RestInv, Ran, SnapshotFirst
<1>2. QED
  BY <1>1, RestsHold, PTL

(* A loop's status rests on a result, the result on a run and the run on a *)
(* snapshot, whatever stale rows are saved and wherever a crash comes.     *)
THEOREM StatusWasEarned == Spec => []StatusIsEarned
<1>1. LoopRestsOnResult /\ SnapshotFirst => StatusIsEarned
  BY DEF StatusIsEarned
<1> QED BY <1>1, LoopHasResult, CapturedFirst, PTL

-----------------------------------------------------------------------------
(* While no two requests were ever served at once, the one call there is   *)
(* holds a copy that is what the loop's row holds, up to what the call is  *)
(* about to save.                                                          *)

OneThread == \A g, h \in Handlers : g = h

(* A copy of doc in which the status has become st, and no more.           *)
Edits(copy, doc, st) ==
  copy.status = st /\ copy.proposal = doc.proposal /\ copy.result = doc.result /\ copy.memory = doc.memory

(* What the copy of a call c is, when the row of the loop is doc.          *)
Fresh(c, doc) ==
  /\ c.at = "plan" /\ c.op = "create" => doc.status = "absent"
  /\ c.at \in {"draft", "restore", "mark", "learn"} => c.copy = doc
  /\ c.at \in {"propose", "require"} /\ c.op = "prepare" => c.copy = doc
  /\ c.at = "ready" =>
       /\ doc.status = "planning"
       /\ c.copy.status = "proposal_ready" /\ c.copy.proposal = c.proposal
       /\ c.copy.result = doc.result /\ c.copy.memory = doc.memory
  /\ c.at = "wait" => doc.status = "proposal_ready" /\ Edits(c.copy, doc, "waiting_approval")
  /\ c.at = "start" =>
       /\ doc.status = "waiting_approval"
       /\ c.copy.status = "executing" /\ c.copy.proposal = doc.proposal
       /\ c.copy.result = c.proposal /\ c.copy.memory = doc.memory
  /\ c.at = "started" => doc.status = "executing" /\ Edits(c.copy, doc, "verifying")
  /\ c.at = "verdict" =>
       \E st \in {"completed", "failed"} : LoopMoves(doc.status, st) /\ Edits(c.copy, doc, st)
  /\ c.at \in {"learn", "remember"} => doc.status \in {"completed", "failed"}
  /\ c.at = "remember" =>
       c.copy.status = doc.status /\ c.copy.proposal = doc.proposal /\ c.copy.result = doc.result
  /\ c.at = "recovered" => LoopMoves(doc.status, "recovered") /\ Edits(c.copy, doc, "recovered")
  /\ c.at = "rolled_back" => LoopMoves(doc.status, "rolled_back") /\ Edits(c.copy, doc, "rolled_back")

AloneInv ==
  ~overlap =>
    /\ \A g, h \in Handlers : ~At(g, "idle") /\ ~At(h, "idle") => g = h
    /\ \A h \in Handlers : Fresh(call[h], loop)

(* The phase of the loop moves as the lifecycle allows.                    *)
PhaseMoves(from, to) ==
  \/ PhaseOf(from) = PhaseOf(to)
  \/ from = "absent" /\ PhaseOf(to) = "planning"
  \/ from = "planning" /\ PhaseOf(to) = "underway"
  \/ PhaseOf(from) = "underway" /\ to = "completed"
  \/ PhaseOf(from) \in {"planning", "underway"} /\ PhaseOf(to) = "stopped"

(* Where the moves the requests check may come from.                       *)
LEMMA MovesFrom ==
  ASSUME NEW st \in LoopStatus
  PROVE  /\ LoopMoves(st, "proposal_ready") => st = "planning"
         /\ LoopMoves(st, "executing") => st = "waiting_approval"
         /\ LoopMoves(st, "completed") => st = "verifying"
         /\ LoopMoves(st, "failed") => st \in Interrupted \cup {"recovered"}
         /\ LoopMoves(st, "recovered") => st \in Interrupted
         /\ LoopMoves(st, "rolled_back") => st \in {"executing", "verifying", "recovered", "failed"}
BY DEF LoopMoves, LoopStatus, LoopTransitions, Interrupted

(* The phases those moves lead from and to.                                *)
LEMMA MovesArePhases ==
  ASSUME NEW st \in LoopStatus, NEW to, LoopMoves(st, to)
  PROVE  PhaseMoves(st, to)
BY DEF LoopMoves, LoopStatus, LoopTransitions, PhaseMoves, PhaseOf

(* What stays of a row whose status alone is written.                      *)
LEMMA EditedParts ==
  ASSUME NEW doc, NEW st
  PROVE  Edits(WithStatus(doc, st), doc, st)
BY DEF Edits, WithStatus, LoopOf

(* An idle thread holds no copy that could be out of date.                 *)
LEMMA IdleIsFresh == ASSUME NEW doc PROVE Fresh(Idle, doc)
BY DEF Fresh, Idle, CallOf

(* One call moves on, or begins while there is no other one.               *)
LEMMA AloneKeeps ==
  ASSUME TypeInv, AloneInv, NEW h \in Handlers, NEW c, NEW doc, Becomes(h, c), loop' = doc,
         ~overlap' => Fresh(c, doc),
         \/ overlap' = overlap /\ ~At(h, "idle")
         \/ overlap' = (overlap \/ \E g \in Handlers \ {h} : ~At(g, "idle"))
  PROVE  AloneInv'
<1> SUFFICES ASSUME ~overlap'
             PROVE  /\ \A f, g \in Handlers : ~(call'[f].at = "idle") /\ ~(call'[g].at = "idle") => f = g
                    /\ \A g \in Handlers : Fresh(call'[g], loop')
  BY DEF AloneInv, At
<1>0. ~overlap
  OBVIOUS
<1>1. \A g \in Handlers \ {h} : At(g, "idle")
  BY <1>0 DEF AloneInv, At
<1>2. \A g \in Handlers : call'[g] = IF g = h THEN c ELSE call[g]
  BY DEF Becomes, TypeInv, TypeOK
<1>3. \A g \in Handlers : At(g, "idle") => Fresh(call[g], doc)
  BY DEF At, Fresh, TypeInv, CallOK, Ops, PointsOf
<1>4. Fresh(c, doc)
  OBVIOUS
<1> QED BY <1>1, <1>2, <1>3, <1>4 DEF At

(* What the step of the one call does: the next call's copy is fresh, the  *)
(* loop's phase moves on, and an only thread is never overtaken.           *)
LEMMA AloneStep ==
  ASSUME TypeInv, AloneInv, [Next]_vars
  PROVE  /\ AloneInv'
         /\ ~overlap' => PhaseMoves(loop.status, loop'.status)
         /\ OneThread /\ ~overlap => ~overlap'
<1> DEFINE Goal == /\ AloneInv'
                   /\ ~overlap' => PhaseMoves(loop.status, loop'.status)
                   /\ OneThread /\ ~overlap => ~overlap'
<1>a. /\ loop \in Loop /\ loop.status \in LoopStatus
      /\ \A h \in Handlers :
           /\ call[h].at \in PointsOf[call[h].op] /\ call[h].op \in Ops
           /\ call[h].copy \in Loop /\ call[h].copy.status \in LoopStatus
           /\ ~overlap => Fresh(call[h], loop)
  BY DEF TypeInv, TypeOK, CallOK, Calls, Loop, AloneInv
<1>b. PhaseMoves(loop.status, loop.status)
  BY DEF PhaseMoves
(* A step that leaves the loop's row alone.                                *)
<1>c. ASSUME NEW h \in Handlers, NEW c, Becomes(h, c), loop' = loop,
             ~overlap => Fresh(c, loop),
             \/ overlap' = overlap /\ ~At(h, "idle")
             \/ overlap' = (overlap \/ \E g \in Handlers \ {h} : ~At(g, "idle"))
      PROVE  Goal
  <2>1. ~overlap' => Fresh(c, loop)
    BY <1>c
  <2>2. OneThread /\ ~overlap => ~overlap'
    BY <1>c DEF OneThread
  <2> QED BY <1>b, <1>c, <2>1, <2>2, AloneKeeps
(* One that saves the loop's row.                                          *)
<1>d. ASSUME NEW h \in Handlers, NEW c, NEW doc, ~At(h, "idle"), Becomes(h, c), SaveLoop(h, doc),
             ~overlap => Fresh(c, doc) /\ PhaseMoves(loop.status, doc.status)
      PROVE  Goal
  <2>1. loop' = doc /\ overlap' = overlap
    BY <1>d DEF SaveLoop, history
  <2> QED BY <1>d, <2>1, AloneKeeps
(* And one that moves on or ends.                                          *)
<1>e. ASSUME NEW h \in Handlers, ~At(h, "idle"), Ends(h), loop' = loop, overlap' = overlap
      PROVE  Goal
  BY <1>c, <1>e, IdleIsFresh DEF Ends
<1>1. ASSUME NEW h \in Handlers, BeginCreate(h)
      PROVE  Goal
  BY <1>1, <1>a, <1>c DEF BeginCreate, Begins, rows, At, Fresh, CallOf
<1>2. ASSUME NEW h \in Handlers, BeginReplan(h)
      PROVE  Goal
  BY <1>2, <1>a, <1>c DEF BeginReplan, Begins, rows, At, Fresh, CallOf
<1>3. ASSUME NEW h \in Handlers, NEW t \in Tasks, PlanTask(h, t)
      PROVE  Goal
  BY <1>3, <1>a, <1>c DEF PlanTask, At, Fresh, CallOf
<1>4. ASSUME NEW h \in Handlers, SavePlanned(h)
      PROVE  Goal
  <2>1. ~overlap => PhaseMoves(loop.status, "planning")
    BY <1>4, <1>a DEF SavePlanned, At, Fresh, PhaseMoves, PhaseOf
  <2>2. LoopOf("planning", None, None, FALSE).status = "planning"
    BY DEF LoopOf
  <2> QED BY <1>4, <2>1, <2>2, <1>d, IdleIsFresh DEF SavePlanned, Ends, At
<1>5. ASSUME NEW h \in Handlers, Replanned(h)
      PROVE  Goal
  BY <1>5, <1>e DEF Replanned, At, rows, history
<1>6. ASSUME NEW h \in Handlers, NEW t \in Tasks, BeginPropose(h, t)
      PROVE  Goal
  BY <1>6, <1>a, <1>c DEF BeginPropose, Begins, rows, At, Fresh, CallOf
<1>7. ASSUME NEW h \in Handlers, BeginPrepare(h)
      PROVE  Goal
  BY <1>7, <1>a, <1>c DEF BeginPrepare, Begins, rows, At, Fresh, CallOf
<1>8. ASSUME NEW h \in Handlers, Draft(h)
      PROVE  Goal
  BY <1>8, <1>a, <1>c DEF Draft, rows, At, Fresh, CallOf
<1>9. ASSUME NEW h \in Handlers, NEW p \in Proposals, SaveProposal(h, p)
      PROVE  Goal
  <2>1. CASE call[h].ok
    BY <1>9, <2>1, <1>a, <1>c DEF SaveProposal, At, Fresh, CallOf, history, PointsOf, Ops
  <2>2. CASE ~call[h].ok
    BY <1>9, <2>2, <1>e DEF SaveProposal, At, history
  <2> QED BY <2>1, <2>2
<1>10. ASSUME NEW h \in Handlers, RequireApproval(h)
      PROVE  Goal
  <2> DEFINE c == call[h]
             goes == c.op = "prepare" /\ LoopMoves(c.copy.status, "proposal_ready")
  <2>1. CASE goes
    <3> DEFINE d == LoopOf("proposal_ready", c.proposal, c.copy.result, c.copy.memory)
               next == CallOf("prepare", "ready", c.task, c.proposal, d, TRUE, {})
    <3>1. /\ d.status = "proposal_ready" /\ d.proposal = c.proposal
          /\ d.result = c.copy.result /\ d.memory = c.copy.memory
      BY DEF LoopOf
    <3>2. /\ next.op = "prepare" /\ next.at = "ready" /\ next.proposal = c.proposal /\ next.copy = d
      BY DEF CallOf
    <3>3. Becomes(h, next) /\ At(h, "require") /\ loop' = loop /\ overlap' = overlap
      BY <1>10, <2>1 DEF RequireApproval, history
    <3> HIDE DEF d, next
    <3>4. ~overlap => Fresh(next, loop)
      BY <2>1, <3>1, <3>2, <3>3, <1>a, MovesFrom DEF Fresh, At
    <3> QED BY <3>3, <3>4, <1>c DEF At
  <2>2. CASE ~goes
    BY <1>10, <2>2, <1>e DEF RequireApproval, At, history
  <2> QED BY <2>1, <2>2
<1>11. ASSUME NEW h \in Handlers, SaveReady(h)
      PROVE  Goal
  <2> DEFINE c == call[h]
  <2>0. ~overlap => loop.status = "planning" /\ c.copy.status = "proposal_ready"
    BY <1>11, <1>a DEF SaveReady, At, Fresh, Edits
  <2>1. ~overlap => PhaseMoves(loop.status, c.copy.status)
    BY <2>0, <1>a DEF PhaseMoves, PhaseOf
  <2>2. ~overlap => Fresh(CallOf("prepare", "wait", c.task, c.proposal,
                            WithStatus(c.copy, "waiting_approval"), TRUE, {}), c.copy)
    BY <1>11, <1>a, EditedParts DEF SaveReady, At, Fresh, CallOf, Edits
  <2> QED BY <1>11, <2>1, <2>2, <1>d DEF SaveReady, At
<1>12. ASSUME NEW h \in Handlers, SaveWaiting(h)
      PROVE  Goal
  <2> DEFINE c == call[h]
  <2>0. ~overlap => loop.status = "proposal_ready" /\ c.copy.status = "waiting_approval"
    BY <1>12, <1>a DEF SaveWaiting, At, Fresh, Edits
  <2>1. ~overlap => PhaseMoves(loop.status, c.copy.status)
    BY <2>0, <1>a DEF PhaseMoves, PhaseOf
  <2> QED BY <1>12, <2>1, <1>d, IdleIsFresh DEF SaveWaiting, Ends, At
<1>13. ASSUME NEW h \in Handlers, NEW p \in Proposals, BeginExecute(h, p)
      PROVE  Goal
  BY <1>13, <1>a, <1>c DEF BeginExecute, Begins, rows, At, Fresh, CallOf
<1>14. ASSUME NEW h \in Handlers, SaveApproved(h)
      PROVE  Goal
  BY <1>14, <1>a, <1>c DEF SaveApproved, SaveTask, MovesTo, At, Fresh, CallOf, history, PointsOf, Ops
<1>15. ASSUME NEW h \in Handlers, SaveExecuting(h)
      PROVE  Goal
  BY <1>15, <1>a, <1>c DEF SaveExecuting, SaveTask, MovesTo, At, Fresh, CallOf, history, PointsOf, Ops
<1>16. ASSUME NEW h \in Handlers, SaveVerifying(h)
      PROVE  Goal
  BY <1>16, <1>a, <1>c DEF SaveVerifying, SaveTask, MovesTo, At, Fresh, CallOf, history, PointsOf, Ops
<1>17. ASSUME NEW h \in Handlers, SaveCompleted(h)
      PROVE  Goal
  BY <1>17, <1>a, <1>c DEF SaveCompleted, SaveTask, MovesTo, At, Fresh, CallOf, history, PointsOf, Ops
<1>18. ASSUME NEW h \in Handlers, Capture(h)
      PROVE  Goal
  <2>1. CASE MovesTo(h, "run")
    BY <1>18, <2>1, <1>a, <1>c DEF Capture, MovesTo, rows, At, Fresh, CallOf, history, PointsOf, Ops
  <2>2. CASE Ends(h)
    BY <1>18, <2>2, <1>e DEF Capture, rows, At, history
  <2> QED BY <1>18, <2>1, <2>2 DEF Capture
<1>19. ASSUME NEW h \in Handlers, SaveResult(h)
      PROVE  Goal
  BY <1>19, <1>a, <1>c DEF SaveResult, MovesTo, At, Fresh, CallOf, history, PointsOf, Ops
<1>20. ASSUME NEW h \in Handlers, Hook(h)
      PROVE  Goal
  <2>1. CASE LoopMoves(loop.status, "executing")
    <3> DEFINE c == call[h]
               d == LoopOf("executing", loop.proposal, c.proposal, loop.memory)
               next == CallOf("execute", "start", c.task, c.proposal, d, TRUE, {})
    <3>1. /\ d.status = "executing" /\ d.proposal = loop.proposal
          /\ d.result = c.proposal /\ d.memory = loop.memory
      BY DEF LoopOf
    <3>2. /\ next.op = "execute" /\ next.at = "start" /\ next.proposal = c.proposal /\ next.copy = d
      BY DEF CallOf
    <3>3. Becomes(h, next) /\ At(h, "hook") /\ loop' = loop /\ overlap' = overlap
      BY <1>20, <2>1 DEF Hook, rows, history
    <3> HIDE DEF d, next
    <3>4. ~overlap => Fresh(next, loop)
      BY <2>1, <3>1, <3>2, <3>3, <1>a, MovesFrom DEF Fresh
    <3> QED BY <3>3, <3>4, <1>c DEF At
  <2>2. CASE ~LoopMoves(loop.status, "executing")
    BY <1>20, <2>2, <1>e DEF Hook, rows, At, history
  <2> QED BY <2>1, <2>2
<1>21. ASSUME NEW h \in Handlers, SaveStart(h)
      PROVE  Goal
  <2> DEFINE c == call[h]
  <2>0. ~overlap => loop.status = "waiting_approval" /\ c.copy.status = "executing"
    BY <1>21, <1>a DEF SaveStart, At, Fresh, Edits
  <2>1. ~overlap => PhaseMoves(loop.status, c.copy.status)
    BY <2>0, <1>a DEF PhaseMoves, PhaseOf
  <2>2. ~overlap => Fresh(CallOf("execute", "started", c.task, c.proposal,
                            WithStatus(c.copy, "verifying"), TRUE, {}), c.copy)
    BY <1>21, <1>a, EditedParts DEF SaveStart, At, Fresh, CallOf, Edits
  <2> QED BY <1>21, <2>1, <2>2, <1>d DEF SaveStart, At
<1>22. ASSUME NEW h \in Handlers, SaveStarted(h)
      PROVE  Goal
  <2> DEFINE c == call[h]
  <2>0. ~overlap => loop.status = "executing" /\ c.copy.status = "verifying"
    BY <1>22, <1>a DEF SaveStarted, At, Fresh, Edits
  <2>1. ~overlap => PhaseMoves(loop.status, c.copy.status)
    BY <2>0, <1>a DEF PhaseMoves, PhaseOf
  <2> QED BY <1>22, <2>1, <1>d, IdleIsFresh DEF SaveStarted, Ends, At
<1>23. ASSUME NEW h \in Handlers, NEW verdict \in {"completed", "failed"}, BeginVerify(h, verdict)
      PROVE  Goal
  BY <1>23, <1>a, <1>c, EditedParts DEF BeginVerify, Begins, rows, At, Fresh, CallOf
<1>24. ASSUME NEW h \in Handlers, SaveVerdict(h)
      PROVE  Goal
  <2> DEFINE c == call[h]
  <2>1. ~overlap => PhaseMoves(loop.status, c.copy.status) /\ c.copy.status \in {"completed", "failed"}
    BY <1>24, <1>a, MovesArePhases DEF SaveVerdict, At, Fresh, Edits
  <2>2. CASE c.copy.memory
    BY <1>24, <2>1, <2>2, <1>d, IdleIsFresh DEF SaveVerdict, Ends, At
  <2>3. CASE ~c.copy.memory
    <3>1. ~overlap => Fresh(CallOf(c.op, "learn", c.task, c.proposal, c.copy, c.ok, c.todo), c.copy)
      BY <2>1, <1>24, <1>a DEF SaveVerdict, At, Fresh, CallOf, Ops, PointsOf
    <3> QED BY <1>24, <2>1, <2>3, <3>1, <1>d DEF SaveVerdict, MovesTo, At
  <2> QED BY <2>2, <2>3
<1>25. ASSUME NEW h \in Handlers, QueueLearning(h)
      PROVE  Goal
  <2> DEFINE doc == call[h].copy
             d == LoopOf(doc.status, doc.proposal, doc.result, TRUE)
             next == CallOf("verify", "remember", None, None, d, TRUE, {})
  <2>1. d.status = doc.status /\ d.proposal = doc.proposal /\ d.result = doc.result
    BY DEF LoopOf
  <2>2. next.op = "verify" /\ next.at = "remember" /\ next.copy = d
    BY DEF CallOf
  <2>3. Becomes(h, next) /\ At(h, "learn") /\ loop' = loop /\ overlap' = overlap
    BY <1>25 DEF QueueLearning, history
  <2> HIDE DEF d, next
  <2>4. ~overlap => Fresh(next, loop)
    BY <2>1, <2>2, <2>3, <1>a DEF Fresh, At
  <2> QED BY <2>3, <2>4, <1>c DEF At
<1>26. ASSUME NEW h \in Handlers, SaveMemory(h)
      PROVE  Goal
  <2> DEFINE c == call[h]
  <2>0. ~overlap => loop.status = c.copy.status
    BY <1>26, <1>a DEF SaveMemory, At, Fresh, Edits
  <2>1. ~overlap => PhaseMoves(loop.status, c.copy.status)
    BY <2>0, <1>a DEF PhaseMoves, PhaseOf
  <2> QED BY <1>26, <2>1, <1>d, IdleIsFresh DEF SaveMemory, Ends, At
<1>27. ASSUME NEW h \in Handlers, BeginRecover(h)
      PROVE  Goal
  BY <1>27, <1>a, <1>c, EditedParts DEF BeginRecover, Begins, rows, At, Fresh, CallOf
<1>28. ASSUME NEW h \in Handlers, SaveRecovered(h)
      PROVE  Goal
  <2> DEFINE c == call[h]
  <2>0. ~overlap => c.copy.status = "recovered" /\ LoopMoves(loop.status, c.copy.status)
    BY <1>28, <1>a DEF SaveRecovered, At, Fresh, Edits
  <2>1. ~overlap => PhaseMoves(loop.status, c.copy.status)
    BY <2>0, <1>a, MovesArePhases DEF PhaseMoves, PhaseOf
  <2> QED BY <1>28, <2>1, <1>d, IdleIsFresh DEF SaveRecovered, Ends, At
<1>29. ASSUME NEW h \in Handlers, BeginRollback(h)
      PROVE  Goal
  BY <1>29, <1>a, <1>c DEF BeginRollback, Begins, rows, At, Fresh, CallOf
<1>30. ASSUME NEW h \in Handlers, Restore(h)
      PROVE  Goal
  BY <1>30, <1>a, <1>c DEF Restore, rows, At, Fresh, CallOf, history
<1>31. ASSUME NEW h \in Handlers, RestoreDone(h)
      PROVE  Goal
  <2>1. CASE MovesTo(h, "mark")
    BY <1>31, <2>1, <1>a, <1>c DEF RestoreDone, MovesTo, rows, At, Fresh, CallOf, history, PointsOf, Ops
  <2>2. CASE Ends(h)
    BY <1>31, <2>2, <1>e DEF RestoreDone, rows, At, history
  <2> QED BY <1>31, <2>1, <2>2 DEF RestoreDone
<1>32. ASSUME NEW h \in Handlers, MarkRolledBack(h)
      PROVE  Goal
  <2> DEFINE c == call[h]
  <2>1. CASE LoopMoves(c.copy.status, "rolled_back")
    BY <1>32, <2>1, <1>a, <1>c, EditedParts DEF MarkRolledBack, rows, At, Fresh, CallOf, history
  <2>2. CASE ~LoopMoves(c.copy.status, "rolled_back")
    BY <1>32, <2>2, <1>e DEF MarkRolledBack, rows, At, history
  <2> QED BY <2>1, <2>2
<1>33. ASSUME NEW h \in Handlers, SaveRolledBack(h)
      PROVE  Goal
  <2> DEFINE c == call[h]
  <2>0. ~overlap => c.copy.status = "rolled_back" /\ LoopMoves(loop.status, c.copy.status)
    BY <1>33, <1>a DEF SaveRolledBack, At, Fresh, Edits
  <2>1. ~overlap => PhaseMoves(loop.status, c.copy.status)
    BY <2>0, <1>a, MovesArePhases DEF PhaseMoves, PhaseOf
  <2> QED BY <1>33, <2>1, <1>d, IdleIsFresh DEF SaveRolledBack, Ends, At
<1>34. ASSUME NEW f \in Files, NEW content \in Contents, EditFile(f, content)
      PROVE  Goal
  <2>1. UNCHANGED <<loop, call, overlap>>
    BY <1>34 DEF EditFile, rows
  <2> QED BY <2>1, <1>b DEF AloneInv, At
<1>35. CASE Crash
  <2>1. PhaseMoves(loop.status, loop'.status)
    BY <1>35, <1>a, <1>b DEF Crash, Interrupted, WithStatus, LoopOf, PhaseMoves, PhaseOf
  <2>2. overlap' = overlap /\ \A h \in Handlers : call'[h] = Idle
    BY <1>35 DEF Crash, history
  <2>3. Idle.at = "idle" /\ Fresh(Idle, loop')
    BY DEF Idle, CallOf, Fresh
  <2> QED BY <2>1, <2>2, <2>3 DEF AloneInv, At
<1>36. CASE UNCHANGED vars
  <2>1. UNCHANGED <<loop, call, overlap>>
    BY <1>36 DEF vars, rows, history
  <2> QED BY <2>1, <1>b DEF AloneInv, At
<1>37. QED
  BY <1>1, <1>2, <1>3, <1>4, <1>5, <1>6, <1>7, <1>8, <1>9, <1>10, <1>11, <1>12, <1>13,
     <1>14, <1>15, <1>16, <1>17, <1>18, <1>19, <1>20, <1>21, <1>22, <1>23, <1>24, <1>25,
     <1>26, <1>27, <1>28, <1>29, <1>30, <1>31, <1>32, <1>33, <1>34, <1>35, <1>36
  DEF Next, Begin, Continue

(* With one thread the loop goes forward only: every request and restart   *)
(* moves its phase as LoopLifecycle allows, or not at all.                 *)
THEOREM LoopGoesForward ==
  ASSUME OneThread
  PROVE  Spec => ImplementsLoopLifecycle
<1>1. Init => AloneInv /\ ~overlap /\ Lifecycle!LifecycleInit
  <2> SUFFICES ASSUME Init
               PROVE  AloneInv /\ ~overlap /\ Lifecycle!LifecycleInit
    OBVIOUS
  <2>1. ~overlap /\ \A h \in Handlers : call[h] = Idle
    BY DEF Init
  <2>2. \A h \in Handlers : At(h, "idle") /\ Fresh(call[h], loop)
    BY <2>1, IdleIsFresh DEF At, Idle, CallOf, Fresh
  <2>a. AloneInv
    BY <2>2 DEF AloneInv
  <2>3. Lifecycle!LifecycleInit
    BY DEF Init, Lifecycle!LifecycleInit, NoLoop, LoopOf, PhaseOf
  <2> QED BY <2>1, <2>a, <2>3
<1>2. TypeInv /\ AloneInv /\ ~overlap /\ [Next]_vars => AloneInv' /\ ~overlap'
  BY AloneStep
<1>3. TypeInv /\ AloneInv /\ ~overlap /\ [Next]_vars
        => [Lifecycle!LifecycleNext]_([l \in {"loop"} |-> PhaseOf(loop.status)])
  <2> SUFFICES ASSUME TypeInv, AloneInv, ~overlap, [Next]_vars
               PROVE  [Lifecycle!LifecycleNext]_([l \in {"loop"} |-> PhaseOf(loop.status)])
    OBVIOUS
  <2>1. PhaseMoves(loop.status, loop'.status)
    BY AloneStep
  <2> QED BY <2>1 DEF PhaseMoves, PhaseOf, Lifecycle!LifecycleNext, Lifecycle!Create, Lifecycle!Leave,
             Lifecycle!Complete, Lifecycle!Stop, Lifecycle!Becomes
<1> QED BY <1>1, <1>2, <1>3, TypesHold, PTL DEF Spec, ImplementsLoopLifecycle, Lifecycle!LifecycleSpec

-----------------------------------------------------------------------------
(* A rollback restores every snapshot that was captured, the first one     *)
(* last, although others may roll back at the same time: each keeps the    *)
(* first snapshot to its end.                                              *)

FilesAreFirst == \A f \in Files \ edited : file[f] = snapshots[1].files[f]

RollbackInv ==
  /\ \A i, j \in DOMAIN snapshots : snapshots[i].task = snapshots[j].task => i = j
  /\ \A h \in Handlers : call[h].op = "rollback" =>
       /\ snapshots # << >>
       /\ call[h].todo # {} => call[h].at = "restore" /\ snapshots[1].task \in call[h].todo
  /\ (\E h \in Handlers : call[h].op = "rollback")
     /\ (\A h \in Handlers : call[h].op = "rollback" => call[h].todo = {})
       => FilesAreFirst

(* A call that is no rollback, and follows none that has files to restore. *)
LEMMA RollbackStays ==
  ASSUME TypeInv, RollbackInv, NEW h \in Handlers, NEW c, Becomes(h, c), c.op # "rollback",
         call[h].op = "rollback" => call[h].todo = {}, UNCHANGED <<snapshots, file, edited>>
  PROVE  RollbackInv'
<1>1. \A g \in Handlers : call'[g] = IF g = h THEN c ELSE call[g]
  BY DEF Becomes, TypeInv, TypeOK
<1>2. QED
  BY <1>1 DEF RollbackInv, FilesAreFirst

(* A rollback that has restored what there was.                            *)
LEMMA RollbackGoesOn ==
  ASSUME TypeInv, RollbackInv, NEW h \in Handlers, NEW c, Becomes(h, c), c.op = "rollback",
         c.todo = {}, call[h].op = "rollback", call[h].todo = {}, UNCHANGED <<snapshots, file, edited>>
  PROVE  RollbackInv'
<1>1. \A g \in Handlers : call'[g] = IF g = h THEN c ELSE call[g]
  BY DEF Becomes, TypeInv, TypeOK
<1>2. QED
  BY <1>1 DEF RollbackInv, FilesAreFirst

(* Every step keeps it: only a rollback's own steps shorten what it has.   *)
LEMMA RollbackStep ==
  ASSUME TypeInv, RollbackInv, [Next]_vars
  PROVE  RollbackInv'
<1>a. \A h \in Handlers : call[h].at \in PointsOf[call[h].op] /\ call[h].op \in Ops
  BY DEF TypeInv, TypeOK, CallOK, Calls
<1>b. Idle.op # "rollback"
  BY DEF Idle, CallOf
<1> USE DEF At, rows, disk, history
<1>1. ASSUME NEW h \in Handlers, BeginCreate(h)
      PROVE  RollbackInv'
  BY <1>1, <1>a, <1>b, RollbackStays DEF BeginCreate, CallOf, Ops, PointsOf, Begins
<1>2. ASSUME NEW h \in Handlers, BeginReplan(h)
      PROVE  RollbackInv'
  BY <1>2, <1>a, <1>b, RollbackStays DEF BeginReplan, CallOf, Ops, PointsOf, Begins
<1>3. ASSUME NEW h \in Handlers, NEW t \in Tasks, PlanTask(h, t)
      PROVE  RollbackInv'
  BY <1>3, <1>a, <1>b, RollbackStays DEF PlanTask, CallOf, Ops, PointsOf
<1>4. ASSUME NEW h \in Handlers, SavePlanned(h)
      PROVE  RollbackInv'
  BY <1>4, <1>a, <1>b, RollbackStays DEF SavePlanned, CallOf, Ops, PointsOf, SaveLoop, Ends
<1>5. ASSUME NEW h \in Handlers, Replanned(h)
      PROVE  RollbackInv'
  BY <1>5, <1>a, <1>b, RollbackStays DEF Replanned, CallOf, Ops, PointsOf, Ends
<1>6. ASSUME NEW h \in Handlers, NEW t \in Tasks, BeginPropose(h, t)
      PROVE  RollbackInv'
  BY <1>6, <1>a, <1>b, RollbackStays DEF BeginPropose, CallOf, Ops, PointsOf, Begins
<1>7. ASSUME NEW h \in Handlers, BeginPrepare(h)
      PROVE  RollbackInv'
  BY <1>7, <1>a, <1>b, RollbackStays DEF BeginPrepare, CallOf, Ops, PointsOf, Begins
<1>8. ASSUME NEW h \in Handlers, Draft(h)
      PROVE  RollbackInv'
  BY <1>8, <1>a, <1>b, RollbackStays DEF Draft, CallOf, Ops, PointsOf
<1>9. ASSUME NEW h \in Handlers, NEW p \in Proposals, SaveProposal(h, p)
      PROVE  RollbackInv'
  BY <1>9, <1>a, <1>b, RollbackStays DEF SaveProposal, CallOf, Ops, PointsOf, Ends
<1>10. ASSUME NEW h \in Handlers, RequireApproval(h)
      PROVE  RollbackInv'
  BY <1>10, <1>a, <1>b, RollbackStays DEF RequireApproval, CallOf, Ops, PointsOf, Ends
<1>11. ASSUME NEW h \in Handlers, SaveReady(h)
      PROVE  RollbackInv'
  BY <1>11, <1>a, <1>b, RollbackStays DEF SaveReady, CallOf, Ops, PointsOf, SaveLoop
<1>12. ASSUME NEW h \in Handlers, SaveWaiting(h)
      PROVE  RollbackInv'
  BY <1>12, <1>a, <1>b, RollbackStays DEF SaveWaiting, CallOf, Ops, PointsOf, SaveLoop, Ends
<1>13. ASSUME NEW h \in Handlers, NEW p \in Proposals, BeginExecute(h, p)
      PROVE  RollbackInv'
  BY <1>13, <1>a, <1>b, RollbackStays DEF BeginExecute, CallOf, Ops, PointsOf, Begins
<1>14. ASSUME NEW h \in Handlers, SaveApproved(h)
      PROVE  RollbackInv'
  BY <1>14, <1>a, <1>b, RollbackStays DEF SaveApproved, CallOf, Ops, PointsOf, SaveTask, MovesTo
<1>15. ASSUME NEW h \in Handlers, SaveExecuting(h)
      PROVE  RollbackInv'
  BY <1>15, <1>a, <1>b, RollbackStays DEF SaveExecuting, CallOf, Ops, PointsOf, SaveTask, MovesTo
<1>16. ASSUME NEW h \in Handlers, SaveVerifying(h)
      PROVE  RollbackInv'
  BY <1>16, <1>a, <1>b, RollbackStays DEF SaveVerifying, CallOf, Ops, PointsOf, SaveTask, MovesTo
<1>17. ASSUME NEW h \in Handlers, SaveCompleted(h)
      PROVE  RollbackInv'
  BY <1>17, <1>a, <1>b, RollbackStays DEF SaveCompleted, CallOf, Ops, PointsOf, SaveTask, MovesTo
<1>18. ASSUME NEW h \in Handlers, Capture(h)
      PROVE  RollbackInv'
  <2> DEFINE t == call[h].task
             s == [task |-> t, files |-> file]
  <2>1. \A g \in Handlers : g # h => call'[g] = call[g]
    BY <1>18 DEF Capture, MovesTo, Becomes, Ends, TypeInv, TypeOK
  <2>2. call[h].op # "rollback" /\ call'[h].op # "rollback"
    <3>1. call[h].op = "execute"
      BY <1>18, <1>a DEF Capture, Ops, PointsOf
    <3>2. call'[h].op \in {"execute", "none"}
      BY <1>18, <3>1 DEF Capture, MovesTo, Becomes, Ends, TypeInv, TypeOK, CallOf, Idle
    <3> QED BY <3>1, <3>2
  <2>3. UNCHANGED <<file, edited>>
    BY <1>18 DEF Capture
  <2>4. CASE snapshots' = snapshots
    BY <2>1, <2>2, <2>3, <2>4 DEF RollbackInv, FilesAreFirst
  <2>5. CASE t \notin Captured /\ snapshots' = Append(snapshots, s)
    <3>1. snapshots \in Seq(Snapshot) /\ Len(snapshots) \in Nat
      BY DEF TypeInv, TypeOK
    <3>2. s.task = t
      OBVIOUS
    <3> HIDE DEF s
    <3>3. /\ DOMAIN snapshots' = 1..(Len(snapshots) + 1)
          /\ \A i \in 1..Len(snapshots) : snapshots'[i] = snapshots[i]
          /\ snapshots'[Len(snapshots) + 1] = s
      BY <2>5, <3>1
    <3>4. \A i \in 1..Len(snapshots) : snapshots[i].task # t
      BY <2>5, <3>1 DEF Captured
    <3>5. \A i, j \in DOMAIN snapshots' : snapshots'[i].task = snapshots'[j].task => i = j
      BY <3>1, <3>2, <3>3, <3>4 DEF RollbackInv
    <3>6. snapshots # << >> => snapshots'[1] = snapshots[1] /\ snapshots' # << >>
      BY <3>1, <3>3
    <3> QED BY <2>1, <2>2, <2>3, <3>5, <3>6 DEF RollbackInv, FilesAreFirst
  <2> QED BY <1>18, <2>4, <2>5 DEF Capture
<1>19. ASSUME NEW h \in Handlers, SaveResult(h)
      PROVE  RollbackInv'
  BY <1>19, <1>a, <1>b, RollbackStays DEF SaveResult, CallOf, Ops, PointsOf, MovesTo
<1>20. ASSUME NEW h \in Handlers, Hook(h)
      PROVE  RollbackInv'
  BY <1>20, <1>a, <1>b, RollbackStays DEF Hook, CallOf, Ops, PointsOf, Ends
<1>21. ASSUME NEW h \in Handlers, SaveStart(h)
      PROVE  RollbackInv'
  BY <1>21, <1>a, <1>b, RollbackStays DEF SaveStart, CallOf, Ops, PointsOf, SaveLoop
<1>22. ASSUME NEW h \in Handlers, SaveStarted(h)
      PROVE  RollbackInv'
  BY <1>22, <1>a, <1>b, RollbackStays DEF SaveStarted, CallOf, Ops, PointsOf, SaveLoop, Ends
<1>23. ASSUME NEW h \in Handlers, NEW verdict \in {"completed", "failed"}, BeginVerify(h, verdict)
      PROVE  RollbackInv'
  BY <1>23, <1>a, <1>b, RollbackStays DEF BeginVerify, CallOf, Ops, PointsOf, Begins
<1>24. ASSUME NEW h \in Handlers, SaveVerdict(h)
      PROVE  RollbackInv'
  BY <1>24, <1>a, <1>b, RollbackStays DEF SaveVerdict, CallOf, Ops, PointsOf, SaveLoop, Ends, MovesTo
<1>25. ASSUME NEW h \in Handlers, QueueLearning(h)
      PROVE  RollbackInv'
  BY <1>25, <1>a, <1>b, RollbackStays DEF QueueLearning, CallOf, Ops, PointsOf
<1>26. ASSUME NEW h \in Handlers, SaveMemory(h)
      PROVE  RollbackInv'
  BY <1>26, <1>a, <1>b, RollbackStays DEF SaveMemory, CallOf, Ops, PointsOf, SaveLoop, Ends
<1>27. ASSUME NEW h \in Handlers, BeginRecover(h)
      PROVE  RollbackInv'
  BY <1>27, <1>a, <1>b, RollbackStays DEF BeginRecover, CallOf, Ops, PointsOf, Begins
<1>28. ASSUME NEW h \in Handlers, SaveRecovered(h)
      PROVE  RollbackInv'
  BY <1>28, <1>a, <1>b, RollbackStays DEF SaveRecovered, CallOf, Ops, PointsOf, SaveLoop, Ends
<1>29. ASSUME NEW h \in Handlers, BeginRollback(h)
      PROVE  RollbackInv'
  <2> DEFINE c == CallOf("rollback", "restore", None, None, loop, TRUE, Captured)
  <2>1. c.op = "rollback" /\ c.at = "restore" /\ c.todo = Captured
    BY DEF CallOf
  <2>2. Becomes(h, c) /\ Captured # {} /\ UNCHANGED snapshots
    BY <1>29 DEF BeginRollback, Begins
  <2> HIDE DEF c
  <2>3. \A g \in Handlers : call'[g] = IF g = h THEN c ELSE call[g]
    BY <2>2 DEF Becomes, TypeInv, TypeOK
  <2>4. snapshots # << >> /\ snapshots[1].task \in Captured
    BY <2>2 DEF Captured, TypeInv, TypeOK
  <2> QED BY <2>1, <2>2, <2>3, <2>4 DEF RollbackInv
<1>30. ASSUME NEW h \in Handlers, Restore(h)
      PROVE  RollbackInv'
  <2> DEFINE todo == call[h].todo
             i == LatestOf(todo)
             left == todo \ {snapshots[i].task}
             c == CallOf("rollback", "restore", None, None, call[h].copy, TRUE, left)
  <2>1. call[h].op = "rollback" /\ call[h].at = "restore" /\ todo # {}
    BY <1>30, <1>a DEF Restore, Ops, PointsOf
  <2>2. /\ snapshots \in Seq(Snapshot) /\ todo \subseteq Captured
        /\ snapshots[1].task \in todo /\ 1 \in DOMAIN snapshots
    BY <2>1 DEF RollbackInv, TypeInv, TypeOK
  <2>3. /\ i \in DOMAIN snapshots /\ snapshots[i].task \in todo
        /\ \A j \in DOMAIN snapshots : snapshots[j].task \in todo => j <= i
    BY <2>1, <2>2, LatestIsLast
  <2>4. c.op = "rollback" /\ c.at = "restore" /\ c.todo = left
    BY DEF CallOf
  <2>5. Becomes(h, c) /\ file' = snapshots[i].files /\ UNCHANGED <<snapshots, edited>>
    BY <1>30 DEF Restore
  <2> HIDE DEF c, i
  <2>6. \A g \in Handlers : call'[g] = IF g = h THEN c ELSE call[g]
    BY <2>5 DEF Becomes, TypeInv, TypeOK
  <2>7. CASE i = 1
    <3>1. \A u \in left : FALSE
      BY <2>2, <2>3, <2>7 DEF RollbackInv, Captured
    <3>2. left = {}
      BY <3>1
    <3>3. \A f \in Files \ edited : file'[f] = snapshots[1].files[f]
      BY <2>5, <2>7
    <3>4. c.op = "rollback" /\ c.todo = {}
      BY <2>4, <3>2
    <3> HIDE DEF left, todo
    <3>5. /\ \A j, k \in DOMAIN snapshots' : snapshots'[j].task = snapshots'[k].task => j = k
          /\ snapshots' # << >>
      BY <2>1, <2>5 DEF RollbackInv
    <3>6. \A g \in Handlers : call'[g].op = "rollback" /\ call'[g].todo # {} =>
            call'[g].at = "restore" /\ snapshots'[1].task \in call'[g].todo
      BY <2>5, <2>6, <3>4 DEF RollbackInv
    <3>7. \A f \in Files \ edited' : file'[f] = snapshots'[1].files[f]
      BY <2>5, <3>3
    <3> QED BY <3>5, <3>6, <3>7 DEF RollbackInv, FilesAreFirst
  <2>8. CASE i # 1
    <3>1. snapshots[1].task \in left
      BY <2>2, <2>3, <2>8 DEF RollbackInv
    <3> HIDE DEF left
    <3> QED BY <2>1, <2>4, <2>5, <2>6, <3>1 DEF RollbackInv
  <2> QED BY <2>7, <2>8
<1>31. ASSUME NEW h \in Handlers, RestoreDone(h)
      PROVE  RollbackInv'
  <2>1. call[h].op = "rollback" /\ call[h].todo = {}
    BY <1>31, <1>a DEF RestoreDone, Ops, PointsOf
  <2>2. CASE MovesTo(h, "mark")
    BY <1>31, <2>1, <2>2, RollbackGoesOn DEF RestoreDone, MovesTo, CallOf
  <2>3. CASE Ends(h)
    BY <1>31, <2>1, <2>3, <1>b, RollbackStays DEF RestoreDone, Ends
  <2> QED BY <1>31, <2>2, <2>3 DEF RestoreDone
<1>32. ASSUME NEW h \in Handlers, MarkRolledBack(h)
      PROVE  RollbackInv'
  <2>1. call[h].op = "rollback" /\ call[h].todo = {}
    BY <1>32, <1>a DEF MarkRolledBack, Ops, PointsOf, RollbackInv
  <2>2. CASE LoopMoves(call[h].copy.status, "rolled_back")
    BY <1>32, <2>1, <2>2, RollbackGoesOn DEF MarkRolledBack, CallOf
  <2>3. CASE ~LoopMoves(call[h].copy.status, "rolled_back")
    BY <1>32, <2>1, <2>3, <1>b, RollbackStays DEF MarkRolledBack, Ends
  <2> QED BY <2>2, <2>3
<1>33. ASSUME NEW h \in Handlers, SaveRolledBack(h)
      PROVE  RollbackInv'
  <2>1. call[h].op = "rollback" /\ call[h].todo = {}
    BY <1>33, <1>a DEF SaveRolledBack, Ops, PointsOf, RollbackInv
  <2> QED BY <1>33, <2>1, <1>b, RollbackStays DEF SaveRolledBack, SaveLoop, Ends
<1>34. ASSUME NEW f \in Files, NEW content \in Contents, EditFile(f, content)
      PROVE  RollbackInv'
  <2>1. \A g \in Files \ edited' : g \in Files \ edited /\ file'[g] = file[g]
    BY <1>34 DEF EditFile, TypeInv, TypeOK, FileStates
  <2>2. UNCHANGED <<snapshots, call>>
    BY <1>34 DEF EditFile
  <2> QED BY <2>1, <2>2 DEF RollbackInv, FilesAreFirst
<1>35. CASE Crash
  BY <1>35, <1>b DEF Crash, RollbackInv
<1>36. CASE UNCHANGED vars
  BY <1>36 DEF vars, RollbackInv, FilesAreFirst
<1>37. QED
  BY <1>1, <1>2, <1>3, <1>4, <1>5, <1>6, <1>7, <1>8, <1>9, <1>10, <1>11, <1>12, <1>13,
     <1>14, <1>15, <1>16, <1>17, <1>18, <1>19, <1>20, <1>21, <1>22, <1>23, <1>24, <1>25,
     <1>26, <1>27, <1>28, <1>29, <1>30, <1>31, <1>32, <1>33, <1>34, <1>35, <1>36
  DEF Next, Begin, Continue

(* When a rollback has restored the files, and no other one is under way,  *)
(* a file that nobody edited meanwhile is as it was before the first task  *)
(* ran (rollback.py restores the snapshots in reverse order).              *)
THEOREM RollbackUndoesAll == Spec => []RestoreUndoesAllTasks
<1>1. Init => RollbackInv
  BY DEF Init, RollbackInv, Idle, CallOf
<1>2. TypeInv /\ RollbackInv /\ [Next]_vars => RollbackInv'
  BY RollbackStep
<1>3. TypeInv /\ RollbackInv => RestoreUndoesAllTasks
  <2> SUFFICES ASSUME TypeInv, RollbackInv, NEW h \in Handlers, call[h].at \in {"mark", "rolled_back"},
                      \A g \in Handlers \ {h} : call[g].op # "rollback"
               PROVE  FilesAreFirst
    BY DEF RestoreUndoesAllTasks, FilesAreFirst
  <2>1. call[h].op = "rollback" /\ call[h].todo = {}
    <3>1. call[h].at \in PointsOf[call[h].op] /\ call[h].op \in Ops
      BY DEF TypeInv, TypeOK, CallOK, Calls
    <3> QED BY <3>1 DEF Ops, PointsOf, RollbackInv
  <2> QED BY <2>1 DEF RollbackInv
<1> QED BY <1>1, <1>2, <1>3, TypesHold, PTL DEF Spec

-----------------------------------------------------------------------------
(* What is recorded while no two requests are served at once: when the one *)
(* call there is has nothing left to learn or to tell the loop, it is all  *)
(* there.  A verdict comes once, so that the queue is told once.           *)

Recording == {"verifying", "finish", "hook", "start"}

RecordInv ==
  ~overlap =>
    /\ learning <= 1
    /\ loop.status \notin {"completed", "failed", "rolled_back"} => learning = 0 /\ loop.memory = FALSE
    /\ \A h \in Handlers :
         /\ call[h].at = "learn" => learning = 0
         /\ call[h].at = "remember" => learning = 1
    /\ restarts = 0 =>
         /\ loop.status \in {"completed", "failed"} /\ (\A h \in Handlers : call[h].at # "learn")
              => learning = 1
         /\ loop.status \in {"absent", "planning"} => loop.proposal = None
         /\ loop.status = "proposal_ready" =>
              /\ \E h \in Handlers : call[h].at = "wait"
              /\ loop.proposal # None => results[loop.proposal] = 0
         /\ \A h \in Handlers : call[h].at \in {"require", "ready"} => results[call[h].proposal] = 0
         /\ loop.status = "waiting_approval" /\ loop.proposal # None
              /\ (\A h \in Handlers : call[h].at \notin Recording)
              => results[loop.proposal] = 0 \/ loop.result # None

(* A call that neither says nor learns anything.                           *)
LEMMA RecordStays ==
  ASSUME TypeInv, RecordInv, NEW h \in Handlers, NEW c, Becomes(h, c),
         UNCHANGED <<loop, learning, results, restarts>>, ~overlap' => ~overlap,
         c.at \notin {"learn", "remember", "require", "ready"},
         call[h].at \notin {"learn", "wait"},
         call[h].at \in Recording => c.at \in Recording \/ loop.status # "waiting_approval"
  PROVE  RecordInv'
<1>1. \A g \in Handlers : call'[g] = IF g = h THEN c ELSE call[g]
  BY DEF Becomes, TypeInv, TypeOK
<1>2. QED
  BY <1>1 DEF RecordInv

(* Every step keeps it; what each thread may do alone is recorded.         *)
LEMMA RecordStep ==
  ASSUME TypeInv, RestInv, AloneInv, RecordInv, [Next]_vars
  PROVE  RecordInv'
<1>a. /\ loop \in Loop /\ loop.status \in LoopStatus /\ learning \in Nat /\ restarts \in Nat
      /\ \A h \in Handlers :
           /\ call[h].at \in PointsOf[call[h].op] /\ call[h].op \in Ops
           /\ ~overlap => Fresh(call[h], loop)
  BY BoundAssumption DEF TypeInv, TypeOK, CallOK, Calls, Loop, AloneInv
<1>b. Idle.at = "idle"
  BY DEF Idle, CallOf
<1>c. ASSUME NEW h \in Handlers, ~At(h, "idle"), ~overlap
      PROVE  \A g \in Handlers : g /= h => call[g].at = "idle"
  BY <1>c DEF AloneInv, At
<1>d. ASSUME NEW h \in Handlers, NEW c, Becomes(h, c)
      PROVE  \A g \in Handlers : call'[g] = IF g = h THEN c ELSE call[g]
  BY <1>d DEF Becomes, TypeInv, TypeOK
<1> USE DEF At, rows, history, Recording
<1>1. ASSUME NEW h \in Handlers, BeginCreate(h)
      PROVE  RecordInv'
  BY <1>1, <1>a, <1>b, RecordStays DEF BeginCreate, CallOf, Ops, PointsOf, Begins
<1>2. ASSUME NEW h \in Handlers, BeginReplan(h)
      PROVE  RecordInv'
  BY <1>2, <1>a, <1>b, RecordStays DEF BeginReplan, CallOf, Ops, PointsOf, Begins
<1>3. ASSUME NEW h \in Handlers, NEW t \in Tasks, PlanTask(h, t)
      PROVE  RecordInv'
  BY <1>3, <1>a, <1>b, RecordStays DEF PlanTask, CallOf, Ops, PointsOf
<1>4. ASSUME NEW h \in Handlers, SavePlanned(h)
      PROVE  RecordInv'
  <2> DEFINE doc == LoopOf("planning", None, None, FALSE)
  <2>1. doc.status = "planning" /\ doc.proposal = None /\ doc.memory = FALSE
    BY DEF LoopOf
  <2>2. Becomes(h, Idle) /\ loop' = doc /\ UNCHANGED <<learning, results, restarts, overlap>>
    BY <1>4 DEF SavePlanned, SaveLoop, Ends
  <2>3. call[h].at = "plan" /\ (~overlap => loop.status = "absent")
    BY <1>4, <1>a DEF SavePlanned, Fresh
  <2> HIDE DEF doc
  <2> QED BY <2>1, <2>2, <2>3, <1>b, <1>c, <1>d DEF RecordInv
<1>5. ASSUME NEW h \in Handlers, Replanned(h)
      PROVE  RecordInv'
  BY <1>5, <1>a, <1>b, RecordStays DEF Replanned, CallOf, Ops, PointsOf, Ends
<1>6. ASSUME NEW h \in Handlers, NEW t \in Tasks, BeginPropose(h, t)
      PROVE  RecordInv'
  BY <1>6, <1>a, <1>b, RecordStays DEF BeginPropose, CallOf, Ops, PointsOf, Begins
<1>7. ASSUME NEW h \in Handlers, BeginPrepare(h)
      PROVE  RecordInv'
  BY <1>7, <1>a, <1>b, RecordStays DEF BeginPrepare, CallOf, Ops, PointsOf, Begins
<1>8. ASSUME NEW h \in Handlers, Draft(h)
      PROVE  RecordInv'
  BY <1>8, <1>a, <1>b, RecordStays DEF Draft, CallOf, Ops, PointsOf
<1>9. ASSUME NEW h \in Handlers, NEW p \in Proposals, SaveProposal(h, p)
      PROVE  RecordInv'
  <2> DEFINE c == call[h]
             next == CallOf(c.op, "require", c.task, p, c.copy, TRUE, {})
  <2>1. next.at = "require" /\ next.proposal = p
    BY DEF CallOf
  <2>2. results[p] = 0
    <3>1. proposal[p] = None /\ results[p] \in Nat
      BY <1>9 DEF SaveProposal, TypeInv, TypeOK
    <3>2. None \notin Captured
      <4>1. \A i \in DOMAIN snapshots : snapshots[i] \in Snapshot
        BY DEF TypeInv, TypeOK
      <4> QED BY <4>1, NoneAssumption DEF Captured, Snapshot
    <3> QED BY <3>1, <3>2 DEF RestInv
  <2>3. call[h].at = "propose" /\ UNCHANGED <<loop, learning, results, restarts, overlap>>
    BY <1>9 DEF SaveProposal
  <2>4. CASE c.ok
    <3>1. Becomes(h, next)
      BY <1>9, <2>4 DEF SaveProposal
    <3> HIDE DEF next
    <3> QED BY <2>1, <2>2, <2>3, <3>1, <1>d DEF RecordInv
  <2>5. CASE ~c.ok
    <3>1. Becomes(h, Idle)
      BY <1>9, <2>5 DEF SaveProposal, Ends
    <3> QED BY <2>3, <3>1, <1>b, RecordStays
  <2> QED BY <2>4, <2>5
<1>10. ASSUME NEW h \in Handlers, RequireApproval(h)
      PROVE  RecordInv'
  <2> DEFINE c == call[h]
             doc == LoopOf("proposal_ready", c.proposal, c.copy.result, c.copy.memory)
             next == CallOf("prepare", "ready", c.task, c.proposal, doc, TRUE, {})
             goes == c.op = "prepare" /\ LoopMoves(c.copy.status, "proposal_ready")
  <2>1. next.at = "ready" /\ next.proposal = c.proposal
    BY DEF CallOf
  <2>2. call[h].at = "require" /\ UNCHANGED <<loop, learning, results, restarts, overlap>>
    BY <1>10 DEF RequireApproval
  <2>3. CASE goes
    <3>1. Becomes(h, next)
      BY <1>10, <2>3 DEF RequireApproval
    <3> HIDE DEF next
    <3> QED BY <2>1, <2>2, <3>1, <1>d DEF RecordInv
  <2>4. CASE ~goes
    <3>1. Becomes(h, Idle)
      BY <1>10, <2>4 DEF RequireApproval, Ends
    <3> QED BY <2>2, <3>1, <1>b, RecordStays
  <2> QED BY <2>3, <2>4
<1>11. ASSUME NEW h \in Handlers, SaveReady(h)
      PROVE  RecordInv'
  <2> DEFINE c == call[h]
             next == CallOf("prepare", "wait", c.task, c.proposal,
                            WithStatus(c.copy, "waiting_approval"), TRUE, {})
  <2>1. next.at = "wait"
    BY DEF CallOf
  <2>2. c.at = "ready" /\ Becomes(h, next) /\ loop' = c.copy
        /\ UNCHANGED <<learning, results, restarts, overlap>>
    BY <1>11 DEF SaveReady, SaveLoop
  <2>3. ~overlap =>
          /\ loop.status = "planning" /\ c.copy.status = "proposal_ready"
          /\ c.copy.proposal = c.proposal /\ c.copy.memory = loop.memory
    BY <2>2, <1>a DEF Fresh
  <2> HIDE DEF next
  <2> QED BY <2>1, <2>2, <2>3, <1>c, <1>d DEF RecordInv
<1>12. ASSUME NEW h \in Handlers, SaveWaiting(h)
      PROVE  RecordInv'
  <2> DEFINE c == call[h]
  <2>1. c.at = "wait" /\ Becomes(h, Idle) /\ loop' = c.copy
        /\ UNCHANGED <<learning, results, restarts, overlap>>
    BY <1>12 DEF SaveWaiting, SaveLoop, Ends
  <2>2. ~overlap => /\ loop.status = "proposal_ready" /\ c.copy.status = "waiting_approval"
                  /\ c.copy.proposal = loop.proposal /\ c.copy.memory = loop.memory
    BY <2>1, <1>a DEF Fresh, Edits
  <2> QED BY <2>1, <2>2, <1>b, <1>c, <1>d DEF RecordInv
<1>13. ASSUME NEW h \in Handlers, NEW p \in Proposals, BeginExecute(h, p)
      PROVE  RecordInv'
  BY <1>13, <1>a, <1>b, RecordStays DEF BeginExecute, CallOf, Ops, PointsOf, Begins
<1>14. ASSUME NEW h \in Handlers, SaveApproved(h)
      PROVE  RecordInv'
  BY <1>14, <1>a, <1>b, RecordStays DEF SaveApproved, CallOf, Ops, PointsOf, SaveTask, MovesTo
<1>15. ASSUME NEW h \in Handlers, SaveExecuting(h)
      PROVE  RecordInv'
  BY <1>15, <1>a, <1>b, RecordStays DEF SaveExecuting, CallOf, Ops, PointsOf, SaveTask, MovesTo
<1>16. ASSUME NEW h \in Handlers, SaveVerifying(h)
      PROVE  RecordInv'
  BY <1>16, <1>a, <1>b, RecordStays DEF SaveVerifying, CallOf, Ops, PointsOf, SaveTask, MovesTo
<1>17. ASSUME NEW h \in Handlers, SaveCompleted(h)
      PROVE  RecordInv'
  BY <1>17, <1>a, <1>b, RecordStays DEF SaveCompleted, CallOf, Ops, PointsOf, SaveTask, MovesTo
<1>18. ASSUME NEW h \in Handlers, Capture(h)
      PROVE  RecordInv'
  <2>1. CASE MovesTo(h, "run")
    BY <1>18, <2>1, <1>a, RecordStays DEF Capture, MovesTo, CallOf
  <2>2. CASE Ends(h)
    BY <1>18, <2>2, <1>b, RecordStays DEF Capture, Ends
  <2> QED BY <1>18, <2>1, <2>2 DEF Capture
<1>19. ASSUME NEW h \in Handlers, SaveResult(h)
      PROVE  RecordInv'
  <2> DEFINE c == call[h]
             next == CallOf(c.op, "verifying", c.task, c.proposal, c.copy, c.ok, c.todo)
  <2>1. next.at = "verifying"
    BY DEF CallOf
  <2>2. c.at = "result" /\ Becomes(h, next) /\ UNCHANGED <<loop, learning, restarts, overlap>>
    BY <1>19 DEF SaveResult, MovesTo
  <2> HIDE DEF next
  <2> QED BY <2>1, <2>2, <1>c, <1>d DEF RecordInv
<1>20. ASSUME NEW h \in Handlers, Hook(h)
      PROVE  RecordInv'
  <2>1. CASE LoopMoves(loop.status, "executing")
    BY <1>20, <2>1, RecordStays DEF Hook, CallOf
  <2>2. CASE ~LoopMoves(loop.status, "executing")
    <3>1. loop.status # "waiting_approval"
      BY <2>2 DEF LoopMoves, LoopTransitions
    <3> QED BY <1>20, <2>2, <3>1, <1>b, RecordStays DEF Hook, Ends
  <2> QED BY <2>1, <2>2
<1>21. ASSUME NEW h \in Handlers, SaveStart(h)
      PROVE  RecordInv'
  <2> DEFINE c == call[h]
             next == CallOf("execute", "started", c.task, c.proposal,
                            WithStatus(c.copy, "verifying"), TRUE, {})
  <2>1. next.at = "started"
    BY DEF CallOf
  <2>2. c.at = "start" /\ Becomes(h, next) /\ loop' = c.copy
        /\ UNCHANGED <<learning, results, restarts, overlap>>
    BY <1>21 DEF SaveStart, SaveLoop
  <2>3. ~overlap => /\ loop.status = "waiting_approval" /\ c.copy.status = "executing"
                    /\ c.copy.memory = loop.memory
    BY <2>2, <1>a DEF Fresh
  <2> HIDE DEF next
  <2> QED BY <2>1, <2>2, <2>3, <1>c, <1>d DEF RecordInv
<1>22. ASSUME NEW h \in Handlers, SaveStarted(h)
      PROVE  RecordInv'
  <2> DEFINE c == call[h]
  <2>1. c.at = "started" /\ Becomes(h, Idle) /\ loop' = c.copy
        /\ UNCHANGED <<learning, results, restarts, overlap>>
    BY <1>22 DEF SaveStarted, SaveLoop, Ends
  <2>2. ~overlap => /\ loop.status = "executing" /\ c.copy.status = "verifying"
                  /\ c.copy.memory = loop.memory
    BY <2>1, <1>a DEF Fresh, Edits
  <2> QED BY <2>1, <2>2, <1>b, <1>c, <1>d DEF RecordInv
<1>23. ASSUME NEW h \in Handlers, NEW verdict \in {"completed", "failed"}, BeginVerify(h, verdict)
      PROVE  RecordInv'
  BY <1>23, <1>a, <1>b, RecordStays DEF BeginVerify, CallOf, Ops, PointsOf, Begins
<1>24. ASSUME NEW h \in Handlers, SaveVerdict(h)
      PROVE  RecordInv'
  <2> DEFINE c == call[h]
             next == CallOf(c.op, "learn", c.task, c.proposal, c.copy, c.ok, c.todo)
  <2>1. next.at = "learn"
    BY DEF CallOf
  <2>2. c.at = "verdict" /\ loop' = c.copy /\ UNCHANGED <<learning, results, restarts, overlap>>
    BY <1>24 DEF SaveVerdict, SaveLoop
  <2>3. ~overlap => /\ loop.status \notin {"completed", "failed", "rolled_back"}
                    /\ c.copy.status \in {"completed", "failed"} /\ c.copy.memory = loop.memory
    BY <2>2, <1>a, MovesFrom DEF Fresh, Edits, Interrupted
  <2>4. Becomes(h, next) \/ c.copy.memory
    BY <1>24 DEF SaveVerdict, MovesTo
  <2>5. Becomes(h, next) \/ Becomes(h, Idle)
    BY <1>24 DEF SaveVerdict, MovesTo, Ends
  <2> HIDE DEF next
  <2>6. CASE overlap
    BY <2>2, <2>6 DEF RecordInv
  <2>7. CASE ~overlap
    <3>1. learning = 0 /\ loop.memory = FALSE /\ Becomes(h, next)
      BY <2>3, <2>4, <2>7 DEF RecordInv
    <3> QED BY <2>1, <2>2, <2>3, <2>7, <3>1, <1>c, <1>d DEF RecordInv
  <2> QED BY <2>6, <2>7
<1>25. ASSUME NEW h \in Handlers, QueueLearning(h)
      PROVE  RecordInv'
  <2> DEFINE doc == call[h].copy
             next == CallOf("verify", "remember", None, None,
                            LoopOf(doc.status, doc.proposal, doc.result, TRUE), TRUE, {})
  <2>1. next.at = "remember"
    BY DEF CallOf
  <2>2. /\ call[h].at = "learn" /\ Becomes(h, next) /\ learning' = learning + 1
        /\ UNCHANGED <<loop, results, restarts, overlap>>
    BY <1>25 DEF QueueLearning
  <2>3. ~overlap => loop.status \in {"completed", "failed"}
    BY <2>2, <1>a DEF Fresh
  <2> HIDE DEF next
  <2> QED BY <2>1, <2>2, <2>3, <1>c, <1>d DEF RecordInv
<1>26. ASSUME NEW h \in Handlers, SaveMemory(h)
      PROVE  RecordInv'
  <2> DEFINE c == call[h]
  <2>1. c.at = "remember" /\ Becomes(h, Idle) /\ loop' = c.copy
        /\ UNCHANGED <<learning, results, restarts, overlap>>
    BY <1>26 DEF SaveMemory, SaveLoop, Ends
  <2>2. ~overlap => /\ loop.status \in {"completed", "failed"} /\ c.copy.status = loop.status
    BY <2>1, <1>a DEF Fresh, Edits
  <2> QED BY <2>1, <2>2, <1>b, <1>c, <1>d DEF RecordInv
<1>27. ASSUME NEW h \in Handlers, BeginRecover(h)
      PROVE  RecordInv'
  BY <1>27, <1>a, <1>b, RecordStays DEF BeginRecover, CallOf, Ops, PointsOf, Begins
<1>28. ASSUME NEW h \in Handlers, SaveRecovered(h)
      PROVE  RecordInv'
  <2> DEFINE c == call[h]
  <2>1. c.at = "recovered" /\ Becomes(h, Idle) /\ loop' = c.copy
        /\ UNCHANGED <<learning, results, restarts, overlap>>
    BY <1>28 DEF SaveRecovered, SaveLoop, Ends
  <2>2. ~overlap => /\ loop.status \notin {"completed", "failed", "rolled_back"}
                  /\ c.copy.status = "recovered" /\ c.copy.memory = loop.memory
    BY <2>1, <1>a, MovesFrom DEF Fresh, Edits, Interrupted
  <2> QED BY <2>1, <2>2, <1>b, <1>c, <1>d DEF RecordInv
<1>29. ASSUME NEW h \in Handlers, BeginRollback(h)
      PROVE  RecordInv'
  BY <1>29, <1>a, <1>b, RecordStays DEF BeginRollback, CallOf, Ops, PointsOf, Begins
<1>30. ASSUME NEW h \in Handlers, Restore(h)
      PROVE  RecordInv'
  BY <1>30, <1>a, <1>b, RecordStays DEF Restore, CallOf, Ops, PointsOf
<1>31. ASSUME NEW h \in Handlers, RestoreDone(h)
      PROVE  RecordInv'
  <2>1. CASE MovesTo(h, "mark")
    BY <1>31, <2>1, RecordStays DEF RestoreDone, MovesTo, CallOf
  <2>2. CASE Ends(h)
    BY <1>31, <2>2, <1>b, RecordStays DEF RestoreDone, Ends
  <2> QED BY <1>31, <2>1, <2>2 DEF RestoreDone
<1>32. ASSUME NEW h \in Handlers, MarkRolledBack(h)
      PROVE  RecordInv'
  <2>1. CASE LoopMoves(call[h].copy.status, "rolled_back")
    BY <1>32, <2>1, RecordStays DEF MarkRolledBack, CallOf
  <2>2. CASE ~LoopMoves(call[h].copy.status, "rolled_back")
    BY <1>32, <2>2, <1>b, RecordStays DEF MarkRolledBack, Ends
  <2> QED BY <2>1, <2>2
<1>33. ASSUME NEW h \in Handlers, SaveRolledBack(h)
      PROVE  RecordInv'
  <2> DEFINE c == call[h]
  <2>1. c.at = "rolled_back" /\ Becomes(h, Idle) /\ loop' = c.copy
        /\ UNCHANGED <<learning, results, restarts, overlap>>
    BY <1>33 DEF SaveRolledBack, SaveLoop, Ends
  <2>2. ~overlap => c.copy.status = "rolled_back"
    BY <2>1, <1>a DEF Fresh, Edits
  <2> QED BY <2>1, <2>2, <1>b, <1>c, <1>d DEF RecordInv
<1>34. ASSUME NEW f \in Files, NEW content \in Contents, EditFile(f, content)
      PROVE  RecordInv'
  <2>1. UNCHANGED <<loop, call, overlap, learning, results, restarts>>
    BY <1>34 DEF EditFile
  <2> QED BY <2>1 DEF RecordInv
<1>35. CASE Crash
  <2>1. /\ UNCHANGED <<learning, results, overlap>> /\ restarts' = restarts + 1
        /\ \A h \in Handlers : call'[h] = Idle
    BY <1>35 DEF Crash
  <2>2. \/ loop' = loop
        \/ /\ loop.status \notin {"completed", "failed", "rolled_back"}
           /\ loop'.memory = loop.memory
    BY <1>35, EditedParts DEF Crash, Interrupted, Edits
  <2> QED BY <2>1, <2>2, <1>a, <1>b DEF RecordInv
<1>36. CASE UNCHANGED vars
  <2>1. UNCHANGED <<loop, call, overlap, learning, results, restarts>>
    BY <1>36 DEF vars
  <2> QED BY <2>1 DEF RecordInv
<1>37. QED
  BY <1>1, <1>2, <1>3, <1>4, <1>5, <1>6, <1>7, <1>8, <1>9, <1>10, <1>11, <1>12, <1>13,
     <1>14, <1>15, <1>16, <1>17, <1>18, <1>19, <1>20, <1>21, <1>22, <1>23, <1>24, <1>25,
     <1>26, <1>27, <1>28, <1>29, <1>30, <1>31, <1>32, <1>33, <1>34, <1>35, <1>36
  DEF Next, Begin, Continue

(* While requests come one by one, a loop whose own proposal was executed  *)
(* has a result unless it was recovered before, and exactly one learning   *)
(* memory is queued for a verdict (orchestrator.py on_executed, verify);   *)
(* a crash may lose that memory and never repeats it.                      *)
THEOREM RunsWereRecorded == Spec => []RunsAreRecorded
<1>1. Init => AloneInv /\ RecordInv
  <2> SUFFICES ASSUME Init
               PROVE  AloneInv /\ RecordInv
    OBVIOUS
  <2>1. /\ ~overlap /\ learning = 0 /\ loop.status = "absent" /\ loop.memory = FALSE
        /\ loop.proposal = None /\ \A h \in Handlers : call[h] = Idle
    BY DEF Init, NoLoop, LoopOf
  <2>2. \A h \in Handlers : call[h].at = "idle"
    BY <2>1 DEF Idle, CallOf
  <2>3. AloneInv
    BY <2>2 DEF AloneInv, At, Fresh
  <2>4. RecordInv
    BY <2>1, <2>2 DEF RecordInv
  <2> QED BY <2>3, <2>4
<1>2. TypeInv /\ AloneInv /\ [Next]_vars => AloneInv'
  BY AloneStep
<1>3. TypeInv /\ RestInv /\ AloneInv /\ RecordInv /\ [Next]_vars => RecordInv'
  BY RecordStep
<1>4. TypeInv /\ RestInv /\ RecordInv => RunsAreRecorded
  <2> SUFFICES ASSUME TypeInv, RestInv, RecordInv
               PROVE  OwnExecutionIsRecorded /\ LearnsOnce
    BY DEF RunsAreRecorded, TypeInv
  <2>1. LearnsOnce
    BY DEF LearnsOnce, RecordInv, Quiet, At
  <2>2. ASSUME Quiet, ~overlap, restarts = 0, loop.proposal # None,
               results[loop.proposal] # 0, loop.result = None
        PROVE  loop.status \in {"recovered", "rolled_back"}
    <3>1. loop.status \notin {"executing", "verifying", "completed", "failed"}
      BY <2>2 DEF RestInv, Rests
    <3>2. \A h \in Handlers : call[h].at = "idle"
      BY <2>2 DEF Quiet, At
    <3>3. loop.status \notin {"absent", "planning", "proposal_ready", "waiting_approval"}
      BY <2>2, <3>2 DEF RecordInv, Recording
    <3>4. loop.status \in LoopStatus
      BY DEF TypeInv, TypeOK, Loop
    <3> QED BY <3>1, <3>3, <3>4 DEF LoopStatus, LoopTransitions
  <2>3. OwnExecutionIsRecorded
    BY <2>2 DEF OwnExecutionIsRecorded
  <2> QED BY <2>1, <2>3
<1> QED BY <1>1, <1>2, <1>3, <1>4, TypesHold, RestsHold, PTL DEF Spec

-----------------------------------------------------------------------------
(* A planning of a task pays for one run of it.  The task that is held by  *)
(* one thread only is where that thread left it; while it is on its way to *)
(* a run, the run is paid for and not yet made.                            *)

Holding == {"propose", "require", "approve", "snapshot", "run", "result", "verifying", "finish"}
ToRun == {"snapshot", "run", "result"}

(* Where the task is whose copy the call c holds.                          *)
LeftAt(c, st) ==
  /\ (c.at = "propose" /\ c.ok) \/ c.at = "require" => st = "proposed"
  /\ c.at = "approve" => st = "approval_required"
  /\ c.at \in {"snapshot", "run"} => st = "approved"
  /\ c.at \in {"result", "verifying"} => st = "executing"
  /\ c.at = "finish" => st = "verifying"

Paid(t) == Cardinality(ResultRows(t)) + 1 <= planned[t]

HeldByNoOther(h, t) == \A g \in Handlers : g /= h => ~(call[g].task = t /\ call[g].at \in Holding)

PlanInv ==
  /\ \A t \in Tasks : IsFiniteSet(ResultRows(t))
  /\ \A h \in Handlers : call[h].at \in Holding => call[h].task \in Tasks
  /\ \A t \in Tasks : t \notin contended =>
       /\ Cardinality(ResultRows(t)) <= planned[t]
       /\ task[t] \in {"proposed", "approval_required"} => Paid(t)
       /\ \A h \in Handlers : call[h].task = t /\ call[h].at \in Holding =>
            /\ LeftAt(call[h], task[t])
            /\ HeldByNoOther(h, t)
            /\ call[h].at \in ToRun => Paid(t)

(* A step of one thread after which every task is where it should be.      *)
LEMMA PlanKeeps ==
  ASSUME TypeInv, PlanInv, NEW h \in Handlers, NEW c, Becomes(h, c),
         contended \subseteq contended',
         c.at \in Holding => c.task \in Tasks, \A t \in Tasks : IsFiniteSet(ResultRows(t)'),
         \A t \in Tasks : t \notin contended' =>
           /\ Cardinality(ResultRows(t)') <= planned'[t]
           /\ task'[t] \in {"proposed", "approval_required"} =>
                Cardinality(ResultRows(t)') + 1 <= planned'[t]
           /\ \/ task'[t] = task[t] /\ ResultRows(t)' = ResultRows(t) /\ planned'[t] = planned[t]
              \/ HeldByNoOther(h, t)
           /\ c.task = t /\ c.at \in Holding =>
                /\ LeftAt(c, task'[t])
                /\ HeldByNoOther(h, t)
                /\ c.at \in ToRun => Cardinality(ResultRows(t)') + 1 <= planned'[t]
  PROVE  PlanInv'
<1>1. \A g \in Handlers : call'[g] = IF g = h THEN c ELSE call[g]
  BY DEF Becomes, TypeInv, TypeOK
<1>2. ASSUME NEW t \in Tasks, t \notin contended', NEW g \in Handlers,
             call'[g].task = t, call'[g].at \in Holding
      PROVE  /\ LeftAt(call'[g], task'[t])
             /\ \A f \in Handlers : f /= g => ~(call'[f].task = t /\ call'[f].at \in Holding)
             /\ call'[g].at \in ToRun => Cardinality(ResultRows(t)') + 1 <= planned'[t]
  <2>1. CASE g = h
    BY <1>1, <1>2, <2>1 DEF HeldByNoOther
  <2>2. CASE g # h
    <3>1. call'[g] = call[g] /\ call[g].task = t /\ call[g].at \in Holding
      BY <1>1, <1>2, <2>2
    <3>2. ~HeldByNoOther(h, t)
      BY <3>1, <2>2 DEF HeldByNoOther
    <3>3. task'[t] = task[t] /\ ResultRows(t)' = ResultRows(t) /\ planned'[t] = planned[t]
      BY <1>2, <3>2
    <3>4. ~(c.task = t /\ c.at \in Holding)
      BY <1>2, <3>2
    <3>5. /\ LeftAt(call[g], task[t]) /\ HeldByNoOther(g, t)
          /\ call[g].at \in ToRun => Paid(t)
      BY <1>2, <3>1 DEF PlanInv
    <3> QED BY <1>1, <3>1, <3>3, <3>4, <3>5 DEF HeldByNoOther, Paid
  <2> QED BY <2>1, <2>2
<1>3. \A g \in Handlers : call'[g].at \in Holding => call'[g].task \in Tasks
  BY <1>1 DEF PlanInv
<1> QED BY <1>2, <1>3 DEF PlanInv, Paid, HeldByNoOther

(* In particular one that leaves the tasks and their rows alone.           *)
LEMMA PlanStays ==
  ASSUME TypeInv, PlanInv, NEW h \in Handlers, NEW c, Becomes(h, c),
         contended \subseteq contended', UNCHANGED <<task, planned, proposal, results>>,
         c.at \in Holding => c.task \in Tasks,
         \A t \in Tasks : t \notin contended' /\ c.task = t /\ c.at \in Holding =>
           /\ LeftAt(c, task[t])
           /\ HeldByNoOther(h, t)
           /\ c.at \in ToRun => Paid(t)
  PROVE  PlanInv'
<1>1. \A t \in Tasks : ResultRows(t)' = ResultRows(t)
  BY DEF ResultRows
<1> QED BY <1>1, PlanKeeps DEF PlanInv, Paid

(* And one that writes a task that no other thread holds.                  *)
LEMMA PlanWrites ==
  ASSUME TypeInv, PlanInv, NEW h \in Handlers, NEW c, Becomes(h, c), NEW u \in Tasks, NEW st,
         UNCHANGED <<planned, proposal, results, contended>>, task' = [task EXCEPT ![u] = st],
         u \notin contended => HeldByNoOther(h, u),
         u \notin contended /\ st \in {"proposed", "approval_required"} => Paid(u),
         c.at \in Holding => c.task = u,
         u \notin contended /\ c.at \in Holding => LeftAt(c, st) /\ (c.at \in ToRun => Paid(u))
  PROVE  PlanInv'
<1>1. \A t \in Tasks : ResultRows(t)' = ResultRows(t)
  BY DEF ResultRows
<1>2. \A t \in Tasks : task'[t] = IF t = u THEN st ELSE task[t]
  BY DEF TypeInv, TypeOK
<1> QED BY <1>1, <1>2, PlanKeeps DEF PlanInv, Paid

(* One more row of a proposal.                                             *)
LEMMA OneMoreRow ==
  ASSUME TypeInv, NEW q \in Proposals, results' = [results EXCEPT ![q] = @ + 1],
         proposal' = proposal, NEW t \in Tasks
  PROVE  /\ proposal[q] # t => ResultRows(t)' = ResultRows(t)
         /\ proposal[q] = t => ResultRows(t)' = ResultRows(t) \cup {<<q, results[q] + 1>>}
<1>1. \A p \in Proposals :
        results[p] \in Nat /\ results'[p] = IF p = q THEN results[p] + 1 ELSE results[p]
  BY DEF TypeInv, TypeOK
<1>2. ASSUME proposal[q] # t
      PROVE  ResultRows(t)' = ResultRows(t)
  BY <1>1, <1>2 DEF ResultRows
<1>3. ASSUME proposal[q] = t
      PROVE  ResultRows(t)' = ResultRows(t) \cup {<<q, results[q] + 1>>}
  <2>1. 1..(results[q] + 1) = (1..results[q]) \cup {results[q] + 1}
    BY <1>1
  <2>2. {q} \X (1..results'[q]) = ({q} \X (1..results[q])) \cup {<<q, results[q] + 1>>}
    BY <1>1, <2>1
  <2>3. \A p \in Proposals : p # q => {p} \X (1..results'[p]) = {p} \X (1..results[p])
    BY <1>1
  <2> QED BY <1>3, <2>2, <2>3 DEF ResultRows
<1> QED BY <1>2, <1>3

(* A proposal that is saved has no rows yet.                               *)
LEMMA NoRowsYet ==
  ASSUME TypeInv, NEW q \in Proposals, results[q] = 0, NEW u, proposal' = [proposal EXCEPT ![q] = u],
         results' = results, NEW t \in Tasks
  PROVE  ResultRows(t)' = ResultRows(t)
<1>1. {q} \X (1..results[q]) = {}
  OBVIOUS
<1>2. \A p \in Proposals : p # q => proposal'[p] = proposal[p]
  BY DEF TypeInv, TypeOK
<1> QED BY <1>1, <1>2 DEF ResultRows

(* Every step keeps it: only a planning pays, and only SaveResult spends.  *)
LEMMA PlanStep ==
  ASSUME TypeInv, RestInv, PlanInv, [Next]_vars
  PROVE  PlanInv'
<1>a. /\ \A h \in Handlers :
           /\ call[h].at \in PointsOf[call[h].op] /\ call[h].op \in Ops
           /\ call[h].at \in Holding => call[h].task \in Tasks
           /\ call[h].op = "execute" => call[h].proposal \in Proposals
                 /\ proposal[call[h].proposal] = call[h].task
  BY DEF TypeInv, TypeOK, CallOK, Calls, RestInv, CallRests, PlanInv
<1>b. Idle.at = "idle"
  BY DEF Idle, CallOf
<1>c. ASSUME NEW h \in Handlers, call[h].at \in Holding, call[h].task \notin contended
      PROVE  /\ LeftAt(call[h], task[call[h].task])
             /\ HeldByNoOther(h, call[h].task)
             /\ call[h].at \in ToRun => Paid(call[h].task)
             /\ task[call[h].task] \in {"proposed", "approval_required"} => Paid(call[h].task)
  BY <1>a, <1>c DEF PlanInv
(* A thread that loads a task; one that holds none.                        *)
<1>d. ASSUME NEW h \in Handlers, NEW t \in Tasks, Loads(h, t)
      PROVE  /\ contended \subseteq contended'
             /\ \A u \in Tasks : u \notin contended' /\ u = t => HeldByNoOther(h, u)
  BY <1>d DEF Loads, HoldsTask, HeldByNoOther, Holding
<1>e. ASSUME NEW h \in Handlers, NEW c, Becomes(h, c), c.at \notin Holding,
             UNCHANGED <<task, planned, proposal, results, contended>>
      PROVE  PlanInv'
  BY <1>e, PlanStays
<1> USE DEF At, rows, history
<1>1. ASSUME NEW h \in Handlers, BeginCreate(h)
      PROVE  PlanInv'
  BY <1>1, <1>b, <1>e DEF BeginCreate, CallOf, Holding, Begins
<1>2. ASSUME NEW h \in Handlers, BeginReplan(h)
      PROVE  PlanInv'
  BY <1>2, <1>b, <1>e DEF BeginReplan, CallOf, Holding, Begins
<1>3. ASSUME NEW h \in Handlers, NEW t \in Tasks, PlanTask(h, t)
      PROVE  PlanInv'
  <2> DEFINE c == CallOf(call[h].op, "plan", None, None, NoLoop, TRUE, call[h].todo \ {t})
  <2>1. /\ Becomes(h, c) /\ c.at \notin Holding /\ UNCHANGED <<proposal, results>>
        /\ task' = [task EXCEPT ![t] = "proposed"] /\ planned' = [planned EXCEPT ![t] = @ + 1]
    BY <1>3 DEF PlanTask, CallOf, Holding
  <2>2. contended \subseteq contended' /\ (t \notin contended' => HeldByNoOther(h, t))
    BY <1>3, <1>d DEF PlanTask
  <2>3. \A u \in Tasks : ResultRows(u)' = ResultRows(u)
    BY <2>1 DEF ResultRows
  <2>4. \A u \in Tasks : /\ task'[u] = IF u = t THEN "proposed" ELSE task[u]
                         /\ planned'[u] = IF u = t THEN planned[u] + 1 ELSE planned[u]
                         /\ planned[u] \in Nat
    BY <2>1 DEF TypeInv, TypeOK
  <2>5. \A u \in Tasks : Cardinality(ResultRows(u)) \in Nat
    BY FS_CardinalityType DEF PlanInv
  <2> HIDE DEF c
  <2> QED BY <2>1, <2>2, <2>3, <2>4, <2>5, PlanKeeps DEF PlanInv, Paid
<1>4. ASSUME NEW h \in Handlers, SavePlanned(h)
      PROVE  PlanInv'
  BY <1>4, <1>b, <1>e DEF SavePlanned, CallOf, Holding, SaveLoop, Ends
<1>5. ASSUME NEW h \in Handlers, Replanned(h)
      PROVE  PlanInv'
  BY <1>5, <1>b, <1>e DEF Replanned, CallOf, Holding, Ends
<1>6. ASSUME NEW h \in Handlers, NEW t \in Tasks, BeginPropose(h, t)
      PROVE  PlanInv'
  <2> DEFINE c == CallOf("propose", "propose", t, None, NoLoop,
                         TaskMoves(task[t], "approval_required"), {})
  <2>1. /\ Becomes(h, c) /\ c.at = "propose" /\ c.task = t
        /\ UNCHANGED <<task, planned, proposal, results>>
    BY <1>6 DEF BeginPropose, Begins, CallOf
  <2>2. LeftAt(c, task[t])
    BY <1>6 DEF BeginPropose, TaskMoves, CallOf, LeftAt
  <2>3. contended \subseteq contended'
        /\ \A u \in Tasks : u \notin contended' /\ u = t => HeldByNoOther(h, u)
    BY <1>6, <1>d DEF BeginPropose
  <2> HIDE DEF c
  <2> QED BY <2>1, <2>2, <2>3, TasksAssumption, PlanStays DEF ToRun
<1>7. ASSUME NEW h \in Handlers, BeginPrepare(h)
      PROVE  PlanInv'
  BY <1>7, <1>b, <1>e DEF BeginPrepare, CallOf, Holding, Begins
<1>8. ASSUME NEW h \in Handlers, Draft(h)
      PROVE  PlanInv'
  <2> DEFINE c == CallOf("prepare", "propose", First, None, call[h].copy,
                         TaskMoves(task[First], "approval_required"), {})
  <2>1. /\ Becomes(h, c) /\ c.at = "propose" /\ c.task = First
        /\ UNCHANGED <<task, planned, proposal, results>>
    BY <1>8 DEF Draft, CallOf
  <2>2. LeftAt(c, task[First])
    BY <1>8 DEF Draft, TaskMoves, CallOf, LeftAt
  <2>3. contended \subseteq contended'
        /\ \A u \in Tasks : u \notin contended' /\ u = First => HeldByNoOther(h, u)
    BY <1>8, <1>d, TasksAssumption DEF Draft
  <2> HIDE DEF c
  <2> QED BY <2>1, <2>2, <2>3, TasksAssumption, PlanStays DEF ToRun
<1>9. ASSUME NEW h \in Handlers, NEW p \in Proposals, SaveProposal(h, p)
      PROVE  PlanInv'
  <2> DEFINE c == call[h]
             next == CallOf(c.op, "require", c.task, p, c.copy, TRUE, {})
  <2>1. results[p] = 0
    <3>1. proposal[p] = None /\ results[p] \in Nat
      BY <1>9 DEF SaveProposal, TypeInv, TypeOK
    <3>2. None \notin Captured
      <4>1. \A i \in DOMAIN snapshots : snapshots[i] \in Snapshot
        BY DEF TypeInv, TypeOK
      <4> QED BY <4>1, NoneAssumption DEF Captured, Snapshot
    <3> QED BY <3>1, <3>2 DEF RestInv
  <2>2. /\ c.at = "propose" /\ UNCHANGED <<task, planned, results, contended>>
        /\ proposal' = [proposal EXCEPT ![p] = c.task]
    BY <1>9 DEF SaveProposal
  <2>3. \A t \in Tasks : ResultRows(t)' = ResultRows(t)
    BY <2>1, <2>2, NoRowsYet
  <2>4. ASSUME NEW d, Becomes(h, d), d.at \in Holding => d.task = c.task /\ d.at = "require" /\ c.ok
        PROVE  PlanInv'
    <3>1. \A t \in Tasks : t \notin contended /\ d.task = t /\ d.at \in Holding =>
            LeftAt(d, task[t]) /\ HeldByNoOther(h, t) /\ d.at \notin ToRun
      BY <1>c, <2>2, <2>4 DEF LeftAt, Holding, ToRun
    <3>2. d.at \in Holding => d.task \in Tasks
      BY <1>a, <2>2, <2>4 DEF Holding
    <3>3. contended' = contended /\ task' = task /\ planned' = planned
      BY <2>2
    <3> HIDE DEF c
    <3> QED BY <2>3, <2>4, <3>1, <3>2, <3>3, PlanKeeps DEF PlanInv, Paid
  <2>5. CASE c.ok
    <3>1. Becomes(h, next) /\ next.task = c.task /\ next.at = "require"
      BY <1>9, <2>5 DEF SaveProposal, CallOf
    <3> HIDE DEF next
    <3> QED BY <2>4, <2>5, <3>1
  <2>6. CASE ~c.ok
    BY <1>9, <2>4, <2>6, <1>b DEF SaveProposal, Ends, Holding
  <2> QED BY <2>5, <2>6
<1>10. ASSUME NEW h \in Handlers, RequireApproval(h)
      PROVE  PlanInv'
  <2> DEFINE c == call[h]
  <2>1. /\ c.at = "require" /\ c.task \in Tasks /\ UNCHANGED <<planned, proposal, results, contended>>
        /\ task' = [task EXCEPT ![c.task] = "approval_required"]
    BY <1>10, <1>a DEF RequireApproval, Holding
  <2>2. c.task \notin contended => Paid(c.task) /\ HeldByNoOther(h, c.task)
    BY <1>c, <2>1 DEF LeftAt, Holding
  <2>3. PICK d : Becomes(h, d) /\ d.at \notin Holding
    BY <1>10, <1>b DEF RequireApproval, Ends, CallOf, Holding
  <2> QED BY <2>1, <2>2, <2>3, PlanWrites
<1>11. ASSUME NEW h \in Handlers, SaveReady(h)
      PROVE  PlanInv'
  BY <1>11, <1>b, <1>e DEF SaveReady, CallOf, Holding, SaveLoop
<1>12. ASSUME NEW h \in Handlers, SaveWaiting(h)
      PROVE  PlanInv'
  BY <1>12, <1>b, <1>e DEF SaveWaiting, CallOf, Holding, SaveLoop, Ends
<1>13. ASSUME NEW h \in Handlers, NEW p \in Proposals, BeginExecute(h, p)
      PROVE  PlanInv'
  <2> DEFINE c == CallOf("execute", "approve", proposal[p], p, NoLoop, TRUE, {})
  <2>1. /\ Becomes(h, c) /\ c.at = "approve" /\ c.task = proposal[p]
        /\ UNCHANGED <<task, planned, proposal, results>>
    BY <1>13 DEF BeginExecute, Begins, CallOf
  <2>2. proposal[p] \in Tasks /\ LeftAt(c, task[proposal[p]])
    BY <1>13, <2>1 DEF BeginExecute, TaskMoves, LeftAt, TypeInv, TypeOK
  <2>3. contended \subseteq contended'
        /\ \A u \in Tasks : u \notin contended' /\ u = proposal[p] => HeldByNoOther(h, u)
    BY <1>13, <2>2, <1>d DEF BeginExecute
  <2> HIDE DEF c
  <2> QED BY <2>1, <2>2, <2>3, TasksAssumption, PlanStays DEF ToRun
<1>14. ASSUME NEW h \in Handlers, SaveApproved(h)
      PROVE  PlanInv'
  <2> DEFINE c == call[h]
             next == CallOf(c.op, "snapshot", c.task, c.proposal, c.copy, c.ok, c.todo)
  <2>1. /\ c.at = "approve" /\ c.task \in Tasks /\ UNCHANGED <<planned, proposal, results, contended>>
        /\ task' = [task EXCEPT ![c.task] = "approved"] /\ Becomes(h, next)
    BY <1>14, <1>a DEF SaveApproved, SaveTask, MovesTo, Holding
  <2>2. next.at = "snapshot" /\ next.task = c.task
    BY DEF CallOf
  <2> HIDE DEF next
  <2>3. c.task \notin contended =>
          HeldByNoOther(h, c.task) /\ LeftAt(next, "approved") /\ (next.at \in ToRun => Paid(c.task))
    BY <1>c, <2>1, <2>2 DEF LeftAt, Holding, ToRun
  <2> QED BY <2>1, <2>2, <2>3, PlanWrites DEF Holding
<1>15. ASSUME NEW h \in Handlers, SaveExecuting(h)
      PROVE  PlanInv'
  <2> DEFINE c == call[h]
             next == CallOf(c.op, "result", c.task, c.proposal, c.copy, c.ok, c.todo)
  <2>1. /\ c.at = "run" /\ c.task \in Tasks /\ UNCHANGED <<planned, proposal, results, contended>>
        /\ task' = [task EXCEPT ![c.task] = "executing"] /\ Becomes(h, next)
    BY <1>15, <1>a DEF SaveExecuting, SaveTask, MovesTo, Holding
  <2>2. next.at = "result" /\ next.task = c.task
    BY DEF CallOf
  <2> HIDE DEF next
  <2>3. c.task \notin contended =>
          HeldByNoOther(h, c.task) /\ LeftAt(next, "executing") /\ (next.at \in ToRun => Paid(c.task))
    BY <1>c, <2>1, <2>2 DEF LeftAt, Holding, ToRun
  <2> QED BY <2>1, <2>2, <2>3, PlanWrites DEF Holding
<1>16. ASSUME NEW h \in Handlers, SaveVerifying(h)
      PROVE  PlanInv'
  <2> DEFINE c == call[h]
             next == CallOf(c.op, "finish", c.task, c.proposal, c.copy, c.ok, c.todo)
  <2>1. /\ c.at = "verifying" /\ c.task \in Tasks /\ UNCHANGED <<planned, proposal, results, contended>>
        /\ task' = [task EXCEPT ![c.task] = "verifying"] /\ Becomes(h, next)
    BY <1>16, <1>a DEF SaveVerifying, SaveTask, MovesTo, Holding
  <2>2. next.at = "finish" /\ next.task = c.task
    BY DEF CallOf
  <2> HIDE DEF next
  <2>3. c.task \notin contended =>
          HeldByNoOther(h, c.task) /\ LeftAt(next, "verifying") /\ (next.at \in ToRun => Paid(c.task))
    BY <1>c, <2>1, <2>2 DEF LeftAt, Holding, ToRun
  <2> QED BY <2>1, <2>2, <2>3, PlanWrites DEF Holding
<1>17. ASSUME NEW h \in Handlers, SaveCompleted(h)
      PROVE  PlanInv'
  <2> DEFINE c == call[h]
             next == CallOf(c.op, "hook", c.task, c.proposal, c.copy, c.ok, c.todo)
  <2>1. /\ c.at = "finish" /\ c.task \in Tasks /\ UNCHANGED <<planned, proposal, results, contended>>
        /\ task' = [task EXCEPT ![c.task] = "completed"] /\ Becomes(h, next)
    BY <1>17, <1>a DEF SaveCompleted, SaveTask, MovesTo, Holding
  <2>2. next.at = "hook" /\ next.task = c.task
    BY DEF CallOf
  <2> HIDE DEF next
  <2>3. c.task \notin contended =>
          HeldByNoOther(h, c.task) /\ LeftAt(next, "completed") /\ (next.at \in ToRun => Paid(c.task))
    BY <1>c, <2>1, <2>2 DEF LeftAt, Holding, ToRun
  <2> QED BY <2>1, <2>2, <2>3, PlanWrites DEF Holding
<1>18. ASSUME NEW h \in Handlers, Capture(h)
      PROVE  PlanInv'
  <2> DEFINE c == call[h]
             next == CallOf(c.op, "run", c.task, c.proposal, c.copy, c.ok, c.todo)
  <2>1. c.at = "snapshot" /\ c.task \in Tasks /\ UNCHANGED <<task, planned, proposal, results, contended>>
    BY <1>18, <1>a DEF Capture, Holding
  <2>2. CASE Ends(h)
    BY <2>1, <2>2, <1>b, <1>e DEF Ends, Holding
  <2>3. CASE Becomes(h, next)
    <3>1. next.at = "run" /\ next.task = c.task
      BY DEF CallOf
    <3> HIDE DEF next
    <3>2. c.task \notin contended =>
            HeldByNoOther(h, c.task) /\ LeftAt(next, task[c.task]) /\ Paid(c.task)
      BY <1>c, <2>1, <3>1 DEF LeftAt, Holding, ToRun
    <3> QED BY <2>1, <2>3, <3>1, <3>2, PlanStays
  <2> QED BY <1>18, <2>2, <2>3 DEF Capture, MovesTo
<1>19. ASSUME NEW h \in Handlers, SaveResult(h)
      PROVE  PlanInv'
  <2> DEFINE c == call[h]
             next == CallOf(c.op, "verifying", c.task, c.proposal, c.copy, c.ok, c.todo)
  <2>1. PICK t \in Tasks, q \in Proposals : t = c.task /\ q = c.proposal /\ proposal[q] = t
    BY <1>19, <1>a DEF SaveResult, Holding, Ops, PointsOf
  <2>2. /\ c.at = "result" /\ UNCHANGED <<task, planned, proposal, contended>>
        /\ results' = [results EXCEPT ![q] = @ + 1] /\ Becomes(h, next)
    BY <1>19, <2>1 DEF SaveResult, MovesTo
  <2>3. next.at = "verifying" /\ next.task = t
    BY <2>1 DEF CallOf
  <2>4. PICK new : \A u \in Tasks :
          ResultRows(u)' = IF u = t THEN ResultRows(u) \cup {new} ELSE ResultRows(u)
    <3>1. \A u \in Tasks :
            ResultRows(u)' = IF u = t THEN ResultRows(u) \cup {<<q, results[q] + 1>>}
                             ELSE ResultRows(u)
      BY <2>1, <2>2, OneMoreRow
    <3> QED BY <3>1
  <2> HIDE DEF next
  <2>5. \A u \in Tasks : IsFiniteSet(ResultRows(u)) /\ Cardinality(ResultRows(u)) \in Nat
    BY FS_CardinalityType DEF PlanInv
  <2>6. /\ \A u \in Tasks : IsFiniteSet(ResultRows(u)')
        /\ Cardinality(ResultRows(t)') <= Cardinality(ResultRows(t)) + 1
        /\ Cardinality(ResultRows(t)') \in Nat
    <3>1. PICK S : S = ResultRows(t)
      OBVIOUS
    <3>2. IsFiniteSet(S) /\ Cardinality(S) \in Nat
      BY <2>5, <3>1
    <3>3. IsFiniteSet(S \cup {new}) /\ Cardinality(S \cup {new}) <= Cardinality(S) + 1
      <4>1. /\ IsFiniteSet(S \cup {new})
            /\ Cardinality(S \cup {new}) = IF new \in S THEN Cardinality(S) ELSE Cardinality(S) + 1
        BY <3>2, FS_AddElement
      <4> QED BY <3>2, <4>1
    <3>4. Cardinality(S \cup {new}) \in Nat
      BY <3>3, FS_CardinalityType
    <3>5. ResultRows(t)' = S \cup {new}
      BY <2>4, <3>1
    <3> QED BY <2>4, <2>5, <3>1, <3>3, <3>4, <3>5
  <2>7. t \notin contended =>
          /\ HeldByNoOther(h, t) /\ LeftAt(next, task[t]) /\ task[t] = "executing"
          /\ Paid(t)
    BY <1>c, <2>1, <2>2, <2>3 DEF LeftAt, Holding, ToRun
  <2>8. planned[t] \in Nat
    BY DEF TypeInv, TypeOK
  <2>9. t \notin contended => Cardinality(ResultRows(t)') <= planned[t]
    BY <2>5, <2>6, <2>7, <2>8 DEF Paid
  <2>10. next.at \notin ToRun
    BY <2>3 DEF ToRun
  <2>11. ASSUME NEW u \in Tasks, u \notin contended'
         PROVE  /\ Cardinality(ResultRows(u)') <= planned'[u]
                /\ task'[u] \in {"proposed", "approval_required"} =>
                     Cardinality(ResultRows(u)') + 1 <= planned'[u]
                /\ \/ task'[u] = task[u] /\ ResultRows(u)' = ResultRows(u) /\ planned'[u] = planned[u]
                   \/ HeldByNoOther(h, u)
                /\ next.task = u /\ next.at \in Holding =>
                     LeftAt(next, task'[u]) /\ HeldByNoOther(h, u)
    <3>1. CASE u = t
      BY <2>2, <2>3, <2>7, <2>9, <2>11, <3>1
    <3>2. CASE u # t
      BY <2>2, <2>3, <2>4, <2>11, <3>2 DEF PlanInv, Paid
    <3> QED BY <3>1, <3>2
  <2>12. contended' = contended
    BY <2>2
  <2> HIDE DEF c
  <2> QED BY <2>2, <2>3, <2>6, <2>10, <2>11, <2>12, PlanKeeps
<1>20. ASSUME NEW h \in Handlers, Hook(h)
      PROVE  PlanInv'
  BY <1>20, <1>b, <1>e DEF Hook, CallOf, Holding, Ends
<1>21. ASSUME NEW h \in Handlers, SaveStart(h)
      PROVE  PlanInv'
  BY <1>21, <1>b, <1>e DEF SaveStart, CallOf, Holding, SaveLoop
<1>22. ASSUME NEW h \in Handlers, SaveStarted(h)
      PROVE  PlanInv'
  BY <1>22, <1>b, <1>e DEF SaveStarted, CallOf, Holding, SaveLoop, Ends
<1>23. ASSUME NEW h \in Handlers, NEW verdict \in {"completed", "failed"}, BeginVerify(h, verdict)
      PROVE  PlanInv'
  BY <1>23, <1>b, <1>e DEF BeginVerify, CallOf, Holding, Begins
<1>24. ASSUME NEW h \in Handlers, SaveVerdict(h)
      PROVE  PlanInv'
  BY <1>24, <1>b, <1>e DEF SaveVerdict, CallOf, Holding, SaveLoop, Ends, MovesTo
<1>25. ASSUME NEW h \in Handlers, QueueLearning(h)
      PROVE  PlanInv'
  BY <1>25, <1>b, <1>e DEF QueueLearning, CallOf, Holding
<1>26. ASSUME NEW h \in Handlers, SaveMemory(h)
      PROVE  PlanInv'
  BY <1>26, <1>b, <1>e DEF SaveMemory, CallOf, Holding, SaveLoop, Ends
<1>27. ASSUME NEW h \in Handlers, BeginRecover(h)
      PROVE  PlanInv'
  BY <1>27, <1>b, <1>e DEF BeginRecover, CallOf, Holding, Begins
<1>28. ASSUME NEW h \in Handlers, SaveRecovered(h)
      PROVE  PlanInv'
  BY <1>28, <1>b, <1>e DEF SaveRecovered, CallOf, Holding, SaveLoop, Ends
<1>29. ASSUME NEW h \in Handlers, BeginRollback(h)
      PROVE  PlanInv'
  BY <1>29, <1>b, <1>e DEF BeginRollback, CallOf, Holding, Begins
<1>30. ASSUME NEW h \in Handlers, Restore(h)
      PROVE  PlanInv'
  BY <1>30, <1>b, <1>e DEF Restore, CallOf, Holding
<1>31. ASSUME NEW h \in Handlers, RestoreDone(h)
      PROVE  PlanInv'
  BY <1>31, <1>b, <1>e DEF RestoreDone, CallOf, Holding, MovesTo, Ends
<1>32. ASSUME NEW h \in Handlers, MarkRolledBack(h)
      PROVE  PlanInv'
  BY <1>32, <1>b, <1>e DEF MarkRolledBack, CallOf, Holding, Ends
<1>33. ASSUME NEW h \in Handlers, SaveRolledBack(h)
      PROVE  PlanInv'
  BY <1>33, <1>b, <1>e DEF SaveRolledBack, CallOf, Holding, SaveLoop, Ends
<1>34. ASSUME NEW f \in Files, NEW content \in Contents, EditFile(f, content)
      PROVE  PlanInv'
  <2>1. UNCHANGED <<task, planned, proposal, results, contended, call>>
    BY <1>34 DEF EditFile
  <2> QED BY <2>1 DEF PlanInv, ResultRows, Paid, HeldByNoOther
<1>35. CASE Crash
  <2>1. UNCHANGED <<task, planned, proposal, results, contended>>
    BY <1>35 DEF Crash
  <2>2. \A h \in Handlers : call'[h].at \notin Holding
    BY <1>35, <1>b DEF Crash, Holding
  <2> QED BY <2>1, <2>2 DEF PlanInv, ResultRows, Paid
<1>36. CASE UNCHANGED vars
  <2>1. UNCHANGED <<task, planned, proposal, results, contended, call>>
    BY <1>36 DEF vars
  <2> QED BY <2>1 DEF PlanInv, ResultRows, Paid, HeldByNoOther
<1>37. QED
  BY <1>1, <1>2, <1>3, <1>4, <1>5, <1>6, <1>7, <1>8, <1>9, <1>10, <1>11, <1>12, <1>13,
     <1>14, <1>15, <1>16, <1>17, <1>18, <1>19, <1>20, <1>21, <1>22, <1>23, <1>24, <1>25,
     <1>26, <1>27, <1>28, <1>29, <1>30, <1>31, <1>32, <1>33, <1>34, <1>35, <1>36
  DEF Next, Begin, Continue

(* A task is executed at most once for each time it was planned, through   *)
(* any proposals, failed attempts and restarts, if no thread ever loaded   *)
(* or wrote it while another held a copy of it (manager.py execute).       *)
THEOREM RunsArePaidFor == Spec => []RunsOncePerPlan
<1>1. Init => PlanInv
  <2> SUFFICES ASSUME Init
               PROVE  PlanInv
    OBVIOUS
  <2>1. \A t \in Tasks : ResultRows(t) = {} /\ planned[t] = 0 /\ task[t] = "absent"
    <3>1. \A p \in Proposals : {p} \X (1..results[p]) = {}
      BY DEF Init
    <3> QED BY <3>1 DEF Init, ResultRows
  <2>2. \A h \in Handlers : call[h].at \notin Holding
    BY DEF Init, Idle, CallOf, Holding
  <2>3. IsFiniteSet({}) /\ Cardinality({}) = 0
    BY FS_EmptySet
  <2>4. \A t \in Tasks : /\ IsFiniteSet(ResultRows(t)) /\ Cardinality(ResultRows(t)) <= planned[t]
                         /\ task[t] \notin {"proposed", "approval_required"}
    BY <2>1, <2>3
  <2> QED BY <2>2, <2>4 DEF PlanInv
<1>2. TypeInv /\ RestInv /\ PlanInv /\ [Next]_vars => PlanInv'
  BY PlanStep
<1>3. PlanInv => RunsOncePerPlan
  BY DEF PlanInv, RunsOncePerPlan
<1> QED BY <1>1, <1>2, <1>3, TypesHold, RestsHold, PTL DEF Spec
=============================================================================
