--------------------------- MODULE ServicesProofs ---------------------------
(***************************************************************************)
(* Theorems about what waits for what: the execution loops of a DAG        *)
(* (ExecutionDag) and the tasks of an agent (TaskDependencies), which      *)
(* share the notion of an acyclic set of edges (AcyclicEdges) and nothing  *)
(* else.  Then the assistant's credentials (Assistant), and the            *)
(* organization's strategies (Strategy) and graph (OrgGraph).              *)
(***************************************************************************)
EXTENDS ExecutionDag, TaskDependencies, Assistant, Strategy, OrgGraph,
        FiniteSetTheorems, SequenceTheorems, TLAPS

-----------------------------------------------------------------------------
(* For any loops and bounds: advance prepares a loop only after all it     *)
(* depends on, and a COMPLETED DAG is one, although the statuses are read  *)
(* one by one while the loops move.  It works because COMPLETED is the end *)
(* of a loop: what a call has seen COMPLETED stays so, unless a row was    *)
(* replaced from an older copy, which overwritten records.                 *)

Served == dagCall.at \in {"load", "ready", "wait"}

(* What a call has read remains true, and what it goes on to prepare waits *)
(* for nothing.                                                            *)
CallIsSound ==
  /\ \A l \in dagCall.done : phase[l] = "completed" \/ l \in overwritten
  /\ dagCall.at \in {"read", "pick"} /\ dagCall.op = "create" => dagCall.left > 0
  /\ Served => dagCall.loop \in Loops /\ Sources(dag.edges, dagCall.loop) \subseteq dagCall.done
  /\ dagCall.at = "ready" => dagCall.copy = "planning"
  /\ dagCall.at = "wait" => dagCall.copy = "underway"

(* There is nothing to read or to prepare before there is a DAG; its edges *)
(* are between its loops.                                                  *)
DagIsSound ==
  /\ dag.status = "none" => dagCall = DagIdle /\ advanced = {}
  /\ dag.edges \subseteq Members(dag) \X Members(dag)

DagInv == DagTypeOK /\ DagIsSound /\ CallIsSound /\ AdvancedInOrder /\ CompletedDagIsDone

-----------------------------------------------------------------------------
(* A call at rest is a call.                                               *)
LEMMA IdleCall == DagIdle \in DagCall
BY DEF DagIdle, DagCall, Phases

(* What a call that begins to read the loops is made of.                   *)
LEMMA ReadsCall ==
  ASSUME NEW op \in {"create", "advance"}, NEW loops \in Seq(Loops), NEW n \in Nat
  PROVE  /\ DagReads(op, loops, n) \in DagCall
         /\ DagReads(op, loops, n).done = {}
         /\ DagReads(op, loops, n).at = "read"
         /\ DagReads(op, loops, n).left = n
         /\ DagReads(op, loops, n).op = op
BY DEF DagReads, DagIdle, DagCall, Phases

(* The members of a DAG are loops.                                         *)
LEMMA MembersType == ASSUME NEW d \in Dag PROVE Members(d) \subseteq Loops
BY DEF Members, Dag, Range

(* Loops move on, and a row is replaced only if overwritten says so: what  *)
(* was COMPLETED is, or was replaced.                                      *)
Forward ==
  /\ phase' \in [Loops -> Phases]
  /\ overwritten' \in SUBSET Loops /\ overwritten \subseteq overwritten'
  /\ \A l \in Loops : phase[l] = "completed" => phase'[l] = "completed" \/ l \in overwritten'

(* Loops that do not move have moved on.                                   *)
LEMMA StandingStill ==
  ASSUME DagTypeOK, UNCHANGED <<phase, overwritten>>
  PROVE  Forward
BY DEF Forward, DagTypeOK

(* A request to a loop moves it on.                                        *)
LEMMA LoopsMoveForward ==
  ASSUME DagTypeOK, LoopRequest
  PROVE  Forward
BY DEF Forward, DagTypeOK, LoopRequest, LifecycleNext, Create, Leave, Complete, Stop, Becomes, Phases

(* A row saved from a copy that is not COMPLETED is recorded as replaced.  *)
LEMMA SavesMoveForward ==
  ASSUME DagTypeOK, NEW l \in Loops, SaveLoop(l), dagCall.copy # "completed"
  PROVE  Forward
BY DEF Forward, DagTypeOK, SaveLoop, Phases

(* A crash moves the loops on: the start-up recovers them.                 *)
LEMMA CrashMovesForward ==
  ASSUME DagTypeOK, CrashDag
  PROVE  Forward
BY DEF Forward, DagTypeOK, CrashDag, Phases

(* The order was kept stays true while the DAG does not change.            *)
LEMMA OrderStays ==
  ASSUME DagInv, Forward, UNCHANGED <<dag, advanced>>
  PROVE  AdvancedInOrder' /\ CompletedDagIsDone'
<1>1. \A l \in advanced : Sources(dag.edges, l) \subseteq Loops
  BY DEF DagInv, DagTypeOK, Dag, Sources
<1>2. Members(dag) \subseteq Loops
  BY MembersType DEF DagInv, DagTypeOK
<1>3. AdvancedInOrder'
  BY <1>1 DEF DagInv, Forward, AdvancedInOrder
<1>4. CompletedDagIsDone'
  BY <1>2 DEF DagInv, Forward, CompletedDagIsDone
<1> QED BY <1>3, <1>4

(* A call's own reads stay true.                                           *)
LEMMA ReadsStay ==
  ASSUME DagInv, Forward, UNCHANGED dagCall
  PROVE  \A l \in dagCall'.done : phase'[l] = "completed" \/ l \in overwritten'
BY DEF DagInv, DagTypeOK, DagCall, CallIsSound, Forward

-----------------------------------------------------------------------------
(* At first there is no DAG and no call.                                   *)
LEMMA CallBegins == DagInit => DagInv
<1> SUFFICES ASSUME DagInit PROVE DagInv
  OBVIOUS
<1>1. DagTypeOK
  BY IdleCall, DagAssumption DEF DagInit, LifecycleInit, DagTypeOK, Dag, DagOf, Phases
<1>2. DagIsSound /\ CallIsSound
  BY DEF DagInit, DagOf, DagIsSound, CallIsSound, DagIdle, Served
<1>3. AdvancedInOrder /\ CompletedDagIsDone
  BY DEF DagInit, DagOf, AdvancedInOrder, CompletedDagIsDone
<1> QED BY <1>1, <1>2, <1>3 DEF DagInv

(* The request that creates the DAG.                                       *)
LEMMA CreateDagKeeps == ASSUME DagInv, CreateDag PROVE DagInv'
<1>0. DagTypeOK
  BY DEF DagInv
<1>1. PICK loops \in BoundedSeq(Loops, Cardinality(Loops)), n \in 0..MaxEdges :
        \E es \in kSubset(n, Loops \X Loops) :
          /\ loops # << >> /\ ValidEdges(loops, es)
          /\ dag' = DagOf("created", loops, es)
          /\ dagCall' = DagReads("create", loops, Len(loops))
  BY DEF CreateDag
<1>2. PICK es \in SUBSET (Loops \X Loops) :
        /\ loops # << >> /\ ValidEdges(loops, es)
        /\ dag' = DagOf("created", loops, es)
        /\ dagCall' = DagReads("create", loops, Len(loops))
  BY <1>1 DEF kSubset
<1>3. loops \in Seq(Loops) /\ Len(loops) \in Nat \ {0}
  <2>1. PICK m \in 0..Cardinality(Loops) : loops \in [1..m -> Loops]
    BY DEF BoundedSeq, SeqOf
  <2>2. loops \in Seq(Loops)
    BY <2>1
  <2> QED BY <2>2, <1>2
<1>4. UNCHANGED <<phase, dagRestarts, advanced, overwritten>> /\ dag.status = "none"
  BY DEF CreateDag, DagUnchanged
<1>5. DagTypeOK'
  BY <1>0, <1>2, <1>3, <1>4, ReadsCall DEF DagTypeOK, Dag, DagOf
<1>6. DagIsSound'
  BY <1>2 DEF DagIsSound, DagOf, ValidEdges, Members, Range
<1>7. CallIsSound'
  BY <1>2, <1>3, ReadsCall DEF CallIsSound, Served
<1>8. advanced' = {}
  BY <1>4 DEF DagInv, DagIsSound
<1>9. AdvancedInOrder' /\ CompletedDagIsDone'
  BY <1>2, <1>8 DEF AdvancedInOrder, CompletedDagIsDone, DagOf
<1> QED BY <1>5, <1>6, <1>7, <1>9 DEF DagInv

(* A step that leaves the DAG, and what advance has prepared, alone.       *)
LEMMA CallKeeps ==
  ASSUME DagInv, Forward, UNCHANGED <<dag, advanced>>, dag.status # "none",
         dagRestarts' \in 0..MaxDagRestarts, dagCall' \in DagCall, CallIsSound'
  PROVE  DagInv'
<1>1. DagTypeOK' /\ DagIsSound'
  BY DEF DagInv, DagTypeOK, DagIsSound, Forward
<1> QED BY <1>1, OrderStays DEF DagInv

(* A call that ends changes nothing but the loops.                         *)
LEMMA Idles ==
  ASSUME DagInv, Forward, UNCHANGED <<dag, advanced>>,
         dagRestarts' \in 0..MaxDagRestarts, dagCall' = DagIdle
  PROVE  DagInv'
<1>1. CallIsSound'
  BY DEF CallIsSound, DagIdle, Served
<1>2. DagTypeOK' /\ DagIsSound'
  BY IdleCall DEF DagInv, DagTypeOK, DagIsSound, Forward
<1> QED BY <1>1, <1>2, OrderStays DEF DagInv

(* The request to advance it.                                              *)
LEMMA BeginAdvanceKeeps == ASSUME DagInv, BeginAdvance PROVE DagInv'
<1>1. Forward
  BY StandingStill DEF DagInv, BeginAdvance, DagUnchanged
<1>2. dag.loops \in Seq(Loops)
  BY DEF DagInv, DagTypeOK, Dag
<1>3. dagCall' \in DagCall /\ CallIsSound'
  BY <1>2, ReadsCall DEF BeginAdvance, CallIsSound, Served
<1> QED BY <1>1, <1>3, CallKeeps DEF BeginAdvance, DagUnchanged, DagInv, DagTypeOK

(* The status of one more loop is read.                                    *)
LEMMA ReadStatusKeeps == ASSUME DagInv, ReadStatus PROVE DagInv'
<1> DEFINE l == Head(dagCall.todo)
<1>0. DagTypeOK /\ CallIsSound /\ dagCall \in DagCall
  BY DEF DagInv, DagTypeOK
<1>1. Forward
  BY <1>0, StandingStill DEF ReadStatus, DagUnchanged
<1>2. /\ dagCall.todo \in Seq(Loops) /\ dagCall.todo # << >>
      /\ dagCall.over \subseteq Loops /\ dagCall.done \subseteq Loops
  BY <1>0 DEF ReadStatus, DagCall
<1>3. l \in Loops /\ Tail(dagCall.todo) \in Seq(Loops)
  BY <1>2
<1>4. dagCall' \in DagCall
  <2> HIDE DEF l
  <2>1. dagCall' = [dagCall EXCEPT !.todo = Tail(@), !.over = @ \cup ({l} \cap OverNow),
                     !.done = @ \cup ({l} \cap DoneNow),
                     !.at = IF Len(dagCall.todo) = 1 THEN "pick" ELSE "read"]
    BY DEF ReadStatus, l
  <2> QED BY <2>1, <1>0, <1>2, <1>3 DEF DagCall
<1>5. CallIsSound'
  <2>1. /\ dagCall'.done \subseteq dagCall.done \cup DoneNow
        /\ dagCall'.at \in {"pick", "read"} /\ dagCall.at = "read"
        /\ dagCall'.op = dagCall.op /\ dagCall'.left = dagCall.left
    BY <1>0 DEF ReadStatus, DagCall
  <2> QED BY <2>1, <1>0 DEF CallIsSound, ReadStatus, DagUnchanged, DoneNow, Served
<1>6. dag.status # "none"
  BY DEF DagInv, DagIsSound, ReadStatus, DagIdle
<1> QED BY <1>1, <1>4, <1>5, <1>6, CallKeeps DEF ReadStatus, DagUnchanged, DagInv, DagTypeOK

(* The hook that a completed loop calls.                                   *)
LEMMA OnLoopCompletedKeeps == ASSUME DagInv, OnLoopCompleted PROVE DagInv'
<1>0. /\ DagTypeOK /\ CallIsSound /\ dagCall \in DagCall /\ dag \in Dag
      /\ UNCHANGED <<phase, dagRestarts, advanced, overwritten>>
  BY DEF DagInv, DagTypeOK, OnLoopCompleted, DagUnchanged
<1>1. /\ dag' \in Dag /\ dag'.edges = dag.edges /\ dag'.loops = dag.loops
      /\ dag'.status # "none"
  <2>1. dag.status # "none"
    BY DEF DagInv, DagIsSound, OnLoopCompleted, DagIdle
  <2> QED BY <2>1, <1>0 DEF OnLoopCompleted, DagOf, Dag
<1>2. dagCall.left \in Nat \ {0}
  BY <1>0 DEF CallIsSound, OnLoopCompleted, DagCall
<1>3. dagCall' \in DagCall /\ CallIsSound'
  <2>1. CASE dagCall.left = 1
    BY <2>1, IdleCall DEF OnLoopCompleted, CallIsSound, DagIdle, Served
  <2>2. CASE dagCall.left # 1
    <3>1. dagCall.left - 1 \in Nat /\ dagCall.left - 1 > 0 /\ dag.loops \in Seq(Loops)
      BY <2>2, <1>2, <1>0 DEF Dag
    <3>2. dagCall' = DagReads("create", dag.loops, dagCall.left - 1)
      BY <2>2 DEF OnLoopCompleted
    <3> QED BY <3>1, <3>2, ReadsCall DEF CallIsSound, Served
  <2> QED BY <2>1, <2>2
<1>4. DagTypeOK' /\ DagIsSound'
  BY <1>0, <1>1, <1>3 DEF DagInv, DagTypeOK, DagIsSound, Members
<1>5. AdvancedInOrder'
  BY <1>0, <1>1 DEF DagInv, AdvancedInOrder
<1>6. CompletedDagIsDone'
  <2>1. CASE AllCompleted(dag, dagCall.done)
    BY <2>1, <1>0, <1>1 DEF AllCompleted, CallIsSound, CompletedDagIsDone, Members
  <2>2. CASE ~AllCompleted(dag, dagCall.done)
    BY <2>2, <1>0 DEF OnLoopCompleted, DagInv, CompletedDagIsDone
  <2> QED BY <2>1, <2>2
<1> QED BY <1>3, <1>4, <1>5, <1>6 DEF DagInv

(* The first loop that waits for nothing, as the call has read it.         *)
LEMMA PickReadyKeeps == ASSUME DagInv, PickReady PROVE DagInv'
<1>0. DagTypeOK /\ CallIsSound /\ dagCall \in DagCall /\ dag \in Dag
  BY DEF DagInv, DagTypeOK
<1>1. Forward
  BY <1>0, StandingStill DEF PickReady, DagUnchanged
<1>2. PICK l \in Ready(dag, dagCall.over, dagCall.done) :
        dagCall' = [dagCall EXCEPT !.at = "load", !.loop = l]
  BY DEF PickReady
<1>3. l \in Loops /\ Sources(dag.edges, l) \subseteq dagCall.done
  BY <1>0, MembersType DEF Ready
<1>4. dagCall' \in DagCall
  BY <1>0, <1>2, <1>3 DEF DagCall
<1>5. CallIsSound'
  <2>1. /\ dagCall'.at = "load" /\ dagCall'.loop = l /\ dagCall'.done = dagCall.done
    BY <1>0, <1>2 DEF DagCall
  <2> QED BY <2>1, <1>0, <1>3 DEF CallIsSound, PickReady, DagUnchanged, Served
<1>6. dag.status # "none"
  BY DEF DagInv, DagIsSound, PickReady, DagIdle
<1> QED BY <1>1, <1>4, <1>5, <1>6, CallKeeps DEF PickReady, DagUnchanged, DagInv, DagTypeOK

(* Its row is loaded,                                                      *)
LEMMA LoadPickedKeeps == ASSUME DagInv, LoadPicked PROVE DagInv'
<1>0. DagTypeOK /\ CallIsSound /\ dagCall \in DagCall
  BY DEF DagInv, DagTypeOK
<1>1. Forward
  BY <1>0, StandingStill DEF LoadPicked, DagUnchanged
<1>2. /\ dagCall' \in DagCall /\ dagCall'.done = dagCall.done /\ dagCall'.loop = dagCall.loop
      /\ dagCall'.at = "ready" /\ dagCall'.copy = "planning"
  BY <1>0 DEF LoadPicked, DagCall, Phases
<1>3. CallIsSound'
  BY <1>0, <1>2 DEF CallIsSound, LoadPicked, DagUnchanged, Served
<1>4. dag.status # "none"
  BY DEF DagInv, DagIsSound, LoadPicked, DagIdle
<1> QED BY <1>1, <1>2, <1>3, <1>4, CallKeeps DEF LoadPicked, DagUnchanged, DagInv, DagTypeOK

(* saved as ready,                                                         *)
LEMMA SavePickedKeeps == ASSUME DagInv, SavePicked PROVE DagInv'
<1>0. DagTypeOK /\ CallIsSound /\ dagCall \in DagCall
  BY DEF DagInv, DagTypeOK
<1>1. dagCall.loop \in Loops /\ dagCall.copy = "planning"
  BY <1>0 DEF CallIsSound, SavePicked, Served
<1>2. Forward
  BY <1>0, <1>1, SavesMoveForward DEF SavePicked
<1>3. /\ dagCall' \in DagCall /\ dagCall'.done = dagCall.done /\ dagCall'.loop = dagCall.loop
      /\ dagCall'.at = "wait" /\ dagCall'.copy = "underway"
  BY <1>0 DEF SavePicked, DagCall, Phases
<1>4. dagCall.done \subseteq Loops
  BY <1>0 DEF DagCall
<1>5. CallIsSound'
  BY <1>0, <1>2, <1>3, <1>4 DEF CallIsSound, SavePicked, Forward, Served
<1>6. dag.status # "none"
  BY DEF DagInv, DagIsSound, SavePicked, DagIdle
<1> QED BY <1>2, <1>3, <1>5, <1>6, CallKeeps DEF SavePicked, DagInv, DagTypeOK

(* and as waiting for its approval.                                        *)
LEMMA SaveWaitingKeeps == ASSUME DagInv, SaveWaiting PROVE DagInv'
<1>0. DagTypeOK /\ CallIsSound /\ dagCall \in DagCall
  BY DEF DagInv, DagTypeOK
<1>1. /\ dagCall.loop \in Loops /\ dagCall.copy = "underway"
      /\ Sources(dag.edges, dagCall.loop) \subseteq dagCall.done
  BY <1>0 DEF CallIsSound, SaveWaiting, Served
<1>2. Forward
  BY <1>0, <1>1, SavesMoveForward DEF SaveWaiting
<1>3. CallIsSound'
  BY DEF SaveWaiting, CallIsSound, DagIdle, Served
<1>4. dag.status # "none"
  BY DEF DagInv, DagIsSound, SaveWaiting, DagIdle
<1>5. DagTypeOK' /\ DagIsSound'
  BY <1>1, <1>2, <1>4, IdleCall DEF SaveWaiting, DagInv, DagTypeOK, DagIsSound, Forward
<1>6. AdvancedInOrder'
  <2>1. \A l \in advanced : Sources(dag.edges, l) \subseteq Loops
    BY DEF DagInv, DagTypeOK, Dag, Sources
  <2>2. dagCall.done \subseteq Loops
    BY <1>0 DEF DagCall
  <2> QED BY <2>1, <2>2, <1>0, <1>1, <1>2
          DEF SaveWaiting, DagInv, AdvancedInOrder, Forward, CallIsSound
<1>7. CompletedDagIsDone'
  BY <1>2, MembersType DEF SaveWaiting, DagInv, DagTypeOK, CompletedDagIsDone, Forward
<1> QED BY <1>3, <1>5, <1>6, <1>7 DEF DagInv

(* Every step keeps the invariant,                                         *)
LEMMA StepKeeps == DagInv /\ [DagNext]_dagVars => DagInv'
<1> SUFFICES ASSUME DagInv, [DagNext]_dagVars PROVE DagInv'
  OBVIOUS
<1>0. DagTypeOK /\ dagRestarts \in 0..MaxDagRestarts
  BY DEF DagInv, DagTypeOK
<1>1. CASE CreateDag
  BY <1>1, CreateDagKeeps
<1>2. CASE BeginAdvance
  BY <1>2, BeginAdvanceKeeps
<1>3. CASE ReadStatus
  BY <1>3, ReadStatusKeeps
<1>4. CASE OnLoopCompleted
  BY <1>4, OnLoopCompletedKeeps
<1>5. CASE PickReady
  BY <1>5, PickReadyKeeps
<1>6. CASE LoadPicked
  BY <1>6, LoadPickedKeeps
<1>7. CASE SavePicked
  BY <1>7, SavePickedKeeps
<1>8. CASE SaveWaiting
  BY <1>8, SaveWaitingKeeps
<1>9. CASE RefuseAdvance
  BY <1>9, <1>0, StandingStill, Idles DEF RefuseAdvance, DagUnchanged
<1>10. CASE LoopRequest
  <2>1. Forward
    BY <1>10, <1>0, LoopsMoveForward
  <2>2. CallIsSound'
    BY <1>10, <2>1, ReadsStay DEF LoopRequest, DagInv, CallIsSound, Served
  <2>3. DagTypeOK' /\ DagIsSound'
    BY <1>10, <2>1 DEF LoopRequest, DagInv, DagTypeOK, DagIsSound, Forward
  <2> QED BY <1>10, <2>1, <2>2, <2>3, OrderStays DEF LoopRequest, DagInv
<1>11. CASE CrashDag
  <2>1. dagRestarts' \in 0..MaxDagRestarts
    BY <1>11, <1>0, DagAssumption DEF CrashDag
  <2> QED BY <1>11, <1>0, <2>1, CrashMovesForward, Idles DEF CrashDag
<1>12. CASE UNCHANGED dagVars
  <2>1. Forward
    BY <1>12, <1>0, StandingStill DEF dagVars
  <2>2. CallIsSound'
    BY <1>12 DEF dagVars, DagInv, CallIsSound, Served
  <2>3. DagTypeOK' /\ DagIsSound'
    BY <1>12 DEF dagVars, DagInv, DagTypeOK, DagIsSound
  <2> QED BY <1>12, <2>1, <2>2, <2>3, OrderStays DEF dagVars, DagInv
<1> QED BY <1>1, <1>2, <1>3, <1>4, <1>5, <1>6, <1>7, <1>8, <1>9, <1>10, <1>11, <1>12 DEF DagNext

(* which therefore always holds.                                           *)
LEMMA DagInvHolds == DagSpec => []DagInv
BY CallBegins, StepKeeps, PTL DEF DagSpec

-----------------------------------------------------------------------------
(* A set of numbers that is not empty has a smallest one.                  *)
LEMMA SmallestExists ==
  ASSUME NEW S \in SUBSET Nat, S # {}
  PROVE  \E k \in S : \A j \in S : k <= j
<1>1. PICK k \in S : \A j \in S : ~ (<<j, k>> \in OpToRel(<, Nat))
  BY WFMin, NatLessThanWellFounded
<1>2. SUFFICES ASSUME NEW j \in S, j < k
               PROVE  FALSE
  OBVIOUS
<1>3. <<j, k>> \in Nat \X Nat /\ <<j, k>>[1] < <<j, k>>[2]
  BY <1>2
<1> QED
  BY <1>1, <1>3, Zenon DEF OpToRel

(* The search of _has_cycle, for any loops and finite sets of edges.       *)

SearchBegins(es) == [path |-> << >>, visited |-> {}, left |-> es, cycle |-> FALSE]

(* The steps of the search are well defined: the function that Visits      *)
(* stands for exists.                                                      *)
LEMMA VisitsAre ==
  ASSUME NEW es, VisitSteps(es) \in Nat
  PROVE  Visits(es) =
           [n \in 0..VisitSteps(es) |->
              IF n = 0 THEN SearchBegins(es) ELSE Visit(Visits(es)[n - 1])]
<1> DEFINE IsRun(f, m) ==
             f = [n \in 0..m |-> IF n = 0 THEN SearchBegins(es) ELSE Visit(f[n - 1])]
           bad == {m \in Nat : ~ \E f : IsRun(f, m)}
<1>1. SUFFICES bad = {}
  <2>1. PICK f : IsRun(f, VisitSteps(es))
    BY <1>1
  <2> QED BY <2>1, Zenon DEF Visits, SearchBegins
<1>2. SUFFICES ASSUME bad # {} PROVE FALSE
  OBVIOUS
<1>3. PICK m \in bad : \A j \in bad : m <= j
  <2>1. bad \in SUBSET Nat
    OBVIOUS
  <2> HIDE DEF bad
  <2> QED BY <1>2, <2>1, SmallestExists
<1>4. CASE m = 0
  <2>1. IsRun([n \in 0..0 |-> SearchBegins(es)], 0)
    OBVIOUS
  <2> QED BY <1>4, <2>1
<1>5. CASE m # 0
  <2>1. m - 1 \in Nat /\ m - 1 \notin bad
    <3>1. m \in Nat
      OBVIOUS
    <3>2. m - 1 \in Nat /\ ~(m <= m - 1)
      BY <1>5, <3>1
    <3> HIDE DEF bad
    <3> QED BY <1>3, <3>2
  <2>2. PICK f : IsRun(f, m - 1)
    BY <2>1
  <2>3. PICK g : g = [n \in 0..m |-> IF n = m THEN Visit(f[m - 1]) ELSE f[n]]
    OBVIOUS
  <2>4. \A n \in 0..(m - 1) : g[n] = f[n]
    BY <2>1, <2>3
  <2>5. IsRun(g, m)
    <3>1. ASSUME NEW n \in 0..m
          PROVE  g[n] = IF n = 0 THEN SearchBegins(es) ELSE Visit(g[n - 1])
      <4>1. CASE n = m
        BY <1>5, <2>1, <2>3, <2>4, <4>1
      <4>2. CASE n # m
        <5>1. n \in 0..(m - 1) /\ (n # 0 => n - 1 \in 0..(m - 1))
          BY <1>5, <2>1, <4>2
        <5> QED BY <2>2, <2>4, <5>1
      <4> QED BY <4>1, <4>2
    <3> QED BY <2>3, <3>1
  <2> QED BY <2>5
<1> QED BY <1>4, <1>5

(* Where the search stands, as long as it has found no cycle.  The path    *)
(* names every node once; what was visited leads only to what was visited, *)
(* without a cycle; and an edge that was followed from a node on the path  *)
(* led to a visited node, or to the next one on the path.                  *)
OnPath(s) == Range(s.path)

SearchTypes(es, s) ==
  /\ s.path \in Seq(Loops) /\ s.visited \in SUBSET Loops
  /\ s.left \in SUBSET es /\ s.cycle \in BOOLEAN

PathIsNew(s) ==
  /\ \A i \in 1..Len(s.path) : s.path[i] \notin s.visited
  /\ \A i, j \in 1..Len(s.path) : s.path[i] = s.path[j] => i = j

VisitedIsClosed(es, s) ==
  /\ \A e \in es : e[1] \in s.visited => e[2] \in s.visited
  /\ Acyclic(s.visited, es)

FollowedLeads(es, s) ==
  \A e \in es \ s.left :
    /\ e[1] \in s.visited \cup OnPath(s)
    /\ \A i \in 1..Len(s.path) :
         e[1] = s.path[i] => e[2] \in s.visited \/ (i < Len(s.path) /\ e[2] = s.path[i + 1])

SearchStands(es, s) ==
  /\ SearchTypes(es, s)
  /\ ~s.cycle => PathIsNew(s) /\ VisitedIsClosed(es, s) /\ FollowedLeads(es, s)

SearchIsOver(s) == s.cycle \/ (s.path = << >> /\ s.visited = Loops)

(* What the search has yet to do: edges, nodes to leave, nodes to enter.   *)
YetToDo(s) == Cardinality(s.left) + Cardinality(Loops \ s.visited) + Cardinality(Unvisited(s))

(* Numbers of loops and of edges.                                          *)
LEMMA LoopsAreFinite ==
  /\ Cardinality(Loops) \in Nat
  /\ \A S \in SUBSET Loops :
       /\ IsFiniteSet(S) /\ Cardinality(S) \in Nat /\ Cardinality(S) <= Cardinality(Loops)
       /\ Cardinality(S) = 0 => S = {}
       /\ \A T \in SUBSET S : Cardinality(T) <= Cardinality(S)
<1>1. IsFiniteSet(Loops)
  BY DagAssumption
<1>2. \A S \in SUBSET Loops : IsFiniteSet(S) /\ Cardinality(S) <= Cardinality(Loops)
  BY <1>1, FS_Subset
<1>3. \A S \in SUBSET Loops : Cardinality(S) = 0 => S = {}
  BY <1>2, FS_EmptySet
<1>4. \A S \in SUBSET Loops : \A T \in SUBSET S : Cardinality(T) <= Cardinality(S)
  BY <1>2, FS_Subset
<1> QED BY <1>1, <1>2, <1>3, <1>4, FS_CardinalityType

(* The nodes on the path, one by one.                                      *)
LEMMA PathNodes ==
  ASSUME NEW es, NEW s, SearchTypes(es, s)
  PROVE  /\ Len(s.path) \in Nat /\ OnPath(s) \in SUBSET Loops
         /\ \A i \in 1..Len(s.path) : s.path[i] \in OnPath(s)
         /\ \A n \in OnPath(s) : \E i \in 1..Len(s.path) : n = s.path[i]
BY DEF SearchTypes, OnPath, Range

(* An edge that the last node of the path has yet to follow.               *)
Onward(s, e) == e \in s.left /\ e[1] = s.path[Len(s.path)]

(* Following it.                                                           *)
LEMMA FollowStands ==
  ASSUME NEW es \in SUBSET (Loops \X Loops), NEW s, SearchStands(es, s), ~s.cycle, s.path # << >>,
         NEW e, Onward(s, e)
  PROVE  /\ SearchStands(es, FollowEdge(s, e))
         /\ FollowEdge(s, e).left = s.left \ {e} /\ FollowEdge(s, e).visited = s.visited
         /\ Unvisited(FollowEdge(s, e)) \subseteq Unvisited(s)
<1>1. /\ SearchTypes(es, s) /\ PathIsNew(s) /\ VisitedIsClosed(es, s) /\ FollowedLeads(es, s)
      /\ e \in s.left /\ e \in es /\ e[1] \in Loops /\ e[2] \in Loops
      /\ e[1] = s.path[Len(s.path)]
  BY DEF SearchStands, SearchTypes, Onward
<1>2. PICK r : r = FollowEdge(s, e)
  OBVIOUS
<1>3. /\ r.visited = s.visited /\ r.left = s.left \ {e} /\ r.cycle = (e[2] \in OnPath(s))
      /\ r.path = (IF e[2] \in Unvisited(s) THEN Append(s.path, e[2]) ELSE s.path)
  BY <1>2 DEF FollowEdge, OnPath
<1>4. /\ Len(s.path) \in Nat /\ Len(s.path) \in 1..Len(s.path)
      /\ OnPath(s) \in SUBSET Loops
      /\ \A i \in 1..Len(s.path) : s.path[i] \in OnPath(s)
      /\ \A n \in OnPath(s) : \E i \in 1..Len(s.path) : n = s.path[i]
  <2>1. Len(s.path) \in Nat /\ Len(s.path) # 0
    BY <1>1, EmptySeq DEF SearchTypes
  <2> QED BY <1>1, <2>1, PathNodes
<1>5. CASE e[2] \in Unvisited(s)
  <2>1. e[2] \notin s.visited /\ e[2] \notin OnPath(s)
    BY <1>5 DEF Unvisited, OnPath
  <2>2. /\ r.path \in Seq(Loops) /\ Len(r.path) = Len(s.path) + 1
        /\ r.path[Len(s.path) + 1] = e[2]
        /\ \A i \in 1..Len(s.path) : r.path[i] = s.path[i]
    BY <1>1, <1>3, <1>5, AppendProperties DEF SearchTypes
  <2>3. \A i \in 1..Len(r.path) : i \in 1..Len(s.path) \/ i = Len(s.path) + 1
    BY <1>4, <2>2
  <2>4. SearchTypes(es, r)
    BY <1>1, <1>3, <2>2 DEF SearchTypes
  <2>5. OnPath(r) = OnPath(s) \cup {e[2]}
    <3>1. \A n \in OnPath(r) : \E i \in 1..Len(r.path) : n = r.path[i]
      BY <2>4, PathNodes
    <3>2. \A i \in 1..Len(r.path) : r.path[i] \in OnPath(r)
      BY <2>4, PathNodes
    <3>3. OnPath(r) \subseteq OnPath(s) \cup {e[2]}
      BY <1>4, <2>2, <2>3, <3>1
    <3>4. 1..Len(s.path) \subseteq 1..Len(r.path) /\ Len(s.path) + 1 \in 1..Len(r.path)
      BY <1>4, <2>2
    <3>5. \A n \in OnPath(s) : n \in OnPath(r)
      BY <1>4, <2>2, <3>2, <3>4
    <3> QED BY <2>2, <3>2, <3>3, <3>4, <3>5
  <2>6. PathIsNew(r)
    <3>1. \A i \in 1..Len(r.path) : r.path[i] \notin r.visited
      BY <1>1, <1>3, <2>1, <2>2, <2>3 DEF PathIsNew
    <3>2. \A i \in 1..Len(s.path) : r.path[i] # e[2]
      BY <1>4, <2>1, <2>2
    <3>3. ASSUME NEW i \in 1..Len(r.path), NEW j \in 1..Len(r.path), r.path[i] = r.path[j]
          PROVE  i = j
      BY <1>1, <2>2, <2>3, <3>2, <3>3 DEF PathIsNew
    <3> QED BY <3>1, <3>3 DEF PathIsNew
  <2>7. VisitedIsClosed(es, r)
    BY <1>1, <1>3 DEF VisitedIsClosed
  <2>8. FollowedLeads(es, r)
    <3> SUFFICES ASSUME NEW f \in es \ r.left
                 PROVE  /\ f[1] \in r.visited \cup OnPath(r)
                        /\ \A i \in 1..Len(r.path) :
                             f[1] = r.path[i] =>
                               f[2] \in r.visited \/ (i < Len(r.path) /\ f[2] = r.path[i + 1])
      BY DEF FollowedLeads
    <3>1. f = e \/ f \in es \ s.left
      BY <1>3
    <3>2. f[1] \in s.visited \cup OnPath(s)
      BY <1>1, <1>4, <3>1 DEF FollowedLeads
    <3>3. f[1] # e[2]
      BY <2>1, <3>2
    <3>4. ASSUME NEW i \in 1..Len(r.path), f[1] = r.path[i]
          PROVE  f[2] \in r.visited \/ (i < Len(r.path) /\ f[2] = r.path[i + 1])
      <4>1. i \in 1..Len(s.path) /\ f[1] = s.path[i] /\ i < Len(r.path)
        BY <1>4, <2>2, <2>3, <3>3, <3>4
      <4>2. CASE f = e
        <5>1. i = Len(s.path)
          BY <1>1, <1>4, <4>1, <4>2 DEF PathIsNew
        <5> QED BY <2>2, <4>1, <4>2, <5>1
      <4>3. CASE f \in es \ s.left
        <5>1. f[2] \in s.visited \/ (i < Len(s.path) /\ f[2] = s.path[i + 1])
          BY <1>1, <4>1, <4>3 DEF FollowedLeads
        <5>2. i < Len(s.path) => i + 1 \in 1..Len(s.path)
          BY <1>4, <4>1
        <5> QED BY <1>3, <2>2, <4>1, <5>1, <5>2
      <4> QED BY <3>1, <4>2, <4>3
    <3> QED BY <1>3, <2>5, <3>2, <3>4
  <2>9. Unvisited(r) \subseteq Unvisited(s)
    BY <1>3, <2>5 DEF Unvisited, OnPath
  <2> QED BY <1>2, <1>3, <2>4, <2>6, <2>7, <2>8, <2>9 DEF SearchStands
<1>6. CASE e[2] \notin Unvisited(s)
  <2>1. r.path = s.path /\ (e[2] \in s.visited \/ e[2] \in OnPath(s))
    BY <1>1, <1>3, <1>6 DEF Unvisited, OnPath
  <2>2. SearchTypes(es, r) /\ OnPath(r) = OnPath(s) /\ Unvisited(r) = Unvisited(s)
    BY <1>1, <1>3, <2>1 DEF SearchTypes, OnPath, Unvisited
  <2>3. ~r.cycle => PathIsNew(r) /\ VisitedIsClosed(es, r)
    BY <1>1, <1>3, <2>1 DEF PathIsNew, VisitedIsClosed
  <2>4. ASSUME ~r.cycle PROVE FollowedLeads(es, r)
    <3>1. e[2] \in s.visited
      BY <1>3, <2>1, <2>4
    <3>2. \A f \in es \ r.left : f = e \/ f \in es \ s.left
      BY <1>3
    <3> QED BY <1>1, <1>3, <1>4, <2>1, <2>2, <3>1, <3>2 DEF FollowedLeads
  <2> QED BY <1>2, <1>3, <2>2, <2>3, <2>4 DEF SearchStands
<1> QED BY <1>5, <1>6

(* Leaving the last node of the path, all of whose edges were followed.    *)
Left(s) == [path |-> Front(s.path), visited |-> s.visited \cup {s.path[Len(s.path)]},
            left |-> s.left, cycle |-> FALSE]

(* The node is visited then, and all it leads to was visited before.       *)
LEMMA LeaveStands ==
  ASSUME NEW es \in SUBSET (Loops \X Loops), NEW s, SearchStands(es, s), ~s.cycle, s.path # << >>,
         \A e \in s.left : e[1] # s.path[Len(s.path)]
  PROVE  /\ SearchStands(es, Left(s))
         /\ Left(s).left = s.left /\ Unvisited(Left(s)) \subseteq Unvisited(s)
         /\ \E n \in Loops \ s.visited : Left(s).visited = s.visited \cup {n}
<1>1. SearchTypes(es, s) /\ PathIsNew(s) /\ VisitedIsClosed(es, s) /\ FollowedLeads(es, s)
  BY DEF SearchStands
<1>2. /\ Len(s.path) \in Nat /\ Len(s.path) \in 1..Len(s.path)
      /\ OnPath(s) \in SUBSET Loops
      /\ \A i \in 1..Len(s.path) : s.path[i] \in OnPath(s)
      /\ \A n \in OnPath(s) : \E i \in 1..Len(s.path) : n = s.path[i]
  <2>1. Len(s.path) \in Nat /\ Len(s.path) # 0
    BY <1>1, EmptySeq DEF SearchTypes
  <2> QED BY <1>1, <2>1, PathNodes
<1>3. PICK n \in Loops : n = s.path[Len(s.path)]
  BY <1>2
<1>4. n \notin s.visited /\ n \in OnPath(s)
  BY <1>1, <1>2, <1>3 DEF PathIsNew
<1>5. PICK p \in Seq(Loops) : /\ p = Front(s.path) /\ Len(p) = Len(s.path) - 1
                              /\ \A i \in 1..Len(p) : p[i] = s.path[i]
  <2>1. /\ Front(s.path) \in Seq(Loops) /\ Len(Front(s.path)) = Len(s.path) - 1
        /\ \A i \in 1..(Len(s.path) - 1) : Front(s.path)[i] = s.path[i]
    <3>1. \A i \in 1..(Len(s.path) - 1) : s.path[i] \in Loops /\ 1 + i - 1 = i
      BY <1>1, <1>2 DEF SearchTypes
    <3>2. Len(s.path) - 1 \in Int /\ (Len(s.path) - 1) - 1 + 1 = Len(s.path) - 1
      BY <1>2
    <3>3. /\ SubSeq(s.path, 1, Len(s.path) - 1) \in Seq(Loops)
          /\ Len(SubSeq(s.path, 1, Len(s.path) - 1)) =
               IF 1 <= Len(s.path) - 1 THEN (Len(s.path) - 1) - 1 + 1 ELSE 0
          /\ \A i \in 1..((Len(s.path) - 1) - 1 + 1) :
               SubSeq(s.path, 1, Len(s.path) - 1)[i] = s.path[1 + i - 1]
      BY <3>1, <3>2, SubSeqProperties
    <3>4. Len(SubSeq(s.path, 1, Len(s.path) - 1)) = Len(s.path) - 1
      BY <1>2, <3>2, <3>3
    <3>5. PICK f : f = SubSeq(s.path, 1, Len(s.path) - 1)
      OBVIOUS
    <3>6. Front(s.path) = f
      BY <3>5 DEF Front
    <3>7. \A i \in 1..(Len(s.path) - 1) : f[i] = s.path[i]
      BY <3>1, <3>2, <3>3, <3>5
    <3> QED BY <3>3, <3>4, <3>5, <3>6, <3>7
  <2> QED BY <2>1
<1>6. PICK r : r = Left(s)
  OBVIOUS
<1>7. /\ r.path = p /\ r.visited = s.visited \cup {n} /\ r.left = s.left /\ r.cycle = FALSE
  BY <1>3, <1>5, <1>6 DEF Left
<1>8. \A i \in 1..Len(p) : i \in 1..Len(s.path) /\ i < Len(s.path) /\ i # Len(s.path)
  BY <1>2, <1>5
<1>9. \A i \in 1..Len(s.path) : i \in 1..Len(p) \/ i = Len(s.path)
  BY <1>2, <1>5
<1>10. SearchTypes(es, r)
  BY <1>1, <1>7 DEF SearchTypes
<1>11. OnPath(s) \subseteq OnPath(r) \cup {n}
  <2>1. \A i \in 1..Len(p) : p[i] \in OnPath(r)
    BY <1>7, <1>10, PathNodes
  <2>2. SUFFICES ASSUME NEW x \in OnPath(s) PROVE x \in OnPath(r) \/ x = n
    OBVIOUS
  <2>3. PICK i \in 1..Len(s.path) : x = s.path[i]
    BY <1>2, <2>2
  <2>4. CASE i = Len(s.path)
    BY <1>3, <2>3, <2>4
  <2>5. CASE i \in 1..Len(p)
    BY <1>5, <2>1, <2>3, <2>5
  <2> QED BY <1>9, <2>4, <2>5
<1>12. PathIsNew(r)
  <2>1. \A i \in 1..Len(p) : p[i] \notin s.visited
    BY <1>1, <1>5, <1>8 DEF PathIsNew
  <2>2. \A i \in 1..Len(p) : p[i] # n
    BY <1>1, <1>2, <1>3, <1>5, <1>8 DEF PathIsNew
  <2>3. \A i, j \in 1..Len(p) : p[i] = p[j] => i = j
    BY <1>1, <1>5, <1>8 DEF PathIsNew
  <2> QED BY <1>7, <2>1, <2>2, <2>3 DEF PathIsNew
<1>13. \A e \in es : e[1] = n => e[2] \in s.visited
  <2> SUFFICES ASSUME NEW e \in es, e[1] = n PROVE e[2] \in s.visited
    OBVIOUS
  <2>1. e \in es \ s.left
    BY <1>3
  <2> QED BY <1>1, <1>2, <1>3, <2>1 DEF FollowedLeads
<1>14. VisitedIsClosed(es, r)
  <2>1. \A e \in es : e[1] \in r.visited => e[2] \in r.visited
    BY <1>1, <1>7, <1>13 DEF VisitedIsClosed
  <2>2. ASSUME NEW S \in SUBSET r.visited, S # {}
        PROVE  \E x \in S : \A m \in S : <<m, x>> \notin es
    <3>1. CASE n \notin S
      BY <1>1, <1>7, <2>2, <3>1 DEF VisitedIsClosed, Acyclic
    <3>2. CASE n \in S
      <4>1. ASSUME NEW m \in S, <<m, n>> \in es PROVE FALSE
        <5>1. m = n => n \in s.visited
          BY <1>13, <4>1
        <5>2. m # n => n \in s.visited
          BY <1>1, <1>7, <4>1 DEF VisitedIsClosed
        <5> QED BY <1>4, <5>1, <5>2
      <4> QED BY <3>2, <4>1
    <3> QED BY <3>1, <3>2
  <2> QED BY <2>1, <2>2 DEF VisitedIsClosed, Acyclic
<1>15. FollowedLeads(es, r)
  <2> SUFFICES ASSUME NEW f \in es \ r.left
               PROVE  /\ f[1] \in r.visited \cup OnPath(r)
                      /\ \A i \in 1..Len(r.path) :
                           f[1] = r.path[i] =>
                             f[2] \in r.visited \/ (i < Len(r.path) /\ f[2] = r.path[i + 1])
    BY DEF FollowedLeads
  <2>1. f[1] \in s.visited \cup OnPath(s)
    BY <1>1, <1>7 DEF FollowedLeads
  <2>2. f[1] \in r.visited \cup OnPath(r)
    BY <1>7, <1>11, <2>1
  <2>3. ASSUME NEW i \in 1..Len(p), f[1] = p[i]
        PROVE  f[2] \in r.visited \/ (i < Len(p) /\ f[2] = p[i + 1])
    <3>1. f[2] \in s.visited \/ f[2] = s.path[i + 1]
      BY <1>1, <1>5, <1>7, <1>8, <2>3 DEF FollowedLeads
    <3>2. i + 1 = Len(s.path) \/ (i < Len(p) /\ i + 1 \in 1..Len(p))
      BY <1>2, <1>5
    <3> QED BY <1>3, <1>5, <1>7, <3>1, <3>2
  <2> QED BY <1>7, <2>2, <2>3
<1>16. Unvisited(r) \subseteq Unvisited(s)
  BY <1>7, <1>11 DEF Unvisited, OnPath
<1> QED BY <1>4, <1>6, <1>7, <1>10, <1>12, <1>14, <1>15, <1>16 DEF SearchStands

(* Entering a first node.                                                  *)
Entered(s, n) == [path |-> <<n>>, visited |-> s.visited, left |-> s.left, cycle |-> FALSE]

(* No edge was followed from it yet.                                       *)
LEMMA EnterStands ==
  ASSUME NEW es \in SUBSET (Loops \X Loops), NEW s, SearchStands(es, s), ~s.cycle, s.path = << >>,
         NEW n \in Loops \ s.visited
  PROVE  /\ SearchStands(es, Entered(s, n))
         /\ Entered(s, n).left = s.left /\ Entered(s, n).visited = s.visited
         /\ n \in Unvisited(s) /\ Unvisited(Entered(s, n)) \subseteq Unvisited(s) \ {n}
<1>1. SearchTypes(es, s) /\ PathIsNew(s) /\ VisitedIsClosed(es, s) /\ FollowedLeads(es, s)
  BY DEF SearchStands
<1>2. PICK r : r = Entered(s, n)
  OBVIOUS
<1>3. r.path = <<n>> /\ r.visited = s.visited /\ r.left = s.left /\ r.cycle = FALSE
  BY <1>2 DEF Entered
<1>4. Len(r.path) = 1 /\ r.path[1] = n /\ \A i \in 1..Len(r.path) : i = 1
  BY <1>3
<1>5. SearchTypes(es, r)
  <2>1. <<n>> \in Seq(Loops)
    OBVIOUS
  <2> QED BY <1>1, <1>3, <2>1 DEF SearchTypes
<1>6. OnPath(s) = {}
  BY DEF OnPath, Range
<1>7. n \in OnPath(r)
  BY <1>4, <1>5, PathNodes
<1>8. PathIsNew(r) /\ VisitedIsClosed(es, r)
  BY <1>1, <1>3, <1>4 DEF PathIsNew, VisitedIsClosed
<1>9. \A f \in es \ s.left : f[1] \in s.visited
  BY <1>1, <1>6 DEF FollowedLeads
<1>10. FollowedLeads(es, r)
  BY <1>3, <1>4, <1>9 DEF FollowedLeads
<1>11. n \in Unvisited(s) /\ Unvisited(r) \subseteq Unvisited(s) \ {n}
  BY <1>3, <1>6, <1>7 DEF Unvisited, OnPath
<1> QED BY <1>2, <1>3, <1>5, <1>8, <1>10, <1>11 DEF SearchStands

(* What is yet to do is counted.                                           *)
LEMMA YetToDoType ==
  ASSUME NEW es, IsFiniteSet(es), NEW s, SearchStands(es, s)
  PROVE  /\ IsFiniteSet(s.left) /\ IsFiniteSet(Loops \ s.visited) /\ IsFiniteSet(Unvisited(s))
         /\ Cardinality(s.left) \in Nat /\ Cardinality(Loops \ s.visited) \in Nat
         /\ Cardinality(Unvisited(s)) \in Nat /\ YetToDo(s) \in Int
<1>1. IsFiniteSet(s.left) /\ Cardinality(s.left) \in Nat
  BY FS_Subset, FS_CardinalityType DEF SearchStands, SearchTypes
<1>2. Loops \ s.visited \in SUBSET Loops /\ Unvisited(s) \in SUBSET Loops
  BY DEF Unvisited
<1>3. /\ IsFiniteSet(Loops \ s.visited) /\ IsFiniteSet(Unvisited(s))
      /\ Cardinality(Loops \ s.visited) \in Nat /\ Cardinality(Unvisited(s)) \in Nat
  BY <1>2, LoopsAreFinite
<1> QED BY <1>1, <1>3 DEF YetToDo

(* Each step of the search keeps its place, and has less to do after it.   *)
LEMMA VisitStands ==
  ASSUME NEW es \in SUBSET (Loops \X Loops), IsFiniteSet(es), NEW s, SearchStands(es, s)
  PROVE  /\ SearchStands(es, Visit(s))
         /\ SearchIsOver(s) => Visit(s) = s
         /\ ~SearchIsOver(s) => YetToDo(Visit(s)) + 1 <= YetToDo(s)
<1>1. CASE SearchIsOver(s)
  BY <1>1 DEF SearchIsOver, Visit
<1>2. CASE ~SearchIsOver(s)
  <2>1. PICK r : r = Visit(s)
    OBVIOUS
  <2>2. SearchTypes(es, s) /\ ~s.cycle
    BY <1>2 DEF SearchStands, SearchIsOver
  <2>3. SUFFICES SearchStands(es, r) /\ YetToDo(r) + 1 <= YetToDo(s)
    BY <1>2, <2>1
  <2>4. SearchStands(es, r) =>
          /\ IsFiniteSet(s.left) /\ IsFiniteSet(Loops \ s.visited) /\ IsFiniteSet(Unvisited(s))
          /\ Cardinality(s.left) \in Nat /\ Cardinality(r.left) \in Nat
          /\ Cardinality(Loops \ s.visited) \in Nat /\ Cardinality(Loops \ r.visited) \in Nat
          /\ Cardinality(Unvisited(s)) \in Nat /\ Cardinality(Unvisited(r)) \in Nat
    BY YetToDoType
  <2>5. CASE s.path # << >>
    <3> DEFINE onward == {e \in s.left : e[1] = s.path[Len(s.path)]}
    <3>1. CASE onward # {}
      <4>1. PICK e \in onward : r = FollowEdge(s, e)
        BY <1>2, <2>1, <2>5, <3>1, Zenon DEF Visit, VisitOnward, SearchIsOver
      <4>2. e \in s.left /\ e[1] = s.path[Len(s.path)]
        BY <4>1
      <4>3. /\ SearchStands(es, r) /\ r.left = s.left \ {e} /\ r.visited = s.visited
            /\ Unvisited(r) \subseteq Unvisited(s)
        <5>1. Onward(s, e)
          BY <4>2 DEF Onward
        <5>2. /\ SearchStands(es, FollowEdge(s, e))
              /\ FollowEdge(s, e).left = s.left \ {e} /\ FollowEdge(s, e).visited = s.visited
              /\ Unvisited(FollowEdge(s, e)) \subseteq Unvisited(s)
          BY <2>2, <2>5, <5>1, FollowStands
        <5> QED BY <4>1, <5>2
      <4>5. Cardinality(r.left) = Cardinality(s.left) - 1
        <5>1. IsFiniteSet(s.left)
          BY <2>4, <4>3
        <5>2. Cardinality(s.left \ {e}) = Cardinality(s.left) - 1
          BY <4>2, <5>1, FS_RemoveElement
        <5> QED BY <4>3, <5>2
      <4>4. Cardinality(Unvisited(r)) <= Cardinality(Unvisited(s))
        BY <2>4, <4>3, FS_Subset
      <4> QED BY <2>4, <4>3, <4>4, <4>5 DEF YetToDo
    <3>2. CASE onward = {}
      <4>1. r = Left(s)
        BY <1>2, <2>1, <2>5, <3>2, Zenon DEF Visit, VisitOnward, SearchIsOver, Left
      <4>2. /\ SearchStands(es, r) /\ r.left = s.left
            /\ Unvisited(r) \subseteq Unvisited(s)
            /\ \E n \in Loops \ s.visited : r.visited = s.visited \cup {n}
        BY <2>2, <2>5, <3>2, <4>1, LeaveStands
      <4>3. PICK n \in Loops \ s.visited : r.visited = s.visited \cup {n}
        BY <4>2
      <4>4. Loops \ r.visited = (Loops \ s.visited) \ {n}
        BY <4>3
      <4>5. Cardinality(Loops \ r.visited) = Cardinality(Loops \ s.visited) - 1
        <5>1. PICK U : U = Loops \ s.visited
          OBVIOUS
        <5>2. IsFiniteSet(U) /\ n \in U
          BY <2>4, <4>2, <4>3, <5>1
        <5>3. Cardinality(U \ {n}) = Cardinality(U) - 1
          BY <5>2, FS_RemoveElement
        <5> QED BY <4>4, <5>1, <5>3
      <4>6. Cardinality(Unvisited(r)) <= Cardinality(Unvisited(s))
        BY <2>4, <4>2, FS_Subset
      <4> QED BY <2>4, <4>2, <4>5, <4>6 DEF YetToDo
    <3> QED BY <3>1, <3>2
  <2>6. CASE s.path = << >>
    <3>1. Loops \ s.visited # {}
      BY <1>2, <2>2, <2>6 DEF SearchIsOver, SearchTypes
    <3>2. PICK n \in Loops \ s.visited : r = Entered(s, n)
      BY <1>2, <2>1, <2>6, <3>1, Zenon DEF Visit, SearchIsOver, Entered
    <3>3. /\ SearchStands(es, r) /\ r.left = s.left /\ r.visited = s.visited
          /\ n \in Unvisited(s) /\ Unvisited(r) \subseteq Unvisited(s) \ {n}
      BY <2>2, <2>6, <3>2, EnterStands
    <3>4. /\ Cardinality(Unvisited(s) \ {n}) = Cardinality(Unvisited(s)) - 1
          /\ IsFiniteSet(Unvisited(s) \ {n})
      BY <2>4, <3>3, FS_RemoveElement
    <3>5. Cardinality(Unvisited(r)) <= Cardinality(Unvisited(s) \ {n})
      BY <3>3, <3>4, FS_Subset
    <3> QED BY <2>4, <3>3, <3>4, <3>5 DEF YetToDo
  <2> QED BY <2>5, <2>6
<1> QED BY <1>1, <1>2

(* After as many steps as VisitSteps counts the search is over, and if it  *)
(* found no cycle there is none.                                           *)
LEMMA NoCycleIsFound ==
  ASSUME NEW es \in SUBSET (Loops \X Loops), IsFiniteSet(es), ~DagHasCycle(es)
  PROVE  Acyclic(Loops, es)
<1>1. Cardinality(es) \in Nat /\ Cardinality(Loops) \in Nat /\ VisitSteps(es) \in Nat
  BY FS_CardinalityType, LoopsAreFinite DEF VisitSteps
<1>2. PICK k \in Nat : k = VisitSteps(es)
  BY <1>1
<1>3. PICK f : f = Visits(es)
  OBVIOUS
<1>4. f = [n \in 0..k |-> IF n = 0 THEN SearchBegins(es) ELSE Visit(f[n - 1])]
  BY <1>1, <1>2, <1>3, VisitsAre
<1>5. f[0] = SearchBegins(es)
  <2>1. 0 \in 0..k
    OBVIOUS
  <2> QED BY <1>4, <2>1, Zenon
<1>6. \A n \in 1..k : f[n] = Visit(f[n - 1])
  <2>1. \A n \in 1..k : n \in 0..k /\ n # 0
    OBVIOUS
  <2> QED BY <1>4, <2>1
<1> DEFINE Good(n) == /\ SearchStands(es, f[n])
                      /\ SearchIsOver(f[n]) \/ YetToDo(f[n]) + n <= k
           bad == {n \in 0..k : ~Good(n)}
<1>7. Good(0)
  <2>1. PICK s : s = SearchBegins(es)
    OBVIOUS
  <2>2. s.path = << >> /\ s.visited = {} /\ s.left = es /\ s.cycle = FALSE
    BY <2>1 DEF SearchBegins
  <2>3. OnPath(s) = {} /\ Len(s.path) = 0
    BY <2>2 DEF OnPath, Range
  <2>4. SearchTypes(es, s)
    BY <2>2, EmptySeq DEF SearchTypes
  <2>5. PathIsNew(s) /\ VisitedIsClosed(es, s) /\ FollowedLeads(es, s)
    BY <2>2, <2>3 DEF PathIsNew, VisitedIsClosed, FollowedLeads, Acyclic
  <2>6. Unvisited(s) = Loops /\ Loops \ s.visited = Loops
    BY <2>2, <2>3 DEF Unvisited, OnPath
  <2>7. YetToDo(s) = k
    BY <1>1, <1>2, <2>2, <2>6 DEF YetToDo, VisitSteps
  <2> QED BY <1>5, <2>1, <2>4, <2>5, <2>7 DEF SearchStands
<1>8. bad = {}
  <2>1. SUFFICES ASSUME bad # {} PROVE FALSE
    OBVIOUS
  <2>2. PICK m \in bad : \A j \in bad : m <= j
    <3>1. bad \in SUBSET Nat
      OBVIOUS
    <3> HIDE DEF bad
    <3> QED BY <2>1, <3>1, SmallestExists
  <2>3. m # 0
    BY <1>7
  <2>4. m \in 1..k /\ m - 1 \in 0..k /\ ~(m <= m - 1)
    BY <2>3
  <2>5. Good(m - 1) /\ f[m] = Visit(f[m - 1])
    BY <1>6, <2>2, <2>4
  <2>6. PICK s : s = f[m - 1]
    OBVIOUS
  <2>7. SearchStands(es, s) /\ (SearchIsOver(s) \/ YetToDo(s) + (m - 1) <= k) /\ f[m] = Visit(s)
    BY <2>5, <2>6
  <2>8. /\ SearchStands(es, f[m])
        /\ SearchIsOver(s) => f[m] = s
        /\ ~SearchIsOver(s) => YetToDo(f[m]) + 1 <= YetToDo(s)
    BY <2>7, VisitStands
  <2>9. YetToDo(f[m]) \in Int /\ YetToDo(s) \in Int
    BY <2>7, <2>8, YetToDoType
  <2>10. Good(m)
    BY <2>4, <2>7, <2>8, <2>9
  <2> QED BY <2>10
<1>9. PICK s : s = f[k]
  OBVIOUS
<1>10. SearchStands(es, s) /\ (SearchIsOver(s) \/ YetToDo(s) + k <= k)
  BY <1>8, <1>9
<1>11. ~s.cycle
  BY <1>2, <1>3, <1>9 DEF DagHasCycle
<1>12. s.visited = Loops
  <2>1. CASE SearchIsOver(s)
    BY <1>11, <2>1 DEF SearchIsOver
  <2>2. CASE YetToDo(s) + k <= k
    <3>1. /\ Cardinality(s.left) \in Nat /\ Cardinality(Loops \ s.visited) \in Nat
          /\ Cardinality(Unvisited(s)) \in Nat
      BY <1>10, YetToDoType
    <3>2. Cardinality(Loops \ s.visited) = 0
      BY <2>2, <3>1 DEF YetToDo
    <3>3. Loops \ s.visited = {}
      BY <3>2, LoopsAreFinite
    <3> QED BY <1>10, <3>3 DEF SearchStands, SearchTypes
  <2> QED BY <1>10, <2>1, <2>2
<1> QED BY <1>10, <1>11, <1>12 DEF SearchStands, VisitedIsClosed

(* A DAG is only created over edges without a cycle, and keeps its edges.  *)
LEMMA StoredStaysAcyclic == StoredDagIsAcyclic /\ [DagNext]_dagVars => StoredDagIsAcyclic'
<1> SUFFICES ASSUME StoredDagIsAcyclic, [DagNext]_dagVars PROVE StoredDagIsAcyclic'
  OBVIOUS
<1>1. CASE CreateDag
  <2>1. PICK loops, es : /\ \E n \in 0..MaxEdges : es \in kSubset(n, Loops \X Loops)
                         /\ ValidEdges(loops, es) /\ dag' = DagOf("created", loops, es)
    BY <1>1, Zenon DEF CreateDag
  <2>2. es \in SUBSET (Loops \X Loops)
    BY <2>1 DEF kSubset
  <2>3. IsFiniteSet(es)
    <3>1. IsFiniteSet(Loops \X Loops)
      BY DagAssumption, FS_Product
    <3> QED BY <2>2, <3>1, FS_Subset
  <2>4. Acyclic(Loops, es)
    BY <2>1, <2>2, <2>3, NoCycleIsFound DEF ValidEdges
  <2>5. dag'.edges = es
    BY <2>1 DEF DagOf
  <2> QED BY <2>4, <2>5 DEF StoredDagIsAcyclic
<1>2. CASE OnLoopCompleted
  <2>1. dag'.edges = dag.edges
    BY <1>2 DEF OnLoopCompleted, DagOf
  <2> QED BY <2>1 DEF StoredDagIsAcyclic
<1>3. CASE UNCHANGED dag
  BY <1>3 DEF StoredDagIsAcyclic
<1> QED BY <1>1, <1>2, <1>3
        DEF DagNext, BeginAdvance, ReadStatus, PickReady, LoadPicked, SavePicked, SaveWaiting,
            RefuseAdvance, LoopRequest, CrashDag, dagVars

-----------------------------------------------------------------------------
(* The DAG's row, the call and the loops' rows keep their types.           *)
THEOREM DagTypeCorrect == DagSpec => []DagTypeOK
<1>1. DagInv => DagTypeOK
  BY DEF DagInv
<1> QED BY DagInvHolds, <1>1, PTL

(* advance never prepares a loop before all it depends on is COMPLETED.    *)
THEOREM AdvanceKeepsOrder == DagSpec => []AdvancedInOrder
<1>1. DagInv => AdvancedInOrder
  BY DEF DagInv
<1> QED BY DagInvHolds, <1>1, PTL

(* on_loop_completed marks a DAG COMPLETED only when all its loops are.    *)
THEOREM CompletionIsTrue == DagSpec => []CompletedDagIsDone
<1>1. DagInv => CompletedDagIsDone
  BY DEF DagInv
<1> QED BY DagInvHolds, <1>1, PTL

(* What the depth-first search lets through has no cycle.                  *)
THEOREM DagStaysAcyclic == DagSpec => []StoredDagIsAcyclic
<1>1. DagInit => StoredDagIsAcyclic
  BY DEF DagInit, DagOf, StoredDagIsAcyclic, Acyclic
<1> QED BY <1>1, StoredStaysAcyclic, PTL DEF DagSpec

(* Why that matters: the order of a DAG never leaves it without a loop     *)
(* that may be prepared or is under way.                                   *)
THEOREM OrderNeverBlocks == DagSpec => []OrderLeavesALoopReady
<1>1. DagInv => (StoredDagIsAcyclic => OrderLeavesALoopReady)
  <2> DEFINE left == Members(dag) \ DoneNow
  <2> SUFFICES ASSUME DagInv, StoredDagIsAcyclic, left # {},
                      \A l \in Members(dag) : phase[l] # "stopped"
               PROVE  Ready(dag, OverNow, DoneNow) # {}
    BY DEF OrderLeavesALoopReady, AllCompleted
  <2>1. left \in SUBSET Loops
    BY MembersType DEF DagInv, DagTypeOK
  <2>2. PICK n \in left : \A m \in left : <<m, n>> \notin dag.edges
    BY <2>1 DEF StoredDagIsAcyclic, Acyclic
  <2>3. Sources(dag.edges, n) \subseteq DoneNow
    BY <2>2 DEF DagInv, DagIsSound, Sources
  <2>4. n \in Members(dag) /\ n \notin OverNow
    BY <2>1, <2>2 DEF OverNow, DoneNow
  <2> QED BY <2>3, <2>4 DEF Ready
<1> QED BY DagInvHolds, DagStaysAcyclic, <1>1, PTL

(* The order of a DAG has no cycle, it is kept to, its completion is true  *)
(* and it is never what blocks the DAG.                                    *)
THEOREM DagOrderHolds == DagSpec => []DagKeepsOrder
<1>1. /\ DagTypeOK /\ StoredDagIsAcyclic /\ AdvancedInOrder /\ CompletedDagIsDone
      /\ OrderLeavesALoopReady
      => DagKeepsOrder
  BY DEF DagKeepsOrder
<1> QED
  BY <1>1, DagTypeCorrect, DagStaysAcyclic, AdvanceKeepsOrder, CompletionIsTrue,
     OrderNeverBlocks, PTL

-----------------------------------------------------------------------------
(* For any tasks, instances and bounds: the search of add keeps every      *)
(* instance acyclic that loaded no cycle, and the file as well, unless an  *)
(* instance appended to it that had not loaded all of it.  No induction    *)
(* over paths is needed: the nodes a finished search has seen are closed   *)
(* under the edges, and a set of nodes without a source would have to lie  *)
(* on one side of them.                                                    *)

(* Acyclic sets of edges.                                                  *)

(* Fewer edges make no cycle.                                              *)
LEMMA FewerEdges ==
  ASSUME NEW N, NEW es, NEW fewer, fewer \subseteq es, Acyclic(N, es)
  PROVE  Acyclic(N, fewer)
BY DEF Acyclic

(* An edge s -> t closes no cycle if a set that is closed under the edges  *)
(* holds t and not s.                                                      *)
LEMMA EdgeWithoutWayBack ==
  ASSUME NEW N, NEW es, NEW s \in N, NEW t \in N, NEW R \in SUBSET N,
         Acyclic(N, es), t \in R, s \notin R,
         \A n \in R : \A m \in N : <<n, m>> \in es => m \in R
  PROVE  Acyclic(N, es \cup {<<s, t>>})
<1> DEFINE more == es \cup {<<s, t>>}
<1> SUFFICES ASSUME NEW S \in SUBSET N, S # {},
                    \A n \in S : \E m \in S : <<m, n>> \in more
             PROVE  FALSE
  BY DEF Acyclic
<1>1. CASE S \ R # {}
  (* Whoever is outside R has a source, and this one is outside R too.     *)
  <2>1. PICK n \in S \ R : \A m \in S \ R : <<m, n>> \notin es
    <3> S \ R \in SUBSET N
      OBVIOUS
    <3> QED BY <1>1 DEF Acyclic
  <2>2. PICK m \in S : <<m, n>> \in more
    BY <2>1
  <2>3. <<m, n>> \in es
    BY <2>1, <2>2
  <2>4. m \in S \ R
    BY <2>1, <2>2, <2>3
  <2> QED BY <2>1, <2>3, <2>4
<1>2. CASE S \ R = {}
  (* Then s is not in S, and the new edge is the source of none in S.      *)
  <2>1. PICK n \in S : \A m \in S : <<m, n>> \notin es
    BY DEF Acyclic
  <2>2. PICK m \in S : <<m, n>> \in more
    BY <2>1
  <2>3. <<m, n>> = <<s, t>>
    BY <2>1, <2>2
  <2>4. m = s
    BY <2>3
  <2> QED BY <2>2, <2>4, <1>2
<1> QED BY <1>1, <1>2

-----------------------------------------------------------------------------
(* Types.                                                                  *)

(* What is read from a file of edges are edges.                            *)
LEMMA StoredType ==
  ASSUME NEW file \in Seq(Line)
  PROVE  Stored(file) \subseteq Dependencies
<1> SUFFICES ASSUME NEW i \in DOMAIN file, file[i] # Torn
             PROVE  file[i].edge \in Dependencies
  BY DEF Stored, Readable
<1>1. file[i] \in Line
  OBVIOUS
<1>2. file[i] \notin [torn : {TRUE}]
  BY DEF Torn
<1> QED BY <1>1, <1>2 DEF Line

(* A file with a line more is a file.                                      *)
LEMMA AppendedType ==
  ASSUME NEW file \in Seq(Line), NEW line \in Line
  PROVE  Appended(file, line) \in Seq(Line)
BY DEF Appended

(* A line more adds its edge, and a torn one adds none.                    *)
LEMMA AppendedStored ==
  ASSUME NEW file \in Seq(Line), NEW e \in Dependencies
  PROVE  /\ Stored(Appended(file, [edge |-> e])) \subseteq Stored(file) \cup {e}
         /\ Stored(Appended(file, Torn)) \subseteq Stored(file)
<1> DEFINE Behind(line) == Append(file, line)
<1>1. ASSUME NEW line, NEW i \in DOMAIN Behind(line), i # Len(file) + 1
      PROVE  i \in DOMAIN file /\ Behind(line)[i] = file[i]
  BY <1>1
<1>2. ASSUME NEW line PROVE Behind(line)[Len(file) + 1] = line
  OBVIOUS
<1>3. [edge |-> e].edge = e
  OBVIOUS
<1>4. Stored(Behind([edge |-> e])) \subseteq Stored(file) \cup {e}
  BY <1>1, <1>2, <1>3 DEF Stored, Readable
<1>5. Stored(Behind(Torn)) \subseteq Stored(file)
  BY <1>1, <1>2 DEF Stored, Readable
<1> QED BY <1>4, <1>5 DEF Appended

(* A torn line and a line with an edge are lines.                          *)
LEMMA LineTypes ==
  /\ Torn \in Line
  /\ \A e \in Dependencies : [edge |-> e] \in Line
BY DEF Torn, Line

(* At first no graph has read anything.                                    *)
LEMMA InitTypeOK == DepInit => DepTypeOK
<1> SUFFICES ASSUME DepInit PROVE DepTypeOK
  OBVIOUS
<1>1. adding \in [Graphs -> Add]
  BY DEF DepInit, Add
<1>2. lines \in Seq(Line)
  BY DEF DepInit
<1>3. edges \in [Graphs -> SUBSET Dependencies]
  BY DEF DepInit
<1> QED BY <1>1, <1>2, <1>3 DEF DepInit, DepTypeOK

(* Every step keeps the types.                                             *)
LEMMA NextTypeOK == DepTypeOK /\ [DepNext]_depVars => DepTypeOK'
<1> SUFFICES ASSUME DepTypeOK, [DepNext]_depVars PROVE DepTypeOK'
  OBVIOUS
<1> USE DEF DepTypeOK, Calls
<1>1. ASSUME NEW g \in Graphs, Construct(g) PROVE DepTypeOK'
  BY <1>1, StoredType DEF Construct
<1>2. ASSUME NEW g \in Graphs, NEW s \in Tasks, NEW t \in Tasks, BeginAdd(g, s, t)
      PROVE  DepTypeOK'
  <2>1. SearchFor(<<s, t>>) \in Add
    BY DEF SearchFor, Searching, Add, Dependencies
  <2> QED BY <1>2, <2>1 DEF BeginAdd
<1>3. ASSUME NEW g \in Graphs, NEW n \in Tasks, SearchNode(g, n) PROVE DepTypeOK'
  <2> DEFINE c == adding[g]
             more == Targets(edges[g] \cup {c.edge}, n)
             next == [at |-> "search", edge |-> c.edge, seen |-> c.seen \cup {n},
                      stack |-> (c.stack \ {n}) \cup (IF n \in c.seen THEN {} ELSE more)]
  <2>1. c \in Searching /\ edges[g] \subseteq Dependencies
    BY <1>3 DEF SearchNode, Add, Unlocked
  <2>2. more \subseteq Tasks
    BY <2>1 DEF Targets, Searching, Dependencies
  <2>3. next \in Add
    BY <2>1, <2>2 DEF Add, Searching
  <2> QED BY <1>3, <2>3 DEF SearchNode
<1>4. ASSUME NEW g \in Graphs, RefuseAdd(g) PROVE DepTypeOK'
  BY <1>4 DEF RefuseAdd, Add
<1>5. ASSUME NEW g \in Graphs, AcceptAdd(g) PROVE DepTypeOK'
  <2>1. adding[g].edge \in Dependencies
    BY <1>5 DEF AcceptAdd, Add, Searching, Unlocked
  <2>2. [at |-> "write", edge |-> adding[g].edge, seen |-> {}, stack |-> {}] \in Add
    BY <2>1 DEF Add, Searching
  <2> QED BY <1>5, <2>1, <2>2 DEF AcceptAdd
<1>6. ASSUME NEW g \in Graphs, WriteEdge(g) PROVE DepTypeOK'
  <2>1. adding[g].edge \in Dependencies
    BY <1>6 DEF WriteEdge, Add, Searching, Unlocked
  <2>2. Unlocked \in Add
    BY DEF Add
  <2>3. Appended(lines, [edge |-> adding[g].edge]) \in Seq(Line)
    BY <2>1, LineTypes, AppendedType
  <2> QED BY <1>6, <2>2, <2>3 DEF WriteEdge
<1>7. ASSUME CrashGraphs PROVE DepTypeOK'
  <2>2. adding' \in [Graphs -> Add]
    BY <1>7 DEF CrashGraphs, Add
  <2>3. lines' \in Seq(Line)
    BY <1>7, LineTypes, AppendedType DEF CrashGraphs
  <2>4. /\ open' \subseteq Graphs /\ sound' \subseteq Graphs /\ blind' \in BOOLEAN
        /\ edges' \in [Graphs -> SUBSET Dependencies] /\ crashes' \in Nat
    BY <1>7, DependencyAssumption DEF CrashGraphs
  <2> QED BY <2>2, <2>3, <2>4
<1>8. ASSUME UNCHANGED depVars PROVE DepTypeOK'
  BY <1>8 DEF depVars
<1> QED BY <1>1, <1>2, <1>3, <1>4, <1>5, <1>6, <1>7, <1>8 DEF DepNext

(* The file's lines, the instances and their calls are of their types.     *)
THEOREM DependenciesTypeCorrect == DepSpec => []DepTypeOK
BY InitTypeOK, NextTypeOK, PTL DEF DepSpec

-----------------------------------------------------------------------------
(* The inductive invariant.                                                *)

(* How far a search has come: what it has seen does not hold the source of *)
(* the new edge, and leads only to what it has seen or has yet to look at. *)
SearchInv(g) ==
  LET c == adding[g] IN
  c.at = "search" =>
    /\ c.edge[1] \notin c.seen
    /\ c.edge[2] \in c.seen \cup c.stack
    /\ \A n \in c.seen : Targets(edges[g] \cup {c.edge}, n) \subseteq c.seen \cup c.stack

DepInv ==
  /\ \A g \in Graphs : SearchInv(g)
  /\ \A g \in Graphs : adding[g].at = "write" => adding[g].edge \in edges[g]
  /\ \A g \in Graphs : adding[g].at # "idle" => g \in open
  /\ \A g \in sound : Acyclic(Tasks, edges[g])
  /\ ~blind => Acyclic(Tasks, Stored(lines)) /\ open \subseteq sound

(* No edges have no cycle.                                                 *)
LEMMA InitDepInv == DepInit => DepInv
<1> SUFFICES ASSUME DepInit PROVE DepInv
  OBVIOUS
<1>1. Acyclic(Tasks, {})
  BY DEF Acyclic
<1>2. Stored(<< >>) = {}
  BY DEF Stored, Readable
<1>3. \A g \in Graphs : adding[g].at = "idle"
  BY DEF DepInit, Unlocked
<1> QED BY <1>1, <1>2, <1>3 DEF DepInit, DepInv, SearchInv

(* A finished search answers the question that add asked.                  *)
LEMMA FinishedSearch ==
  ASSUME DepTypeOK, DepInv, NEW g \in sound, adding[g].at = "search", adding[g].stack = {}
  PROVE  Acyclic(Tasks, edges[g] \cup {adding[g].edge})
<1> DEFINE c == adding[g]
<1>1. g \in Graphs /\ c \in Searching /\ edges[g] \subseteq Dependencies
  BY DEF DepTypeOK, Add, Unlocked
<1>2. c.edge = <<c.edge[1], c.edge[2]>> /\ c.edge[1] \in Tasks /\ c.edge[2] \in Tasks
  BY <1>1 DEF Searching, Dependencies
<1>3. c.edge[2] \in c.seen /\ c.edge[1] \notin c.seen /\ c.seen \in SUBSET Tasks
  BY <1>1 DEF DepInv, SearchInv, Searching
<1>4. \A n \in c.seen : \A m \in Tasks : <<n, m>> \in edges[g] => m \in c.seen
  <2> SUFFICES ASSUME NEW n \in c.seen, NEW m \in Tasks, <<n, m>> \in edges[g]
               PROVE  m \in c.seen
    OBVIOUS
  <2>1. m \in Targets(edges[g] \cup {c.edge}, n)
    BY DEF Targets
  <2> QED BY <1>1, <2>1 DEF DepInv, SearchInv
<1>5. Acyclic(Tasks, edges[g])
  BY DEF DepInv
<1>6. Acyclic(Tasks, edges[g] \cup {<<c.edge[1], c.edge[2]>>})
  BY <1>2, <1>3, <1>4, <1>5, EdgeWithoutWayBack
<1> QED BY <1>2, <1>6

(* Every step keeps the edges without a cycle, in memory and in the files. *)
LEMMA NextDepInv == DepTypeOK /\ DepTypeOK' /\ DepInv /\ [DepNext]_depVars => DepInv'
<1> SUFFICES ASSUME DepTypeOK, DepTypeOK', DepInv, [DepNext]_depVars PROVE DepInv'
  OBVIOUS
<1> USE DEF Calls
<1>1. ASSUME NEW g \in Graphs, Construct(g) PROVE DepInv'
  <2>1. adding[g].at = "idle" /\ adding' = adding /\ lines' = lines /\ blind' = blind
    BY <1>1 DEF Construct
  <2>2. /\ \A h \in Graphs \ {g} : edges'[h] = edges[h]
        /\ edges'[g] = Stored(lines)
    BY <1>1 DEF Construct, DepTypeOK
  <2>3. /\ open' = open \cup {g}
        /\ sound' = IF Acyclic(Tasks, Stored(lines)) THEN sound \cup {g} ELSE sound \ {g}
    BY <1>1 DEF Construct
  <2>4. \A h \in Graphs : SearchInv(h)'
    BY <2>1, <2>2 DEF DepInv, SearchInv
  <2>5. \A h \in sound' : Acyclic(Tasks, edges'[h])
    BY <2>2, <2>3 DEF DepInv, DepTypeOK
  <2> QED BY <2>1, <2>2, <2>3, <2>4, <2>5 DEF DepInv
<1>2. ASSUME NEW g \in Graphs, NEW s \in Tasks, NEW t \in Tasks, BeginAdd(g, s, t)
      PROVE  DepInv'
  <2>1. /\ adding'[g] = [at |-> "search", edge |-> <<s, t>>, seen |-> {}, stack |-> {t}]
        /\ \A h \in Graphs \ {g} : adding'[h] = adding[h]
        /\ g \in open
        /\ UNCHANGED <<lines, open, edges, sound, blind>>
    BY <1>2 DEF BeginAdd, SearchFor, DepTypeOK
  <2>2. \A h \in Graphs : SearchInv(h)'
    BY <2>1 DEF DepInv, SearchInv
  <2> QED BY <2>1, <2>2 DEF DepInv
<1>3. ASSUME NEW g \in Graphs, NEW n \in Tasks, SearchNode(g, n) PROVE DepInv'
  <2> DEFINE c == adding[g]
             more == Targets(edges[g] \cup {c.edge}, n)
  <2>1. /\ c.at = "search" /\ n \in c.stack /\ n # c.edge[1]
        /\ adding'[g] = [at |-> "search", edge |-> c.edge, seen |-> c.seen \cup {n},
                         stack |-> (c.stack \ {n}) \cup (IF n \in c.seen THEN {} ELSE more)]
        /\ \A h \in Graphs \ {g} : adding'[h] = adding[h]
        /\ UNCHANGED <<lines, open, edges, sound, blind>>
    BY <1>3 DEF SearchNode, DepTypeOK
  <2>2. SearchInv(g)'
    <3>1. /\ c.edge[1] \notin c.seen
          /\ c.edge[2] \in c.seen \cup c.stack
          /\ \A k \in c.seen : Targets(edges[g] \cup {c.edge}, k) \subseteq c.seen \cup c.stack
      BY <2>1 DEF DepInv, SearchInv
    <3> DEFINE d == adding'[g]
    <3>2. d.seen = c.seen \cup {n} /\ d.edge = c.edge
      BY <2>1
    <3>3. c.seen \cup c.stack \subseteq d.seen \cup d.stack
      BY <2>1
    <3>4. n \notin c.seen => more \subseteq d.stack
      BY <2>1
    <3>5. \A k \in d.seen : Targets(edges[g] \cup {c.edge}, k) \subseteq d.seen \cup d.stack
      BY <3>1, <3>2, <3>3, <3>4
    <3>6. d.edge[1] \notin d.seen /\ d.edge[2] \in d.seen \cup d.stack
      BY <2>1, <3>1, <3>2, <3>3
    <3> QED BY <2>1, <3>2, <3>5, <3>6 DEF SearchInv
  <2>3. \A h \in Graphs : SearchInv(h)'
    BY <2>1, <2>2 DEF DepInv, SearchInv
  <2> QED BY <2>1, <2>3 DEF DepInv
<1>4. ASSUME NEW g \in Graphs, RefuseAdd(g) PROVE DepInv'
  <2>1. /\ adding'[g] = [at |-> "idle"]
        /\ \A h \in Graphs \ {g} : adding'[h] = adding[h]
        /\ UNCHANGED <<lines, open, edges, sound, blind>>
    BY <1>4 DEF RefuseAdd, Unlocked, DepTypeOK
  <2>2. SearchInv(g)'
    BY <2>1 DEF SearchInv
  <2>3. \A h \in Graphs \ {g} : SearchInv(h)'
    BY <2>1 DEF DepInv, SearchInv
  <2> QED BY <2>1, <2>2, <2>3 DEF DepInv
<1>5. ASSUME NEW g \in Graphs, AcceptAdd(g) PROVE DepInv'
  <2> DEFINE c == adding[g]
  <2>1. /\ c.at = "search" /\ c.stack = {}
        /\ adding'[g] = [at |-> "write", edge |-> c.edge, seen |-> {}, stack |-> {}]
        /\ edges'[g] = edges[g] \cup {c.edge}
        /\ \A h \in Graphs \ {g} : adding'[h] = adding[h] /\ edges'[h] = edges[h]
        /\ UNCHANGED <<lines, open, sound, blind>>
    BY <1>5 DEF AcceptAdd, DepTypeOK
  <2>2. \A h \in sound : Acyclic(Tasks, edges'[h])
    BY <2>1, FinishedSearch DEF DepInv, DepTypeOK
  <2>3. SearchInv(g)'
    BY <2>1 DEF SearchInv
  <2>4. \A h \in Graphs \ {g} : SearchInv(h)'
    BY <2>1 DEF DepInv, SearchInv
  <2> QED BY <2>1, <2>2, <2>3, <2>4 DEF DepInv
<1>6. ASSUME NEW g \in Graphs, WriteEdge(g) PROVE DepInv'
  <2> DEFINE c == adding[g]
  <2>1. /\ c.at = "write" /\ c.edge \in edges[g] /\ g \in open
        /\ adding'[g] = [at |-> "idle"]
        /\ \A h \in Graphs \ {g} : adding'[h] = adding[h]
        /\ lines' = Appended(lines, [edge |-> c.edge])
        /\ blind' = (blind \/ ~(Stored(lines) \subseteq edges[g]))
        /\ UNCHANGED <<open, edges, sound>>
    BY <1>6 DEF WriteEdge, Unlocked, DepTypeOK, DepInv
  <2>2. c.edge \in Dependencies
    BY <2>1 DEF DepTypeOK
  <2>3. Stored(lines') \subseteq Stored(lines) \cup {c.edge}
    BY <2>1, <2>2, AppendedStored DEF DepTypeOK
  <2>4. ASSUME ~blind' PROVE Acyclic(Tasks, Stored(lines')) /\ open' \subseteq sound'
    <3>1. ~blind /\ Stored(lines) \subseteq edges[g]
      BY <2>1, <2>4 DEF DepTypeOK
    <3>2. open \subseteq sound /\ Acyclic(Tasks, edges[g])
      BY <2>1, <3>1 DEF DepInv
    <3>3. Stored(lines') \subseteq edges[g]
      BY <2>1, <2>3, <3>1
    <3> QED BY <2>1, <3>2, <3>3, FewerEdges
  <2> QED BY <2>1, <2>4 DEF DepInv, SearchInv
<1>7. ASSUME CrashGraphs PROVE DepInv'
  <2>1. Stored(lines') \subseteq Stored(lines)
    <3>1. CASE lines' = lines
      BY <3>1
    <3>2. CASE lines' = Appended(lines, Torn)
      <4>1. CASE Dependencies = {}
        BY <4>1, <3>2, StoredType DEF DepTypeOK
      <4>2. CASE Dependencies # {}
        BY <4>2, <3>2, AppendedStored DEF DepTypeOK
      <4> QED BY <4>1, <4>2
    <3> QED BY <1>7, <3>1, <3>2 DEF CrashGraphs
  <2>2. /\ open' = {} /\ sound' = {} /\ blind' = blind
        /\ \A h \in Graphs : adding'[h] = [at |-> "idle"]
    BY <1>7 DEF CrashGraphs, Unlocked
  <2>3. ~blind' => Acyclic(Tasks, Stored(lines'))
    BY <2>1, <2>2, FewerEdges DEF DepInv
  <2> QED BY <2>2, <2>3 DEF DepInv, SearchInv
<1>8. ASSUME UNCHANGED depVars PROVE DepInv'
  BY <1>8 DEF depVars, DepInv, SearchInv
<1> QED BY <1>1, <1>2, <1>3, <1>4, <1>5, <1>6, <1>7, <1>8 DEF DepNext

(* Both together always hold.                                              *)
LEMMA DependenciesInvariant == DepSpec => [](DepTypeOK /\ DepInv)
<1>1. DepTypeOK /\ DepInv /\ [DepNext]_depVars => (DepTypeOK /\ DepInv)'
  BY NextTypeOK, NextDepInv
<1> QED BY <1>1, InitTypeOK, InitDepInv, PTL DEF DepSpec

(* An instance that loaded no cycle never comes to hold one.               *)
THEOREM SoundStaysAcyclic == DepSpec => []SoundGraphStaysAcyclic
<1>1. DepInv => SoundGraphStaysAcyclic
  BY DEF DepInv, SoundGraphStaysAcyclic
<1> QED BY <1>1, DependenciesInvariant, PTL

(* While every instance has loaded all of the file before it appends to    *)
(* it, the file holds no cycle, whatever crashes tear.                     *)
THEOREM FileStaysAcyclic == DepSpec => []FileIsAcyclicUnlessBlind
<1>1. DepInv => FileIsAcyclicUnlessBlind
  BY DEF DepInv, FileIsAcyclicUnlessBlind
<1> QED BY <1>1, DependenciesInvariant, PTL

(* How many tasks there are, and how many of them a set holds.             *)
LEMMA TasksAreFinite ==
  /\ Cardinality(Tasks) \in Nat
  /\ \A S \in SUBSET Tasks :
       /\ IsFiniteSet(S) /\ Cardinality(S) \in Nat /\ Cardinality(S) <= Cardinality(Tasks)
       /\ Cardinality(S) = Cardinality(Tasks) => S = Tasks
<1>1. IsFiniteSet(Tasks)
  BY DependencyAssumption
<1> QED BY <1>1, FS_Subset, FS_CardinalityType

(* The rounds of has_cycle's search are well defined: the function that    *)
(* Rounds stands for exists.                                               *)
LEMMA RoundsAre ==
  ASSUME NEW es, NEW start
  PROVE  Rounds(es, start) =
           [n \in 0..Cardinality(Tasks) |->
              IF n = 0 THEN [seen |-> {}, stack |-> {start}]
              ELSE Round(es, Rounds(es, start)[n - 1])]
<1> DEFINE IsRun(f, m) ==
             f = [n \in 0..m |-> IF n = 0 THEN [seen |-> {}, stack |-> {start}]
                                 ELSE Round(es, f[n - 1])]
           bad == {m \in Nat : ~ \E f : IsRun(f, m)}
<1>1. SUFFICES bad = {}
  <2>1. PICK f : IsRun(f, Cardinality(Tasks))
    BY <1>1, TasksAreFinite
  <2> QED BY <2>1, Zenon DEF Rounds
<1>2. SUFFICES ASSUME bad # {} PROVE FALSE
  OBVIOUS
<1>3. PICK m \in bad : \A j \in bad : m <= j
  <2>1. bad \in SUBSET Nat
    OBVIOUS
  <2> HIDE DEF bad
  <2> QED BY <1>2, <2>1, SmallestExists
<1>4. CASE m = 0
  <2>1. IsRun([n \in 0..0 |-> [seen |-> {}, stack |-> {start}]], 0)
    OBVIOUS
  <2> QED BY <1>4, <2>1
<1>5. CASE m # 0
  <2>1. m - 1 \in Nat /\ m - 1 \notin bad
    <3>1. m \in Nat
      OBVIOUS
    <3>2. m - 1 \in Nat /\ ~(m <= m - 1)
      BY <1>5, <3>1
    <3> HIDE DEF bad
    <3> QED BY <1>3, <3>2
  <2>2. PICK f : IsRun(f, m - 1)
    BY <2>1
  <2>3. PICK g : g = [n \in 0..m |-> IF n = m THEN Round(es, f[m - 1]) ELSE f[n]]
    OBVIOUS
  <2>4. \A n \in 0..(m - 1) : g[n] = f[n]
    BY <2>1, <2>3
  <2>5. IsRun(g, m)
    <3>1. ASSUME NEW n \in 0..m
          PROVE  g[n] = IF n = 0 THEN [seen |-> {}, stack |-> {start}] ELSE Round(es, g[n - 1])
      <4>1. CASE n = m
        BY <1>5, <2>1, <2>3, <2>4, <4>1
      <4>2. CASE n # m
        <5>1. n \in 0..(m - 1) /\ (n # 0 => n - 1 \in 0..(m - 1))
          BY <1>5, <2>1, <4>2
        <5> QED BY <2>2, <2>4, <5>1
      <4> QED BY <4>1, <4>2
    <3> QED BY <2>3, <3>1
  <2> QED BY <2>5
<1> QED BY <1>4, <1>5

(* Where a search from a task stands: what it has seen leads only to what  *)
(* it has seen or has on its stack, and all that is reached from the start *)
(* by any closed set's account.                                            *)
Stands(es, start, s) ==
  /\ s.seen \in SUBSET Tasks /\ s.stack \in SUBSET Tasks
  /\ s.seen \cap s.stack = {} /\ start \in s.seen \cup s.stack
  /\ \A n \in s.seen : Targets(es, n) \subseteq s.seen \cup s.stack
  /\ \A K \in SUBSET Tasks :
       start \in K /\ (\A n \in K : Targets(es, n) \subseteq K) => s.seen \cup s.stack \subseteq K

(* A round keeps that, and sees a new node unless the search is over.      *)
LEMMA RoundStands ==
  ASSUME NEW es \in SUBSET Dependencies, NEW start, NEW s, Stands(es, start, s)
  PROVE  /\ Stands(es, start, Round(es, s))
         /\ s.stack = {} => Round(es, s) = s
         /\ s.stack # {} => Cardinality(Round(es, s).seen) = Cardinality(s.seen) + 1
<1>1. CASE s.stack = {}
  BY <1>1 DEF Round
<1>2. CASE s.stack # {}
  <2>1. PICK n : n = (CHOOSE x \in s.stack : TRUE)
    OBVIOUS
  <2>2. n \in s.stack /\ n \in Tasks /\ n \notin s.seen
    BY <1>2, <2>1 DEF Stands
  <2>3. PICK r : r = Round(es, s)
    OBVIOUS
  <2>4. /\ r.seen = s.seen \cup {n}
        /\ r.stack = (s.stack \cup Targets(es, n)) \ (s.seen \cup {n})
    BY <1>2, <2>1, <2>3 DEF Round
  <2>5. Targets(es, n) \subseteq Tasks
    BY DEF Targets, Dependencies
  <2>6. r.seen \cup r.stack = s.seen \cup s.stack \cup Targets(es, n)
    BY <2>2, <2>4
  <2>7. ASSUME NEW K \in SUBSET Tasks, start \in K, \A k \in K : Targets(es, k) \subseteq K
        PROVE  r.seen \cup r.stack \subseteq K
    <3>1. s.seen \cup s.stack \subseteq K
      BY <2>7 DEF Stands
    <3> QED BY <2>2, <2>6, <2>7, <3>1
  <2>8. \A k \in r.seen : Targets(es, k) \subseteq r.seen \cup r.stack
    BY <2>4, <2>6 DEF Stands
  <2>9. /\ r.seen \in SUBSET Tasks /\ r.stack \in SUBSET Tasks
        /\ r.seen \cap r.stack = {} /\ start \in r.seen \cup r.stack
    BY <2>2, <2>4, <2>5, <2>6 DEF Stands
  <2>10. Stands(es, start, r)
    BY <2>7, <2>8, <2>9 DEF Stands
  <2>11. IsFiniteSet(s.seen)
    BY TasksAreFinite DEF Stands
  <2>12. Cardinality(r.seen) = Cardinality(s.seen) + 1
    BY <2>2, <2>4, <2>11, FS_AddElement
  <2> QED BY <1>2, <2>3, <2>10, <2>12
<1> QED BY <1>1, <1>2

(* What the search reaches: the least set that holds the start and is      *)
(* closed under the edges.                                                 *)
LEMMA ReachedIsLeast ==
  ASSUME NEW es \in SUBSET Dependencies, NEW start \in Tasks
  PROVE  /\ Reached(es, start) \in SUBSET Tasks
         /\ start \in Reached(es, start)
         /\ \A n \in Reached(es, start) : Targets(es, n) \subseteq Reached(es, start)
         /\ \A K \in SUBSET Tasks :
              start \in K /\ (\A n \in K : Targets(es, n) \subseteq K)
                => Reached(es, start) \subseteq K
<1>1. PICK f : f = Rounds(es, start)
  OBVIOUS
<1>2. /\ f[0] = [seen |-> {}, stack |-> {start}]
      /\ \A n \in 1..Cardinality(Tasks) : f[n] = Round(es, f[n - 1])
  <2>1. f = [n \in 0..Cardinality(Tasks) |->
               IF n = 0 THEN [seen |-> {}, stack |-> {start}] ELSE Round(es, f[n - 1])]
    BY <1>1, RoundsAre
  <2>2. PICK c : c = Cardinality(Tasks)
    OBVIOUS
  <2>3. c \in Nat /\ f = [n \in 0..c |-> IF n = 0 THEN [seen |-> {}, stack |-> {start}]
                                       ELSE Round(es, f[n - 1])]
    BY <2>1, <2>2, TasksAreFinite
  <2>4. f[0] = [seen |-> {}, stack |-> {start}]
    <3>1. 0 \in 0..c
      BY <2>3
    <3> QED BY <2>3, <3>1, Zenon
  <2>5. \A n \in 1..c : n \in 0..c /\ n # 0
    BY <2>3
  <2>6. \A n \in 1..c : f[n] = Round(es, f[n - 1])
    BY <2>3, <2>5
  <2> QED BY <2>2, <2>4, <2>6
<1> DEFINE Good(n) == Stands(es, start, f[n]) /\ (f[n].stack = {} \/ Cardinality(f[n].seen) = n)
           bad == {n \in 0..Cardinality(Tasks) : ~Good(n)}
<1>3. bad = {}
  <2>1. SUFFICES ASSUME bad # {} PROVE FALSE
    OBVIOUS
  <2>2. PICK m \in bad : \A j \in bad : m <= j
    <3>1. bad \in SUBSET Nat
      BY TasksAreFinite
    <3> HIDE DEF bad
    <3> QED BY <2>1, <3>1, SmallestExists
  <2>3. CASE m = 0
    <3>1. f[0].seen = {} /\ f[0].stack = {start}
      BY <1>2
    <3>2. Stands(es, start, f[0])
      BY <3>1 DEF Stands
    <3> QED BY <2>3, <3>1, <3>2, FS_EmptySet
  <2>4. CASE m # 0
    <3>1. m \in 1..Cardinality(Tasks) /\ m - 1 \in 0..Cardinality(Tasks) /\ ~(m <= m - 1)
      BY <2>4, TasksAreFinite
    <3>2. Good(m - 1)
      BY <2>2, <3>1
    <3>3. f[m] = Round(es, f[m - 1])
      BY <1>2, <3>1
    <3>4. PICK s : s = f[m - 1]
      OBVIOUS
    <3>5. Stands(es, start, s) /\ (s.stack = {} \/ Cardinality(s.seen) = m - 1) /\ f[m] = Round(es, s)
      BY <3>2, <3>3, <3>4
    <3>6. /\ Stands(es, start, f[m])
          /\ s.stack = {} => f[m] = s
          /\ s.stack # {} => Cardinality(f[m].seen) = Cardinality(s.seen) + 1
      BY <3>5, RoundStands
    <3>7. Good(m)
      BY <3>1, <3>5, <3>6
    <3> QED BY <3>7
  <2> QED BY <2>3, <2>4
<1>4. PICK s : s = f[Cardinality(Tasks)]
  OBVIOUS
<1>5. Stands(es, start, s) /\ (s.stack = {} \/ Cardinality(s.seen) = Cardinality(Tasks))
  BY <1>3, <1>4, TasksAreFinite
<1>6. s.stack = {}
  BY <1>5, TasksAreFinite DEF Stands
<1>7. Reached(es, start) = s.seen
  BY <1>1, <1>4 DEF Reached
<1> QED BY <1>5, <1>6, <1>7 DEF Stands

(* An edge whose target leads back to its source is on a cycle.            *)
LEMMA WayBackIsCycle ==
  ASSUME NEW es \in SUBSET Dependencies, NEW e \in es, e[1] \in Reached(es \ {e}, e[2])
  PROVE  ~Acyclic(Tasks, es)
<1>1. e = <<e[1], e[2]>> /\ e[1] \in Tasks /\ e[2] \in Tasks /\ es \ {e} \in SUBSET Dependencies
  BY DEF Dependencies
<1>2. PICK others \in SUBSET Dependencies : others = es \ {e}
  BY <1>1
<1>3. PICK R : R = Reached(others, e[2])
  OBVIOUS
<1>4. /\ R \in SUBSET Tasks /\ e[1] \in R /\ e[2] \in R
      /\ \A n \in R : Targets(others, n) \subseteq R
      /\ \A K \in SUBSET Tasks :
           e[2] \in K /\ (\A n \in K : Targets(others, n) \subseteq K) => R \subseteq K
  <2>1. PICK t \in Tasks : t = e[2]
    BY <1>1
  <2>2. R = Reached(others, t)
    BY <1>3, <2>1
  <2>3. e[1] \in R
    BY <1>2, <1>3, Zenon
  <2>4. /\ R \in SUBSET Tasks /\ t \in R
        /\ \A n \in R : Targets(others, n) \subseteq R
        /\ \A K \in SUBSET Tasks :
             t \in K /\ (\A n \in K : Targets(others, n) \subseteq K) => R \subseteq K
    BY <2>2, ReachedIsLeast
  <2> QED BY <2>1, <2>3, <2>4
<1>5. ASSUME NEW n \in R, n # e[2]
      PROVE  \E m \in R : <<m, n>> \in es
  <2>1. SUFFICES ASSUME \A m \in R : <<m, n>> \notin es PROVE FALSE
    OBVIOUS
  <2>2. R \ {n} \in SUBSET Tasks /\ e[2] \in R \ {n}
    BY <1>4, <1>5
  <2>3. ASSUME NEW k \in R \ {n}, NEW t \in Targets(others, k)
        PROVE  t \in R \ {n}
    <3>1. t \in R
      BY <1>4
    <3>2. <<k, t>> \in es
      BY <1>2 DEF Targets, Dependencies
    <3> QED BY <2>1, <3>1, <3>2
  <2>4. \A k \in R \ {n} : Targets(others, k) \subseteq R \ {n}
    BY <2>3
  <2>5. R \subseteq R \ {n}
    BY <1>4, <2>2, <2>4
  <2> QED BY <2>5
<1>6. \A n \in R : \E m \in R : <<m, n>> \in es
  BY <1>1, <1>4, <1>5
<1> QED BY <1>4, <1>6 DEF Acyclic

(* A cycle has an edge whose target leads back to its source.  Of a set of *)
(* tasks in which everyone has a source, one that reaches the most tasks   *)
(* reaches its source.                                                     *)
LEMMA CycleHasWayBack ==
  ASSUME NEW es \in SUBSET Dependencies, ~Acyclic(Tasks, es)
  PROVE  \E e \in es : e[1] \in Reached(es \ {e}, e[2])
<1>1. PICK S \in SUBSET Tasks : S # {} /\ \A n \in S : \E m \in S : <<m, n>> \in es
  BY DEF Acyclic
<1> DEFINE missing(n) == Cardinality(Tasks) - Cardinality(Reached(es, n))
           all == {missing(n) : n \in S}
<1>2. \A n \in S : missing(n) \in Nat
  <2> SUFFICES ASSUME NEW n \in S PROVE missing(n) \in Nat
    OBVIOUS
  <2>1. Reached(es, n) \in SUBSET Tasks
    BY <1>1, ReachedIsLeast
  <2>2. PICK c : c = Cardinality(Reached(es, n))
    OBVIOUS
  <2>3. c \in Nat /\ c <= Cardinality(Tasks) /\ Cardinality(Tasks) \in Nat
    BY <2>1, <2>2, TasksAreFinite
  <2> QED BY <2>2, <2>3
<1>3. PICK x \in S : \A y \in S : missing(x) <= missing(y)
  <2>1. all \in SUBSET Nat /\ all # {}
    BY <1>1, <1>2
  <2>2. PICK k \in all : \A j \in all : k <= j
    <3> HIDE DEF all
    <3> QED BY <2>1, SmallestExists
  <2>3. PICK x \in S : k = missing(x)
    OBVIOUS
  <2>4. \A y \in S : missing(y) \in all
    OBVIOUS
  <2> QED BY <2>2, <2>3, <2>4
<1>4. PICK m \in S : <<m, x>> \in es
  BY <1>1, <1>3
<1>5. PICK A : A = Reached(es, m)
  OBVIOUS
<1>6. PICK B : B = Reached(es, x)
  OBVIOUS
<1>7. /\ A \in SUBSET Tasks /\ m \in A /\ \A n \in A : Targets(es, n) \subseteq A
      /\ B \in SUBSET Tasks /\ x \in B
      /\ \A K \in SUBSET Tasks : x \in K /\ (\A n \in K : Targets(es, n) \subseteq K) => B \subseteq K
  BY <1>1, <1>5, <1>6, ReachedIsLeast
<1>8. x \in Targets(es, m)
  BY <1>4 DEF Targets
<1>9. B \subseteq A
  BY <1>7, <1>8
<1>10. Cardinality(A) <= Cardinality(B)
  <2>1. PICK a : a = Cardinality(A)
    OBVIOUS
  <2>2. PICK b : b = Cardinality(B)
    OBVIOUS
  <2>3. a \in Nat /\ b \in Nat /\ Cardinality(Tasks) \in Nat
    BY <1>7, <2>1, <2>2, TasksAreFinite
  <2>4. Cardinality(Tasks) - b <= Cardinality(Tasks) - a
    BY <1>3, <1>4, <1>5, <1>6, <2>1, <2>2
  <2> QED BY <2>1, <2>2, <2>3, <2>4
<1>11. A = B
  <2>1. IsFiniteSet(A) /\ Cardinality(A) \in Nat /\ Cardinality(B) \in Nat
    BY <1>7, TasksAreFinite
  <2>2. Cardinality(B) <= Cardinality(A) /\ (Cardinality(A) = Cardinality(B) => A = B)
    BY <1>9, <2>1, FS_Subset
  <2> QED BY <1>10, <2>1, <2>2
<1> DEFINE e == <<m, x>>
<1>12. PICK R : R = Reached(es \ {e}, x)
  OBVIOUS
<1>13. R \in SUBSET Tasks /\ x \in R /\ \A n \in R : Targets(es \ {e}, n) \subseteq R
  BY <1>1, <1>12, ReachedIsLeast
<1>14. m \in R
  <2>1. SUFFICES ASSUME m \notin R PROVE FALSE
    OBVIOUS
  <2>2. \A n \in R : Targets(es, n) \subseteq R
    <3> SUFFICES ASSUME NEW n \in R, NEW t \in Targets(es, n) PROVE t \in R
      OBVIOUS
    <3>1. n # m
      BY <2>1
    <3>2. t \in Targets(es \ {e}, n)
      BY <3>1 DEF Targets
    <3> QED BY <1>13, <3>2
  <2>3. B \subseteq R
    BY <1>7, <1>13, <2>2
  <2> QED BY <1>7, <1>11, <2>1, <2>3
<1> QED BY <1>4, <1>12, <1>14

(* has_cycle is right of any set of edges.                                 *)
LEMMA HasCycleTellsCycles ==
  ASSUME NEW es \in SUBSET Dependencies
  PROVE  HasCycle(es) <=> ~Acyclic(Tasks, es)
<1>1. HasCycle(es) => ~Acyclic(Tasks, es)
  BY WayBackIsCycle DEF HasCycle
<1>2. ~Acyclic(Tasks, es) => HasCycle(es)
  BY CycleHasWayBack DEF HasCycle
<1> QED BY <1>1, <1>2

(* has_cycle is right of whatever an instance of the graph holds.          *)
THEOREM ReportOfCyclesIsRight == DepSpec => []HasCycleIsRight
<1>1. DepTypeOK => HasCycleIsRight
  BY HasCycleTellsCycles DEF DepTypeOK, HasCycleIsRight
<1> QED BY <1>1, DependenciesTypeCorrect, PTL

(* The graph of the tasks is what its class promises: without cycles in    *)
(* memory and on disk, and right in what it reports of them.               *)
THEOREM GraphStaysSound == DepSpec => []DependenciesStayAcyclic
<1>1. DepTypeOK /\ SoundGraphStaysAcyclic /\ FileIsAcyclicUnlessBlind /\ HasCycleIsRight
        => DependenciesStayAcyclic
  BY DEF DependenciesStayAcyclic
<1> QED
  BY <1>1, DependenciesTypeCorrect, SoundStaysAcyclic, FileStaysAcyclic,
     ReportOfCyclesIsRight, PTL

-----------------------------------------------------------------------------
(* The assistant's credentials, for any vendors, requests and crashes.     *)

Names == Asks \cup {No}
CredentialRows == [status: {"staged", "active"}, vendor: Vendors, key: Names, sealed: Names,
                   hint: Names, model: Vendors \cup {No}]
Early == {No, "sealing", "creating", "writing", "keeping", "copying", "staging"}
Late == {"staged", "waiting", "promoting"}
AskRuns == [at: Early \cup Late \cup {"choosing", "naming", "over"}, vendor: Vendors \cup {No},
            key: Names, sealed: Names, hint: Names, model: Vendors \cup {No}, from: Names]

AssistantTypes ==
  /\ keyfile \in {"absent", "empty"} \cup Asks
  /\ row \in [Asks -> CredentialRows \cup {NoCredential}]
  /\ run \in [Asks -> AskRuns]
  /\ contested \in BOOLEAN /\ gone \in SUBSET Asks

(* Where a request is, and what that says of it and of the row it staged:  *)
(* the row is there from the staging on, and is only then made active.     *)
Copies(rec) ==
  /\ rec.from \in Asks /\ run[rec.from].at \notin Early
  /\ row[rec.from] # NoCredential =>
       /\ row[rec.from].status = "active" /\ row[rec.from].vendor = rec.vendor
       /\ row[rec.from].hint = rec.hint
Runs(rec) ==
  /\ rec.at \in Early \ {"copying", "staging"} => rec.hint = No
  /\ rec.at \in Early \ {"staging"} => rec.key = No
  /\ rec.at \in (Early \cup Late) \ {No} => rec.vendor \in Vendors
  /\ rec.at = "copying" => Copies(rec)
Placed(q) ==
  /\ Runs(run[q])
  /\ run[q].at = No => run[q] = NoAsk
  /\ run[q].at \in Early => row[q] = NoCredential
  /\ run[q].at \in Late => row[q].status # "active"
  /\ row[q] # NoCredential => row[q].vendor = run[q].vendor

(* A hint is the name of a key that was brought for that vendor, and the   *)
(* key it comes with is that one or none.                                  *)
KeyOf(h, v) == run[h].key = h /\ run[h].vendor = v
Tells(rec) == (rec.hint # No => KeyOf(rec.hint, rec.vendor)) /\ (rec.key # No => rec.hint = rec.key)

(* A hint without its key is that of a key which was in use.               *)
Worn(h) == h \in gone \cup ActiveKeys(row)
Wears(rec) == rec.hint # rec.key => Worn(rec.hint)

(* No row has a key that is gone, and no request is about to store it.     *)
Lost(k) == \A q \in Asks : row[q].key # k /\ (run[q].at = "staging" => run[q].key # k)

Credentials ==
  /\ AssistantTypes
  /\ \A q \in Asks : Placed(q)
  /\ \A q \in Asks : Tells(run[q]) /\ Tells(row[q])
  /\ \A q \in Asks : Wears(run[q]) /\ Wears(row[q])
  /\ \A q \in Asks : row[q].status = "active" /\ row[q].hint # row[q].key => row[q].hint \in gone
  /\ \A k \in gone : run[k].key = k
  /\ \A k \in gone \ carried : Lost(k)
  /\ \A p, q \in Asks : row[p] # NoCredential /\ row[q] # NoCredential
        /\ row[p].status = row[q].status /\ row[p].vendor = row[q].vendor => p = q

(* Until two requests found no key file at once, one of them makes it, and *)
(* nothing is sealed before it is made.                                    *)
SealedBy(rec) == rec.key # No => rec.sealed = keyfile /\ keyfile \in Asks
Seals ==
  /\ \A p, q \in Asks : run[p].at \in {"creating", "writing"} /\ run[q].at \in {"creating", "writing"} => p = q
  /\ \A q \in Asks : /\ run[q].at = "creating" => keyfile = "absent"
                     /\ run[q].at = "writing" => keyfile = "empty"
                     /\ SealedBy(run[q]) /\ SealedBy(row[q])
CredentialInv == Credentials /\ (~contested => Seals)

(* The marks for "nothing" are no requests and no vendors.                 *)
LEMMA MarksOfAssistant ==
  /\ No \notin Asks /\ "absent" \notin Asks /\ "empty" \notin Asks /\ No \notin Vendors
  /\ NoCredential.key = No /\ NoCredential.hint = No /\ NoCredential.status = No
  /\ NoCredential.vendor = No /\ NoCredential \notin CredentialRows
  /\ NoAsk \in AskRuns /\ NoAsk.at = No /\ NoAsk.key = No /\ NoAsk.hint = No /\ NoAsk.vendor = No
BY AssistantNames DEF NoCredential, NoAsk, CredentialRows, AskRuns, Early, Late, Names, No

(* What a row is made of.                                                  *)
LEMMA RowHas ==
  ASSUME AssistantTypes, NEW q \in Asks
  PROVE  /\ row[q] # NoCredential => row[q] \in CredentialRows
         /\ row[q].key \in Names /\ row[q].hint \in Names
         /\ row[q] = NoCredential <=> row[q].status = No
         /\ row[q] = NoCredential <=> row[q].vendor = No
<1>1. CASE row[q] = NoCredential
  BY <1>1, MarksOfAssistant DEF Names
<1>2. CASE row[q] \in CredentialRows
  BY <1>2, MarksOfAssistant DEF CredentialRows, No
<1> QED BY <1>1, <1>2 DEF AssistantTypes

(* What the record of a request is made of.                                *)
LEMMA RunHas ==
  ASSUME AssistantTypes, NEW q \in Asks
  PROVE  /\ run[q] \in AskRuns /\ run[q].key \in Names /\ run[q].hint \in Names /\ run[q].sealed \in Names
         /\ run[q].vendor \in Vendors \cup {No}
BY DEF AssistantTypes, AskRuns

(* At first there is no credential and no request.                         *)
LEMMA CredentialInit == AssistantInit => CredentialInv
<1> SUFFICES ASSUME AssistantInit PROVE CredentialInv
  OBVIOUS
<1> USE MarksOfAssistant DEF AssistantInit
<1>1. /\ \A q \in Asks : row[q] = NoCredential /\ run[q] = NoAsk
      /\ gone = {} /\ AssistantTypes
  BY DEF AssistantTypes
<1>2. \A q \in Asks : Placed(q)
  BY <1>1 DEF Placed, Runs, No, Late
<1>3. \A q \in Asks : Tells(run[q]) /\ Tells(row[q]) /\ Wears(run[q]) /\ Wears(row[q])
  BY <1>1 DEF Tells, Wears
<1>4. Credentials
  BY <1>1, <1>2, <1>3 DEF Credentials
<1>5. Seals
  BY <1>1 DEF Seals, SealedBy, No
<1> QED BY <1>4, <1>5 DEF CredentialInv

(* A request goes on while the rows stay: what must be said of its new     *)
(* record.                                                                 *)
Fits(r, rec) ==
  /\ rec \in AskRuns /\ rec.at # No /\ Runs(rec)
  /\ run[r].key # No => rec.key = run[r].key /\ rec.vendor = run[r].vendor
  /\ rec.at \in Early => run[r].at \in Early
  /\ rec.at \in Late => row[r].status # "active"
  /\ row[r] # NoCredential => rec.vendor = run[r].vendor
  /\ rec.hint # No => KeyOf(rec.hint, rec.vendor) \/ (rec.hint = r /\ rec.key = r)
  /\ rec.key # No => rec.hint = rec.key
  /\ Wears(rec)
  /\ rec.at = "staging" => rec.key \notin gone \ carried

(* A record that fits keeps the invariant.                                 *)
LEMMA GoesOn ==
  ASSUME Credentials, NEW r \in Asks, NEW rec, Fits(r, rec),
         run' = [run EXCEPT ![r] = rec], UNCHANGED <<row, gone, carried>>, AssistantTypes'
  PROVE  Credentials'
<1> USE MarksOfAssistant
<1>0. AssistantTypes
  BY DEF Credentials
<1>1. run'[r] = rec /\ \A q \in Asks \ {r} : run'[q] = run[q]
  BY <1>0 DEF AssistantTypes
<1>2. ASSUME NEW q \in Asks, run'[q].at \in Early
      PROVE  run[q].at \in Early
  BY <1>1, <1>2 DEF Fits
<1>3. ASSUME NEW c, Copies(c)
      PROVE  Copies(c)'
  BY <1>2, <1>3 DEF Copies
<1>4. ASSUME NEW q \in Asks
      PROVE  Placed(q)'
  <2>1. Placed(q) /\ Placed(r)
    BY DEF Credentials
  <2>2. CASE q = r
    <3>1. Runs(rec)'
      BY <1>3 DEF Fits, Runs
    <3> QED BY <1>1, <2>1, <2>2, <3>1 DEF Placed, Fits
  <2>3. CASE q # r
    <3>1. Runs(run[q])'
      BY <1>1, <1>3, <2>1, <2>3 DEF Placed, Runs
    <3> QED BY <1>1, <2>1, <2>3, <3>1 DEF Placed, Runs
  <2> QED BY <2>2, <2>3
<1>5. ASSUME NEW h \in Asks, NEW v, KeyOf(h, v)
      PROVE  run'[h].key = h /\ run'[h].vendor = v
  BY <1>1, <1>5 DEF KeyOf, Fits
<1>6. ASSUME NEW q \in Asks
      PROVE  Tells(row[q])' /\ Tells(run[q])'
  <2>1. Tells(row[q]) /\ Tells(run[q]) /\ row[q].hint \in Names /\ run[q].hint \in Names
    BY <1>0, RowHas, RunHas DEF Credentials
  <2>2. Tells(row[q])'
    BY <1>5, <2>1 DEF Tells, KeyOf, Names
  <2>3. CASE q # r
    BY <1>1, <1>5, <2>1, <2>3 DEF Tells, KeyOf, Names
  <2>4. CASE q = r
    <3>1. rec.hint \in Names
      BY DEF Fits, AskRuns
    <3>2. rec.hint # No => run'[rec.hint].key = rec.hint /\ run'[rec.hint].vendor = rec.vendor
      <4>1. ASSUME rec.hint # No, KeyOf(rec.hint, rec.vendor)
            PROVE  run'[rec.hint].key = rec.hint /\ run'[rec.hint].vendor = rec.vendor
        BY <1>5, <3>1, <4>1 DEF Names
      <4>2. ASSUME rec.hint = r, rec.key = r
            PROVE  run'[rec.hint].key = rec.hint /\ run'[rec.hint].vendor = rec.vendor
        BY <1>1, <4>2
      <4> SUFFICES ASSUME rec.hint # No
                   PROVE  run'[rec.hint].key = rec.hint /\ run'[rec.hint].vendor = rec.vendor
        OBVIOUS
      <4>3. CASE KeyOf(rec.hint, rec.vendor)
        BY <4>1, <4>3
      <4>4. CASE rec.hint = r /\ rec.key = r
        BY <4>2, <4>4
      <4> QED BY <4>3, <4>4 DEF Fits
    <3>3. rec.key # No => rec.hint = rec.key
      BY DEF Fits
    <3>4. run'[q] = rec
      BY <1>1, <2>4
    <3>5. Tells(run[q])'
      BY <3>2, <3>3, <3>4 DEF Tells, KeyOf
    <3> QED BY <2>2, <3>5
  <2> QED BY <2>2, <2>3, <2>4
<1>7. \A q \in Asks : Wears(run[q])' /\ Wears(row[q])'
  BY <1>1 DEF Credentials, Fits, Wears, Worn, ActiveKeys
<1>8. \A k \in gone : run'[k].key = k
  BY <1>0, <1>1 DEF Credentials, Fits, AssistantTypes
<1>9. \A k \in gone \ carried : Lost(k)'
  BY <1>1 DEF Credentials, Lost, Fits
<1> QED BY <1>4, <1>6, <1>7, <1>8, <1>9 DEF Credentials

(* What is known of the record of a request that is at some place.         *)
LEMMA RunOf == ASSUME Credentials, NEW r \in Asks
  PROVE  /\ run[r] \in AskRuns /\ Runs(run[r]) /\ Tells(run[r]) /\ Wears(run[r])
         /\ run[r].at = No => run[r] = NoAsk
         /\ run[r].at \in Early => row[r] = NoCredential
         /\ run[r].at \in Late => row[r].status # "active"
         /\ row[r] # NoCredential => row[r].vendor = run[r].vendor
         /\ run[r].at = "staging" => run[r].key \notin gone \ carried
BY RunHas DEF Credentials, Placed, Lost

(* A request that only moves on to a later place.                          *)
LEMMA MovesOn ==
  ASSUME Credentials, NEW r \in Asks, NEW there \in Late \cup {"creating", "writing", "choosing", "naming", "over"},
         run[r].at # No, there \in Early => run[r].at \in Early \ {"copying", "staging"},
         there \in Late => run[r].at \in Early \cup Late
  PROVE  Fits(r, [run[r] EXCEPT !.at = there])
<1> USE MarksOfAssistant
<1> DEFINE rec == [run[r] EXCEPT !.at = there]
<1>1. /\ run[r] \in AskRuns /\ Runs(run[r]) /\ Tells(run[r]) /\ Wears(run[r])
      /\ run[r].at \in Early => row[r] = NoCredential
      /\ run[r].at \in Late => row[r].status # "active"
  BY RunOf
<1>2. /\ rec \in AskRuns /\ rec.at = there /\ rec.vendor = run[r].vendor /\ rec.key = run[r].key
      /\ rec.hint = run[r].hint
  BY <1>1 DEF AskRuns, Early, Late
<1> HIDE DEF rec
<1>3. Runs(rec)
  BY <1>1, <1>2 DEF Runs, Early, Late
<1>4. Wears(rec) /\ (rec.hint # No => KeyOf(rec.hint, rec.vendor)) /\ (rec.key # No => rec.hint = rec.key)
  BY <1>1, <1>2 DEF Wears, Tells
<1>5. there # No /\ there # "staging"
  BY DEF Late, No
<1>6. there \in Late => row[r].status # "active"
  BY <1>1, MarksOfAssistant DEF No
<1>7. Fits(r, rec)
  BY <1>2, <1>3, <1>4, <1>5, <1>6 DEF Fits
<1> QED BY <1>7 DEF rec

(* A request of another kind begins.                                       *)
LEMMA BeginsAsk ==
  ASSUME Credentials, NEW r \in Asks, run[r].at = No, NEW rec \in AskRuns,
         rec.at \in {"sealing", "keeping", "staging", "choosing"}, rec.key = No, rec.hint = No,
         rec.at # "choosing" => rec.vendor \in Vendors
  PROVE  Fits(r, rec)
<1> USE MarksOfAssistant
<1>1. run[r] = NoAsk /\ row[r] = NoCredential /\ No \in Early
  BY RunOf DEF Early
<1>2. Runs(rec)
  BY DEF Runs, Early, Late
<1>3. No \notin gone
  BY DEF Credentials, AssistantTypes
<1>4. rec.at # No /\ rec.at \notin Late
  BY DEF Late, No
<1> QED BY <1>1, <1>2, <1>3, <1>4 DEF Fits, Wears

(* The steps that leave the rows as they are.                              *)
LEMMA RunSteps ==
  ASSUME Credentials, NEW r \in Asks,
         \/ Configure(r) \/ FindKeyFile(r) \/ OpenKeyFile(r) \/ WriteKeyFile(r)
         \/ ReadHint(r) \/ ReadEnvelope(r) \/ AskApproval(r) \/ Decline(r) \/ Accept(r)
         \/ UpdateSettings(r) \/ ChooseProvider(r) \/ ChooseModel(r)
  PROVE  Credentials'
<1> USE MarksOfAssistant DEF At, GoTo
<1>0. AssistantTypes /\ run[r] \in AskRuns
  BY RunOf DEF Credentials
<1>1. UNCHANGED <<row, gone, carried>>
  BY DEF Configure, FindKeyFile, OpenKeyFile, WriteKeyFile, ReadHint, ReadEnvelope, AskApproval,
         Decline, Accept, UpdateSettings, ChooseProvider, ChooseModel
<1>2. contested' \in BOOLEAN
  BY <1>0 DEF AssistantTypes, Configure, FindKeyFile, OpenKeyFile, WriteKeyFile, ReadHint, ReadEnvelope,
         AskApproval, Decline, Accept, UpdateSettings, ChooseProvider, ChooseModel
<1>3. keyfile' \in {"absent", "empty"} \cup Asks
  BY <1>0 DEF AssistantTypes, Configure, FindKeyFile, OpenKeyFile, WriteKeyFile, ReadHint, ReadEnvelope,
         AskApproval, Decline, Accept, UpdateSettings, ChooseProvider, ChooseModel
<1>4. ASSUME NEW rec, Fits(r, rec), run' = [run EXCEPT ![r] = rec]
      PROVE  Credentials'
  <2>1. AssistantTypes'
    BY <1>0, <1>1, <1>2, <1>3, <1>4 DEF AssistantTypes, Fits
  <2> QED BY <1>1, <1>4, <2>1, GoesOn
<1>5. ASSUME NEW there \in Late \cup {"creating", "writing", "choosing", "naming", "over"},
             run[r].at # No, there \in Early => run[r].at \in Early \ {"copying", "staging"},
             there \in Late => run[r].at \in Early \cup Late,
             run' = [run EXCEPT ![r].at = there]
      PROVE  Credentials'
  BY <1>4, <1>5, MovesOn
<1>6. CASE Configure(r)
  <2>1. PICK v \in Vendors, model \in {No, "own"}, key \in {"sealing", "keeping", "staging"} :
          run' = [run EXCEPT ![r] = [NoAsk EXCEPT !.at = key, !.vendor = v,
                                                  !.model = IF model = No THEN No ELSE v]]
    BY <1>6 DEF Configure
  <2> DEFINE rec == [NoAsk EXCEPT !.at = key, !.vendor = v, !.model = IF model = No THEN No ELSE v]
  <2>2. rec \in AskRuns /\ rec.at = key /\ rec.key = No /\ rec.hint = No /\ rec.vendor = v
    BY DEF NoAsk, AskRuns, Early, Late, Names
  <2> HIDE DEF rec
  <2>3. Fits(r, rec)
    BY <1>6, <2>2, BeginsAsk DEF Configure
  <2> QED BY <1>4, <2>1, <2>3 DEF rec
<1>7. CASE UpdateSettings(r)
  <2>1. PICK v \in Vendors \cup {No}, model \in Vendors \cup {No} :
          run' = [run EXCEPT ![r] = [NoAsk EXCEPT !.at = "choosing", !.vendor = v, !.model = model]]
    BY <1>7 DEF UpdateSettings
  <2> DEFINE rec == [NoAsk EXCEPT !.at = "choosing", !.vendor = v, !.model = model]
  <2>2. rec \in AskRuns /\ rec.at = "choosing" /\ rec.key = No /\ rec.hint = No
    BY DEF NoAsk, AskRuns, Early, Late, Names
  <2> HIDE DEF rec
  <2>3. Fits(r, rec)
    BY <1>7, <2>2, BeginsAsk DEF UpdateSettings
  <2> QED BY <1>4, <2>1, <2>3 DEF rec
<1>8. CASE OpenKeyFile(r)
  BY <1>5, <1>8 DEF OpenKeyFile, Early, Late, No
<1>9. CASE Decline(r)
  BY <1>5, <1>9 DEF Decline, Early, Late, No
<1>10. CASE AskApproval(r)
  BY <1>5, <1>10 DEF AskApproval, Early, Late, No
<1>11. CASE Accept(r)
  BY <1>5, <1>11 DEF Accept, Early, Late, No
<1>12. CASE ChooseProvider(r)
  BY <1>5, <1>12 DEF ChooseProvider, Early, Late, No
<1>13. CASE ChooseModel(r)
  BY <1>5, <1>13 DEF ChooseModel, Early, Late, No
<1>14. ASSUME run[r].at \in {"sealing", "writing"}, NEW k \in Asks, 
              run' = [run EXCEPT ![r] = [@ EXCEPT !.at = "staging", !.key = r, !.hint = r, !.sealed = k]]
       PROVE  Credentials'
  <2> DEFINE rec == [run[r] EXCEPT !.at = "staging", !.key = r, !.hint = r, !.sealed = k]
  <2>1. /\ rec \in AskRuns /\ rec.at = "staging" /\ rec.key = r /\ rec.hint = r
        /\ rec.vendor = run[r].vendor
    BY <1>0 DEF AskRuns, Early, Late, Names
  <2> HIDE DEF rec
  <2>2. run[r].key = No /\ row[r] = NoCredential /\ run[r].vendor \in Vendors
    BY <1>14, RunOf DEF Runs, Early, No
  <2>3. r \notin gone
    BY <2>2 DEF Credentials
  <2>4. Runs(rec)
    BY <2>1, <2>2 DEF Runs, Early, No
  <2>5. Fits(r, rec)
    BY <1>14, <2>1, <2>2, <2>3, <2>4 DEF Fits, Wears, Early, Late, No
  <2>6. run' = [run EXCEPT ![r] = rec]
    BY <1>14 DEF rec
  <2> QED BY <1>4, <2>5, <2>6
<1>15. CASE FindKeyFile(r)
  <2>1. CASE keyfile = "absent"
    BY <1>5, <1>15, <2>1 DEF FindKeyFile, Early, Late, No
  <2>2. CASE keyfile = "empty"
    BY <1>5, <1>15, <2>2 DEF FindKeyFile, Early, Late, No
  <2>3. CASE keyfile \notin {"absent", "empty"}
    <3>1. keyfile \in Asks
      BY <1>0, <2>3 DEF AssistantTypes
    <3> QED BY <1>14, <1>15, <2>3, <3>1 DEF FindKeyFile
  <2> QED BY <2>1, <2>2, <2>3
<1>16. CASE WriteKeyFile(r)
  BY <1>14, <1>16 DEF WriteKeyFile
<1>17. CASE ReadHint(r)
  <2>1. CASE run' = [run EXCEPT ![r].at = "staging"]
    <3> DEFINE rec == [run[r] EXCEPT !.at = "staging"]
    <3>1. /\ rec \in AskRuns /\ rec.at = "staging" /\ rec.key = run[r].key /\ rec.hint = run[r].hint
          /\ rec.vendor = run[r].vendor
      BY <1>0 DEF AskRuns, Early, Late
    <3> HIDE DEF rec
    <3>2. run[r].key = No /\ run[r].hint = No /\ row[r] = NoCredential /\ run[r].vendor \in Vendors
      BY <1>17, RunOf DEF ReadHint, Runs, Early, No
    <3>3. No \notin gone
      BY <1>0 DEF AssistantTypes
    <3>4. Runs(rec)
      BY <3>1, <3>2 DEF Runs, Early, No
    <3>5. Fits(r, rec)
      BY <1>17, <3>1, <3>2, <3>3, <3>4 DEF ReadHint, Fits, Wears, Early, Late, No
    <3> QED BY <1>4, <2>1, <3>5 DEF rec
  <2>2. ASSUME NEW q \in RowsOf(run[r].vendor, "active"),
               run' = [run EXCEPT ![r] = [@ EXCEPT !.at = "copying", !.hint = row[q].hint, !.from = q]]
        PROVE  Credentials'
    <3>1. /\ q \in Asks /\ row[q].vendor = run[r].vendor /\ row[q].status = "active"
          /\ row[q].hint \in Names /\ row[q].key \in Names
      BY <1>0, RowHas DEF RowsOf
    <3> DEFINE rec == [run[r] EXCEPT !.at = "copying", !.hint = row[q].hint, !.from = q]
    <3>2. /\ rec \in AskRuns /\ rec.at = "copying" /\ rec.key = run[r].key /\ rec.hint = row[q].hint
          /\ rec.vendor = run[r].vendor /\ rec.from = q
      BY <1>0, <3>1 DEF AskRuns, Early, Late, Names
    <3> HIDE DEF rec
    <3>3. run[r].key = No /\ row[r] = NoCredential /\ run[r].vendor \in Vendors
      BY <1>17, RunOf DEF ReadHint, Runs, Early, No
    <3>4. run[q].at \notin Early
      BY <3>1, RunOf DEF No
    <3>5. Tells(row[q]) /\ Wears(row[q])
      BY <3>1 DEF Credentials
    <3>6. rec.hint # No => Worn(rec.hint)
      <4>1. CASE row[q].hint = row[q].key /\ row[q].key # No
        <5>1. row[q].key \in ActiveKeys(row)
          BY <3>1, <4>1 DEF ActiveKeys
        <5> QED BY <3>2, <4>1, <5>1 DEF Worn
      <4>2. CASE row[q].hint # row[q].key
        BY <3>2, <3>5, <4>2 DEF Wears
      <4> QED BY <3>2, <4>1, <4>2
    <3>7. Runs(rec)
      BY <3>1, <3>2, <3>3, <3>4 DEF Runs, Copies, Early, No
    <3>8. rec.hint # No => KeyOf(rec.hint, rec.vendor)
      BY <3>1, <3>2, <3>5 DEF Tells
    <3>9. Fits(r, rec)
      BY <1>17, <3>2, <3>3, <3>6, <3>7, <3>8 DEF ReadHint, Fits, Wears, Early, Late, No
    <3> QED BY <1>4, <2>2, <3>9 DEF rec
  <2> QED BY <1>17, <2>1, <2>2 DEF ReadHint
<1>18. CASE ReadEnvelope(r)
  <2>1. PICK q : q = run[r].from
    OBVIOUS
  <2>2. run' = [run EXCEPT ![r] = [@ EXCEPT !.at = "staging", !.key = row[q].key, !.sealed = row[q].sealed]]
    BY <1>18, <2>1 DEF ReadEnvelope
  <2>3. /\ run[r].key = No /\ row[r] = NoCredential /\ run[r].vendor \in Vendors /\ q \in Asks
        /\ row[q] # NoCredential =>
             row[q].status = "active" /\ row[q].vendor = run[r].vendor /\ row[q].hint = run[r].hint
    BY <1>18, <2>1, RunOf DEF ReadEnvelope, Runs, Copies, Early, No
  <2>4. row[q].key \in Names /\ row[q].sealed \in Names
    <3>1. row[q] = NoCredential \/ row[q] \in CredentialRows
      BY <1>0, <2>3 DEF AssistantTypes
    <3>2. NoCredential.sealed = No
      BY DEF NoCredential
    <3> QED BY <3>1, <3>2 DEF CredentialRows, Names
  <2> DEFINE rec == [run[r] EXCEPT !.at = "staging", !.key = row[q].key, !.sealed = row[q].sealed]
  <2>5. /\ rec \in AskRuns /\ rec.at = "staging" /\ rec.key = row[q].key /\ rec.hint = run[r].hint
        /\ rec.vendor = run[r].vendor
    BY <1>0, <2>4 DEF AskRuns, Early, Late
  <2> HIDE DEF rec
  <2>6. Tells(run[r]) /\ Wears(run[r]) /\ Tells(row[q]) /\ Wears(row[q])
    BY <2>3 DEF Credentials
  <2>7. rec.key # No => rec.hint = rec.key /\ rec.key \notin gone \ carried
    <3> SUFFICES ASSUME rec.key # No PROVE rec.hint = rec.key /\ rec.key \notin gone \ carried
      OBVIOUS
    <3>1. row[q] # NoCredential
      BY <2>5
    <3>2. row[q].hint = row[q].key
      BY <2>5, <2>6 DEF Tells
    <3>3. row[q].key \notin gone \ carried
      BY <2>3 DEF Credentials, Lost
    <3> QED BY <2>3, <2>5, <3>1, <3>2, <3>3
  <2>8. rec.key = No => rec.key \notin gone
    BY <1>0 DEF AssistantTypes
  <2>9. Runs(rec)
    BY <2>3, <2>5 DEF Runs, Early, No
  <2>10. (rec.hint # No => KeyOf(rec.hint, rec.vendor)) /\ Wears(rec)
    BY <2>3, <2>5, <2>6, <2>7 DEF Tells, Wears
  <2>11. Fits(r, rec)
    BY <1>18, <2>3, <2>5, <2>7, <2>8, <2>9, <2>10 DEF ReadEnvelope, Fits, Early, Late, No
  <2> QED BY <1>4, <2>2, <2>11 DEF rec
<1> QED BY <1>6, <1>7, <1>8, <1>9, <1>10, <1>11, <1>12, <1>13, <1>15, <1>16, <1>17, <1>18

(* The keys in use after a step are what is left of them, but for a row    *)
(* that is made active; what is worn stays worn.                           *)
LEMMA StillWorn ==
  ASSUME gone' = gone \cup (ActiveKeys(row) \ ActiveKeys(row')), NEW h, Worn(h)
  PROVE  Worn(h)'
BY DEF Worn

(* A credential is staged, in the place of the one that waited.            *)
LEMMA StageStep == ASSUME Credentials, NEW r \in Asks, Stage(r) PROVE Credentials'
<1> USE MarksOfAssistant DEF Stage, At, GoTo
<1>0. AssistantTypes /\ run[r] \in AskRuns /\ run[r].at = "staging"
  BY RunOf DEF Credentials
<1> DEFINE S == RowsOf(run[r].vendor, "staged")
<1> DEFINE new == [status |-> "staged", vendor |-> run[r].vendor, key |-> run[r].key,
                   sealed |-> run[r].sealed, hint |-> run[r].hint, model |-> run[r].model]
<1>1. /\ row[r] = NoCredential /\ run[r].vendor \in Vendors /\ Tells(run[r]) /\ Wears(run[r])
      /\ run[r].key \notin gone \ carried
  BY <1>0, RunOf DEF Runs, Early, No
<1>2. new \in CredentialRows /\ new.status = "staged" /\ new.vendor = run[r].vendor
      /\ new.key = run[r].key /\ new.hint = run[r].hint
  BY <1>0, <1>1 DEF AskRuns, CredentialRows
<1>3. /\ row'[r] = new
      /\ \A q \in Asks \ {r} : row'[q] = IF q \in S THEN NoCredential ELSE row[q]
      /\ row' \in [Asks -> CredentialRows \cup {NoCredential}]
  BY <1>0, <1>2 DEF AssistantTypes, Without
<1> HIDE DEF new
<1>4. /\ run' \in [Asks -> AskRuns] /\ run'[r] = [run[r] EXCEPT !.at = "staged"]
      /\ \A q \in Asks \ {r} : run'[q] = run[q]
  BY <1>0 DEF AssistantTypes, AskRuns, Late
<1>5. /\ run'[r].at = "staged" /\ run'[r].key = run[r].key /\ run'[r].hint = run[r].hint
      /\ run'[r].vendor = run[r].vendor
  BY <1>0, <1>4 DEF AskRuns
<1>6. AssistantTypes'
  BY <1>0, <1>3, <1>4 DEF AssistantTypes
<1>7. \A q \in S : q \in Asks /\ row[q].status = "staged" /\ row[q].vendor = run[r].vendor
  BY DEF RowsOf
<1>8. \A q \in Asks : row'[q].status = "active" <=> row[q].status = "active"
  BY <1>1, <1>2, <1>3, <1>7 DEF No
<1>9. \A q \in Asks : row[q].status = "active" => row'[q] = row[q]
  BY <1>1, <1>3, <1>7 DEF No
<1>10. ActiveKeys(row') = ActiveKeys(row)
  BY <1>8, <1>9 DEF ActiveKeys
<1>11. ASSUME NEW q \in Asks PROVE Placed(q)'
  <2>1. Placed(q)
    BY DEF Credentials
  <2>2. CASE q = r
    BY <1>1, <1>2, <1>3, <1>5, <2>2 DEF Placed, Runs, Early, Late, No
  <2>3. CASE q # r
    <3>1. run'[q] = run[q] /\ (row'[q] = row[q] \/ row'[q] = NoCredential)
      BY <1>3, <1>4, <2>3
    <3>2. ASSUME Copies(run[q]) PROVE Copies(run[q])'
      <4>1. run[q].from # r
        BY <1>0, <3>2 DEF Copies, Early
      <4>2. run'[run[q].from] = run[run[q].from]
        BY <1>4, <3>2, <4>1 DEF Copies
      <4>3. row'[run[q].from] # NoCredential => row'[run[q].from] = row[run[q].from]
        BY <1>3, <3>2, <4>1 DEF Copies
      <4> QED BY <3>1, <3>2, <4>2, <4>3 DEF Copies
    <3>3. Runs(run[q])'
      BY <2>1, <3>1, <3>2 DEF Placed, Runs
    <3> QED BY <2>1, <3>1, <3>3 DEF Placed, No
  <2> QED BY <2>2, <2>3
<1>12. ASSUME NEW h, NEW v, KeyOf(h, v), h \in Asks PROVE KeyOf(h, v)'
  BY <1>4, <1>5, <1>12 DEF KeyOf
<1>13. ASSUME NEW q \in Asks PROVE Tells(run[q])' /\ Tells(row[q])'
  <2>1. /\ Tells(run[q]) /\ Tells(row[q]) /\ row[q].hint \in Names /\ run[q].hint \in Names
        /\ run[r].hint \in Names
    BY <1>0, RowHas, RunHas DEF Credentials
  <2>2. Tells(run[q])'
    <3>1. run'[q].key = run[q].key /\ run'[q].hint = run[q].hint /\ run'[q].vendor = run[q].vendor
      BY <1>4, <1>5
    <3> QED BY <1>12, <2>1, <3>1 DEF Tells, Names, KeyOf
  <2>3. CASE q = r
    <3>1. /\ row'[q].key = run[r].key /\ row'[q].hint = run[r].hint
          /\ row'[q].vendor = run[r].vendor
      BY <1>2, <1>3, <2>3
    <3>2. Tells(run[r])
      BY <1>1
    <3>3. Tells(row[q])'
      BY <1>12, <2>1, <3>1, <3>2 DEF Tells, Names, KeyOf
    <3> QED BY <2>2, <3>3
  <2>4. CASE q # r /\ q \notin S
    <3>1. row'[q] = row[q]
      BY <1>3, <2>4
    <3>3. Tells(row[q])'
      BY <1>12, <2>1, <3>1 DEF Tells, Names, KeyOf
    <3> QED BY <2>2, <3>3
  <2>5. CASE q # r /\ q \in S
    <3>1. row'[q] = NoCredential
      BY <1>3, <2>5
    <3>3. Tells(row[q])'
      BY <3>1 DEF Tells
    <3> QED BY <2>2, <3>3
  <2> QED BY <2>3, <2>4, <2>5
<1>14. \A h : Worn(h)' <=> Worn(h)
  BY <1>10 DEF Worn
<1>15. ASSUME NEW q \in Asks PROVE Wears(run[q])' /\ Wears(row[q])'
  <2>1. Wears(run[q]) /\ Wears(row[q])
    BY DEF Credentials
  <2>2. Wears(run[q])'
    BY <1>4, <1>5, <1>14, <2>1 DEF Wears
  <2>3. Wears(row[q])'
    BY <1>1, <1>2, <1>3, <1>14, <2>1 DEF Wears
  <2> QED BY <2>2, <2>3
<1>16. \A q \in Asks : row'[q].status = "active" /\ row'[q].hint # row'[q].key => row'[q].hint \in gone
  BY <1>8, <1>9 DEF Credentials
<1>17. \A k \in gone : run'[k].key = k
  BY <1>0, <1>4, <1>5 DEF Credentials, AssistantTypes
<1>18. ASSUME NEW k \in gone \ carried PROVE Lost(k)'
  <2>1. Lost(k) /\ k # No
    BY <1>0 DEF Credentials, AssistantTypes
  <2> QED BY <1>0, <1>2, <1>3, <1>4, <1>5, <2>1 DEF Lost
<1>19. ASSUME NEW p \in Asks, NEW q \in Asks, row'[p] # NoCredential, row'[q] # NoCredential,
              row'[p].status = row'[q].status, row'[p].vendor = row'[q].vendor
       PROVE  p = q
  <2>1. ASSUME NEW x \in Asks \ {r}, row'[x] # NoCredential
        PROVE  row'[x] = row[x] /\ x \notin S /\ ~(row[x].status = "staged" /\ row[x].vendor = run[r].vendor)
    BY <1>3, <2>1 DEF RowsOf
  <2>2. p # r /\ q # r => p = q
    BY <1>19, <2>1 DEF Credentials
  <2>3. p = r /\ q # r => FALSE
    BY <1>2, <1>3, <1>19, <2>1
  <2>4. p # r /\ q = r => FALSE
    BY <1>2, <1>3, <1>19, <2>1
  <2> QED BY <2>2, <2>3, <2>4
<1>20. gone' = gone /\ carried' = carried
  OBVIOUS
<1> QED BY <1>6, <1>11, <1>13, <1>15, <1>16, <1>17, <1>18, <1>19, <1>20 DEF Credentials

(* A request takes rows of a vendor away, those that are active among      *)
(* them; its own becomes active, if it is there.                           *)
Leaves(r, v, S, copies) ==
  /\ \A q \in S : q # r /\ row[q].vendor = v /\ row'[q] = NoCredential
  /\ \A q \in Asks \ S : q # r => row'[q] = row[q]
  /\ \A q \in Asks \ S : q # r /\ row[q].vendor = v => row[q].status # "active"
  /\ \A q \in Asks \ S : row[q].vendor = v /\ row[q].status = "staged" => row[q].key \in copies
  /\ row[r] = NoCredential => row'[r] = NoCredential
  /\ row[r] # NoCredential => /\ row[r].vendor = v /\ row[r].status # "active"
                              /\ row'[r] = [row[r] EXCEPT !.status = "active"]
  /\ InFlight \subseteq copies
  /\ Retire(row', copies)
  /\ run'[r].at \in {"over", "choosing"} /\ run'[r].key = run[r].key
  /\ run'[r].hint = run[r].hint /\ run'[r].vendor = run[r].vendor
  /\ \A q \in Asks : q # r => run'[q] = run[q]

(* Whoever leaves keeps the invariant.                                     *)
LEMMA RowsLeave ==
  ASSUME Credentials, AssistantTypes', NEW r \in Asks, NEW v \in Vendors, NEW S \in SUBSET Asks,
         NEW copies, Leaves(r, v, S, copies)
  PROVE  Credentials'
<1> USE MarksOfAssistant DEF Leaves
<1> DEFINE now == ActiveKeys(row) \ ActiveKeys(row')
<1>0. AssistantTypes
  BY DEF Credentials
<1>1. gone' = gone \cup now /\ carried' = carried \cup (now \cap copies)
  BY DEF Retire
<1>2. row[r] # NoCredential =>
        /\ row'[r].status = "active" /\ row'[r].key = row[r].key /\ row'[r].hint = row[r].hint
        /\ row'[r].vendor = row[r].vendor /\ row'[r] # NoCredential
  <2> SUFFICES ASSUME row[r] # NoCredential
               PROVE  /\ row'[r].status = "active" /\ row'[r].key = row[r].key
                      /\ row'[r].hint = row[r].hint /\ row'[r].vendor = row[r].vendor
                      /\ row'[r] # NoCredential
    OBVIOUS
  <2>1. row[r] \in CredentialRows
    BY <1>0, RowHas
  <2> QED BY <2>1 DEF CredentialRows, No
<1>3. ASSUME NEW q \in Asks, row'[q] # NoCredential
      PROVE  /\ row[q] # NoCredential /\ q \notin S
             /\ row'[q].key = row[q].key /\ row'[q].hint = row[q].hint /\ row'[q].vendor = row[q].vendor
             /\ q # r => row'[q] = row[q]
             /\ q = r => row'[q].status = "active" /\ row[q].vendor = v
  BY <1>2, <1>3
<1>4. ASSUME NEW q \in Asks
      PROVE  /\ run'[q].key = run[q].key /\ run'[q].hint = run[q].hint /\ run'[q].vendor = run[q].vendor
             /\ q # r => run'[q].at = run[q].at
  BY <1>4
<1>5. ASSUME NEW k \in now
      PROVE  k \in Asks /\ KeyOf(k, v)
  <2>1. PICK q \in Asks : row[q].status = "active" /\ row[q].key = k /\ k # No
    BY DEF ActiveKeys
  <2>2. row[q].key \in Names /\ Tells(row[q])
    BY <1>0, RowHas DEF Credentials
  <2>3. k \in Asks /\ KeyOf(k, row[q].vendor)
    BY <2>1, <2>2 DEF Names, Tells
  <2>4. q \in S
    <3> SUFFICES ASSUME q \notin S PROVE FALSE
      OBVIOUS
    <3>1. CASE q = r
      BY <2>1, <3>1 DEF No
    <3>2. CASE q # r
      <4>1. row'[q] = row[q]
        BY <3>2
      <4> QED BY <2>1, <4>1 DEF ActiveKeys
    <3> QED BY <3>1, <3>2
  <2> QED BY <2>3, <2>4
<1>6. ASSUME NEW q \in Asks PROVE Placed(q)'
  <2>1. Placed(q) /\ Placed(r)
    BY DEF Credentials
  <2>2. CASE q = r
    BY <1>3, <1>4, <2>1, <2>2 DEF Placed, Runs, Early, Late, No
  <2>3. CASE q # r
    <3>1. run'[q] = run[q] /\ (row'[q] = row[q] \/ row'[q] = NoCredential)
      BY <2>3
    <3>2. ASSUME Copies(run[q]) PROVE Copies(run[q])'
      <4>1. run'[run[q].from].at \notin Early /\ run[q].from \in Asks
        BY <1>4, <3>2 DEF Copies, Early, No
      <4>2. row'[run[q].from] # NoCredential =>
              /\ row'[run[q].from].status = "active" /\ row'[run[q].from].vendor = run[q].vendor
              /\ row'[run[q].from].hint = run[q].hint
        BY <1>3, <3>2, <4>1 DEF Copies
      <4> QED BY <3>1, <4>1, <4>2 DEF Copies
    <3>3. Runs(run[q])'
      BY <2>1, <3>1, <3>2 DEF Placed, Runs
    <3> QED BY <2>1, <3>1, <3>3 DEF Placed, No
  <2> QED BY <2>2, <2>3
<1>7. ASSUME NEW h \in Asks, NEW w, KeyOf(h, w) PROVE run'[h].key = h /\ run'[h].vendor = w
  BY <1>4, <1>7 DEF KeyOf
<1>8. ASSUME NEW q \in Asks PROVE Tells(run[q])' /\ Tells(row[q])'
  <2>1. Tells(run[q]) /\ Tells(row[q]) /\ row[q].hint \in Names /\ run[q].hint \in Names
    BY <1>0, RowHas, RunHas DEF Credentials
  <2>2. Tells(run[q])'
    BY <1>4, <1>7, <2>1 DEF Tells, Names, KeyOf
  <2>3. CASE row'[q] = NoCredential
    BY <2>2, <2>3 DEF Tells
  <2>4. CASE row'[q] # NoCredential
    <3>1. row'[q].key = row[q].key /\ row'[q].hint = row[q].hint /\ row'[q].vendor = row[q].vendor
      BY <1>3, <2>4
    <3>2. Tells(row[q])'
      BY <1>7, <2>1, <3>1 DEF Tells, Names, KeyOf
    <3> QED BY <2>2, <3>2
  <2> QED BY <2>3, <2>4
<1>9. ASSUME NEW h, Worn(h) PROVE Worn(h)'
  BY <1>1, <1>9, StillWorn
<1>10. ASSUME NEW q \in Asks PROVE Wears(run[q])' /\ Wears(row[q])'
  <2>1. Wears(run[q]) /\ Wears(row[q])
    BY DEF Credentials
  <2>2. Wears(run[q])'
    BY <1>4, <1>9, <2>1 DEF Wears
  <2>3. Wears(row[q])'
    BY <1>3, <1>9, <2>1 DEF Wears
  <2> QED BY <2>2, <2>3
<1>11. ASSUME NEW q \in Asks, row'[q].status = "active", row'[q].hint # row'[q].key
       PROVE  row'[q].hint \in gone'
  <2>1. row'[q] # NoCredential
    BY <1>11 DEF No
  <2>2. CASE q # r
    BY <1>1, <1>3, <1>11, <2>1, <2>2 DEF Credentials
  <2>3. CASE q = r
    <3> DEFINE h == row[r].hint
    <3>1. h # row[r].key /\ row'[r].hint = h /\ row[r].vendor = v
      BY <1>3, <1>11, <2>1, <2>3
    <3>2. Tells(row[r]) /\ Wears(row[r]) /\ h \in Names
      BY <1>0, RowHas DEF Credentials
    <3>3. h # No /\ h \in Asks /\ KeyOf(h, v)
      BY <3>1, <3>2 DEF Tells, Names
    <3>4. h \in gone \cup ActiveKeys(row)
      BY <3>1, <3>2 DEF Wears, Worn
    <3>5. h \notin ActiveKeys(row')
      <4> SUFFICES ASSUME NEW x \in Asks, row'[x].status = "active", row'[x].key = h PROVE FALSE
        BY <3>3 DEF ActiveKeys
      <4>1. row'[x] # NoCredential
        BY DEF No
      <4>2. x # r
        BY <1>3, <3>1, <4>1
      <4>3. row'[x] = row[x] /\ x \notin S
        BY <1>3, <4>1, <4>2
      <4>4. Tells(row[x])
        BY DEF Credentials
      <4>5. row[x].vendor = v
        BY <3>3, <4>3, <4>4 DEF Tells, KeyOf
      <4> QED BY <4>2, <4>3, <4>5
    <3> QED BY <1>1, <2>3, <3>1, <3>4, <3>5
  <2> QED BY <2>2, <2>3
<1>12. \A k \in gone' : run'[k].key = k
  <2>1. \A k \in gone : k \in Asks /\ run[k].key = k
    BY <1>0 DEF Credentials, AssistantTypes
  <2>2. \A k \in now : k \in Asks /\ run[k].key = k
    BY <1>5 DEF KeyOf
  <2> QED BY <1>1, <1>4, <2>1, <2>2
<1>13. ASSUME NEW k \in gone' \ carried' PROVE Lost(k)'
  <2>1. CASE k \in gone \ carried
    <3>1. Lost(k) /\ k # No
      BY <1>0, <2>1 DEF Credentials, AssistantTypes
    <3>2. ASSUME NEW q \in Asks PROVE row'[q].key # k
      BY <1>3, <3>1 DEF Lost
    <3>3. ASSUME NEW q \in Asks, run'[q].at = "staging" PROVE run'[q].key # k
      BY <1>4, <3>1, <3>3 DEF Lost
    <3> QED BY <3>2, <3>3 DEF Lost
  <2>2. CASE k \notin gone \ carried
    <3>1. k \in now /\ k \notin copies
      BY <1>1, <2>2
    <3>2. k \in Asks /\ KeyOf(k, v) /\ k # No
      BY <1>5, <3>1
    <3>3. ASSUME NEW q \in Asks, row'[q].key = k PROVE FALSE
      <4>1. row'[q] # NoCredential
        BY <3>2, <3>3
      <4>2. row[q].key = k /\ Tells(row[q]) /\ row[q] \in CredentialRows /\ q \notin S
        BY <1>0, <1>3, <3>3, <4>1, RowHas DEF Credentials
      <4>3. row[q].vendor = v
        BY <3>2, <4>2 DEF Tells, KeyOf
      <4>4. row'[q].status # "active"
        BY <3>1, <3>2, <3>3 DEF ActiveKeys
      <4>5. q # r /\ row'[q] = row[q]
        BY <1>3, <4>1, <4>4
      <4>6. row[q].status = "staged"
        BY <4>2, <4>4, <4>5 DEF CredentialRows
      <4> QED BY <3>1, <4>2, <4>3, <4>6
    <3>4. ASSUME NEW q \in Asks, run'[q].at = "staging", run'[q].key = k PROVE FALSE
      <4>1. q # r
        BY <3>4
      <4>2. run[q].at = "staging" /\ run[q].key = k
        BY <1>4, <3>4, <4>1
      <4> QED BY <3>1, <3>2, <4>2 DEF InFlight
    <3> QED BY <3>3, <3>4 DEF Lost
  <2> QED BY <2>1, <2>2
<1>14. ASSUME NEW p \in Asks, NEW q \in Asks, row'[p] # NoCredential, row'[q] # NoCredential,
              row'[p].status = row'[q].status, row'[p].vendor = row'[q].vendor
       PROVE  p = q
  <2>1. p # r /\ q # r => p = q
    BY <1>3, <1>14 DEF Credentials
  <2>2. p = r /\ q # r => FALSE
    BY <1>3, <1>14
  <2>3. p # r /\ q = r => FALSE
    BY <1>3, <1>14
  <2> QED BY <2>1, <2>2, <2>3
<1> QED BY <1>6, <1>8, <1>10, <1>11, <1>12, <1>13, <1>14 DEF Credentials

(* A credential becomes the active one.                                    *)
LEMMA PromoteStep == ASSUME Credentials, NEW r \in Asks, Promote(r) PROVE Credentials'
<1> USE MarksOfAssistant DEF At, GoTo
<1> DEFINE v == run[r].vendor
<1> DEFINE S == RowsOf(v, "active") \ {r}
<1> DEFINE copies == InFlight \cup {row[q].key : q \in RowsOf(v, "staged")}
<1> DEFINE there == IF row[r] = NoCredential THEN "over" ELSE "choosing"
<1>0. AssistantTypes /\ run[r] \in AskRuns /\ run[r].at = "promoting" /\ v \in Vendors
      /\ row[r].status # "active" /\ (row[r] # NoCredential => row[r].vendor = v)
  BY RunOf DEF Credentials, Promote, Runs, Late, No
<1>1. /\ \A q \in S : q \in Asks /\ q # r /\ row[q].vendor = v
      /\ \A q \in Asks \ S : q # r /\ row[q].vendor = v => row[q].status # "active"
      /\ InFlight \subseteq copies
      /\ \A q \in Asks \ S : row[q].vendor = v /\ row[q].status = "staged" => row[q].key \in copies
  BY DEF RowsOf
<1>2. /\ Retire(row', copies) /\ run' = [run EXCEPT ![r].at = there]
      /\ row' = IF row[r] = NoCredential THEN Without(row, S)
                ELSE [Without(row, S) EXCEPT ![r].status = "active"]
  BY DEF Promote
<1>3. /\ \A q \in S : row'[q] = NoCredential
      /\ \A q \in Asks \ S : q # r => row'[q] = row[q]
      /\ IF row[r] = NoCredential THEN row'[r] = NoCredential
         ELSE row'[r] = [row[r] EXCEPT !.status = "active"]
      /\ DOMAIN row' = Asks /\ row' = [q \in Asks |-> row'[q]]
  BY <1>1, <1>2 DEF Without
<1>4. row' \in [Asks -> CredentialRows \cup {NoCredential}]
  <2>1. \A q \in Asks : row'[q] \in CredentialRows \cup {NoCredential}
    BY <1>0, <1>3, RowHas DEF AssistantTypes, CredentialRows
  <2> QED BY <1>3, <2>1
<1>5. /\ run' \in [Asks -> AskRuns] /\ run'[r].at = there /\ run'[r].key = run[r].key
      /\ run'[r].hint = run[r].hint /\ run'[r].vendor = run[r].vendor
      /\ \A q \in Asks : q # r => run'[q] = run[q]
  BY <1>0, <1>2 DEF AssistantTypes, AskRuns
<1>6. AssistantTypes'
  <2>1. ActiveKeys(row) \subseteq Asks
    BY <1>0, RowHas DEF ActiveKeys, Names
  <2> QED BY <1>0, <1>2, <1>4, <1>5, <2>1 DEF AssistantTypes, Promote, Retire
<1> HIDE DEF S, copies, v, there
<1>7. there \in {"over", "choosing"} /\ S \in SUBSET Asks
  BY <1>1 DEF there
<1>8. Leaves(r, v, S, copies)
  BY <1>0, <1>1, <1>2, <1>3, <1>5, <1>7 DEF Leaves
<1> QED BY <1>0, <1>6, <1>7, <1>8, RowsLeave

(* A vendor is forgotten.                                                  *)
LEMMA ForgetStep == ASSUME Credentials, NEW r \in Asks, Forget(r) PROVE Credentials'
<1> USE MarksOfAssistant DEF At, GoTo
<1>0. AssistantTypes /\ run[r] = NoAsk /\ run[r] \in AskRuns /\ row[r] = NoCredential
  BY RunOf DEF Credentials, Forget, Early
<1>1. PICK v \in Vendors :
        /\ row' = Without(row, RowsOf(v, "active") \cup RowsOf(v, "staged"))
        /\ Retire(row', InFlight)
  BY DEF Forget
<1> DEFINE S == RowsOf(v, "active") \cup RowsOf(v, "staged")
<1>2. /\ \A q \in S : q \in Asks /\ q # r /\ row[q].vendor = v
      /\ \A q \in Asks \ S : row[q].vendor = v => row[q].status \notin {"active", "staged"}
  BY <1>0 DEF RowsOf, No
<1>3. /\ \A q \in S : row'[q] = NoCredential
      /\ \A q \in Asks \ S : row'[q] = row[q]
      /\ row'[r] = NoCredential
      /\ row' \in [Asks -> CredentialRows \cup {NoCredential}]
  BY <1>0, <1>1, <1>2 DEF Without, AssistantTypes
<1>4. /\ run' \in [Asks -> AskRuns] /\ run'[r].at = "over" /\ run'[r].key = run[r].key
      /\ run'[r].hint = run[r].hint /\ run'[r].vendor = run[r].vendor
      /\ \A q \in Asks : q # r => run'[q] = run[q]
  BY <1>0 DEF AssistantTypes, AskRuns, Forget
<1>5. AssistantTypes'
  <2>1. ActiveKeys(row) \subseteq Asks
    BY <1>0, RowHas DEF ActiveKeys, Names
  <2> QED BY <1>0, <1>1, <1>3, <1>4, <2>1 DEF AssistantTypes, Forget, Retire
<1> HIDE DEF S
<1>6. S \in SUBSET Asks
  BY <1>2
<1>7. Leaves(r, v, S, InFlight)
  BY <1>0, <1>1, <1>2, <1>3, <1>4, <1>6 DEF Leaves
<1> QED BY <1>5, <1>6, <1>7, RowsLeave

(* The process dies.                                                       *)
LEMMA DieStep == ASSUME Credentials, Die PROVE Credentials'
<1> USE MarksOfAssistant DEF Die
<1>0. AssistantTypes
  BY DEF Credentials
<1>1. ASSUME NEW q \in Asks
      PROVE  /\ run'[q] \in AskRuns /\ run'[q].key = run[q].key /\ run'[q].hint = run[q].hint
             /\ run'[q].vendor = run[q].vendor /\ run'[q].from = run[q].from
             /\ run'[q].at = IF run[q].at \in Resting THEN run[q].at ELSE "over"
             /\ run'[q].at = No => run'[q] = run[q]
  <2>1. run'[q] = IF run[q].at \in Resting THEN run[q] ELSE [run[q] EXCEPT !.at = "over"]
    BY <1>0 DEF AssistantTypes
  <2> QED BY <1>0, <2>1, RunHas DEF AskRuns, No
<1>2. AssistantTypes'
  <2>1. run' \in [Asks -> AskRuns]
    BY <1>0, <1>1 DEF AssistantTypes
  <2> QED BY <1>0, <2>1 DEF AssistantTypes
<1>3. ASSUME NEW q \in Asks PROVE Placed(q)'
  <2>1. Placed(q)
    BY DEF Credentials
  <2>2. run'[q].at \notin {"sealing", "creating", "writing", "keeping", "copying", "staging"}
    BY <1>1 DEF Resting, No
  <2>3. Runs(run[q])'
    BY <1>1, <2>1, <2>2 DEF Placed, Runs, Early, Late, Resting, No
  <2> QED BY <1>1, <2>1, <2>3 DEF Placed, Early, Late, Resting, No
<1>4. ASSUME NEW h \in Asks, NEW w, KeyOf(h, w) PROVE run'[h].key = h /\ run'[h].vendor = w
  BY <1>1, <1>4 DEF KeyOf
<1>5. ASSUME NEW q \in Asks PROVE Tells(run[q])' /\ Tells(row[q])'
  <2>1. Tells(run[q]) /\ Tells(row[q]) /\ row[q].hint \in Names /\ run[q].hint \in Names
    BY <1>0, RowHas, RunHas DEF Credentials
  <2> QED BY <1>1, <1>4, <2>1 DEF Tells, Names, KeyOf
<1>6. \A q \in Asks : Wears(run[q])' /\ Wears(row[q])'
  BY <1>1 DEF Credentials, Wears, Worn, ActiveKeys
<1>7. \A k \in gone : run'[k].key = k
  BY <1>0, <1>1 DEF Credentials, AssistantTypes
<1>8. \A k \in gone \ carried : Lost(k)'
  BY <1>1 DEF Credentials, Lost, Resting, No
<1> QED BY <1>2, <1>3, <1>5, <1>6, <1>7, <1>8 DEF Credentials

(* A key that is there was sealed with the key file.                       *)
OpensWith(k, s) == k # No => s = keyfile /\ keyfile \in Asks

(* A step keeps the seals if the key file stays, nobody comes to make it,  *)
(* and what is sealed comes from a row or a request.                       *)
LEMMA SealsStay ==
  ASSUME Seals, UNCHANGED keyfile,
         \A q \in Asks : /\ run'[q].at \in {"creating", "writing"} => run'[q].at = run[q].at
                        /\ OpensWith(run'[q].key, run'[q].sealed)
                        /\ OpensWith(row'[q].key, row'[q].sealed)
  PROVE  Seals'
BY DEF Seals, SealedBy, OpensWith

(* The same for a request that goes on while the rows stay.                *)
LEMMA SealsGoOn ==
  ASSUME AssistantTypes, Seals, UNCHANGED <<keyfile, row>>, NEW r \in Asks, NEW rec \in AskRuns,
         run' = [run EXCEPT ![r] = rec],
         rec.at \in {"creating", "writing"} => rec.at = run[r].at,
         OpensWith(rec.key, rec.sealed)
  PROVE  Seals'
<1>1. \A q \in Asks : run'[q] = IF q = r THEN rec ELSE run[q]
  BY DEF AssistantTypes
<1>2. \A q \in Asks : OpensWith(run[q].key, run[q].sealed) /\ OpensWith(row[q].key, row[q].sealed)
  BY DEF Seals, SealedBy, OpensWith
<1> QED BY <1>1, <1>2, SealsStay

(* While nobody contested the key file, every step keeps the seals.        *)
LEMMA SealsStep ==
  ASSUME Credentials, Seals, ~contested', [AssistantNext]_assistantVars PROVE Seals'
<1> USE MarksOfAssistant DEF At, GoTo
<1>0. /\ AssistantTypes
      /\ \A q \in Asks : OpensWith(run[q].key, run[q].sealed) /\ OpensWith(row[q].key, row[q].sealed)
  BY DEF Credentials, Seals, SealedBy, OpensWith
<1>1. OpensWith(No, No)
  BY DEF OpensWith
<1>2. ASSUME NEW r \in Asks, NEW there \in {"staging", "staged", "waiting", "promoting", "choosing", "naming", "over"},
             UNCHANGED <<keyfile, row>>, run' = [run EXCEPT ![r].at = there]
      PROVE  Seals'
  <2> DEFINE rec == [run[r] EXCEPT !.at = there]
  <2>1. rec \in AskRuns /\ rec.at = there /\ rec.key = run[r].key /\ rec.sealed = run[r].sealed
    BY <1>0 DEF AssistantTypes, AskRuns, Early, Late
  <2> HIDE DEF rec
  <2>2. run' = [run EXCEPT ![r] = rec]
    BY <1>2 DEF rec
  <2> QED BY <1>0, <1>2, <2>1, <2>2, SealsGoOn
<1>3. ASSUME NEW r \in Asks, UNCHANGED keyfile,
             \A q \in Asks : /\ run'[q].at = run[q].at \/ run'[q].at \notin {"creating", "writing"}
                            /\ run'[q].key = run[q].key /\ run'[q].sealed = run[q].sealed
                            /\ \/ row'[q] = NoCredential
                               \/ row'[q].key = row[q].key /\ row'[q].sealed = row[q].sealed
                               \/ row'[q].key = run[r].key /\ row'[q].sealed = run[r].sealed
      PROVE  Seals'
  <2>1. \A q \in Asks : OpensWith(run'[q].key, run'[q].sealed) /\ OpensWith(row'[q].key, row'[q].sealed)
    BY <1>0, <1>1, <1>3 DEF NoCredential
  <2> QED BY <1>3, <2>1, SealsStay
<1>4. ASSUME NEW r \in Asks, NEW rec \in AskRuns, run' = [run EXCEPT ![r] = rec],
             UNCHANGED <<keyfile, row>>, rec.at \notin {"creating", "writing"}, rec.key = No
      PROVE  Seals'
  BY <1>0, <1>4, SealsGoOn DEF OpensWith
<1>5. CASE UNCHANGED assistantVars
  BY <1>5 DEF assistantVars, Seals, SealedBy
<1>6. CASE Die
  <2>1. UNCHANGED <<keyfile, row>>
    BY <1>6 DEF Die
  <2>2. ASSUME NEW q \in Asks
        PROVE  /\ run'[q].at = run[q].at \/ run'[q].at \notin {"creating", "writing"}
               /\ run'[q].key = run[q].key /\ run'[q].sealed = run[q].sealed
    <3>1. run'[q] = IF run[q].at \in Resting THEN run[q] ELSE [run[q] EXCEPT !.at = "over"]
      BY <1>0, <1>6 DEF AssistantTypes, Die
    <3> QED BY <1>0, <3>1, RunHas DEF AskRuns
  <2> QED BY <1>0, <2>1, <2>2, SealsStay
<1>7. ASSUME NEW r \in Asks, Configure(r) PROVE Seals'
  <2>1. PICK v \in Vendors, model \in {No, "own"}, key \in {"sealing", "keeping", "staging"} :
          run' = [run EXCEPT ![r] = [NoAsk EXCEPT !.at = key, !.vendor = v,
                                                  !.model = IF model = No THEN No ELSE v]]
    BY <1>7 DEF Configure
  <2> DEFINE rec == [NoAsk EXCEPT !.at = key, !.vendor = v, !.model = IF model = No THEN No ELSE v]
  <2>2. rec \in AskRuns /\ rec.at = key /\ rec.key = No
    BY DEF NoAsk, AskRuns, Early, Late, Names
  <2> HIDE DEF rec
  <2> QED BY <1>4, <1>7, <2>1, <2>2 DEF rec, Configure
<1>8. ASSUME NEW r \in Asks, UpdateSettings(r) PROVE Seals'
  <2>1. PICK v \in Vendors \cup {No}, model \in Vendors \cup {No} :
          run' = [run EXCEPT ![r] = [NoAsk EXCEPT !.at = "choosing", !.vendor = v, !.model = model]]
    BY <1>8 DEF UpdateSettings
  <2> DEFINE rec == [NoAsk EXCEPT !.at = "choosing", !.vendor = v, !.model = model]
  <2>2. rec \in AskRuns /\ rec.at = "choosing" /\ rec.key = No
    BY DEF NoAsk, AskRuns, Early, Late, Names
  <2> HIDE DEF rec
  <2> QED BY <1>4, <1>8, <2>1, <2>2 DEF rec, UpdateSettings
<1>9. ASSUME NEW r \in Asks, FindKeyFile(r) PROVE Seals'
  <2>1. UNCHANGED <<keyfile, row>>
    BY <1>9 DEF FindKeyFile
  <2>2. CASE keyfile = "absent"
    <3>1. run' = [run EXCEPT ![r].at = "creating"] /\ \A q \in Asks : run[q].at \notin {"creating", "writing"}
      BY <1>9, <2>2 DEF FindKeyFile
    <3>2. /\ run'[r].at = "creating" /\ run'[r].key = run[r].key /\ run'[r].sealed = run[r].sealed
          /\ \A q \in Asks : q # r => run'[q] = run[q]
      BY <1>0, <3>1 DEF AssistantTypes, AskRuns
    <3> QED BY <2>1, <2>2, <3>1, <3>2 DEF Seals, SealedBy
  <2>3. CASE keyfile = "empty"
    BY <1>2, <1>9, <2>1, <2>3 DEF FindKeyFile
  <2>4. CASE keyfile \notin {"absent", "empty"}
    <3> DEFINE rec == [run[r] EXCEPT !.at = "staging", !.key = r, !.hint = r, !.sealed = keyfile]
    <3>1. keyfile \in Asks
      BY <1>0, <2>4 DEF AssistantTypes
    <3>2. rec \in AskRuns /\ rec.at = "staging" /\ rec.sealed = keyfile
      BY <1>0, <3>1 DEF AssistantTypes, AskRuns, Early, Late, Names
    <3>3. run' = [run EXCEPT ![r] = rec]
      BY <1>9, <2>4 DEF FindKeyFile
    <3> HIDE DEF rec
    <3> QED BY <1>0, <2>1, <3>1, <3>2, <3>3, SealsGoOn DEF OpensWith
  <2> QED BY <2>2, <2>3, <2>4
<1>10. ASSUME NEW r \in Asks, OpenKeyFile(r) PROVE Seals'
  <2>1. keyfile = "absent" /\ row' = row /\ run[r].at = "creating" /\ keyfile' = "empty"
    BY <1>10 DEF Seals, OpenKeyFile
  <2>2. \A q \in Asks : row[q].key = No /\ run[q].key = No
    BY <2>1 DEF Seals, SealedBy
  <2>3. \A q \in Asks : q # r => run[q].at \notin {"creating", "writing"}
    BY <2>1 DEF Seals
  <2>4. /\ run'[r].at = "writing" /\ run'[r].key = run[r].key
        /\ \A q \in Asks : q # r => run'[q] = run[q]
    BY <1>0, <1>10 DEF AssistantTypes, AskRuns, OpenKeyFile
  <2> QED BY <2>1, <2>2, <2>3, <2>4 DEF Seals, SealedBy
<1>11. ASSUME NEW r \in Asks, WriteKeyFile(r) PROVE Seals'
  <2>1. keyfile = "empty" /\ row' = row /\ run[r].at = "writing" /\ keyfile' = r
    BY <1>11 DEF Seals, WriteKeyFile
  <2>2. \A q \in Asks : row[q].key = No /\ run[q].key = No
    BY <2>1 DEF Seals, SealedBy
  <2>3. \A q \in Asks : q # r => run[q].at \notin {"creating", "writing"}
    BY <2>1 DEF Seals
  <2>4. /\ run'[r].at = "staging" /\ run'[r].key = r /\ run'[r].sealed = r
        /\ \A q \in Asks : q # r => run'[q] = run[q]
    BY <1>0, <1>11 DEF AssistantTypes, AskRuns, WriteKeyFile
  <2> QED BY <2>1, <2>2, <2>3, <2>4 DEF Seals, SealedBy
<1>12. ASSUME NEW r \in Asks, ReadHint(r) PROVE Seals'
  <2>1. UNCHANGED <<keyfile, row>>
    BY <1>12 DEF ReadHint
  <2>2. CASE run' = [run EXCEPT ![r].at = "staging"]
    BY <1>2, <2>1, <2>2
  <2>3. ASSUME NEW q \in RowsOf(run[r].vendor, "active"),
               run' = [run EXCEPT ![r] = [@ EXCEPT !.at = "copying", !.hint = row[q].hint, !.from = q]]
        PROVE  Seals'
    <3> DEFINE rec == [run[r] EXCEPT !.at = "copying", !.hint = row[q].hint, !.from = q]
    <3>1. q \in Asks /\ row[q].hint \in Names
      BY <1>0, RowHas DEF RowsOf
    <3>2. /\ rec \in AskRuns /\ rec.at = "copying" /\ rec.key = run[r].key
          /\ rec.sealed = run[r].sealed
      BY <1>0, <3>1 DEF AssistantTypes, AskRuns, Early, Late, Names
    <3>3. run' = [run EXCEPT ![r] = rec]
      BY <2>3
    <3> HIDE DEF rec
    <3> QED BY <1>0, <2>1, <3>2, <3>3, SealsGoOn
  <2> QED BY <1>12, <2>2, <2>3 DEF ReadHint
<1>13. ASSUME NEW r \in Asks, ReadEnvelope(r) PROVE Seals'
  <2>1. UNCHANGED <<keyfile, row>> /\ run[r].at = "copying"
    BY <1>13 DEF ReadEnvelope
  <2>2. PICK q : q = run[r].from
    OBVIOUS
  <2>3. q \in Asks
    BY <2>1, <2>2, RunOf DEF Runs, Copies
  <2> DEFINE rec == [run[r] EXCEPT !.at = "staging", !.key = row[q].key, !.sealed = row[q].sealed]
  <2>4. row[q].key \in Names /\ row[q].sealed \in Names
    BY <1>0, <2>3, RowHas DEF NoCredential, CredentialRows, Names
  <2>5. rec \in AskRuns /\ rec.at = "staging" /\ rec.key = row[q].key /\ rec.sealed = row[q].sealed
    BY <1>0, <2>4 DEF AssistantTypes, AskRuns, Early, Late
  <2>6. run' = [run EXCEPT ![r] = rec]
    BY <1>13, <2>2 DEF ReadEnvelope
  <2> HIDE DEF rec
  <2> QED BY <1>0, <2>1, <2>3, <2>5, <2>6, SealsGoOn
<1>14. ASSUME NEW r \in Asks, Stage(r) PROVE Seals'
  <2>1. UNCHANGED keyfile
    BY <1>14 DEF Stage
  <2>2. ASSUME NEW q \in Asks
        PROVE  /\ run'[q].at = run[q].at \/ run'[q].at \notin {"creating", "writing"}
               /\ run'[q].key = run[q].key /\ run'[q].sealed = run[q].sealed
    BY <1>0, <1>14, RunHas DEF AssistantTypes, AskRuns, Stage
  <2>3. ASSUME NEW q \in Asks
        PROVE  \/ row'[q] = NoCredential
               \/ row'[q].key = row[q].key /\ row'[q].sealed = row[q].sealed
               \/ row'[q].key = run[r].key /\ row'[q].sealed = run[r].sealed
    BY <1>0, <1>14 DEF AssistantTypes, Stage, Without
  <2> QED BY <1>3, <2>1, <2>2, <2>3
<1>15. ASSUME NEW r \in Asks, Promote(r) \/ Forget(r) PROVE Seals'
  <2>1. UNCHANGED keyfile
    BY <1>15 DEF Promote, Forget
  <2>2. ASSUME NEW q \in Asks
        PROVE  /\ run'[q].at = run[q].at \/ run'[q].at \notin {"creating", "writing"}
               /\ run'[q].key = run[q].key /\ run'[q].sealed = run[q].sealed
    BY <1>0, <1>15, RunHas DEF AssistantTypes, AskRuns, Promote, Forget
  <2>3. ASSUME NEW q \in Asks
        PROVE  row'[q] = NoCredential \/ (row'[q].key = row[q].key /\ row'[q].sealed = row[q].sealed)
    <3>1. CASE Promote(r)
      <4>1. row'[q] \in {NoCredential, row[q], [row[q] EXCEPT !.status = "active"], [NoCredential EXCEPT !.status = "active"]}
        BY <3>1 DEF Promote, Without
      <4>2. CASE row[r] # NoCredential /\ q = r
        <5>1. row[q] \in CredentialRows
          BY <1>0, <4>2, RowHas
        <5>2. row'[q] = [row[q] EXCEPT !.status = "active"]
          BY <3>1, <4>2 DEF Promote, Without
        <5> QED BY <5>1, <5>2 DEF CredentialRows
      <4>3. CASE row[r] = NoCredential \/ q # r
        BY <3>1, <4>3 DEF Promote, Without
      <4> QED BY <4>2, <4>3
    <3>2. CASE Forget(r)
      BY <3>2 DEF Forget, Without
    <3> QED BY <1>15, <3>1, <3>2
  <2> QED BY <1>3, <2>1, <2>2, <2>3
<1>16. ASSUME NEW r \in Asks,
              AskApproval(r) \/ Decline(r) \/ Accept(r) \/ ChooseProvider(r) \/ ChooseModel(r)
       PROVE  Seals'
  <2>1. UNCHANGED <<keyfile, row>>
    BY <1>16 DEF AskApproval, Decline, Accept, ChooseProvider, ChooseModel
  <2>2. PICK there \in {"waiting", "promoting", "naming", "over"} : run' = [run EXCEPT ![r].at = there]
    BY <1>16 DEF AskApproval, Decline, Accept, ChooseProvider, ChooseModel
  <2> QED BY <1>2, <2>1, <2>2
<1> QED
  BY <1>5, <1>6, <1>7, <1>8, <1>9, <1>10, <1>11, <1>12, <1>13, <1>14, <1>15, <1>16 DEF AssistantNext

(* Every step keeps the invariant.                                         *)
LEMMA CredentialStep == CredentialInv /\ [AssistantNext]_assistantVars => CredentialInv'
<1> SUFFICES ASSUME CredentialInv, [AssistantNext]_assistantVars PROVE CredentialInv'
  OBVIOUS
<1>1. Credentials
  BY DEF CredentialInv
<1>2. Credentials'
  <2>1. CASE UNCHANGED assistantVars
    BY <1>1, <2>1
    DEF assistantVars, Credentials, AssistantTypes, Placed, Runs, Copies, Tells, KeyOf, Wears, Worn,
        ActiveKeys, Lost
  <2>2. CASE AssistantNext
    BY <1>1, <2>2, DieStep, RunSteps, StageStep, PromoteStep, ForgetStep DEF AssistantNext
  <2> QED BY <2>1, <2>2
<1>3. ~contested' => ~contested
  BY DEF assistantVars, AssistantNext, Die, Configure, FindKeyFile, OpenKeyFile, WriteKeyFile, ReadHint,
         ReadEnvelope, Stage, AskApproval, Decline, Accept, Promote, UpdateSettings, ChooseProvider,
         ChooseModel, Forget
<1>4. ~contested' => Seals'
  BY <1>1, <1>3, SealsStep DEF CredentialInv
<1> QED BY <1>2, <1>4 DEF CredentialInv

(* What is said of one credential at most is said of their number.         *)
LEMMA OneAtMost ==
  ASSUME NEW S, \A p, q \in S : p = q PROVE Cardinality(S) <= 1
<1>1. CASE S = {}
  <2>1. Cardinality(S) = 0
    BY <1>1, FS_EmptySet, Zenon
  <2> QED BY <2>1
<1>2. ASSUME NEW q \in S PROVE Cardinality(S) <= 1
  <2>1. S = {q}
    OBVIOUS
  <2>2. Cardinality(S) = 1
    BY <2>1, FS_Singleton, Zenon
  <2> QED BY <2>2
<1> QED BY <1>1, <1>2

(* The invariant says what is promised of every state.                     *)
LEMMA CredentialsAreOne ==
  ASSUME CredentialInv PROVE KeyOpens /\ OneOfEach /\ KeyStaysGone /\ HintTellsKey
<1> USE MarksOfAssistant DEF CredentialInv
<1>0. AssistantTypes
  BY DEF Credentials
<1>1. KeyOpens
  BY DEF KeyOpens, Seals, SealedBy
<1>2. OneOfEach
  <2> SUFFICES ASSUME NEW v \in Vendors, NEW status \in {"staged", "active"}
               PROVE  Cardinality(RowsOf(v, status)) <= 1
    BY DEF OneOfEach
  <2>1. \A p, q \in RowsOf(v, status) : p = q
    BY DEF RowsOf, Credentials, No
  <2> QED BY <2>1, OneAtMost
<1>3. KeyStaysGone
  BY DEF KeyStaysGone, ActiveKeys, Credentials, Lost
<1>4. HintTellsKey
  BY DEF HintTellsKey, Credentials, Tells
<1> QED BY <1>1, <1>2, <1>3, <1>4

(* A vendor loses its active credential to a request that forgets it, or   *)
(* that was overtaken.                                                     *)
LEMMA ActiveStays ==
  ASSUME Credentials, [AssistantNext]_assistantVars, NEW v \in Vendors,
         RowsOf(v, "active") # {}, \A q \in Asks : row'[q].vendor = v => row'[q].status # "active"
  PROVE  \E r \in Asks :
           /\ run'[r].at = "over" /\ run[r].at \in {No, "promoting"}
           /\ run[r].at = "promoting" => run[r].vendor = v /\ row[r] = NoCredential
<1> USE MarksOfAssistant DEF At, GoTo
<1>0. AssistantTypes
  BY DEF Credentials
<1>1. PICK a \in Asks : row[a].vendor = v /\ row[a].status = "active" /\ row'[a] # row[a]
  BY DEF RowsOf
<1>2. PICK r \in Asks : Stage(r) \/ Promote(r) \/ Forget(r)
  BY <1>1 DEF assistantVars, AssistantNext, Die, Configure, FindKeyFile, OpenKeyFile, WriteKeyFile,
     ReadHint,
              ReadEnvelope, AskApproval, Decline, Accept, UpdateSettings, ChooseProvider, ChooseModel
<1>3. CASE Stage(r)
  <2>1. a # r /\ a \notin RowsOf(run[r].vendor, "staged")
    BY <1>1, <1>3, RunOf DEF Stage, Early, RowsOf, No
  <2>2. row'[a] = row[a]
    BY <1>3, <2>1 DEF Stage, Without
  <2> QED BY <1>1, <2>2
<1>4. CASE Promote(r)
  <2>1. /\ run[r].at = "promoting" /\ row[r].status # "active"
        /\ (row[r] # NoCredential => row[r].vendor = run[r].vendor)
    BY <1>4, RunOf DEF Promote, Late, No
  <2>2. run[r].vendor = v
    <3> SUFFICES ASSUME run[r].vendor # v PROVE FALSE
      OBVIOUS
    <3>1. a # r /\ a \notin RowsOf(run[r].vendor, "active")
      BY <1>1, <2>1 DEF RowsOf
    <3>2. row'[a] = row[a]
      BY <1>4, <3>1 DEF Promote, Without
    <3> QED BY <1>1, <3>2
  <2>3. row[r] = NoCredential
    <3> SUFFICES ASSUME row[r] # NoCredential PROVE FALSE
      OBVIOUS
    <3>1. row[r] \in CredentialRows /\ row[r].vendor = v
      BY <1>0, <2>1, <2>2, RowHas
    <3>2. row'[r] = [row[r] EXCEPT !.status = "active"]
      BY <1>4 DEF Promote, Without
    <3>3. row'[r].status = "active" /\ row'[r].vendor = v
      BY <3>1, <3>2 DEF CredentialRows
    <3> QED BY <3>3
  <2>4. run'[r].at = "over"
    BY <1>0, <1>4, <2>3, RunHas DEF Promote, AssistantTypes, AskRuns
  <2> QED BY <2>1, <2>2, <2>3, <2>4
<1>5. CASE Forget(r)
  <2>1. run'[r].at = "over" /\ run[r].at = No
    BY <1>0, <1>5, RunHas DEF Forget, AssistantTypes, AskRuns
  <2> QED BY <2>1 DEF No
<1> QED BY <1>2, <1>3, <1>4, <1>5

(* For any vendors, requests and crashes.                                  *)
THEOREM CredentialsStaySound == AssistantSpec => CredentialsAreSound
<1>1. AssistantSpec => []CredentialInv
  BY CredentialInit, CredentialStep, PTL DEF AssistantSpec
<1>2. CredentialInv => KeyOpens /\ OneOfEach /\ KeyStaysGone /\ HintTellsKey
  BY CredentialsAreOne
<1>3. CredentialInv /\ [AssistantNext]_assistantVars =>
        [\A v \in Vendors :
           /\ RowsOf(v, "active") # {}
           /\ \A q \in Asks : row'[q].vendor = v => row'[q].status # "active"
           => \E r \in Asks :
                /\ run'[r].at = "over" /\ run[r].at \in {No, "promoting"}
                /\ run[r].at = "promoting" => run[r].vendor = v /\ row[r] = NoCredential]_assistantVars
  BY ActiveStays DEF CredentialInv
<1> QED BY <1>1, <1>2, <1>3, PTL DEF AssistantSpec, CredentialsAreSound, ActiveSurvives

-----------------------------------------------------------------------------
(* Strategies.  What a request holds a copy of is as it was read, unless   *)
(* two requests held copies of it or its id was used twice; what it is     *)
(* about to show in the graph has its row.                                 *)

Ranks == {Absent, "PROPOSED", "EVALUATED", "SELECTED"}
States == DOMAIN DecisionMoves
DecisionRows == [of: Ids, past: Seq(States)]
OrgNodes == {"strategy", "simulation", "decision"} \X Ids
OrgEdges == OrgNodes \X {"EVALUATED_BY", "IMPLEMENTED_BY", "SUPERSEDES"} \X OrgNodes

NodeWork == [at: {"node"}, node: OrgNodes, edges: SUBSET OrgEdges]
BatchWork ==
  [at: {"score", "step", "simulate", "link"}, batch: Seq(Ids), k: Nat, id: Ids, read: [Ids -> Ranks],
   copies: SUBSET OrgNodes]
DecideWork == [at: {"decide"}, of: Ids, read: Ranks, copies: SUBSET OrgNodes]
SelectWork == [at: {"select"}, of: Ids, read: Ranks, copies: SUBSET OrgNodes, node: OrgNodes]
MoveWork == [at: {"move"}, id: Ids, read: DecisionRows, target: States, copies: SUBSET OrgNodes]
SupersedeWork == [at: {"supersede"}, id: Ids, of: Ids, target: States]
Work == {Idle} \cup NodeWork \cup BatchWork \cup DecideWork \cup SelectWork \cup MoveWork \cup SupersedeWork

AtBatch(h) == h.at \in {"score", "step", "simulate", "link"}
AtChoice(h) == h.at \in {"decide", "select"}

TableTypes ==
  /\ strategy \in [Ids -> Ranks]
  /\ simulation \in [Ids -> Ids \cup {0}]
  /\ decision \in [Ids -> {NoDecision} \cup DecisionRows]
GraphTypes == orgNode \in SUBSET OrgNodes /\ orgEdge \in SUBSET OrgEdges
StrategyTypes == second \in Ids /\ TableTypes /\ GraphTypes /\ handler \in [Slots -> Work]

(* The copies a request works on are among those it holds.                 *)
KeepsCopies(h) ==
  /\ AtBatch(h) => h.k \in 1..Len(h.batch) /\ \A k \in DOMAIN h.batch : Copy("strategy", h.batch[k]) \in h.copies
  /\ AtChoice(h) => Copy("strategy", h.of) \in h.copies
  /\ h.at = "move" => Copy("decision", h.id) \in h.copies

(* The rows a request goes by exist.                                       *)
HasRow(n) ==
  CASE n[1] = "strategy" -> strategy[n[2]] # Absent
    [] n[1] = "simulation" -> simulation[n[2]] # 0
    [] n[1] = "decision" -> decision[n[2]] # NoDecision
EndsHaveRows(links) == \A e \in links : HasRow(e[1]) /\ HasRow(e[3])
GoesByRows(h) ==
  /\ h.at = "node" => HasRow(h.node) /\ EndsHaveRows(h.edges)
  /\ AtBatch(h) => \A k \in DOMAIN h.batch : strategy[h.batch[k]] # Absent
  /\ h.at = "link" => simulation[h.id] # 0
  /\ AtChoice(h) => strategy[h.of] # Absent
  /\ h.at = "select" => HasRow(h.node)
  /\ h.at \in {"move", "supersede"} => decision[h.id] # NoDecision

(* A decision's past is a walk.                                            *)
IsWalk(past) ==
  /\ past # << >> /\ past[1] = "PROPOSED"
  /\ \A k \in 1..(Len(past) - 1) : past[k + 1] \in DecisionMoves[past[k]]
MovesOnAWalk(h) ==
  h.at = "move" => IsWalk(h.read.past) /\ h.target \in DecisionMoves[StatusOf(h.read)]

(* What was read is what there is.                                         *)
Undisturbed(kind, i) == Copy(kind, i) \notin reused \cup crossed
Unmixed == \A c \in reused : c[1] # "decision"
ReadsCurrently(h) ==
  /\ AtBatch(h) => \A k \in DOMAIN h.batch :
       Undisturbed("strategy", h.batch[k]) /\ h.read[h.batch[k]] = "PROPOSED" =>
         strategy[h.batch[k]] # "SELECTED"
  /\ AtChoice(h) /\ Undisturbed("strategy", h.of) => strategy[h.of] = h.read
  /\ h.at = "move" /\ Undisturbed("decision", h.id) => decision[h.id] = h.read
  /\ h.at = "move" /\ Unmixed => decision[h.id].of = h.read.of
  /\ h.at = "select" /\ Unmixed => h.node[1] = "decision" /\ decision[h.node[2]].of = h.of

StrategyInv ==
  /\ StrategyTypes
  /\ \A s, t \in Slots : s # t => Holds(s) \cap Holds(t) \subseteq crossed
  /\ \A t \in Slots : /\ KeepsCopies(handler[t]) /\ GoesByRows(handler[t])
                      /\ MovesOnAWalk(handler[t]) /\ ReadsCurrently(handler[t])
  /\ \A n \in orgNode : HasRow(n)
  /\ EndsHaveRows(orgEdge)
  /\ \A i \in Ids : decision[i] # NoDecision => IsWalk(decision[i].past)
  /\ Unmixed => \A i \in Ids : strategy[i] = "SELECTED" => \E d \in Ids : decision[d].of = i

(* What a request's record is made of.                                     *)
LEMMA WorkHas ==
  ASSUME NEW h \in Work
  PROVE  /\ h.at \in {"idle", "node", "score", "step", "simulate", "link", "decide", "select", "move", "supersede"}
         /\ h.at = "idle" => h = Idle
         /\ h.at = "node" => h \in NodeWork
         /\ AtBatch(h) => h \in BatchWork
         /\ h.at = "decide" => h \in DecideWork
         /\ h.at = "select" => h \in SelectWork
         /\ h.at = "move" => h \in MoveWork
         /\ h.at = "supersede" => h \in SupersedeWork
BY DEF Work, Idle, NodeWork, BatchWork, DecideWork, SelectWork, MoveWork, SupersedeWork, AtBatch

HoldsOf(h) == IF "copies" \in DOMAIN h THEN h.copies ELSE {}

(* What it holds copies of.                                                *)
LEMMA WorkHolds ==
  ASSUME NEW h \in Work
  PROVE  HoldsOf(h) = IF AtBatch(h) \/ AtChoice(h) \/ h.at = "move" THEN h.copies ELSE {}
<1>1. CASE h \in NodeWork
  BY <1>1 DEF NodeWork, HoldsOf, AtBatch, AtChoice
<1>2. CASE h \in BatchWork
  BY <1>2 DEF BatchWork, HoldsOf, AtBatch, AtChoice
<1>3. CASE h \in DecideWork
  BY <1>3 DEF DecideWork, HoldsOf, AtBatch, AtChoice
<1>4. CASE h \in SelectWork
  BY <1>4 DEF SelectWork, HoldsOf, AtBatch, AtChoice
<1>5. CASE h \in MoveWork
  BY <1>5 DEF MoveWork, HoldsOf, AtBatch, AtChoice
<1>6. CASE h \in SupersedeWork
  BY <1>6 DEF SupersedeWork, HoldsOf, AtBatch, AtChoice
<1>7. CASE h = Idle
  BY <1>7 DEF Idle, HoldsOf, AtBatch, AtChoice
<1> QED
  BY <1>1, <1>2, <1>3, <1>4, <1>5, <1>6, <1>7 DEF Work

(* The ranks of a strategy's statuses.                                     *)
LEMMA RankIs ==
  /\ StageOf(Absent) = 0 /\ StageOf("PROPOSED") = 1 /\ StageOf("EVALUATED") = 2 /\ StageOf("SELECTED") = 3
  /\ StrategyWalk[1] = "PROPOSED" /\ StrategyWalk[2] = "EVALUATED" /\ StrategyWalk[3] = "SELECTED"
<1>1. StrategyWalk[1] = "PROPOSED" /\ StrategyWalk[2] = "EVALUATED" /\ StrategyWalk[3] = "SELECTED"
  BY DEF StrategyWalk
<1>2. \A i \in 0..3 : i = 0 \/ i = 1 \/ i = 2 \/ i = 3
  OBVIOUS
<1>3. StageOf(Absent) = 0
  BY <1>1, <1>2 DEF StageOf, Absent
<1>4. StageOf("PROPOSED") = 1
  BY <1>1, <1>2 DEF StageOf, Absent
<1>5. StageOf("EVALUATED") = 2
  BY <1>1, <1>2 DEF StageOf, Absent
<1>6. StageOf("SELECTED") = 3
  BY <1>1, <1>2 DEF StageOf, Absent
<1> QED BY <1>1, <1>3, <1>4, <1>5, <1>6

(* Rows are not taken back.                                                *)
StrategyRowsStay ==
  \A i \in Ids :
    /\ strategy[i] # Absent => strategy'[i] # Absent
    /\ simulation[i] # 0 => simulation'[i] # 0
    /\ decision[i] # NoDecision => decision'[i] # NoDecision

(* What changes is what the request holds, or has an id used twice.        *)
ChangesItsOwn(t) ==
  \A i \in Ids :
    /\ strategy'[i] # strategy[i] => Copy("strategy", i) \in Holds(t) \cup reused' \/ strategy[i] = Absent
    /\ decision'[i] # decision[i] => Copy("decision", i) \in Holds(t) \cup reused' \/ decision[i] = NoDecision
    /\ Unmixed' /\ decision[i] # NoDecision => decision'[i].of = decision[i].of

(* A row that is there remains.                                            *)
LEMMA RowsRemain ==
  ASSUME StrategyRowsStay, NEW n \in OrgNodes, HasRow(n)
  PROVE  HasRow(n)'
BY DEF StrategyRowsStay, HasRow, OrgNodes

(* One request's step leaves the others what they are.                     *)
LEMMA OthersStay ==
  ASSUME StrategyTypes, NEW t \in Slots, NEW w \in Work, handler' = [handler EXCEPT ![t] = w]
  PROVE  /\ handler' \in [Slots -> Work] /\ handler'[t] = w /\ Holds(t)' = HoldsOf(w)
         /\ \A s \in Slots : s # t => handler'[s] = handler[s] /\ Holds(s)' = Holds(s)
BY DEF StrategyTypes, Holds, HoldsOf

(* What another request goes by is still there.                            *)
LEMMA OthersGoByRows ==
  ASSUME StrategyTypes, StrategyRowsStay, NEW h \in Work, NEW s \in Slots, h = handler[s], handler'[s] = h,
         GoesByRows(handler[s])
  PROVE  GoesByRows(handler[s])'
<1> USE DEF GoesByRows, AtBatch, AtChoice
<1>1. CASE h.at = "node"
  <2>1. h \in NodeWork
    BY <1>1, WorkHas
  <2>2. HasRow(h.node) /\ \A e \in h.edges : HasRow(e[1]) /\ HasRow(e[3])
    BY <1>1 DEF EndsHaveRows
  <2>3. h.node \in OrgNodes /\ \A e \in h.edges : e[1] \in OrgNodes /\ e[3] \in OrgNodes
    BY <2>1 DEF NodeWork, OrgEdges
  <2>4. HasRow(handler[s].node)' /\ EndsHaveRows(handler[s].edges)'
    BY <2>2, <2>3, RowsRemain DEF EndsHaveRows
  <2> QED BY <2>4, <1>1
<1>2. CASE AtBatch(h)
  <2>1. h \in BatchWork
    BY <1>2, WorkHas
  <2>2. h.id \in Ids /\ \A k \in DOMAIN h.batch : h.batch[k] \in Ids
    BY <2>1 DEF BatchWork
  <2> QED BY <2>2, <1>2 DEF StrategyRowsStay
<1>3. CASE h.at = "decide"
  BY <1>3, WorkHas DEF DecideWork, StrategyRowsStay
<1>4. CASE h.at = "select"
  <2>1. h \in SelectWork
    BY <1>4, WorkHas
  <2>2. h.of \in Ids /\ h.node \in OrgNodes
    BY <2>1 DEF SelectWork
  <2>3. HasRow(handler[s].node)'
    BY <2>2, <1>4, RowsRemain
  <2> QED BY <2>2, <2>3, <1>4 DEF StrategyRowsStay
<1>5. CASE h.at = "move"
  BY <1>5, WorkHas DEF MoveWork, StrategyRowsStay
<1>6. CASE h.at = "supersede"
  BY <1>6, WorkHas DEF SupersedeWork, StrategyRowsStay
<1>7. CASE h.at = "idle"
  BY <1>7
<1> QED BY <1>1, <1>2, <1>3, <1>4, <1>5, <1>6, <1>7, WorkHas

(* What another request read is still so: it alone may change what it      *)
(* holds.                                                                  *)
LEMMA OthersReadCurrently ==
  ASSUME StrategyInv, NEW t \in Slots, NEW h \in Work, NEW s \in Slots, s # t, h = handler[s], handler'[s] = h,
         crossed \subseteq crossed', reused \subseteq reused', ChangesItsOwn(t)
  PROVE  ReadsCurrently(handler[s])'
<1>1. Holds(s) = HoldsOf(h) /\ Holds(s) \cap Holds(t) \subseteq crossed
  BY DEF StrategyInv, Holds, HoldsOf
<1>2. KeepsCopies(h) /\ GoesByRows(h) /\ ReadsCurrently(h)
  BY DEF StrategyInv
<1>3. \A kind, i : Undisturbed(kind, i)' => Undisturbed(kind, i)
  BY DEF Undisturbed
<1>4. Unmixed' => Unmixed
  BY DEF Unmixed
<1>5. \A i \in Ids : Copy("strategy", i) \in HoldsOf(h) /\ Undisturbed("strategy", i)' =>
        strategy'[i] = strategy[i] \/ strategy[i] = Absent
  BY <1>1 DEF ChangesItsOwn, Undisturbed
<1>6. \A i \in Ids : Copy("decision", i) \in HoldsOf(h) /\ Undisturbed("decision", i)' =>
        decision'[i] = decision[i] \/ decision[i] = NoDecision
  BY <1>1 DEF ChangesItsOwn, Undisturbed
<1>7. CASE AtBatch(h)
  <2>1. h \in BatchWork /\ HoldsOf(h) = h.copies
    BY <1>7, WorkHas, WorkHolds
  <2>2. SUFFICES ASSUME NEW k \in DOMAIN h.batch, Undisturbed("strategy", h.batch[k])',
                        h.read[h.batch[k]] = "PROPOSED"
                 PROVE  strategy'[h.batch[k]] # "SELECTED"
    BY <1>7 DEF ReadsCurrently, AtBatch, AtChoice
  <2>3. h.batch[k] \in Ids /\ Copy("strategy", h.batch[k]) \in HoldsOf(h)
    BY <2>1, <1>7, <1>2 DEF BatchWork, KeepsCopies
  <2>4. strategy[h.batch[k]] # Absent /\ strategy[h.batch[k]] # "SELECTED"
    BY <2>2, <1>2, <1>3, <1>7 DEF GoesByRows, ReadsCurrently
  <2> QED BY <2>3, <2>4, <1>5, <2>2
<1>8. CASE AtChoice(h)
  <2>1. h.of \in Ids /\ HoldsOf(h) = h.copies
    BY <1>8, WorkHas, WorkHolds DEF AtChoice, DecideWork, SelectWork
  <2>2. Undisturbed("strategy", h.of)' => strategy'[h.of] = h.read
    <3>1. Copy("strategy", h.of) \in HoldsOf(h) /\ strategy[h.of] # Absent
      BY <2>1, <1>8, <1>2 DEF KeepsCopies, GoesByRows
    <3>2. Undisturbed("strategy", h.of)' => strategy[h.of] = h.read
      BY <1>2, <1>3, <1>8 DEF ReadsCurrently
    <3> QED BY <3>1, <3>2, <2>1, <1>5
  <2>3. ASSUME h.at = "select", Unmixed' PROVE h.node[1] = "decision" /\ decision'[h.node[2]].of = h.of
    <3>1. h.node \in OrgNodes /\ HasRow(h.node)
      BY <2>3, <1>2, WorkHas DEF SelectWork, GoesByRows
    <3>2. h.node[1] = "decision" /\ decision[h.node[2]].of = h.of
      BY <2>3, <1>2, <1>4 DEF ReadsCurrently
    <3>3. h.node[2] \in Ids /\ decision[h.node[2]] # NoDecision
      BY <3>1, <3>2 DEF OrgNodes, HasRow
    <3> QED BY <3>2, <3>3, <2>3 DEF ChangesItsOwn
  <2> QED BY <2>2, <2>3, <1>8 DEF ReadsCurrently, AtBatch, AtChoice
<1>9. CASE h.at = "move"
  <2>1. h.id \in Ids /\ HoldsOf(h) = h.copies
    BY <1>9, WorkHas, WorkHolds DEF MoveWork
  <2>2. Copy("decision", h.id) \in HoldsOf(h) /\ decision[h.id] # NoDecision
    BY <2>1, <1>9, <1>2 DEF KeepsCopies, GoesByRows
  <2>3. Undisturbed("decision", h.id)' => decision'[h.id] = h.read
    BY <2>1, <2>2, <1>2, <1>3, <1>6, <1>9 DEF ReadsCurrently
  <2>4. Unmixed' => decision'[h.id].of = h.read.of
    BY <2>1, <2>2, <1>2, <1>4, <1>9 DEF ReadsCurrently, ChangesItsOwn
  <2> QED BY <2>3, <2>4, <1>9 DEF ReadsCurrently, AtBatch, AtChoice
<1>10. CASE ~(AtBatch(h) \/ AtChoice(h) \/ h.at = "move")
  BY <1>10 DEF ReadsCurrently, AtChoice, AtBatch
<1> QED BY <1>7, <1>8, <1>9, <1>10

(* What all steps of one request have in common.                           *)
LEMMA StrategyStepKeeps ==
  ASSUME StrategyInv, NEW t \in Slots, NEW w \in Work, handler' = [handler EXCEPT ![t] = w],
         StrategyTypes', StrategyRowsStay, ChangesItsOwn(t),
         crossed \subseteq crossed', reused \subseteq reused',
         \A s \in Slots : s # t => HoldsOf(w) \cap Holds(s) \subseteq crossed',
         KeepsCopies(w), MovesOnAWalk(w), GoesByRows(handler[t])', ReadsCurrently(handler[t])',
         (\A n \in orgNode : HasRow(n))', EndsHaveRows(orgEdge)',
         (\A i \in Ids : decision[i] # NoDecision => IsWalk(decision[i].past))',
         (Unmixed => \A i \in Ids : strategy[i] = "SELECTED" => \E d \in Ids : decision[d].of = i)'
  PROVE  StrategyInv'
<1>1. /\ handler'[t] = w /\ Holds(t)' = HoldsOf(w)
      /\ \A s \in Slots : s # t => handler'[s] = handler[s] /\ Holds(s)' = Holds(s)
  BY OthersStay DEF StrategyInv
<1>2. \A s, r \in Slots : s # r => Holds(s)' \cap Holds(r)' \subseteq crossed'
  BY <1>1 DEF StrategyInv
<1>3. ASSUME NEW s \in Slots, s # t
      PROVE  (KeepsCopies(handler[s]) /\ GoesByRows(handler[s]) /\ MovesOnAWalk(handler[s]) /\ ReadsCurrently(handler[s]))'
  <2>1. handler'[s] = handler[s] /\ handler[s] \in Work
    BY <1>1, <1>3 DEF StrategyInv, StrategyTypes
  <2>2. GoesByRows(handler[s])'
    BY <2>1, OthersGoByRows DEF StrategyInv
  <2>3. ReadsCurrently(handler[s])'
    BY <2>1, <1>3, OthersReadCurrently
  <2>4. KeepsCopies(handler[s])' /\ MovesOnAWalk(handler[s])'
    BY <2>1 DEF StrategyInv, KeepsCopies, MovesOnAWalk, AtBatch, AtChoice
  <2> QED BY <2>2, <2>3, <2>4
<1>4. KeepsCopies(handler[t])' /\ MovesOnAWalk(handler[t])'
  BY <1>1 DEF KeepsCopies, MovesOnAWalk, AtBatch, AtChoice
<1> QED BY <1>2, <1>3, <1>4 DEF StrategyInv

StrategyRows == <<strategy, simulation, decision>>

(* What is told of the rows and of the graph.                              *)
RowsTell ==
  /\ \A n \in orgNode : HasRow(n)
  /\ EndsHaveRows(orgEdge)
  /\ \A i \in Ids : decision[i] # NoDecision => IsWalk(decision[i].past)
  /\ Unmixed => \A i \in Ids : strategy[i] = "SELECTED" => \E d \in Ids : decision[d].of = i

(* A request that goes on holds no more than it did.                       *)
LEMMA GoingOnKeeps ==
  ASSUME StrategyInv, NEW t \in Slots, NEW w \in Work, Proceeds(t, w), HoldsOf(w) \subseteq Holds(t),
         reused \subseteq reused', TableTypes', GraphTypes',
         StrategyRowsStay, ChangesItsOwn(t),
         KeepsCopies(w), MovesOnAWalk(w), GoesByRows(handler[t])', ReadsCurrently(handler[t])', RowsTell'
  PROVE  StrategyInv'
<1>1. handler' = [handler EXCEPT ![t] = w] /\ crossed' = crossed /\ second' = second
  BY DEF Proceeds
<1>2. \A s \in Slots : s # t => HoldsOf(w) \cap Holds(s) \subseteq crossed'
  BY <1>1 DEF StrategyInv
<1>3. StrategyTypes'
  BY <1>1, OthersStay DEF StrategyInv, StrategyTypes, TableTypes, StrategyRows
<1> QED BY <1>1, <1>2, <1>3, StrategyStepKeeps DEF RowsTell

(* If it changes no row, it remains to look at it.                         *)
LEMMA OnlyItGoesOn ==
  ASSUME StrategyInv, NEW t \in Slots, NEW w \in Work, Proceeds(t, w), HoldsOf(w) \subseteq Holds(t),
         reused \subseteq reused', UNCHANGED StrategyRows, GraphTypes',
         KeepsCopies(w), MovesOnAWalk(w), GoesByRows(handler[t])', ReadsCurrently(handler[t])',
         (\A n \in orgNode : HasRow(n))', EndsHaveRows(orgEdge)'
  PROVE  StrategyInv'
<1>1. StrategyRowsStay /\ ChangesItsOwn(t)
  BY DEF StrategyRowsStay, ChangesItsOwn, StrategyRows
<1>2. TableTypes'
  BY DEF StrategyInv, StrategyTypes, TableTypes, StrategyRows
<1>3. RowsTell'
  BY DEF RowsTell, StrategyInv, StrategyRows, Unmixed
<1> QED BY <1>1, <1>2, <1>3, GoingOnKeeps

(* What the graph shows remains, if no row is taken back.                  *)
LEMMA GraphRemains ==
  ASSUME StrategyInv, StrategyRowsStay, UNCHANGED <<orgNode, orgEdge>>
  PROVE  GraphTypes' /\ (\A n \in orgNode : HasRow(n))' /\ EndsHaveRows(orgEdge)'
<1> USE DEF StrategyInv, StrategyTypes, GraphTypes
<1>1. \A n \in orgNode : HasRow(n)'
  BY RowsRemain
<1>2. \A e \in orgEdge : HasRow(e[1])' /\ HasRow(e[3])'
  BY RowsRemain DEF EndsHaveRows, OrgEdges
<1> QED BY <1>1, <1>2 DEF EndsHaveRows

(* A request that ends has nothing to keep.                                *)
LEMMA IdleKeeps ==
  /\ Idle \in Work /\ HoldsOf(Idle) = {} /\ KeepsCopies(Idle) /\ MovesOnAWalk(Idle)
  /\ Idle.at = "idle" /\ ~AtBatch(Idle) /\ ~AtChoice(Idle)
<1>1. Idle \in Work /\ Idle.at = "idle"
  BY DEF Work, Idle
<1>2. ~AtBatch(Idle) /\ ~AtChoice(Idle)
  BY <1>1 DEF AtBatch, AtChoice
<1> QED BY <1>1, <1>2, WorkHolds DEF KeepsCopies, MovesOnAWalk

(* What it takes for the three kinds of nodes to have a row.               *)
LEMMA CopyRow ==
  ASSUME NEW i
  PROVE  /\ HasRow(Copy("strategy", i)) <=> strategy[i] # Absent
         /\ HasRow(Copy("simulation", i)) <=> simulation[i] # 0
         /\ HasRow(Copy("decision", i)) <=> decision[i] # NoDecision
BY DEF HasRow, Copy

(* The node that is added has its row, and so have the ends of the edges.  *)
LEMMA SaveNodeKeeps ==
  ASSUME StrategyInv, NEW t \in Slots, SaveNode(t)
  PROVE  StrategyInv'
<1> DEFINE h == handler[t]
<1>1. h \in NodeWork /\ HasRow(h.node) /\ EndsHaveRows(h.edges)
  BY WorkHas DEF StrategyInv, StrategyTypes, SaveNode, GoesByRows
<1>2. Proceeds(t, Idle) /\ UNCHANGED StrategyRows /\ reused \subseteq reused'
      /\ orgNode' = orgNode \cup {h.node} /\ orgEdge' = orgEdge \cup h.edges
  BY DEF SaveNode, StrategyRows
<1>3. handler'[t] = Idle
  BY <1>2, IdleKeeps, OthersStay DEF Proceeds, StrategyInv
<1>4. (\A n \in orgNode : HasRow(n))' /\ EndsHaveRows(orgEdge)'
  BY <1>1, <1>2 DEF StrategyInv, HasRow, EndsHaveRows, StrategyRows
<1>6. GraphTypes'
  BY <1>1, <1>2 DEF StrategyInv, StrategyTypes, GraphTypes, NodeWork
<1>5. GoesByRows(handler[t])' /\ ReadsCurrently(handler[t])'
  BY <1>3, IdleKeeps DEF GoesByRows, ReadsCurrently, AtBatch, AtChoice
<1> QED BY <1>2, <1>4, <1>5, <1>6, IdleKeeps, OnlyItGoesOn

(* The decision was saved, and the strategy is looked up.                  *)
LEMMA LinkSupersededKeeps ==
  ASSUME StrategyInv, NEW t \in Slots, LinkSuperseded(t)
  PROVE  StrategyInv'
<1> DEFINE h == handler[t]
<1>1. h \in SupersedeWork /\ decision[h.id] # NoDecision
  BY WorkHas DEF StrategyInv, StrategyTypes, LinkSuperseded, GoesByRows
<1>2. Proceeds(t, Idle) /\ UNCHANGED StrategyRows /\ reused \subseteq reused' /\ orgNode' = orgNode
      /\ \/ orgEdge' = orgEdge
         \/ /\ strategy[h.of] # Absent
            /\ orgEdge' = orgEdge \cup {<<Copy("decision", h.id), "SUPERSEDES", Copy("strategy", h.of)>>}
  BY DEF LinkSuperseded, StrategyRows
<1>3. handler'[t] = Idle
  BY <1>2, IdleKeeps, OthersStay DEF Proceeds, StrategyInv
<1>4. (\A n \in orgNode : HasRow(n))' /\ EndsHaveRows(orgEdge)'
  <2>1. HasRow(Copy("decision", h.id)) /\ (strategy[h.of] # Absent => HasRow(Copy("strategy", h.of)))
    BY <1>1, CopyRow
  <2>2. \A n : HasRow(n)' = HasRow(n)
    BY <1>2 DEF HasRow, StrategyRows
  <2>3. \A a, b, c : <<a, b, c>>[1] = a /\ <<a, b, c>>[3] = c
    OBVIOUS
  <2> QED BY <1>2, <2>1, <2>2, <2>3 DEF StrategyInv, EndsHaveRows
<1>6. GraphTypes'
  BY <1>1, <1>2 DEF StrategyInv, StrategyTypes, GraphTypes, SupersedeWork, OrgEdges, OrgNodes, Copy
<1>5. GoesByRows(handler[t])' /\ ReadsCurrently(handler[t])'
  BY <1>3, IdleKeeps DEF GoesByRows, ReadsCurrently, AtBatch, AtChoice
<1> QED BY <1>2, <1>4, <1>5, <1>6, IdleKeeps, OnlyItGoesOn

(* Evaluations are not referred to.                                        *)
LEMMA SaveEvaluationKeeps ==
  ASSUME StrategyInv, NEW t \in Slots, SaveEvaluation(t)
  PROVE  StrategyInv'
<1> DEFINE h == handler[t]
           w == IF h.k < Len(h.batch) THEN [h EXCEPT !.k = @ + 1] ELSE [h EXCEPT !.at = "step", !.k = 1]
<1>1. h \in BatchWork /\ KeepsCopies(h) /\ GoesByRows(h) /\ ReadsCurrently(h) /\ h.at = "score" /\ AtBatch(h)
  BY WorkHas DEF StrategyInv, StrategyTypes, SaveEvaluation, AtBatch
<1>2. w \in BatchWork /\ w.at \in {"score", "step"} /\ w.batch = h.batch /\ w.read = h.read /\ w.copies = h.copies
      /\ w.id = h.id /\ w.k \in 1..Len(h.batch)
  <2>1. h.k \in 1..Len(h.batch) /\ Len(h.batch) \in Nat
    BY <1>1 DEF KeepsCopies, BatchWork
  <2>2. CASE h.k < Len(h.batch)
    <3>1. w = [h EXCEPT !.k = @ + 1] /\ h.k + 1 \in 1..Len(h.batch)
      BY <2>1, <2>2
    <3> HIDE DEF w
    <3> QED BY <1>1, <3>1 DEF BatchWork
  <2>3. CASE ~(h.k < Len(h.batch))
    <3>1. w = [h EXCEPT !.at = "step", !.k = 1] /\ 1 \in 1..Len(h.batch)
      BY <2>1, <2>3
    <3> HIDE DEF w
    <3> QED BY <1>1, <3>1 DEF BatchWork
  <2> QED BY <2>2, <2>3
<1> HIDE DEF w
<1>3. Proceeds(t, w) /\ UNCHANGED <<StrategyRows, orgNode, orgEdge>> /\ reused \subseteq reused'
  BY DEF SaveEvaluation, StrategyRows, Again, w
<1>4. w \in Work /\ AtBatch(w) /\ ~AtChoice(w) /\ w.at \notin {"node", "link", "select", "move", "supersede"}
  BY <1>2 DEF Work, AtBatch, AtChoice
<1>5. handler'[t] = w
  BY <1>3, <1>4, OthersStay DEF Proceeds, StrategyInv
<1>6. HoldsOf(w) \subseteq Holds(t)
  BY <1>1, <1>2, <1>4, WorkHolds DEF Holds, HoldsOf, Work
<1>7. KeepsCopies(w) /\ MovesOnAWalk(w)
  BY <1>1, <1>2, <1>4 DEF KeepsCopies, MovesOnAWalk
<1>8. GoesByRows(handler[t])' /\ ReadsCurrently(handler[t])'
  BY <1>1, <1>2, <1>3, <1>4, <1>5 DEF GoesByRows, ReadsCurrently, AtBatch, AtChoice, Undisturbed, StrategyRows, Proceeds
<1>9. StrategyRowsStay
  BY <1>3 DEF StrategyRows, StrategyRowsStay
<1> QED BY <1>3, <1>4, <1>6, <1>7, <1>8, <1>9, GraphRemains, OnlyItGoesOn

(* A batch that goes on keeps what it read.                                *)
SameBatch(w, h) ==
  /\ w \in BatchWork /\ w.batch = h.batch /\ w.read = h.read /\ w.copies = h.copies /\ w.k \in 1..Len(h.batch)

(* So its reading stays as good as it was, if none it holds gets selected. *)
LEMMA BatchGoesOn ==
  ASSUME StrategyInv, NEW t \in Slots, NEW h \in Work, h = handler[t], AtBatch(h),
         NEW w, SameBatch(w, h), handler' = [handler EXCEPT ![t] = w],
         StrategyRowsStay, crossed \subseteq crossed', reused \subseteq reused',
         \A k \in DOMAIN h.batch :
           strategy'[h.batch[k]] = "SELECTED" => strategy[h.batch[k]] = "SELECTED",
         w.at = "link" => simulation'[w.id] # 0
  PROVE  /\ w \in Work /\ AtBatch(w) /\ HoldsOf(w) = Holds(t) /\ KeepsCopies(w) /\ MovesOnAWalk(w)
         /\ GoesByRows(handler[t])' /\ ReadsCurrently(handler[t])'
<1>1. h \in BatchWork /\ KeepsCopies(h) /\ GoesByRows(h) /\ ReadsCurrently(h)
  BY WorkHas DEF StrategyInv
<1>2. w \in Work /\ AtBatch(w) /\ ~AtChoice(w) /\ w.at \notin {"node", "select", "move", "supersede"}
  BY DEF SameBatch, BatchWork, Work, AtBatch, AtChoice
<1>3. handler'[t] = w
  BY <1>2, OthersStay DEF StrategyInv
<1>4. HoldsOf(w) = Holds(t)
  BY <1>1, <1>2, WorkHolds DEF Holds, HoldsOf, SameBatch
<1>5. KeepsCopies(w) /\ MovesOnAWalk(w)
  BY <1>1, <1>2 DEF KeepsCopies, MovesOnAWalk, SameBatch
<1>6. \A k \in DOMAIN h.batch : h.batch[k] \in Ids
  BY <1>1 DEF BatchWork
<1>7. GoesByRows(handler[t])'
  BY <1>1, <1>2, <1>3, <1>6 DEF GoesByRows, StrategyRowsStay, SameBatch, AtBatch, AtChoice
<1>8. ReadsCurrently(handler[t])'
  BY <1>1, <1>2, <1>3, <1>6 DEF ReadsCurrently, SameBatch, AtBatch, AtChoice, Undisturbed
<1> QED BY <1>2, <1>4, <1>5, <1>7, <1>8

(* Only a strategy that it read as PROPOSED, and holds, is evaluated.      *)
LEMMA EvaluateNextKeeps ==
  ASSUME StrategyInv, NEW t \in Slots, EvaluateNext(t)
  PROVE  StrategyInv'
<1> DEFINE h == handler[t] i == h.batch[h.k] w == [h EXCEPT !.at = "simulate"]
<1>1. h \in Work /\ h \in BatchWork /\ KeepsCopies(h) /\ GoesByRows(h) /\ ReadsCurrently(h) /\ h.at = "step" /\ AtBatch(h)
  BY WorkHas DEF StrategyInv, StrategyTypes, EvaluateNext, AtBatch
<1>2. h.k \in DOMAIN h.batch /\ i \in Ids
  BY <1>1 DEF KeepsCopies, BatchWork
<1>3. CASE strategy' = strategy /\ Proceeds(t, Idle)
  <2>1. UNCHANGED <<StrategyRows, orgNode, orgEdge, reused>>
    BY <1>3 DEF EvaluateNext, StrategyRows
  <2>2. handler'[t] = Idle
    BY <1>3, IdleKeeps, OthersStay DEF Proceeds, StrategyInv
  <2>3. GoesByRows(handler[t])' /\ ReadsCurrently(handler[t])'
    BY <2>2, IdleKeeps DEF GoesByRows, ReadsCurrently, AtBatch, AtChoice
  <2>4. StrategyRowsStay
    BY <2>1 DEF StrategyRows, StrategyRowsStay
  <2> QED BY <1>3, <2>1, <2>3, <2>4, IdleKeeps, GraphRemains, OnlyItGoesOn
<1>4. CASE h.read[i] = "PROPOSED" /\ strategy' = [strategy EXCEPT ![i] = "EVALUATED"] /\ Proceeds(t, w)
  <2>1. UNCHANGED <<simulation, decision, orgNode, orgEdge, reused>>
    BY DEF EvaluateNext
  <2>2. strategy \in [Ids -> Ranks]
    BY DEF StrategyInv, StrategyTypes, TableTypes
  <2>3. StrategyRowsStay
    BY <2>1, <2>2, <1>4, <1>2 DEF StrategyRowsStay, Absent
  <2>4. Copy("strategy", i) \in Holds(t)
    BY <1>1, <1>2, WorkHolds DEF KeepsCopies, Holds, HoldsOf
  <2>5. ChangesItsOwn(t)
    BY <2>1, <2>2, <2>4, <1>4, <1>2 DEF ChangesItsOwn
  <2>6. SameBatch(w, h) /\ w.at = "simulate"
    BY <1>1 DEF SameBatch, BatchWork, KeepsCopies
  <2> HIDE DEF w
  <2>7. /\ handler' = [handler EXCEPT ![t] = w] /\ crossed' = crossed
        /\ \A k \in DOMAIN h.batch : strategy'[h.batch[k]] = "SELECTED" => strategy[h.batch[k]] = "SELECTED"
    BY <1>4, <2>2, <1>1, <1>2 DEF Proceeds, BatchWork
  <2>8. /\ w \in Work /\ HoldsOf(w) = Holds(t) /\ KeepsCopies(w) /\ MovesOnAWalk(w)
        /\ GoesByRows(handler[t])' /\ ReadsCurrently(handler[t])'
    BY <1>1, <2>1, <2>3, <2>6, <2>7, BatchGoesOn
  <2>9. TableTypes'
    BY <2>1, <2>2, <1>2, <1>4 DEF StrategyInv, StrategyTypes, TableTypes, Ranks
  <2>10. RowsTell'
    <3>1. Unmixed' => Unmixed
      BY <2>1 DEF Unmixed
    <3>2. \A j \in Ids : strategy'[j] = "SELECTED" => strategy[j] = "SELECTED"
      BY <1>4, <2>2
    <3> QED BY <2>1, <2>3, <3>1, <3>2, GraphRemains DEF RowsTell, StrategyInv
  <2> QED BY <1>4, <2>1, <2>3, <2>5, <2>8, <2>9, <2>10, GraphRemains, GoingOnKeeps
<1> QED BY <1>3, <1>4 DEF EvaluateNext

(* A simulation is saved before its node.                                  *)
LEMMA SaveSimulationKeeps ==
  ASSUME StrategyInv, NEW t \in Slots, SaveSimulation(t)
  PROVE  StrategyInv'
<1> DEFINE h == handler[t] i == h.batch[h.k] w == [h EXCEPT !.at = "link", !.id = second]
<1>1. h \in Work /\ h \in BatchWork /\ KeepsCopies(h) /\ h.at = "simulate" /\ AtBatch(h)
  BY WorkHas DEF StrategyInv, StrategyTypes, SaveSimulation, AtBatch
<1>2. i \in Ids /\ second \in Ids /\ i # 0
  <2>1. i \in Ids /\ second \in Ids
    BY <1>1 DEF KeepsCopies, BatchWork, StrategyInv, StrategyTypes
  <2> HIDE DEF i
  <2> QED BY <2>1, StrategyAssumption DEF Ids
<1>3. /\ UNCHANGED <<strategy, decision, orgNode, orgEdge>> /\ reused \subseteq reused'
      /\ simulation' = [simulation EXCEPT ![second] = i] /\ Proceeds(t, w)
      /\ Unmixed' => Unmixed
  BY DEF SaveSimulation, Again, Unmixed
<1>4. simulation \in [Ids -> Ids \cup {0}]
  BY DEF StrategyInv, StrategyTypes, TableTypes
<1>5. StrategyRowsStay /\ ChangesItsOwn(t) /\ simulation'[second] # 0
  BY <1>2, <1>3, <1>4 DEF StrategyRowsStay, ChangesItsOwn
<1>6. SameBatch(w, h) /\ w.at = "link" /\ w.id = second
  BY <1>1, <1>2 DEF SameBatch, BatchWork, KeepsCopies
<1> HIDE DEF w
<1>7. handler' = [handler EXCEPT ![t] = w] /\ crossed' = crossed
  BY <1>3 DEF Proceeds
<1>8. /\ w \in Work /\ HoldsOf(w) = Holds(t) /\ KeepsCopies(w) /\ MovesOnAWalk(w)
      /\ GoesByRows(handler[t])' /\ ReadsCurrently(handler[t])'
  BY <1>1, <1>3, <1>5, <1>6, <1>7, BatchGoesOn
<1>9. TableTypes'
  BY <1>2, <1>3, <1>4 DEF StrategyInv, StrategyTypes, TableTypes
<1>10. RowsTell'
  BY <1>3, <1>5, GraphRemains DEF RowsTell, StrategyInv
<1> QED BY <1>3, <1>5, <1>8, <1>9, <1>10, GraphRemains, GoingOnKeeps

(* The edge is between a strategy of the batch and its simulation.         *)
LEMMA LinkSimulationKeeps ==
  ASSUME StrategyInv, NEW t \in Slots, LinkSimulation(t)
  PROVE  StrategyInv'
<1> DEFINE h == handler[t] i == h.batch[h.k] node == Copy("simulation", h.id)
           w == [h EXCEPT !.at = "step", !.k = @ + 1]
<1>1. h \in Work /\ h \in BatchWork /\ KeepsCopies(h) /\ GoesByRows(h) /\ h.at = "link" /\ AtBatch(h)
  BY WorkHas DEF StrategyInv, StrategyTypes, LinkSimulation, AtBatch
<1>2. h.k \in DOMAIN h.batch /\ Len(h.batch) \in Nat /\ i \in Ids /\ h.id \in Ids /\ HasRow(Copy("strategy", i)) /\ HasRow(node)
  <2>1. h.k \in DOMAIN h.batch /\ Len(h.batch) \in Nat /\ i \in Ids /\ h.id \in Ids
    BY <1>1 DEF KeepsCopies, BatchWork
  <2> QED BY <2>1, <1>1, CopyRow DEF GoesByRows
<1>3. /\ UNCHANGED StrategyRows /\ reused' = reused /\ orgNode' = orgNode \cup {node}
      /\ orgEdge' = orgEdge \cup {<<Copy("strategy", i), "EVALUATED_BY", node>>}
  BY DEF LinkSimulation, StrategyRows
<1>4. GraphTypes'
  BY <1>2, <1>3 DEF StrategyInv, StrategyTypes, GraphTypes, OrgEdges, OrgNodes, Copy
<1>5. (\A n \in orgNode : HasRow(n))' /\ EndsHaveRows(orgEdge)'
  <2>2. \A n : HasRow(n)' = HasRow(n)
    BY <1>3 DEF HasRow, StrategyRows
  <2>3. \A a, b, c : <<a, b, c>>[1] = a /\ <<a, b, c>>[3] = c
    OBVIOUS
  <2> HIDE DEF node
  <2> QED BY <1>2, <1>3, <2>2, <2>3 DEF StrategyInv, EndsHaveRows
<1>6. StrategyRowsStay
  BY <1>3 DEF StrategyRowsStay, StrategyRows
<1>7. CASE h.k < Len(h.batch) /\ Proceeds(t, w)
  <2>1. SameBatch(w, h) /\ w.at = "step"
    <3>1. h.k + 1 \in 1..Len(h.batch) /\ h.k + 1 \in Nat
      BY <1>2, <1>7
    <3>2. w = [h EXCEPT !.at = "step", !.k = @ + 1]
      OBVIOUS
    <3> HIDE DEF w
    <3> QED BY <1>1, <3>1, <3>2 DEF SameBatch, BatchWork
  <2> HIDE DEF w
  <2>2. handler' = [handler EXCEPT ![t] = w] /\ crossed' = crossed
    BY <1>7 DEF Proceeds
  <2>3. /\ w \in Work /\ HoldsOf(w) = Holds(t) /\ KeepsCopies(w) /\ MovesOnAWalk(w)
        /\ GoesByRows(handler[t])' /\ ReadsCurrently(handler[t])'
    BY <1>1, <1>3, <1>6, <2>1, <2>2, BatchGoesOn DEF StrategyRows
  <2> QED BY <1>3, <1>4, <1>5, <1>7, <2>3, OnlyItGoesOn
<1>8. CASE Proceeds(t, Idle)
  <2>2. handler'[t] = Idle
    BY <1>8, IdleKeeps, OthersStay DEF Proceeds, StrategyInv
  <2>3. GoesByRows(handler[t])' /\ ReadsCurrently(handler[t])'
    BY <2>2, IdleKeeps DEF GoesByRows, ReadsCurrently, AtBatch, AtChoice
  <2> QED BY <1>3, <1>4, <1>5, <1>8, <2>3, IdleKeeps, OnlyItGoesOn
<1> QED BY <1>7, <1>8 DEF LinkSimulation

(* The decision is saved before its strategy is selected; no other         *)
(* decision has its id, unless it was used twice.                          *)
LEMMA SaveChoiceKeeps ==
  ASSUME StrategyInv, NEW t \in Slots, SaveChoice(t)
  PROVE  StrategyInv'
<1> DEFINE h == handler[t] node == Copy("decision", second)
           new == [of |-> h.of, past |-> <<"PROPOSED">>]
           w == [at |-> "select", of |-> h.of, read |-> h.read, copies |-> h.copies, node |-> node]
<1>1. h \in Work /\ h \in DecideWork /\ KeepsCopies(h) /\ GoesByRows(h) /\ ReadsCurrently(h) /\ h.at = "decide" /\ AtChoice(h)
  BY WorkHas DEF StrategyInv, StrategyTypes, SaveChoice, AtChoice
<1>2. /\ UNCHANGED <<strategy, simulation, orgNode, orgEdge>> /\ Proceeds(t, w)
      /\ decision' = [decision EXCEPT ![second] = new]
      /\ reused \subseteq reused' /\ (decision[second] # NoDecision => node \in reused')
  BY DEF SaveChoice, Again
<1>3. second \in Ids /\ h.of \in Ids /\ h.read \in Ranks /\ h.copies \in SUBSET OrgNodes
  BY <1>1 DEF DecideWork, StrategyInv, StrategyTypes
<1>4. decision \in [Ids -> {NoDecision} \cup DecisionRows] /\ strategy \in [Ids -> Ranks]
  BY DEF StrategyInv, StrategyTypes, TableTypes
<1>5. <<"PROPOSED">> \in Seq(States) /\ Len(<<"PROPOSED">>) = 1 /\ <<"PROPOSED">>[1] = "PROPOSED"
  BY DEF States, DecisionMoves
<1>6. IsWalk(<<"PROPOSED">>)
  BY <1>5 DEF IsWalk
<1>7. new \in DecisionRows /\ new # NoDecision /\ new.of = h.of /\ new.past = <<"PROPOSED">>
  BY <1>3, <1>5 DEF DecisionRows, NoDecision
<1> HIDE DEF new
<1>8. w \in Work /\ w \in SelectWork /\ w.at = "select" /\ w.of = h.of /\ w.read = h.read /\ w.node = node /\ ~AtBatch(w) /\ AtChoice(w)
      /\ w.copies = h.copies
  BY <1>3 DEF Work, SelectWork, OrgNodes, Copy, AtBatch, AtChoice
<1> HIDE DEF w
<1>9. HoldsOf(w) = Holds(t)
  BY <1>1, <1>8, WorkHolds DEF Holds, HoldsOf
<1>10. StrategyRowsStay
  BY <1>2, <1>3, <1>4, <1>7 DEF StrategyRowsStay
<1>11. Unmixed' => Unmixed /\ decision[second] = NoDecision
  BY <1>2 DEF Unmixed, Copy
<1>12. ChangesItsOwn(t)
  BY <1>2, <1>3, <1>4, <1>11 DEF ChangesItsOwn
<1>13. handler'[t] = w /\ crossed' = crossed
  BY <1>2, <1>8, OthersStay DEF Proceeds, StrategyInv
<1>14. KeepsCopies(w) /\ MovesOnAWalk(w)
  BY <1>1, <1>8 DEF KeepsCopies, MovesOnAWalk
<1>15. decision'[second] = new
  BY <1>2, <1>3, <1>4
<1>16. GoesByRows(handler[t])'
  <2>1. node[1] = "decision" /\ node[2] = second
    BY DEF Copy
  <2>2. strategy[h.of] # Absent /\ strategy' = strategy
    BY <1>1, <1>2 DEF GoesByRows
  <2> DEFINE of == h.of
  <2> HIDE DEF node, of
  <2>3. handler'[t].at = "select" /\ handler'[t].of = of /\ handler'[t].node = node
    BY <1>8, <1>13 DEF of
  <2>4. HasRow(handler[t].node)'
    BY <2>1, <2>3, <1>15, <1>7 DEF HasRow
  <2>5. strategy'[handler'[t].of] # Absent
    BY <2>2, <2>3 DEF of
  <2> HIDE DEF h
  <2> QED BY <2>3, <2>4, <2>5 DEF GoesByRows, AtBatch, AtChoice
<1>17. ReadsCurrently(handler[t])'
  <2>1. Copy("strategy", h.of) \notin reused' \cup crossed' => strategy'[h.of] = h.read
    BY <1>1, <1>2, <1>13 DEF ReadsCurrently, Undisturbed
  <2>2. node[1] = "decision" /\ node[2] = second
    BY DEF Copy
  <2> QED BY <1>8, <1>13, <2>1, <2>2, <1>15, <1>7 DEF ReadsCurrently, AtBatch, AtChoice, Undisturbed
<1>18. TableTypes'
  BY <1>2, <1>3, <1>4, <1>7 DEF StrategyInv, StrategyTypes, TableTypes
<1>19. RowsTell'
  <2>1. \A i \in Ids : decision'[i] # NoDecision => IsWalk(decision'[i].past)
    BY <1>2, <1>3, <1>4, <1>6, <1>7 DEF StrategyInv
  <2>2. ASSUME Unmixed', NEW i \in Ids, strategy'[i] = "SELECTED" PROVE \E d \in Ids : decision'[d].of = i
    <3>1. PICK d \in Ids : decision[d].of = i
      BY <1>11, <1>2, <2>2 DEF StrategyInv
    <3>2. NoDecision.of = 0 /\ i # 0
      BY StrategyAssumption DEF NoDecision, Ids
    <3>3. d # second
      BY <3>1, <3>2, <2>2, <1>11
    <3> QED BY <3>1, <3>3, <1>2, <1>4
  <2>3. (\A n \in orgNode : HasRow(n))' /\ EndsHaveRows(orgEdge)'
    BY <1>2, <1>10, GraphRemains
  <2> QED BY <2>1, <2>2, <2>3 DEF RowsTell
<1>20. GraphTypes'
  BY <1>2, <1>10, GraphRemains
<1> QED BY <1>2, <1>8, <1>9, <1>10, <1>12, <1>14, <1>16, <1>17, <1>18, <1>19, <1>20, GoingOnKeeps

(* The strategy that is selected has a decision, and is as it was read.    *)
LEMMA SelectKeeps ==
  ASSUME StrategyInv, NEW t \in Slots, Select(t)
  PROVE  StrategyInv'
<1> DEFINE h == handler[t]
<1>1. h \in Work /\ h \in SelectWork /\ KeepsCopies(h) /\ GoesByRows(h) /\ ReadsCurrently(h) /\ h.at = "select" /\ AtChoice(h)
  BY WorkHas DEF StrategyInv, StrategyTypes, Select, AtChoice
<1>2. UNCHANGED <<simulation, decision, orgNode, orgEdge, reused>>
  BY DEF Select
<1>3. strategy \in [Ids -> Ranks] /\ h.of \in Ids /\ h.read \in Ranks /\ h.node \in OrgNodes /\ h.copies \in SUBSET OrgNodes
  BY <1>1 DEF StrategyInv, StrategyTypes, TableTypes, SelectWork
<1>4. HasRow(h.node) /\ strategy[h.of] # Absent
  BY <1>1 DEF GoesByRows
<1>5. Unmixed => h.node[1] = "decision" /\ decision[h.node[2]].of = h.of
  BY <1>1 DEF ReadsCurrently
<1>6. ASSUME NEW next, StageOf(h.read) < 3, next = StrategyWalk[StageOf(h.read) + 1],
             strategy' = [strategy EXCEPT ![h.of] = next], Proceeds(t, [h EXCEPT !.read = next])
      PROVE  StrategyInv'
  <2>1. next \in {"PROPOSED", "EVALUATED", "SELECTED"}
    <3>1. h.read \in {Absent, "PROPOSED", "EVALUATED"}
      BY <1>3, <1>6, RankIs DEF Ranks
    <3> QED BY <3>1, <1>6, RankIs
  <2> DEFINE w == [h EXCEPT !.read = next]
  <2>2. w \in Work /\ w \in SelectWork /\ w.at = "select" /\ w.of = h.of /\ w.read = next /\ w.node = h.node /\ w.copies = h.copies
    BY <2>1, <1>1 DEF SelectWork, Work, Ranks
  <2> HIDE DEF w
  <2>3. ~AtBatch(w) /\ AtChoice(w)
    BY <2>2 DEF AtBatch, AtChoice
  <2>4. handler' = [handler EXCEPT ![t] = w] /\ crossed' = crossed /\ handler'[t] = w
    BY <2>2, <1>6, OthersStay DEF w, Proceeds, StrategyInv
  <2>5. HoldsOf(w) = Holds(t)
    BY <1>1, <2>2, <2>3, WorkHolds DEF Holds, HoldsOf
  <2>6. StrategyRowsStay
    BY <1>2, <1>3, <1>6, <2>1 DEF StrategyRowsStay, Absent
  <2>7. Copy("strategy", h.of) \in Holds(t)
    BY <1>1, WorkHolds DEF KeepsCopies, Holds, HoldsOf
  <2>8. ChangesItsOwn(t)
    BY <1>2, <1>3, <1>6, <2>7 DEF ChangesItsOwn
  <2>9. KeepsCopies(w) /\ MovesOnAWalk(w)
    BY <1>1, <2>2, <2>3 DEF KeepsCopies, MovesOnAWalk
  <2>10. strategy'[h.of] = next /\ next # Absent
    BY <1>3, <1>6, <2>1 DEF Absent
  <2>11. GoesByRows(handler[t])'
    <3>1. HasRow(h.node) /\ (\A n : HasRow(n) /\ n \in OrgNodes => HasRow(n)')
      BY <1>4, <2>6, RowsRemain
    <3>2. HasRow(handler[t].node)'
      BY <3>1, <1>3, <2>2, <2>4
    <3> QED BY <3>2, <2>2, <2>4, <2>10 DEF GoesByRows, AtBatch, AtChoice
  <2>12. ReadsCurrently(handler[t])'
    BY <1>2, <1>5, <2>2, <2>3, <2>4, <2>10 DEF ReadsCurrently, AtBatch, AtChoice, Unmixed
  <2>13. TableTypes'
    BY <1>2, <1>3, <1>6, <2>1 DEF StrategyInv, StrategyTypes, TableTypes, Ranks
  <2>14. RowsTell'
    <3>1. Unmixed' => Unmixed
      BY <1>2 DEF Unmixed
    <3>2. ASSUME Unmixed', NEW i \in Ids, strategy'[i] = "SELECTED" PROVE \E d \in Ids : decision'[d].of = i
      <4>1. CASE i = h.of
        <5>1. h.node[2] \in Ids
          BY <1>3 DEF OrgNodes
        <5> QED BY <5>1, <4>1, <1>2, <1>5, <3>1, <3>2
      <4>2. CASE i # h.of
        BY <4>2, <1>2, <1>3, <1>6, <3>1, <3>2 DEF StrategyInv
      <4> QED BY <4>1, <4>2
    <3>3. \A i \in Ids : decision'[i] # NoDecision => IsWalk(decision'[i].past)
      BY <1>2 DEF StrategyInv
    <3> QED BY <1>2, <2>6, <3>2, <3>3, GraphRemains DEF RowsTell
  <2> QED BY <1>2, <1>6, <2>2, <2>5, <2>6, <2>8, <2>9, <2>11, <2>12, <2>13, <2>14, GraphRemains, GoingOnKeeps DEF w
<1>7. ASSUME strategy' = strategy,
             Proceeds(t, [at |-> "node", node |-> h.node,
                          edges |-> {<<h.node, "IMPLEMENTED_BY", Copy("strategy", h.of)>>}])
      PROVE  StrategyInv'
  <2> DEFINE edge == <<h.node, "IMPLEMENTED_BY", Copy("strategy", h.of)>>
             w == [at |-> "node", node |-> h.node, edges |-> {edge}]
  <2>1. edge \in OrgEdges /\ edge[1] = h.node /\ edge[3] = Copy("strategy", h.of)
    BY <1>3 DEF OrgEdges, OrgNodes, Copy
  <2> HIDE DEF edge
  <2>2. w \in Work /\ w.at = "node" /\ w.node = h.node /\ w.edges = {edge} /\ HoldsOf(w) = {} /\ ~AtBatch(w) /\ ~AtChoice(w)
    BY <2>1, <1>3 DEF Work, NodeWork, HoldsOf, AtBatch, AtChoice
  <2> HIDE DEF w
  <2>3. Proceeds(t, w)
    BY <1>7 DEF w, edge
  <2>4. handler'[t] = w
    BY <2>2, <2>3, OthersStay DEF Proceeds, StrategyInv
  <2>5. UNCHANGED StrategyRows /\ StrategyRowsStay
    BY <1>2, <1>7 DEF StrategyRows, StrategyRowsStay
  <2>6. \A n : HasRow(n)' = HasRow(n)
    BY <2>5 DEF HasRow, StrategyRows
  <2>7. GoesByRows(handler[t])'
    <3>1. HasRow(Copy("strategy", h.of))
      BY <1>4, CopyRow
    <3>2. HasRow(handler[t].node)' /\ EndsHaveRows(handler[t].edges)'
      BY <1>4, <2>1, <2>2, <2>4, <2>6, <3>1 DEF EndsHaveRows
    <3> QED BY <3>2, <2>2, <2>4 DEF GoesByRows, AtBatch, AtChoice
  <2>8. ReadsCurrently(handler[t])' /\ KeepsCopies(w) /\ MovesOnAWalk(w)
    BY <2>2, <2>4 DEF ReadsCurrently, AtBatch, AtChoice, KeepsCopies, MovesOnAWalk
  <2> QED BY <1>2, <2>2, <2>3, <2>5, <2>7, <2>8, GraphRemains, OnlyItGoesOn
<1> QED BY <1>6, <1>7 DEF Select

(* A walk that goes on to where its last state leads is a walk.            *)
LEMMA WalkGoesOn ==
  ASSUME NEW past \in Seq(States), IsWalk(past), NEW target \in DecisionMoves[past[Len(past)]]
  PROVE  target \in States /\ Append(past, target) \in Seq(States) /\ IsWalk(Append(past, target))
<1>1. Len(past) \in Nat /\ Len(past) > 0 /\ past[Len(past)] \in States
  BY DEF IsWalk
<1>2. \A x \in States : DecisionMoves[x] \subseteq States
  BY DEF States, DecisionMoves
<1>3. target \in States
  BY <1>1, <1>2
<1>4. /\ Append(past, target) \in Seq(States) /\ Len(Append(past, target)) = Len(past) + 1
      /\ Append(past, target)[Len(past) + 1] = target
      /\ \A k \in 1..Len(past) : Append(past, target)[k] = past[k]
  BY <1>3
<1>5. Append(past, target) # << >> /\ Append(past, target)[1] = "PROPOSED"
  BY <1>1, <1>4 DEF IsWalk
<1>6. ASSUME NEW k \in 1..(Len(Append(past, target)) - 1)
      PROVE  Append(past, target)[k + 1] \in DecisionMoves[Append(past, target)[k]]
  <2>1. CASE k < Len(past)
    <3>1. k \in 1..(Len(past) - 1) /\ k \in 1..Len(past) /\ k + 1 \in 1..Len(past)
      BY <2>1, <1>6, <1>4, <1>1
    <3> QED BY <3>1, <1>4 DEF IsWalk
  <2>2. CASE ~(k < Len(past))
    <3>1. k = Len(past) /\ k \in 1..Len(past)
      BY <2>2, <1>6, <1>4, <1>1
    <3> QED BY <3>1, <1>4
  <2> QED BY <2>1, <2>2
<1> QED BY <1>3, <1>4, <1>5, <1>6 DEF IsWalk

(* What a move saves.                                                      *)
LEMMA MoveSaves ==
  ASSUME StrategyInv, NEW t \in Slots, NEW h \in Work, h = handler[t], h.at = "move"
  PROVE  LET new == [h.read EXCEPT !.past = Append(@, h.target)] IN
         /\ new \in DecisionRows /\ new # NoDecision /\ new.of = h.read.of /\ new.past = Append(h.read.past, h.target)
         /\ IsWalk(new.past)
<1> DEFINE new == [h.read EXCEPT !.past = Append(@, h.target)]
<1>1. h \in MoveWork /\ MovesOnAWalk(h)
  BY WorkHas DEF StrategyInv
<1>2. h.read \in DecisionRows
  BY <1>1 DEF MoveWork
<1>3. h.read.past \in Seq(States) /\ h.read.of \in Ids
  BY <1>2 DEF DecisionRows
<1>4. IsWalk(h.read.past) /\ h.target \in DecisionMoves[h.read.past[Len(h.read.past)]]
  BY <1>1 DEF MovesOnAWalk, StatusOf
<1>5. Append(h.read.past, h.target) \in Seq(States) /\ IsWalk(Append(h.read.past, h.target))
  BY <1>3, <1>4, WalkGoesOn
<1>6. new \in DecisionRows /\ new.of = h.read.of /\ new.past = Append(h.read.past, h.target)
  BY <1>2, <1>3, <1>5 DEF DecisionRows
<1>7. h.read.of # 0 /\ NoDecision.of = 0
  BY <1>3, StrategyAssumption DEF Ids, NoDecision
<1> HIDE DEF new
<1>8. new # NoDecision
  BY <1>6, <1>7
<1> QED BY <1>5, <1>6, <1>8 DEF new

(* A move adds to the decision as it was read.                             *)
LEMMA SaveMoveKeeps ==
  ASSUME StrategyInv, NEW t \in Slots, SaveMove(t)
  PROVE  StrategyInv'
<1> DEFINE h == handler[t] new == [h.read EXCEPT !.past = Append(@, h.target)]
           w == [at |-> "supersede", id |-> h.id, of |-> h.read.of, target |-> h.target]
<1>1. h \in Work /\ h \in MoveWork /\ KeepsCopies(h) /\ GoesByRows(h) /\ ReadsCurrently(h) /\ h.at = "move"
  BY WorkHas DEF StrategyInv, StrategyTypes, SaveMove
<1>2. /\ UNCHANGED <<strategy, simulation, orgNode, orgEdge, reused>> /\ Proceeds(t, w)
      /\ decision' = [decision EXCEPT ![h.id] = new]
  BY DEF SaveMove
<1>3. new \in DecisionRows /\ new # NoDecision /\ new.of = h.read.of /\ IsWalk(new.past)
  BY <1>1, MoveSaves
<1> HIDE DEF new
<1>4. decision \in [Ids -> {NoDecision} \cup DecisionRows] /\ h.id \in Ids /\ h.read.of \in Ids /\ h.target \in States
  BY <1>1 DEF StrategyInv, StrategyTypes, TableTypes, MoveWork, DecisionRows
<1>5. w \in Work /\ w.at = "supersede" /\ w.id = h.id /\ HoldsOf(w) = {} /\ ~AtBatch(w) /\ ~AtChoice(w)
  BY <1>4 DEF Work, SupersedeWork, HoldsOf, AtBatch, AtChoice
<1> HIDE DEF w
<1>6. handler'[t] = w
  BY <1>2, <1>5, OthersStay DEF Proceeds, StrategyInv
<1>7. StrategyRowsStay
  BY <1>2, <1>3, <1>4 DEF StrategyRowsStay
<1>8. Copy("decision", h.id) \in Holds(t)
  BY <1>1, WorkHolds DEF KeepsCopies, Holds, HoldsOf
<1>9. Unmixed => decision[h.id].of = h.read.of
  BY <1>1 DEF ReadsCurrently
<1>10. Unmixed' => Unmixed
  BY <1>2 DEF Unmixed
<1>11. ChangesItsOwn(t)
  BY <1>2, <1>3, <1>4, <1>8, <1>9, <1>10 DEF ChangesItsOwn
<1>12. KeepsCopies(w) /\ MovesOnAWalk(w)
  BY <1>5 DEF KeepsCopies, MovesOnAWalk
<1>13. GoesByRows(handler[t])' /\ ReadsCurrently(handler[t])'
  BY <1>2, <1>3, <1>4, <1>5, <1>6 DEF GoesByRows, ReadsCurrently, AtBatch, AtChoice
<1>14. TableTypes'
  BY <1>2, <1>3, <1>4 DEF StrategyInv, StrategyTypes, TableTypes
<1>15. RowsTell'
  <2>1. \A i \in Ids : decision'[i] # NoDecision => IsWalk(decision'[i].past)
    BY <1>2, <1>3, <1>4 DEF StrategyInv
  <2>2. \A i \in Ids : Unmixed' => decision'[i].of = decision[i].of
    BY <1>2, <1>3, <1>4, <1>9, <1>10
  <2>3. Unmixed' => \A i \in Ids : strategy'[i] = "SELECTED" => \E d \in Ids : decision'[d].of = i
    BY <1>2, <1>10, <2>2 DEF StrategyInv
  <2> QED BY <1>2, <1>7, <2>1, <2>3, GraphRemains DEF RowsTell
<1> QED BY <1>2, <1>5, <1>7, <1>11, <1>12, <1>13, <1>14, <1>15, GraphRemains, GoingOnKeeps

(* A request begins with copies; those that others hold are crossed.       *)
LEMMA BeginningKeeps ==
  ASSUME StrategyInv, NEW t \in Slots, NEW w \in Work, Begins(t, w), HoldsOf(w) \subseteq OrgNodes, Meets(HoldsOf(w)),
         reused' = reused, KeepsCopies(w), MovesOnAWalk(w), GoesByRows(handler[t])', ReadsCurrently(handler[t])'
  PROVE  StrategyInv'
<1>1. /\ handler' = [handler EXCEPT ![t] = w]
      /\ UNCHANGED <<second, strategy, simulation, decision, orgNode, orgEdge>>
  BY DEF Begins, rows
<1>2. StrategyRowsStay /\ ChangesItsOwn(t)
  BY <1>1 DEF StrategyRowsStay, ChangesItsOwn
<1>3. crossed \subseteq crossed' /\ \A s \in Slots : s # t => HoldsOf(w) \cap Holds(s) \subseteq crossed'
  BY DEF Meets
<1>4. StrategyTypes'
  BY <1>1, OthersStay DEF StrategyInv, StrategyTypes, TableTypes, GraphTypes
<1>5. /\ (\A i \in Ids : decision[i] # NoDecision => IsWalk(decision[i].past))'
      /\ (Unmixed => \A i \in Ids : strategy[i] = "SELECTED" => \E d \in Ids : decision[d].of = i)'
  BY <1>1 DEF StrategyInv, Unmixed
<1> QED BY <1>1, <1>2, <1>3, <1>4, <1>5, GraphRemains, StrategyStepKeeps

(* The strategies of a batch are there, and are read at once.              *)
LEMMA EvaluateBatchKeeps ==
  ASSUME StrategyInv, NEW t \in Slots, NEW batch \in Seq(Ids), 1 \in 1..Len(batch), EvaluateBatch(t, batch)
  PROVE  StrategyInv'
<1> DEFINE copies == {Copy("strategy", batch[k]) : k \in DOMAIN batch}
           w == [at |-> "score", batch |-> batch, k |-> 1, id |-> second, read |-> strategy, copies |-> copies]
<1>2. batch \in Seq(Ids) /\ 1 \in 1..Len(batch)
  OBVIOUS
<1>3. \A k \in DOMAIN batch : batch[k] \in Ids
  BY <1>2
<1>4. copies \in SUBSET OrgNodes /\ \A k \in DOMAIN batch : Copy("strategy", batch[k]) \in copies
  BY <1>3 DEF Copy, OrgNodes
<1> HIDE DEF copies
<1>5. w \in BatchWork /\ w.at = "score" /\ w.batch = batch /\ w.k = 1 /\ w.read = strategy /\ w.copies = copies
  BY <1>2, <1>4 DEF BatchWork, StrategyInv, StrategyTypes, TableTypes
<1> HIDE DEF w
<1>6. w \in Work /\ AtBatch(w) /\ ~AtChoice(w)
  BY <1>5 DEF Work, AtBatch, AtChoice
<1>7. HoldsOf(w) = copies
  BY <1>5, <1>6, WorkHolds
<1>8. Begins(t, w) /\ Meets(copies) /\ reused' = reused /\ \A k \in DOMAIN batch : strategy[batch[k]] # Absent
  BY DEF EvaluateBatch, w, copies
<1>9. handler'[t] = w /\ strategy' = strategy
  BY <1>8, <1>6, OthersStay DEF Begins, rows, StrategyInv
<1>10. KeepsCopies(w) /\ MovesOnAWalk(w)
  BY <1>2, <1>4, <1>5, <1>6 DEF KeepsCopies, MovesOnAWalk
<1>11. GoesByRows(handler[t])' /\ ReadsCurrently(handler[t])'
  BY <1>5, <1>6, <1>8, <1>9 DEF GoesByRows, ReadsCurrently, AtBatch, AtChoice
<1> QED BY <1>4, <1>6, <1>7, <1>8, <1>10, <1>11, BeginningKeeps

(* A batch of one or two.                                                  *)
LEMMA BeginEvaluateKeeps ==
  ASSUME StrategyInv, NEW t \in Slots, BeginEvaluate(t)
  PROVE  StrategyInv'
<1>1. \A i, j \in Ids : /\ <<i>> \in Seq(Ids) /\ 1 \in 1..Len(<<i>>)
                        /\ <<i, j>> \in Seq(Ids) /\ 1 \in 1..Len(<<i, j>>)
  OBVIOUS
<1> QED BY <1>1, EvaluateBatchKeeps DEF BeginEvaluate

(* The strategy that is decided on is there.                               *)
LEMMA BeginDecideKeeps ==
  ASSUME StrategyInv, NEW t \in Slots, BeginDecide(t)
  PROVE  StrategyInv'
<1>1. PICK i \in Ids :
        /\ strategy[i] # Absent
        /\ Begins(t, [at |-> "decide", of |-> i, read |-> strategy[i], copies |-> {Copy("strategy", i)}])
        /\ Meets({Copy("strategy", i)})
        /\ UNCHANGED reused
  BY DEF BeginDecide
<1> DEFINE w == [at |-> "decide", of |-> i, read |-> strategy[i], copies |-> {Copy("strategy", i)}]
<1>2. Copy("strategy", i) \in OrgNodes /\ strategy[i] \in Ranks
  BY DEF Copy, OrgNodes, StrategyInv, StrategyTypes, TableTypes
<1>3. w \in DecideWork /\ w.at = "decide" /\ w.of = i /\ w.read = strategy[i] /\ w.copies = {Copy("strategy", i)}
  BY <1>2 DEF DecideWork
<1>4. Begins(t, w) /\ Meets(w.copies) /\ reused' = reused
  BY <1>1, <1>3
<1> HIDE DEF w
<1>5. w \in Work /\ ~AtBatch(w) /\ AtChoice(w)
  BY <1>3 DEF Work, AtBatch, AtChoice
<1>6. HoldsOf(w) = {Copy("strategy", i)}
  BY <1>3, <1>5, WorkHolds
<1>7. handler'[t] = w /\ strategy' = strategy
  BY <1>4, <1>5, OthersStay DEF Begins, rows, StrategyInv
<1>8. KeepsCopies(w) /\ MovesOnAWalk(w)
  BY <1>3, <1>5 DEF KeepsCopies, MovesOnAWalk
<1>9. GoesByRows(handler[t])' /\ ReadsCurrently(handler[t])'
  BY <1>1, <1>3, <1>5, <1>7 DEF GoesByRows, ReadsCurrently, AtBatch, AtChoice
<1> QED BY <1>2, <1>3, <1>4, <1>5, <1>6, <1>8, <1>9, BeginningKeeps

(* The move is looked up where the decision is.                            *)
LEMMA BeginMoveKeeps ==
  ASSUME StrategyInv, NEW t \in Slots, BeginMove(t)
  PROVE  StrategyInv'
<1>1. PICK i \in Ids, target \in DOMAIN DecisionMoves :
        /\ decision[i] # NoDecision /\ target \in DecisionMoves[StatusOf(decision[i])]
        /\ Begins(t, [at |-> "move", id |-> i, read |-> decision[i], target |-> target,
                      copies |-> {Copy("decision", i)}])
        /\ Meets({Copy("decision", i)})
        /\ UNCHANGED reused
  BY DEF BeginMove
<1> DEFINE w == [at |-> "move", id |-> i, read |-> decision[i], target |-> target, copies |-> {Copy("decision", i)}]
<1>2. Copy("decision", i) \in OrgNodes /\ decision[i] \in DecisionRows /\ target \in States
  BY <1>1 DEF Copy, OrgNodes, StrategyInv, StrategyTypes, TableTypes, States
<1>3. w \in MoveWork /\ w.at = "move" /\ w.id = i /\ w.read = decision[i] /\ w.target = target
      /\ w.copies = {Copy("decision", i)}
  BY <1>2 DEF MoveWork
<1>4. Begins(t, w) /\ Meets(w.copies) /\ reused' = reused
  BY <1>1, <1>3
<1> HIDE DEF w
<1>5. w \in Work /\ ~AtBatch(w) /\ ~AtChoice(w)
  BY <1>3 DEF Work, AtBatch, AtChoice
<1>6. HoldsOf(w) = {Copy("decision", i)}
  BY <1>3, <1>5, WorkHolds
<1>7. handler'[t] = w /\ decision' = decision
  BY <1>4, <1>5, OthersStay DEF Begins, rows, StrategyInv
<1>8. KeepsCopies(w)
  BY <1>3, <1>5 DEF KeepsCopies
<1>9. IsWalk(decision[i].past)
  BY <1>1 DEF StrategyInv
<1>10. MovesOnAWalk(w)
  BY <1>1, <1>3, <1>9 DEF MovesOnAWalk
<1>11. GoesByRows(handler[t])' /\ ReadsCurrently(handler[t])'
  BY <1>1, <1>3, <1>5, <1>7 DEF GoesByRows, ReadsCurrently, AtBatch, AtChoice
<1> QED BY <1>2, <1>3, <1>4, <1>5, <1>6, <1>8, <1>10, <1>11, BeginningKeeps

(* A strategy is saved before its node; one that had the id is replaced.   *)
LEMMA RegisterKeeps ==
  ASSUME StrategyInv, NEW t \in Slots, Register(t)
  PROVE  StrategyInv'
<1> DEFINE w == [at |-> "node", node |-> Copy("strategy", second), edges |-> {}]
<1>1. /\ handler[t] = Idle /\ handler' = [handler EXCEPT ![t] = w]
      /\ strategy' = [strategy EXCEPT ![second] = "PROPOSED"]
      /\ reused \subseteq reused' /\ (strategy[second] # Absent => Copy("strategy", second) \in reused')
      /\ UNCHANGED <<second, simulation, decision, orgNode, orgEdge, crossed>>
  BY DEF Register, Again
<1>2. second \in Ids /\ strategy \in [Ids -> Ranks]
  BY DEF StrategyInv, StrategyTypes, TableTypes
<1>3. w \in Work /\ w.at = "node" /\ w.node = Copy("strategy", second) /\ w.edges = {} /\ HoldsOf(w) = {}
      /\ ~AtBatch(w) /\ ~AtChoice(w)
  BY <1>2 DEF Work, NodeWork, OrgNodes, Copy, HoldsOf, AtBatch, AtChoice
<1> HIDE DEF w
<1>4. handler'[t] = w /\ handler' \in [Slots -> Work]
  BY <1>1, <1>3, OthersStay DEF StrategyInv
<1>5. strategy' \in [Ids -> Ranks] /\ strategy'[second] = "PROPOSED"
  BY <1>1, <1>2 DEF Ranks
<1>6. StrategyTypes'
  BY <1>1, <1>4, <1>5 DEF StrategyInv, StrategyTypes, TableTypes, GraphTypes
<1>7. StrategyRowsStay /\ ChangesItsOwn(t)
  BY <1>1, <1>2 DEF StrategyRowsStay, ChangesItsOwn, Absent
<1>8. KeepsCopies(w) /\ MovesOnAWalk(w)
  BY <1>3 DEF KeepsCopies, MovesOnAWalk
<1>9. GoesByRows(handler[t])' /\ ReadsCurrently(handler[t])'
  <2>1. HasRow(Copy("strategy", second))'
    BY <1>1, <1>5 DEF HasRow, Copy, Absent
  <2>2. second' = second
    BY <1>1
  <2>3. HasRow(handler[t].node)' /\ EndsHaveRows(handler[t].edges)'
    BY <2>1, <2>2, <1>3, <1>4 DEF EndsHaveRows
  <2> QED BY <2>3, <1>3, <1>4 DEF GoesByRows, ReadsCurrently, AtBatch, AtChoice
<1>10. Unmixed' => Unmixed
  BY <1>1 DEF Unmixed
<1>11. /\ (\A i \in Ids : decision[i] # NoDecision => IsWalk(decision[i].past))'
       /\ (Unmixed => \A i \in Ids : strategy[i] = "SELECTED" => \E d \in Ids : decision[d].of = i)'
  BY <1>1, <1>2, <1>10 DEF StrategyInv
<1> QED BY <1>1, <1>3, <1>6, <1>7, <1>8, <1>9, <1>11, GraphRemains, StrategyStepKeeps

(* After a crash nobody holds anything.                                    *)
LEMMA StopBridgeKeeps ==
  ASSUME StrategyInv, StopBridge
  PROVE  StrategyInv'
<1>1. handler' = [t \in Slots |-> Idle] /\ UNCHANGED <<second, strategy, simulation, decision, orgNode, orgEdge, reused, crossed>>
  BY DEF StopBridge, rows
<1>2. \A t \in Slots : handler'[t] = Idle
  BY <1>1
<1>3. \A t \in Slots : Holds(t)' = {}
  BY <1>2, IdleKeeps DEF Holds, HoldsOf
<1>4. \A t \in Slots : (KeepsCopies(handler[t]) /\ GoesByRows(handler[t]) /\ MovesOnAWalk(handler[t]) /\ ReadsCurrently(handler[t]))'
  BY <1>2, IdleKeeps DEF KeepsCopies, GoesByRows, MovesOnAWalk, ReadsCurrently, AtBatch, AtChoice
<1>5. StrategyTypes'
  BY <1>1, IdleKeeps DEF StrategyInv, StrategyTypes, TableTypes, GraphTypes
<1>6. StrategyRowsStay
  BY <1>1 DEF StrategyRowsStay
<1>7. /\ (\A i \in Ids : decision[i] # NoDecision => IsWalk(decision[i].past))'
      /\ (Unmixed => \A i \in Ids : strategy[i] = "SELECTED" => \E d \in Ids : decision[d].of = i)'
  BY <1>1 DEF StrategyInv, Unmixed
<1> QED BY <1>1, <1>3, <1>4, <1>5, <1>6, <1>7, GraphRemains DEF StrategyInv

(* Time, and what does not concern strategies.                             *)
LEMMA NothingHappens ==
  ASSUME StrategyInv, second' \in Ids,
         UNCHANGED <<strategy, simulation, decision, orgNode, orgEdge, handler, reused, crossed>>
  PROVE  StrategyInv'
<1>1. StrategyRowsStay
  BY DEF StrategyRowsStay
<1>2. \A t \in Slots : GoesByRows(handler[t])' /\ ReadsCurrently(handler[t])' /\ Holds(t)' = Holds(t)
                       /\ KeepsCopies(handler[t])' /\ MovesOnAWalk(handler[t])'
  <2> SUFFICES ASSUME NEW t \in Slots
               PROVE  GoesByRows(handler[t])' /\ ReadsCurrently(handler[t])' /\ Holds(t)' = Holds(t)
                      /\ KeepsCopies(handler[t])' /\ MovesOnAWalk(handler[t])'
    OBVIOUS
  <2>1. \A n : HasRow(n)' = HasRow(n)
    BY DEF HasRow
  <2>2. handler[t]' = handler[t] /\ Holds(t)' = Holds(t) /\ Unmixed' = Unmixed
    BY DEF Holds, Unmixed
  <2>3. GoesByRows(handler[t])'
    BY <2>1, <2>2 DEF StrategyInv, GoesByRows, EndsHaveRows, AtBatch, AtChoice
  <2>4. ReadsCurrently(handler[t])'
    BY <2>2 DEF StrategyInv, ReadsCurrently, Undisturbed, AtBatch, AtChoice
  <2> QED BY <2>2, <2>3, <2>4 DEF StrategyInv, KeepsCopies, MovesOnAWalk, AtBatch, AtChoice
<1>3. StrategyTypes'
  BY DEF StrategyInv, StrategyTypes, TableTypes, GraphTypes
<1>4. /\ (\A i \in Ids : decision[i] # NoDecision => IsWalk(decision[i].past))'
      /\ (Unmixed => \A i \in Ids : strategy[i] = "SELECTED" => \E d \in Ids : decision[d].of = i)'
  BY DEF StrategyInv, Unmixed
<1> QED BY <1>1, <1>2, <1>3, <1>4, GraphRemains DEF StrategyInv

(* The tables are empty and nobody is at work.                             *)
LEMMA StrategyStart == StrategyInit => StrategyInv
<1> SUFFICES ASSUME StrategyInit PROVE StrategyInv
  OBVIOUS
<1>1. 1 \in Ids
  BY StrategyAssumption DEF Ids
<1>2. StrategyTypes
  BY <1>1, IdleKeeps DEF StrategyInit, StrategyTypes, TableTypes, GraphTypes, Ranks
<1>3. \A t \in Slots : handler[t] = Idle /\ Holds(t) = {}
  BY IdleKeeps DEF StrategyInit, Holds, HoldsOf
<1>4. \A t \in Slots : KeepsCopies(handler[t]) /\ GoesByRows(handler[t]) /\ MovesOnAWalk(handler[t]) /\ ReadsCurrently(handler[t])
  BY <1>3, IdleKeeps DEF KeepsCopies, GoesByRows, MovesOnAWalk, ReadsCurrently
<1>5. \A i \in Ids : decision[i] = NoDecision /\ strategy[i] # "SELECTED"
  BY DEF StrategyInit, Absent
<1> QED BY <1>2, <1>3, <1>4, <1>5 DEF StrategyInv, StrategyInit, EndsHaveRows

(* Every step keeps the invariant.                                         *)
LEMMA StrategyStep == StrategyInv /\ [StrategyNext]_strategyVars => StrategyInv'
<1> SUFFICES ASSUME StrategyInv, [StrategyNext]_strategyVars PROVE StrategyInv'
  OBVIOUS
<1>1. second \in Ids
  BY DEF StrategyInv, StrategyTypes
<1>2. CASE Tick
  <2>1. second' \in Ids
    BY <1>1, <1>2, StrategyAssumption DEF Tick, Ids
  <2> QED BY <1>2, <2>1, NothingHappens DEF Tick, rows
<1>3. CASE StopBridge
  BY <1>3, StopBridgeKeeps
<1>4. CASE UNCHANGED strategyVars
  BY <1>1, <1>4, NothingHappens DEF strategyVars
<1>5. CASE \E t \in Slots :
         \/ Register(t) \/ SaveNode(t)
         \/ BeginEvaluate(t) \/ SaveEvaluation(t) \/ EvaluateNext(t) \/ SaveSimulation(t) \/ LinkSimulation(t)
         \/ BeginDecide(t) \/ SaveChoice(t) \/ Select(t)
         \/ BeginMove(t) \/ SaveMove(t) \/ LinkSuperseded(t)
  BY <1>5, RegisterKeeps, SaveNodeKeeps, BeginEvaluateKeeps, SaveEvaluationKeeps, EvaluateNextKeeps,
     SaveSimulationKeeps, LinkSimulationKeeps, BeginDecideKeeps, SaveChoiceKeeps, SelectKeeps,
     BeginMoveKeeps, SaveMoveKeeps, LinkSupersededKeeps
<1> QED BY <1>2, <1>3, <1>4, <1>5 DEF StrategyNext

(* What RowsOnlyAdvance says of a step.                                    *)
StrategyAdvances(i) == Copy("strategy", i) \notin reused' \cup crossed => StageOf(strategy'[i]) >= StageOf(strategy[i])
DecisionGrows(i) ==
  Copy("decision", i) \notin reused' \cup crossed =>
    SubSeq(decision'[i].past, 1, Len(decision[i].past)) = decision[i].past

(* A strategy goes forward,                                                *)
LEMMA StrategiesAdvance ==
  ASSUME StrategyInv, [StrategyNext]_strategyVars, NEW i \in Ids
  PROVE  StrategyAdvances(i)
<1>1. strategy \in [Ids -> Ranks] /\ \A r \in Ranks : StageOf(r) \in 0..3
  BY RankIs DEF StrategyInv, StrategyTypes, TableTypes, Ranks
<1>2. CASE strategy'[i] = strategy[i]
  BY <1>1, <1>2 DEF StrategyAdvances
<1>3. ASSUME NEW t \in Slots, Register(t)
      PROVE  StrategyAdvances(i)
  <2>1. CASE i = second /\ strategy[i] # Absent
    BY <2>1, <1>3 DEF Register, Again, StrategyAdvances
  <2>2. CASE i = second /\ strategy[i] = Absent
    BY <2>2, <1>1, <1>3, RankIs DEF Register, StrategyAdvances
  <2>3. CASE i # second
    BY <2>3, <1>1, <1>3, <1>2 DEF Register
  <2> QED BY <2>1, <2>2, <2>3
<1>4. ASSUME NEW t \in Slots, EvaluateNext(t), strategy'[i] # strategy[i]
      PROVE  StrategyAdvances(i)
  <2> DEFINE h == handler[t]
  <2>1. h \in BatchWork /\ KeepsCopies(h) /\ ReadsCurrently(h) /\ AtBatch(h)
    BY <1>4, WorkHas DEF StrategyInv, StrategyTypes, EvaluateNext, AtBatch
  <2>2. h.k \in DOMAIN h.batch /\ h.batch[h.k] \in Ids
    BY <2>1 DEF KeepsCopies, BatchWork
  <2>3. h.batch[h.k] = i /\ h.read[i] = "PROPOSED" /\ strategy'[i] = "EVALUATED" /\ reused' = reused
    BY <2>2, <1>1, <1>4 DEF EvaluateNext
  <2>4. Copy("strategy", i) \notin reused' \cup crossed => strategy[i] # "SELECTED"
    BY <2>1, <2>2, <2>3 DEF ReadsCurrently, Undisturbed
  <2> QED BY <2>3, <2>4, <1>1, RankIs DEF StrategyAdvances, Ranks
<1>5. ASSUME NEW t \in Slots, Select(t), strategy'[i] # strategy[i]
      PROVE  StrategyAdvances(i)
  <2> DEFINE h == handler[t]
  <2>1. h \in SelectWork /\ ReadsCurrently(h) /\ AtChoice(h)
    BY <1>5, WorkHas DEF StrategyInv, StrategyTypes, Select, AtChoice
  <2>2. h.of = i /\ StageOf(h.read) < 3 /\ strategy'[i] = StrategyWalk[StageOf(h.read) + 1] /\ reused' = reused
    BY <2>1, <1>1, <1>5 DEF Select, SelectWork
  <2>3. Copy("strategy", i) \notin reused' \cup crossed => strategy[i] = h.read
    BY <2>1, <2>2 DEF ReadsCurrently, Undisturbed
  <2>4. h.read \in Ranks
    BY <2>1 DEF SelectWork
  <2> QED BY <2>2, <2>3, <2>4, RankIs DEF StrategyAdvances, Ranks
<1>6. \/ strategy'[i] = strategy[i]
      \/ \E t \in Slots : Register(t) \/ EvaluateNext(t) \/ Select(t)
  <2>1. UNCHANGED strategyVars \/ Tick \/ StopBridge => strategy' = strategy
    BY DEF strategyVars, rows, Tick, StopBridge
  <2>2. \A t \in Slots : BeginEvaluate(t) \/ BeginDecide(t) \/ BeginMove(t) => strategy' = strategy
    <3>1. \A t, w : Begins(t, w) => strategy' = strategy
      BY DEF Begins, rows
    <3>2. \A t, batch : EvaluateBatch(t, batch) => strategy' = strategy
      BY <3>1 DEF EvaluateBatch
    <3> QED BY <3>1, <3>2 DEF BeginEvaluate, BeginDecide, BeginMove
  <2>3. \A t \in Slots : SaveNode(t) \/ SaveEvaluation(t) \/ SaveSimulation(t) \/ LinkSimulation(t)
                          => strategy' = strategy
    BY DEF SaveNode, SaveEvaluation, SaveSimulation, LinkSimulation
  <2>4. \A t \in Slots : SaveChoice(t) \/ SaveMove(t) \/ LinkSuperseded(t) => strategy' = strategy
    BY DEF SaveChoice, SaveMove, LinkSuperseded
  <2> QED BY <2>1, <2>2, <2>3, <2>4 DEF StrategyNext
<1> QED BY <1>2, <1>3, <1>4, <1>5, <1>6

(* A decision keeps its past: what a move saves is what it read and one    *)
(* more.                                                                   *)
LEMMA DecisionsGrow ==
  ASSUME StrategyInv, [StrategyNext]_strategyVars, NEW i \in Ids
  PROVE  DecisionGrows(i)
<1>1. decision \in [Ids -> {NoDecision} \cup DecisionRows] /\ decision[i].past \in Seq(States)
  <2>1. NoDecision.past \in Seq(States) /\ \A d \in DecisionRows : d.past \in Seq(States)
    BY DEF NoDecision, DecisionRows
  <2>2. decision \in [Ids -> {NoDecision} \cup DecisionRows]
    BY DEF StrategyInv, StrategyTypes, TableTypes
  <2> QED BY <2>1, <2>2
<1>2. CASE decision'[i] = decision[i]
  BY <1>1, <1>2, SubSeqFull DEF DecisionGrows
<1>3. ASSUME NEW t \in Slots, SaveChoice(t), decision'[i] # decision[i]
      PROVE  DecisionGrows(i)
  <2>1. i = second
    BY <1>1, <1>3 DEF SaveChoice
  <2>2. CASE decision[i] # NoDecision
    BY <2>1, <2>2, <1>3 DEF SaveChoice, Again, DecisionGrows
  <2>3. CASE decision[i] = NoDecision
    <3>1. decision[i].past = << >> /\ Len(decision[i].past) = 0
      BY <2>3 DEF NoDecision
    <3>2. decision'[i].past = <<"PROPOSED">>
      BY <2>1, <1>1, <1>3 DEF SaveChoice
    <3>3. SubSeq(<<"PROPOSED">>, 1, 0) = << >>
      OBVIOUS
    <3> QED BY <3>1, <3>2, <3>3 DEF DecisionGrows
  <2> QED BY <2>2, <2>3
<1>4. ASSUME NEW t \in Slots, SaveMove(t), decision'[i] # decision[i]
      PROVE  DecisionGrows(i)
  <2> DEFINE h == handler[t]
  <2>1. h \in Work /\ h \in MoveWork /\ ReadsCurrently(h) /\ h.at = "move"
    BY <1>4, WorkHas DEF StrategyInv, StrategyTypes, SaveMove
  <2>2. h.id = i /\ decision'[i].past = Append(h.read.past, h.target) /\ reused' = reused
    BY <2>1, <1>1, <1>4, MoveSaves DEF SaveMove, MoveWork
  <2>3. Copy("decision", i) \notin reused' \cup crossed => decision[i] = h.read
    BY <2>1, <2>2 DEF ReadsCurrently, Undisturbed
  <2>4. h.read.past \in Seq(States) /\ h.target \in States
    BY <2>1 DEF MoveWork, DecisionRows
  <2>5. \A past \in Seq(States), x \in States : SubSeq(Append(past, x), 1, Len(past)) = past
    OBVIOUS
  <2> QED BY <2>2, <2>3, <2>4, <2>5 DEF DecisionGrows
<1>5. \/ decision'[i] = decision[i]
      \/ \E t \in Slots : SaveChoice(t) \/ SaveMove(t)
  <2>1. UNCHANGED strategyVars \/ Tick \/ StopBridge => decision' = decision
    BY DEF strategyVars, rows, Tick, StopBridge
  <2>2. \A t \in Slots : BeginEvaluate(t) \/ BeginDecide(t) \/ BeginMove(t) => decision' = decision
    <3>1. \A t, w : Begins(t, w) => decision' = decision
      BY DEF Begins, rows
    <3>2. \A t, batch : EvaluateBatch(t, batch) => decision' = decision
      BY <3>1 DEF EvaluateBatch
    <3> QED BY <3>1, <3>2 DEF BeginEvaluate, BeginDecide, BeginMove
  <2>3. \A t \in Slots : SaveNode(t) \/ SaveEvaluation(t) \/ SaveSimulation(t) \/ LinkSimulation(t)
                          => decision' = decision
    BY DEF SaveNode, SaveEvaluation, SaveSimulation, LinkSimulation
  <2>4. \A t \in Slots : Register(t) \/ EvaluateNext(t) \/ Select(t) \/ LinkSuperseded(t) => decision' = decision
    BY DEF Register, EvaluateNext, Select, LinkSuperseded
  <2> QED BY <2>1, <2>2, <2>3, <2>4 DEF StrategyNext
<1> QED BY <1>2, <1>3, <1>4, <1>5

(* Whatever second ids are made in and however requests overlap: a         *)
(* strategy is selected only by a decision, a decision's past is a walk    *)
(* its state machine allows, the graph shows nothing that has no row, and  *)
(* rows go forward, but for ids that were used twice and, the last, copies *)
(* that two requests held at once.                                         *)
THEOREM StrategiesAreAccountedFor == StrategySpec => StrategyIsAccountedFor
<1>1. StrategyInv => SelectedWasDecided
  BY DEF StrategyInv, SelectedWasDecided, Unmixed
<1>2. StrategyInv => HistoryIsAWalk
  BY DEF StrategyInv, HistoryIsAWalk, IsWalk
<1>3. StrategyInv => NodesHaveRows
  <2> SUFFICES ASSUME StrategyInv, NEW n \in orgNode \cup UNION {{e[1], e[3]} : e \in orgEdge}
               PROVE  HasRow(n)
    BY DEF NodesHaveRows, HasRow
  <2>1. n \in orgNode \/ \E e \in orgEdge : n = e[1] \/ n = e[3]
    OBVIOUS
  <2> QED BY <2>1 DEF StrategyInv, EndsHaveRows
<1>4. StrategyInv /\ [StrategyNext]_strategyVars =>
        [\A i \in Ids :
           /\ Copy("strategy", i) \notin reused' \cup crossed => StageOf(strategy'[i]) >= StageOf(strategy[i])
           /\ Copy("decision", i) \notin reused' \cup crossed =>
                SubSeq(decision'[i].past, 1, Len(decision[i].past)) = decision[i].past]_strategyVars
  BY StrategiesAdvance, DecisionsGrow DEF StrategyAdvances, DecisionGrows
<1> QED BY <1>1, <1>2, <1>3, <1>4, StrategyStart, StrategyStep, PTL
        DEF StrategySpec, StrategyIsAccountedFor, RowsOnlyAdvance

-----------------------------------------------------------------------------
(* The organization's graph.  First what its searches find, in any graph.  *)

Parents == EntityKeys \cup {Top, Missing}
Graphed == [NodeKeys -> Parents]
Links == SUBSET (NodeKeys \X NodeKeys)

(* The keys are finitely many, and no key is a mark.                       *)
LEMMA KeysAre ==
  /\ IsFiniteSet(NodeKeys) /\ Cardinality(NodeKeys) \in Nat
  /\ Top \notin NodeKeys /\ Missing \notin NodeKeys /\ Top # Missing
  /\ EntityKeys \subseteq NodeKeys
  /\ \A k \in NodeKeys : k \in EntityKeys <=> k[1] \in EntityTypes
<1>1. MaxMoment \in Nat
  BY OrgGraphAssumption
<1>2. IsFiniteSet(EntityTypes)
  <2>1. EntityTypes = {"COMPANY"} \cup {"TEAM"} \cup {"PROJECT"}
    BY DEF EntityTypes
  <2>2. IsFiniteSet({"COMPANY"}) /\ IsFiniteSet({"TEAM"}) /\ IsFiniteSet({"PROJECT"})
    BY FS_Singleton
  <2>3. IsFiniteSet({"COMPANY"} \cup {"TEAM"})
    BY <2>2, FS_Union
  <2> QED BY <2>1, <2>2, <2>3, FS_Union
<1>3. IsFiniteSet(1..MaxMoment) /\ IsFiniteSet({"ORGANIZATION_STRATEGY"})
  <2>1. IsFiniteSet(1..MaxMoment)
    BY <1>1, FS_Interval
  <2> QED BY <2>1, FS_Singleton
<1>4. IsFiniteSet(EntityKeys) /\ IsFiniteSet({"ORGANIZATION_STRATEGY"} \X (1..MaxMoment))
  BY <1>2, <1>3, FS_Product DEF EntityKeys
<1>5. IsFiniteSet(NodeKeys)
  BY <1>4, FS_Union DEF NodeKeys
<1>6. /\ Top \notin NodeKeys /\ Missing \notin NodeKeys /\ Top # Missing
      /\ EntityKeys \subseteq NodeKeys
      /\ \A k \in NodeKeys : k \in EntityKeys <=> k[1] \in EntityTypes
  BY DEF Top, Missing, NodeKeys, EntityKeys, EntityTypes
<1> QED
  BY <1>5, <1>6, FS_CardinalityType

(* The rounds that Spreads stands for exist.                               *)
LEMMA SpreadsAre ==
  ASSUME NEW links, NEW start
  PROVE  LET s == Spreads(links, start) IN
         /\ s[0] = start
         /\ \A n \in 1..Cardinality(NodeKeys) :
              s[n] = Further(links, s[n - 1])
<1> DEFINE N == Cardinality(NodeKeys)
           IsRun(f, m) == f = [n \in 0..m |-> IF n = 0 THEN start ELSE Further(links, f[n - 1])]
           bad == {m \in Nat : ~ \E f : IsRun(f, m)}
<1>0. N \in Nat
  BY KeysAre
<1>1. bad = {}
  <2>1. SUFFICES ASSUME bad # {} PROVE FALSE
    OBVIOUS
  <2>2. PICK m \in bad : \A j \in bad : m <= j
    <3>1. bad \in SUBSET Nat
      OBVIOUS
    <3> HIDE DEF bad
    <3> QED BY <2>1, <3>1, SmallestExists
  <2>3. CASE m = 0
    <3>1. IsRun([n \in 0..0 |-> start], 0)
      OBVIOUS
    <3> QED BY <2>3, <3>1
  <2>4. CASE m # 0
    <3>1. m - 1 \in Nat /\ m - 1 \notin bad
      <4>1. m \in Nat
        OBVIOUS
      <4>2. m - 1 \in Nat /\ ~(m <= m - 1)
        BY <2>4, <4>1
      <4> HIDE DEF bad
      <4> QED BY <2>2, <4>2
    <3>2. PICK f : IsRun(f, m - 1)
      BY <3>1
    <3>3. PICK g : g = [n \in 0..m |-> IF n = m THEN Further(links, f[m - 1]) ELSE f[n]]
      OBVIOUS
    <3>4. \A n \in 0..(m - 1) : g[n] = f[n]
      BY <3>1, <3>3
    <3>5. IsRun(g, m)
      <4>1. ASSUME NEW n \in 0..m
            PROVE  g[n] = IF n = 0 THEN start ELSE Further(links, g[n - 1])
        <5>1. CASE n = m
          BY <2>4, <3>1, <3>3, <3>4, <5>1
        <5>2. CASE n # m
          <6>1. n \in 0..(m - 1) /\ (n # 0 => n - 1 \in 0..(m - 1))
            BY <3>1, <5>2
          <6> QED BY <3>2, <3>4, <6>1
        <5> QED BY <5>1, <5>2
      <4> QED BY <3>3, <4>1
    <3> QED BY <3>5
  <2> QED BY <2>3, <2>4
<1>2. PICK f : IsRun(f, N)
  <2>1. N \notin bad
    <3> HIDE DEF bad
    <3> QED BY <1>1
  <2> HIDE DEF IsRun
  <2> QED BY <1>0, <2>1
<1> DEFINE after == CHOOSE h : IsRun(h, N)
<1>3. IsRun(after, N)
  <2> HIDE DEF IsRun
  <2> QED BY <1>2
<1>4. Spreads(links, start) = after
  BY Zenon DEF Spreads
<1> HIDE DEF after
<1>5. PICK s : s = Spreads(links, start) /\ IsRun(s, N)
  BY <1>3, <1>4
<1>6. s[0] = start /\ \A n \in 1..N : s[n] = Further(links, s[n - 1])
  BY <1>0, <1>5
<1> QED
  BY <1>5, <1>6

(* What is reached: the least set that holds the start and is closed under *)
(* the links.                                                              *)
LEMMA SpreadIsLeast ==
  ASSUME NEW links, \A e \in links : e[2] \in NodeKeys, NEW start \in SUBSET NodeKeys
  PROVE  /\ Spread(links, start) \in SUBSET NodeKeys
         /\ start \subseteq Spread(links, start)
         /\ \A e \in links : e[1] \in Spread(links, start) => e[2] \in Spread(links, start)
         /\ \A K : start \subseteq K /\ (\A e \in links : e[1] \in K => e[2] \in K)
                     => Spread(links, start) \subseteq K
<1> DEFINE N == Cardinality(NodeKeys)
           Closed(K) == \A e \in links : e[1] \in K => e[2] \in K
           Led(near) == {e[2] : e \in {x \in links : x[1] \in near}}
<1>0. N \in Nat /\ IsFiniteSet(NodeKeys)
  BY KeysAre
<1>1. PICK s : s = Spreads(links, start)
  OBVIOUS
<1>2. s[0] = start /\ \A n \in 1..N : s[n] = s[n - 1] \cup Led(s[n - 1])
  BY <1>1, SpreadsAre DEF Further
<1> DEFINE Agrees(n) ==
             /\ s[n] \in SUBSET NodeKeys /\ start \subseteq s[n]
             /\ Closed(s[n]) \/ n <= Cardinality(s[n])
             /\ \A K : start \subseteq K /\ Closed(K) => s[n] \subseteq K
           bad == {n \in 0..N : ~Agrees(n)}
<1>3. bad = {}
  <2>1. SUFFICES ASSUME bad # {} PROVE FALSE
    OBVIOUS
  <2>2. PICK n \in bad : \A j \in bad : n <= j
    <3>1. bad \in SUBSET Nat
      BY <1>0
    <3> HIDE DEF bad
    <3> QED BY <2>1, <3>1, SmallestExists
  <2>3. n \in 0..N /\ ~Agrees(n)
    <3> HIDE DEF Agrees
    <3> QED BY <2>2
  <2>4. CASE n = 0
    <3>1. IsFiniteSet(start) /\ Cardinality(start) \in Nat
      BY <1>0, FS_Subset, FS_CardinalityType
    <3> HIDE DEF Closed
    <3> QED BY <1>2, <2>3, <2>4, <3>1
  <2>5. CASE n # 0
    <3>1. n \in 1..N /\ n - 1 \in 0..N
      BY <1>0, <2>3, <2>5
    <3>2. Agrees(n - 1)
      <4>1. n - 1 \notin bad
        <5>1. ~(n <= n - 1)
          BY <3>1
        <5> HIDE DEF bad
        <5> QED BY <2>2, <5>1
      <4> HIDE DEF Agrees
      <4> QED BY <3>1, <4>1
    <3>3. PICK m : m = s[n - 1]
      OBVIOUS
    <3>4. s[n] = m \cup Led(m)
      BY <1>2, <3>1, <3>3
    <3>5. m \in SUBSET NodeKeys /\ start \subseteq m /\ (Closed(m) \/ n - 1 <= Cardinality(m))
      BY <3>2, <3>3
    <3>6. Led(m) \in SUBSET NodeKeys
      OBVIOUS
    <3>7. s[n] \in SUBSET NodeKeys /\ start \subseteq s[n]
      BY <3>4, <3>5, <3>6
    <3>8. Closed(s[n]) \/ n <= Cardinality(s[n])
      <4>1. CASE Closed(m)
        <5>1. Led(m) \subseteq m
          BY <4>1
        <5>2. s[n] = m
          BY <3>4, <5>1
        <5> QED BY <4>1, <5>2
      <4>2. CASE ~Closed(m)
        <5>1. PICK e \in links : e[1] \in m /\ e[2] \notin m
          BY <4>2
        <5>2. e[2] \in s[n] /\ m \subseteq s[n]
          BY <3>4, <5>1
        <5>3. IsFiniteSet(s[n]) /\ IsFiniteSet(m)
          BY <1>0, <3>5, <3>7, FS_Subset
        <5>4. Cardinality(m) <= Cardinality(s[n]) /\ Cardinality(m) # Cardinality(s[n])
          <6>1. m \in SUBSET s[n] /\ s[n] # m
            BY <5>1, <5>2
          <6> QED BY <5>3, <6>1, FS_Subset
        <5>5. Cardinality(m) \in Nat /\ Cardinality(s[n]) \in Nat
          BY <5>3, FS_CardinalityType
        <5>6. n - 1 <= Cardinality(m)
          BY <3>5, <4>2
        <5> QED BY <3>1, <5>4, <5>5, <5>6
      <4> QED BY <4>1, <4>2
    <3>9. ASSUME NEW K, start \subseteq K, Closed(K) PROVE s[n] \subseteq K
      <4>1. m \subseteq K
        BY <3>2, <3>3, <3>9
      <4>2. Led(m) \subseteq K
        BY <3>9, <4>1
      <4> QED BY <3>4, <4>1, <4>2
    <3> HIDE DEF Closed
    <3> QED BY <2>3, <3>7, <3>8, <3>9
  <2> QED BY <2>4, <2>5
<1>4. Agrees(N)
  <2>1. N \notin bad
    <3> HIDE DEF bad
    <3> QED BY <1>3
  <2> HIDE DEF Agrees
  <2> QED BY <1>0, <2>1
<1>5. PICK S : S = Spread(links, start)
  OBVIOUS
<1>6. S = s[N]
  BY <1>1, <1>5 DEF Spread
<1>7. Closed(S)
  <2>1. CASE N <= Cardinality(S)
    <3>1. S \in SUBSET NodeKeys
      BY <1>4, <1>6
    <3>2. Cardinality(S) <= N /\ Cardinality(S) \in Nat
      BY <1>0, <3>1, FS_Subset, FS_CardinalityType
    <3>3. S = NodeKeys
      BY <1>0, <2>1, <3>1, <3>2, FS_Subset
    <3> QED BY <3>3
  <2> HIDE DEF Closed
  <2> QED BY <1>4, <1>6, <2>1
<1>8. S \in SUBSET NodeKeys /\ start \subseteq S /\ (\A K : start \subseteq K /\ Closed(K) => S \subseteq K)
  <2> HIDE DEF Closed
  <2> QED BY <1>4, <1>6
<1> QED
  BY <1>5, <1>7, <1>8

(* Impact is mutual in any graph.                                          *)
LEMMA ImpactMutual ==
  ASSUME NEW g \in Graphed, NEW links \in Links, NEW k \in InGraph(g), NEW x \in InGraph(g),
         x \in Impacted(g, links, k)
  PROVE  k \in Impacted(g, links, x)
<1> DEFINE both == links \cup {<<e[2], e[1]>> : e \in links}
           R(y) == Spread(both, {y})
           K == {y \in NodeKeys : k \in R(y)}
<1>1. /\ \A e \in both : e[1] \in NodeKeys /\ e[2] \in NodeKeys
      /\ \A e \in both : \E f \in both : f[1] = e[2] /\ f[2] = e[1]
  <2>1. \A e \in links : e \in NodeKeys \X NodeKeys
    BY DEF Links
  <2>2. \A e \in both : e \in links \/ \E d \in links : e = <<d[2], d[1]>>
    OBVIOUS
  <2>3. \A e \in links : <<e[2], e[1]>> \in both
    OBVIOUS
  <2>4. ASSUME NEW e \in both
        PROVE  /\ e[1] \in NodeKeys /\ e[2] \in NodeKeys
               /\ \E f \in both : f[1] = e[2] /\ f[2] = e[1]
    <3>1. CASE e \in links
      BY <2>1, <2>3, <3>1
    <3>2. CASE \E d \in links : e = <<d[2], d[1]>>
      <4>1. PICK d \in links : e = <<d[2], d[1]>>
        BY <3>2
      <4>2. d \in both
        OBVIOUS
      <4> QED BY <2>1, <4>1, <4>2
    <3> QED BY <2>2, <3>1, <3>2
  <2> QED BY <2>4
<1>2. k \in NodeKeys /\ x \in NodeKeys
  BY DEF InGraph
<1>3. ASSUME NEW y \in NodeKeys
      PROVE  /\ y \in R(y) /\ \A e \in both : e[1] \in R(y) => e[2] \in R(y)
             /\ \A C : y \in C /\ (\A e \in both : e[1] \in C => e[2] \in C) => R(y) \subseteq C
  <2>1. {y} \in SUBSET NodeKeys
    OBVIOUS
  <2>2. \A e \in both : e[2] \in NodeKeys
    BY <1>1
  <2>3. /\ {y} \subseteq R(y) /\ \A e \in both : e[1] \in R(y) => e[2] \in R(y)
        /\ \A C : {y} \subseteq C /\ (\A e \in both : e[1] \in C => e[2] \in C) => R(y) \subseteq C
    <3> HIDE DEF both
    <3> QED BY <2>1, <2>2, SpreadIsLeast
  <2> HIDE DEF both, R
  <2> QED BY <2>3
<1> HIDE DEF both, R
<1>4. ASSUME NEW e \in both, e[1] \in K PROVE e[2] \in K
  <2>1. e[1] \in NodeKeys /\ e[2] \in NodeKeys /\ k \in R(e[1])
    BY <1>1, <1>4
  <2>2. PICK f \in both : f[1] = e[2] /\ f[2] = e[1]
    BY <1>1
  <2>3. e[1] \in R(e[2])
    BY <1>3, <2>1, <2>2
  <2>4. R(e[1]) \subseteq R(e[2])
    BY <1>3, <2>1, <2>3
  <2> QED BY <2>1, <2>4
<1>5. k \in K
  BY <1>2, <1>3
<1>6. R(k) \subseteq K
  BY <1>2, <1>3, <1>4, <1>5
<1>7. x \in R(k) /\ x # k
  BY DEF Impacted, R, both
<1>8. k \in R(x)
  BY <1>6, <1>7
<1> QED
  BY <1>7, <1>8 DEF Impacted, R, both

(* The steps that Climbs stands for exist.                                 *)
LEMMA ClimbsAre ==
  ASSUME NEW g, NEW k
  PROVE  LET c == Climbs(g, k) IN
         /\ c[0] = [path |-> << >>, at |-> k]
         /\ \A n \in 1..Cardinality(NodeKeys) : c[n] = Climb(g, c[n - 1])
<1> DEFINE N == Cardinality(NodeKeys)
           IsRun(f, m) ==
             f = [n \in 0..m |-> IF n = 0 THEN [path |-> << >>, at |-> k] ELSE Climb(g, f[n - 1])]
           bad == {m \in Nat : ~ \E f : IsRun(f, m)}
<1>0. N \in Nat
  BY KeysAre
<1>1. bad = {}
  <2>1. SUFFICES ASSUME bad # {} PROVE FALSE
    OBVIOUS
  <2>2. PICK m \in bad : \A j \in bad : m <= j
    <3>1. bad \in SUBSET Nat
      OBVIOUS
    <3> HIDE DEF bad
    <3> QED BY <2>1, <3>1, SmallestExists
  <2>3. CASE m = 0
    <3>1. IsRun([n \in 0..0 |-> [path |-> << >>, at |-> k]], 0)
      OBVIOUS
    <3> QED BY <2>3, <3>1
  <2>4. CASE m # 0
    <3>1. m - 1 \in Nat /\ m - 1 \notin bad
      <4>1. m \in Nat
        OBVIOUS
      <4>2. m - 1 \in Nat /\ ~(m <= m - 1)
        BY <2>4, <4>1
      <4> HIDE DEF bad
      <4> QED BY <2>2, <4>2
    <3>2. PICK f : IsRun(f, m - 1)
      BY <3>1
    <3>3. PICK h : h = [n \in 0..m |-> IF n = m THEN Climb(g, f[m - 1]) ELSE f[n]]
      OBVIOUS
    <3>4. \A n \in 0..(m - 1) : h[n] = f[n]
      BY <3>1, <3>3
    <3>5. IsRun(h, m)
      <4>1. ASSUME NEW n \in 0..m
            PROVE  h[n] = IF n = 0 THEN [path |-> << >>, at |-> k] ELSE Climb(g, h[n - 1])
        <5>1. CASE n = m
          BY <2>4, <3>1, <3>3, <3>4, <5>1
        <5>2. CASE n # m
          <6>1. n \in 0..(m - 1) /\ (n # 0 => n - 1 \in 0..(m - 1))
            BY <3>1, <5>2
          <6> QED BY <3>2, <3>4, <6>1
        <5> QED BY <5>1, <5>2
      <4> QED BY <3>3, <4>1
    <3> QED BY <3>5
  <2> QED BY <2>3, <2>4
<1>2. PICK f : IsRun(f, N)
  <2>1. N \notin bad
    <3> HIDE DEF bad
    <3> QED BY <1>1
  <2> HIDE DEF IsRun
  <2> QED BY <1>0, <2>1
<1> DEFINE after == CHOOSE h : IsRun(h, N)
<1>3. IsRun(after, N)
  <2> HIDE DEF IsRun
  <2> QED BY <1>2
<1>4. Climbs(g, k) = after
  BY Zenon DEF Climbs
<1> HIDE DEF after
<1>5. PICK c : c = Climbs(g, k) /\ IsRun(c, N)
  BY <1>3, <1>4
<1>6. c[0] = [path |-> << >>, at |-> k] /\ \A n \in 1..N : c[n] = Climb(g, c[n - 1])
  BY <1>0, <1>5
<1> QED
  BY <1>5, <1>6

(* Where a walk upward stands: every key on its way is stored and met for  *)
(* the first time, and follows from the one before.                        *)
Walked(g, k, c) ==
  /\ c.path \in Seq(NodeKeys)
  /\ \A i, j \in DOMAIN c.path : c.path[i] = c.path[j] => i = j
  /\ \A i \in DOMAIN c.path : g[c.path[i]] # Missing
  /\ c.path = << >> => c.at = k
  /\ c.path # << >> => c.at = c.path[Len(c.path)] /\ g[k] = c.path[1]
  /\ \A i \in DOMAIN c.path : i < Len(c.path) => g[c.path[i]] = c.path[i + 1]

Halted(g, c) == g[c.at] \in NodeKeys => g[g[c.at]] = Missing \/ g[c.at] \in ToSet(c.path)

(* A step keeps that, and gets further unless the walk is over.            *)
LEMMA ClimbWalks ==
  ASSUME NEW g \in Graphed, NEW k \in NodeKeys, NEW c, Walked(g, k, c)
  PROVE  /\ Walked(g, k, Climb(g, c))
         /\ Halted(g, c) => Climb(g, c) = c
         /\ ~Halted(g, c) => Len(Climb(g, c).path) = Len(c.path) + 1
<1>1. PICK up : up = g[c.at]
  OBVIOUS
<1>2. c.at \in NodeKeys /\ Len(c.path) \in Nat
  BY DEF Walked
<1>3. up \in NodeKeys \/ up \in {Top, Missing}
  BY <1>1, <1>2, KeysAre DEF Graphed, Parents
<1>4. CASE Halted(g, c)
  <2>1. Climb(g, c) = c
    BY <1>1, <1>3, <1>4 DEF Climb, Halted
  <2> QED BY <1>4, <2>1
<1>5. CASE ~Halted(g, c)
  <2>1. up \in NodeKeys /\ g[up] # Missing /\ up \notin ToSet(c.path)
    BY <1>1, <1>5 DEF Halted
  <2>2. PICK d : d = Climb(g, c)
    OBVIOUS
  <2>3. d = [path |-> Append(c.path, up), at |-> up]
    BY <1>1, <2>1, <2>2, KeysAre DEF Climb
  <2>4. PICK p \in Seq(NodeKeys) : p = c.path
    BY DEF Walked
  <2>5. PICK q \in Seq(NodeKeys) : q = Append(p, up)
    BY <2>1, AppendProperties
  <2>6. /\ Len(q) = Len(p) + 1 /\ q[Len(p) + 1] = up
        /\ \A i \in 1..Len(p) : q[i] = p[i]
    BY <2>1, <2>5, AppendProperties
  <2>7. DOMAIN p = 1..Len(p) /\ DOMAIN q = 1..(Len(p) + 1) /\ Len(p) \in Nat
    BY <2>6
  <2>8. d.path = q /\ d.at = up
    BY <2>3, <2>4, <2>5
  <2>9. \A i \in 1..Len(p) : p[i] # up
    BY <2>1, <2>4, <2>7 DEF ToSet
  <2>10. \A i, j \in DOMAIN q : q[i] = q[j] => i = j
    <3>1. \A i, j \in 1..Len(p) : p[i] = p[j] => i = j
      BY <2>4, <2>7 DEF Walked
    <3> QED BY <2>6, <2>7, <2>9, <3>1
  <2>11. \A i \in DOMAIN q : g[q[i]] # Missing
    <3>1. \A i \in 1..Len(p) : g[p[i]] # Missing
      BY <2>4, <2>7 DEF Walked
    <3> QED BY <2>1, <2>6, <2>7, <3>1
  <2>12. q # << >> /\ g[k] = q[1]
    <3>1. CASE p = << >>
      <4>1. Len(p) = 0 /\ c.at = k
        BY <2>4, <3>1 DEF Walked
      <4>2. q[1] = up /\ Len(q) = 1
        BY <2>6, <4>1
      <4>3. q \in Seq(NodeKeys) /\ Len(q) # 0
        BY <4>2
      <4>4. q # << >>
        BY <4>3, EmptySeq
      <4>5. up = g[k]
        BY <1>1, <4>1
      <4> QED BY <4>2, <4>4, <4>5
    <3>2. CASE p # << >>
      <4>1. g[k] = p[1] /\ 1 \in 1..Len(p)
        BY <2>4, <3>2 DEF Walked
      <4> QED BY <2>6, <4>1
    <3> QED BY <3>1, <3>2
  <2>13. ASSUME NEW i \in DOMAIN q, i < Len(q) PROVE g[q[i]] = q[i + 1]
    <3>1. i \in 1..Len(p)
      BY <2>6, <2>7, <2>13
    <3>2. CASE i = Len(p)
      <4>1. c.at = p[Len(p)] /\ p # << >>
        BY <2>4, <3>1, <3>2 DEF Walked
      <4> QED BY <1>1, <2>6, <3>1, <3>2, <4>1
    <3>3. CASE i # Len(p)
      <4>1. i < Len(p) /\ i + 1 \in 1..Len(p)
        BY <2>7, <3>1, <3>3
      <4>2. g[p[i]] = p[i + 1]
        BY <2>4, <2>7, <3>1, <4>1 DEF Walked
      <4> QED BY <2>6, <3>1, <4>1, <4>2
    <3> QED BY <3>2, <3>3
  <2>14. Walked(g, k, d)
    BY <2>6, <2>8, <2>10, <2>11, <2>12, <2>13 DEF Walked
  <2> QED BY <1>5, <2>2, <2>4, <2>6, <2>8, <2>14
<1> QED BY <1>4, <1>5

(* A walk that met as many keys as there are is over.                      *)
LEMMA LongWalkHalts ==
  ASSUME NEW g \in Graphed, NEW k \in NodeKeys, NEW c, Walked(g, k, c),
         Len(c.path) = Cardinality(NodeKeys)
  PROVE  Halted(g, c)
<1>1. PICK p \in Seq(NodeKeys) : p = c.path
  BY DEF Walked
<1>2. PICK n \in Nat : n = Len(p) /\ n = Cardinality(NodeKeys)
  BY <1>1, KeysAre
<1>3. IsFiniteSet(1..n) /\ Cardinality(1..n) = n
  BY <1>2, FS_Interval
<1>4. p \in Injection(1..n, NodeKeys)
  BY <1>1, <1>2 DEF Walked, Injection, IsInjective
<1>5. p \in Surjection(1..n, NodeKeys)
  BY <1>2, <1>3, <1>4, KeysAre, FS_Injection
<1>6. \A x \in NodeKeys : \E i \in 1..n : p[i] = x
  BY <1>5 DEF Surjection
<1>7. \A x \in NodeKeys : x \in ToSet(p)
  BY <1>1, <1>2, <1>6 DEF ToSet
<1> QED
  BY <1>1, <1>7 DEF Halted

(* The ancestors of a key: the least set that holds its parent and is      *)
(* closed under parents, of those that are stored.                         *)
LEMMA AncestorsAre ==
  ASSUME NEW g \in Graphed, NEW k \in NodeKeys
  PROVE  LET A == ToSet(Ancestors(g, k)) IN
         /\ Ancestors(g, k) \in Seq(NodeKeys) /\ A \subseteq InGraph(g)
         /\ \A x \in A \cup {k} : g[x] \in InGraph(g) => g[x] \in A
         /\ \A K : (\A x \in K \cup {k} : g[x] \in InGraph(g) => g[x] \in K) => A \subseteq K
<1> DEFINE N == Cardinality(NodeKeys)
<1>0. N \in Nat
  BY KeysAre
<1>1. PICK c : c = Climbs(g, k)
  OBVIOUS
<1>2. c[0] = [path |-> << >>, at |-> k] /\ \A n \in 1..N : c[n] = Climb(g, c[n - 1])
  BY <1>1, ClimbsAre
<1> DEFINE Agrees(n) == Walked(g, k, c[n]) /\ (Halted(g, c[n]) \/ Len(c[n].path) = n)
           bad == {n \in 0..N : ~Agrees(n)}
<1>3. bad = {}
  <2>1. SUFFICES ASSUME bad # {} PROVE FALSE
    OBVIOUS
  <2>2. PICK n \in bad : \A j \in bad : n <= j
    <3>1. bad \in SUBSET Nat
      BY <1>0
    <3> HIDE DEF bad
    <3> QED BY <2>1, <3>1, SmallestExists
  <2>3. n \in 0..N /\ ~Agrees(n)
    <3> HIDE DEF Agrees
    <3> QED BY <2>2
  <2>4. CASE n = 0
    <3>1. Agrees(0)
      <4>1. << >> \in Seq(NodeKeys) /\ DOMAIN << >> = {} /\ Len(<< >>) = 0
        OBVIOUS
      <4>2. c[0].path = << >> /\ c[0].at = k
        BY <1>2
      <4> QED BY <4>1, <4>2 DEF Walked
    <3> QED BY <2>3, <2>4, <3>1
  <2>5. CASE n # 0
    <3>1. n \in 1..N /\ n - 1 \in 0..N
      BY <1>0, <2>3, <2>5
    <3>2. Agrees(n - 1)
      <4>1. n - 1 \notin bad
        <5>1. ~(n <= n - 1)
          BY <3>1
        <5> HIDE DEF bad
        <5> QED BY <2>2, <5>1
      <4> HIDE DEF Agrees
      <4> QED BY <3>1, <4>1
    <3>3. PICK d : d = c[n - 1]
      OBVIOUS
    <3>4. c[n] = Climb(g, d)
      BY <1>2, <3>1, <3>3
    <3>5. Walked(g, k, d) /\ (Halted(g, d) \/ Len(d.path) = n - 1)
      BY <3>2, <3>3
    <3>6. /\ Walked(g, k, c[n]) /\ (Halted(g, d) => c[n] = d)
          /\ ~Halted(g, d) => Len(c[n].path) = Len(d.path) + 1
      BY <3>4, <3>5, ClimbWalks
    <3>7. Halted(g, c[n]) \/ Len(c[n].path) = n
      <4>1. CASE Halted(g, d)
        BY <3>6, <4>1
      <4>2. CASE ~Halted(g, d)
        BY <3>1, <3>5, <3>6, <4>2
      <4> QED BY <4>1, <4>2
    <3> QED BY <2>3, <3>6, <3>7
  <2> QED BY <2>4, <2>5
<1>4. Agrees(N)
  <2>1. N \notin bad
    <3> HIDE DEF bad
    <3> QED BY <1>3
  <2> HIDE DEF Agrees
  <2> QED BY <1>0, <2>1
<1>5. PICK d : d = c[N]
  OBVIOUS
<1>6. Walked(g, k, d) /\ Halted(g, d)
  BY <1>4, <1>5, LongWalkHalts
<1>7. PICK p \in Seq(NodeKeys) : p = d.path
  BY <1>6 DEF Walked
<1>8. Ancestors(g, k) = p
  BY <1>1, <1>5, <1>7 DEF Ancestors
<1>9. PICK A : A = ToSet(p)
  OBVIOUS
<1>10. DOMAIN p = 1..Len(p) /\ Len(p) \in Nat /\ \A x : x \in A <=> \E i \in 1..Len(p) : p[i] = x
  BY <1>9 DEF ToSet
<1>11. A \subseteq InGraph(g)
  <2>1. \A i \in 1..Len(p) : p[i] \in NodeKeys /\ g[p[i]] # Missing
    BY <1>6, <1>7, <1>10 DEF Walked
  <2> QED BY <1>10, <2>1 DEF InGraph
<1>12. ASSUME NEW x \in A \cup {k}, g[x] \in InGraph(g) PROVE g[x] \in A
  <2>1. CASE x = d.at
    <3>1. g[d.at] \in NodeKeys /\ g[g[d.at]] # Missing
      BY <1>12, <2>1 DEF InGraph
    <3> QED BY <1>6, <1>7, <1>9, <2>1, <3>1 DEF Halted
  <2>2. CASE x # d.at /\ x \in A
    <3>1. PICK i \in 1..Len(p) : p[i] = x
      BY <1>10, <2>2
    <3>2. i < Len(p)
      <4>1. i = Len(p) => d.at = p[i]
        <5>1. Len(p) # 0 /\ p # << >>
          <6>1. Len(p) # 0 /\ Len(<< >>) = 0
            BY <1>10, <3>1
          <6> QED BY <6>1
        <5>2. p # << >> => d.at = p[Len(p)]
          BY <1>6, <1>7 DEF Walked
        <5> QED BY <5>1, <5>2
      <4>2. i # Len(p)
        BY <2>2, <3>1, <4>1
      <4>3. i \in Nat /\ Len(p) \in Nat /\ i <= Len(p)
        BY <3>1
      <4> QED BY <4>2, <4>3
    <3>3. g[p[i]] = p[i + 1] /\ i + 1 \in 1..Len(p)
      <4>1. i + 1 \in 1..Len(p)
        BY <1>10, <3>2
      <4> QED BY <1>6, <1>7, <1>10, <3>2, <4>1 DEF Walked
    <3> QED BY <1>10, <3>1, <3>3
  <2>3. CASE x # d.at /\ x = k
    <3>1. p # << >> /\ g[k] = p[1]
      BY <1>6, <1>7, <2>3 DEF Walked
    <3>2. 1 \in 1..Len(p)
      BY <1>10, <3>1
    <3> QED BY <1>10, <2>3, <3>1, <3>2
  <2> QED BY <1>12, <2>1, <2>2, <2>3
<1>13. ASSUME NEW K, \A x \in K \cup {k} : g[x] \in InGraph(g) => g[x] \in K
       PROVE  A \subseteq K
  <2> DEFINE out == {i \in 1..Len(p) : p[i] \notin K}
  <2>1. SUFFICES out = {}
    <3>1. \A i \in 1..Len(p) : p[i] \in K
      BY <2>1
    <3> QED BY <1>10, <3>1
  <2>2. SUFFICES ASSUME out # {} PROVE FALSE
    OBVIOUS
  <2>3. PICK i \in out : \A j \in out : i <= j
    <3>1. out \in SUBSET Nat
      BY <1>10
    <3> HIDE DEF out
    <3> QED BY <2>2, <3>1, SmallestExists
  <2>4. i \in 1..Len(p) /\ p[i] \notin K /\ p[i] \in InGraph(g)
    <3>1. p[i] \in A
      BY <1>10, <2>3
    <3> QED BY <1>11, <2>3, <3>1
  <2>5. CASE i = 1
    <3>1. g[k] = p[1]
      <4>1. p # << >>
        BY <1>10, <2>4
      <4> QED BY <1>6, <1>7, <4>1 DEF Walked
    <3> QED BY <1>13, <2>4, <2>5, <3>1
  <2>6. CASE i # 1
    <3>1. i - 1 \in 1..Len(p) /\ i - 1 < Len(p) /\ ~(i <= i - 1) /\ (i - 1) + 1 = i
      BY <1>10, <2>4, <2>6
    <3>2. p[i - 1] \in K
      <4>1. i - 1 \notin out
        <5> HIDE DEF out
        <5> QED BY <2>3, <3>1
      <4> QED BY <3>1, <4>1
    <3>3. g[p[i - 1]] = p[(i - 1) + 1]
      BY <1>6, <1>7, <1>10, <3>1 DEF Walked
    <3> QED BY <1>13, <2>4, <3>1, <3>2, <3>3
  <2> QED BY <2>5, <2>6
<1> QED
  BY <1>8, <1>9, <1>11, <1>12, <1>13

(* The descendants of a key: the least set that holds its children and is  *)
(* closed under children.                                                  *)
LEMMA DescendantsAre ==
  ASSUME NEW g \in Graphed, NEW k \in NodeKeys
  PROVE  LET D == Descendants(g, k) IN
         /\ D \subseteq NodeKeys
         /\ \A x \in NodeKeys : g[x] \in D \cup {k} => x \in D
         /\ \A K : (\A x \in NodeKeys : g[x] \in K \cup {k} => x \in K) => D \subseteq K
<1> DEFINE links == {<<g[x], x>> : x \in InGraph(g)}
           start == {x \in NodeKeys : g[x] = k}
<1>1. /\ \A e \in links : e[2] \in InGraph(g) /\ e[1] = g[e[2]]
      /\ \A x \in InGraph(g) : <<g[x], x>> \in links
  OBVIOUS
<1>2. \A e \in links : e[2] \in NodeKeys
  BY <1>1 DEF InGraph
<1>3. start \in SUBSET NodeKeys
  OBVIOUS
<1>4. PICK D : D = Spread(links, start)
  OBVIOUS
<1>5. Descendants(g, k) = D
  BY <1>4 DEF Descendants
<1>6. /\ D \in SUBSET NodeKeys /\ start \subseteq D
      /\ \A e \in links : e[1] \in D => e[2] \in D
      /\ \A K : start \subseteq K /\ (\A e \in links : e[1] \in K => e[2] \in K) => D \subseteq K
  <2> HIDE DEF links, start
  <2> QED BY <1>2, <1>3, <1>4, SpreadIsLeast
<1>7. ASSUME NEW x \in NodeKeys, g[x] \in D \cup {k} PROVE x \in D
  <2>1. CASE g[x] = k
    BY <1>6, <2>1
  <2>2. CASE g[x] \in D
    <3>1. g[x] \in NodeKeys
      BY <1>6, <2>2
    <3>2. x \in InGraph(g)
      BY <3>1, KeysAre DEF InGraph
    <3>3. PICK e \in links : e = <<g[x], x>>
      BY <1>1, <3>2
    <3> HIDE DEF links
    <3> QED BY <1>6, <2>2, <3>3
  <2> QED BY <1>7, <2>1, <2>2
<1>8. ASSUME NEW K, \A x \in NodeKeys : g[x] \in K \cup {k} => x \in K
      PROVE  D \subseteq K
  <2>1. start \subseteq K
    BY <1>8
  <2>2. \A e \in links : e[1] \in K => e[2] \in K
    BY <1>1, <1>2, <1>8
  <2> HIDE DEF links, start
  <2> QED BY <1>6, <2>1, <2>2
<1> QED
  BY <1>5, <1>6, <1>7, <1>8

(* The two traversals agree in any graph.                                  *)
LEMMA TraversalsAgree ==
  ASSUME NEW g \in Graphed, NEW k \in InGraph(g), NEW a \in InGraph(g)
  PROVE  a \in ToSet(Ancestors(g, k)) <=> k \in Descendants(g, a)
<1> DEFINE A(x) == ToSet(Ancestors(g, x))
           D(x) == Descendants(g, x)
<1>1. k \in NodeKeys /\ a \in NodeKeys /\ InGraph(g) \subseteq NodeKeys
  BY DEF InGraph
<1>2. ASSUME NEW y \in NodeKeys
      PROVE  /\ A(y) \subseteq InGraph(g)
             /\ \A x \in A(y) \cup {y} : g[x] \in InGraph(g) => g[x] \in A(y)
             /\ \A K : (\A x \in K \cup {y} : g[x] \in InGraph(g) => g[x] \in K) => A(y) \subseteq K
  BY AncestorsAre
<1>3. ASSUME NEW y \in NodeKeys
      PROVE  /\ D(y) \subseteq NodeKeys
             /\ \A x \in NodeKeys : g[x] \in D(y) \cup {y} => x \in D(y)
             /\ \A K : (\A x \in NodeKeys : g[x] \in K \cup {y} => x \in K) => D(y) \subseteq K
  BY DescendantsAre
<1> HIDE DEF A, D
<1>4. ASSUME a \in A(k) PROVE k \in D(a)
  <2> DEFINE K == {y \in NodeKeys : k \in D(y)}
  <2>1. ASSUME NEW x \in K \cup {k}, g[x] \in InGraph(g) PROVE g[x] \in K
    <3>1. g[x] \in NodeKeys /\ x \in NodeKeys
      BY <1>1, <2>1
    <3>2. x \in D(g[x])
      BY <1>3, <3>1
    <3>3. CASE x = k
      BY <3>1, <3>2, <3>3
    <3>4. CASE x \in K
      <4>1. D(x) \subseteq D(g[x])
        <5>1. \A y \in NodeKeys : g[y] \in D(g[x]) \cup {x} => y \in D(g[x])
          BY <1>3, <3>1, <3>2
        <5> QED BY <1>3, <3>1, <5>1
      <4> QED BY <3>1, <3>4, <4>1
    <3> QED BY <2>1, <3>3, <3>4
  <2>2. A(k) \subseteq K
    <3> HIDE DEF K
    <3> QED BY <1>1, <1>2, <2>1
  <2> QED BY <1>4, <2>2
<1>5. ASSUME k \in D(a) PROVE a \in A(k)
  <2> DEFINE K == {y \in NodeKeys : a \in A(y)}
  <2>1. ASSUME NEW x \in NodeKeys, g[x] \in K \cup {a} PROVE x \in K
    <3>1. CASE g[x] = a
      BY <1>2, <3>1
    <3>2. CASE g[x] \in K
      <4>1. PICK y \in NodeKeys : y = g[x] /\ a \in A(y)
        BY <3>2
      <4>2. g[y] \in InGraph(g)
        <5>1. SUFFICES ASSUME g[y] \notin InGraph(g) PROVE A(y) \subseteq {}
          BY <4>1
        <5>2. \A z \in {} \cup {y} : g[z] \in InGraph(g) => g[z] \in {}
          BY <5>1
        <5> QED BY <1>2, <5>2
      <4>3. y \in InGraph(g)
        <5>1. g[y] # Missing
          BY <1>1, <4>2, KeysAre
        <5> QED BY <5>1 DEF InGraph
      <4>4. y \in A(x)
        BY <1>2, <4>1, <4>3
      <4>5. A(y) \subseteq A(x)
        <5>1. \A z \in A(x) \cup {y} : g[z] \in InGraph(g) => g[z] \in A(x)
          BY <1>2, <4>4
        <5> QED BY <1>2, <5>1
      <4> QED BY <4>1, <4>5
    <3> QED BY <2>1, <3>1, <3>2
  <2>2. D(a) \subseteq K
    <3> HIDE DEF K
    <3> QED BY <1>1, <1>3, <2>1
  <2> QED BY <1>5, <2>2
<1> QED
  BY <1>4, <1>5 DEF A, D

(* A graph that lies as a tree does: there is an order in which parents    *)
(* come before their children.                                             *)
Ordered(g, pos) ==
  /\ pos \in [NodeKeys -> Nat]
  /\ \A x \in NodeKeys : g[x] \in NodeKeys => pos[g[x]] < pos[x]

(* Nobody is above themselves in it.                                       *)
LEMMA OrderIsATree ==
  ASSUME NEW g \in Graphed, NEW pos, Ordered(g, pos), NEW k \in NodeKeys
  PROVE  k \notin Descendants(g, k)
<1> DEFINE K == {x \in NodeKeys : pos[k] < pos[x]}
<1>1. ASSUME NEW x \in NodeKeys, g[x] \in K \cup {k} PROVE x \in K
  <2>1. g[x] \in NodeKeys /\ pos[k] <= pos[g[x]]
    BY <1>1 DEF Ordered
  <2>2. pos[g[x]] < pos[x] /\ pos[k] \in Nat /\ pos[x] \in Nat /\ pos[g[x]] \in Nat
    BY <2>1 DEF Ordered
  <2> QED BY <2>1, <2>2
<1>2. Descendants(g, k) \subseteq K
  <2> HIDE DEF K
  <2> QED BY <1>1, DescendantsAre
<1>3. k \notin K
  BY DEF Ordered
<1> QED
  BY <1>2, <1>3

(* What makes such a graph whole: parents are stored, and what has none is *)
(* a company.                                                              *)
Whole(g) ==
  /\ \A x \in NodeKeys : g[x] \in NodeKeys => g[g[x]] # Missing
  /\ \A x \in EntityKeys : g[x] = Top => x[1] = "COMPANY"

(* Then all in it have an owner.                                           *)
LEMMA OwnersAreFound ==
  ASSUME NEW g \in Graphed, NEW pos, Ordered(g, pos), Whole(g),
         NEW k \in InGraph(g), k[1] \in EntityTypes
  PROVE  Owner(g, k) # Missing
<1>1. k \in NodeKeys /\ g[k] # Missing /\ k \in EntityKeys
  BY KeysAre DEF InGraph
<1>2. PICK up \in Seq(NodeKeys) : up = Ancestors(g, k)
  BY <1>1, AncestorsAre
<1>3. PICK A : A = ToSet(up)
  OBVIOUS
<1>4. /\ A \subseteq InGraph(g)
      /\ \A x \in A \cup {k} : g[x] \in InGraph(g) => g[x] \in A
      /\ \A K : (\A x \in K \cup {k} : g[x] \in InGraph(g) => g[x] \in K) => A \subseteq K
  BY <1>1, <1>2, <1>3, AncestorsAre
<1>5. A \subseteq EntityKeys
  <2>1. ASSUME NEW x \in EntityKeys \cup {k}, g[x] \in InGraph(g) PROVE g[x] \in EntityKeys
    <3>1. x \in NodeKeys /\ g[x] \in NodeKeys
      BY <1>1, <2>1, KeysAre DEF InGraph
    <3> QED BY <3>1, KeysAre DEF Graphed, Parents
  <2> QED BY <1>4, <2>1
<1>6. PICK m \in A \cup {k} : \A x \in A \cup {k} : pos[m] <= pos[x]
  <2> DEFINE places == {pos[x] : x \in A \cup {k}}
  <2>1. \A x \in A \cup {k} : x \in NodeKeys /\ pos[x] \in Nat
    BY <1>1, <1>5, KeysAre DEF Ordered
  <2>2. places \in SUBSET Nat /\ places # {}
    BY <2>1
  <2>3. PICK n \in places : \A j \in places : n <= j
    <3> HIDE DEF places
    <3> QED BY <2>2, SmallestExists
  <2> QED BY <2>3
<1>7. m \in EntityKeys /\ m \in NodeKeys /\ g[m] # Missing
  BY <1>1, <1>4, <1>5, <1>6, KeysAre DEF InGraph
<1>8. g[m] = Top
  <2>1. SUFFICES ASSUME g[m] \in NodeKeys PROVE FALSE
    BY <1>7, KeysAre DEF Graphed, Parents
  <2>2. g[m] \in InGraph(g)
    BY <1>7, <2>1 DEF Whole, InGraph
  <2>3. g[m] \in A
    BY <1>4, <1>6, <2>2
  <2>4. pos[g[m]] < pos[m] /\ pos[m] <= pos[g[m]] /\ pos[m] \in Nat /\ pos[g[m]] \in Nat
    BY <1>6, <1>7, <2>1, <2>3 DEF Ordered
  <2> QED BY <2>4
<1>9. m[1] = "COMPANY"
  BY <1>7, <1>8 DEF Whole
<1>10. CASE m = k
  BY <1>1, <1>9, <1>10, KeysAre DEF Owner
<1>11. CASE m # k
  <2> DEFINE near(type, i) == up[i][1] = type /\ \A j \in 1..(i - 1) : up[j][1] # type
             nearest(type) == CHOOSE i \in DOMAIN up : near(type, i)
             above(type) == \E i \in DOMAIN up : up[i][1] = type
  <2>1. DOMAIN up = 1..Len(up) /\ Len(up) \in Nat
    OBVIOUS
  <2>2. above("COMPANY")
    <3>1. \E i \in DOMAIN up : up[i] = m
      BY <1>3, <1>6, <1>11 DEF ToSet
    <3> QED BY <1>9, <3>1
  <2>3. ASSUME NEW type, above(type) PROVE up[nearest(type)] \in NodeKeys
    <3> DEFINE at == {i \in DOMAIN up : up[i][1] = type}
    <3>1. PICK i \in at : \A j \in at : i <= j
      <4>1. at \in SUBSET Nat /\ at # {}
        BY <2>1, <2>3
      <4> HIDE DEF at
      <4> QED BY <4>1, SmallestExists
    <3>2. i \in DOMAIN up /\ near(type, i)
      <4>1. i \in 1..Len(up) /\ up[i][1] = type
        BY <2>1, <3>1
      <4>2. ASSUME NEW j \in 1..(i - 1) PROVE up[j][1] # type
        <5>1. j \in DOMAIN up /\ ~(i <= j)
          BY <2>1, <4>1
        <5> QED BY <3>1, <5>1
      <4> QED BY <2>1, <4>1, <4>2
    <3>3. nearest(type) \in DOMAIN up
      <4> HIDE DEF near
      <4> QED BY <3>2
    <3> HIDE DEF nearest
    <3> QED BY <3>3
  <2>4. Owner(g, k) = IF k[1] = "COMPANY" THEN k
                      ELSE IF above("TEAM") THEN up[nearest("TEAM")]
                      ELSE IF above("COMPANY") THEN up[nearest("COMPANY")] ELSE Missing
    BY <1>2 DEF Owner
  <2> HIDE DEF above, nearest
  <2>5. Owner(g, k) \in NodeKeys
    BY <1>1, <2>2, <2>3, <2>4
  <2> QED BY <2>5, KeysAre
<1> QED BY <1>10, <1>11

-----------------------------------------------------------------------------
(* What holds of the rows, the graph, its snapshots and whoever works on   *)
(* them.                                                                   *)

Syncing == [at: {"sync"}, todo: Seq(EntityKeys \X (EntityKeys \cup {Top})) \ {<< >>}]
Linking == [at: {"link", "edge"}, key: {"ORGANIZATION_STRATEGY"} \X (1..MaxMoment)]
Snapping == [at: {"edges"}, nodes: Graphed]

OrgTypes ==
  /\ moment \in 1..MaxMoment
  /\ entity \in [EntityKeys -> Parents] /\ listed \in Seq(EntityKeys)
  /\ \A i \in DOMAIN listed : entity[listed[i]] # Missing
  /\ gnode \in Graphed /\ gedge \in Links
  /\ snapshot \subseteq [nodes: Graphed, edges: Links]
  /\ thread \in [Threads -> {AtRest} \cup Syncing \cup Linking \cup Snapping]
  /\ doubled \in BOOLEAN /\ mixed \in BOOLEAN /\ torn \in BOOLEAN

(* The rows are listed once each, parents before their children, and only  *)
(* companies have none.                                                    *)
EntitiesFit ==
  ~doubled =>
    /\ \A i, j \in DOMAIN listed : listed[i] = listed[j] => i = j
    /\ \A k \in EntityKeys : entity[k] # Missing => \E i \in DOMAIN listed : listed[i] = k
    /\ \A i \in DOMAIN listed :
         IF entity[listed[i]] = Top THEN listed[i][1] = "COMPANY"
         ELSE \E j \in 1..(i - 1) : listed[j] = entity[listed[i]]

(* What is in a graph is as the rows have it, or of the strategy layer.    *)
AsListed(g) ==
  \A x \in NodeKeys : g[x] # Missing => g[x] = IF x \in EntityKeys THEN entity[x] ELSE Top
CopiesFit ==
  ~doubled =>
    /\ AsListed(gnode)
    /\ \A s \in snapshot : AsListed(s.nodes)
    /\ \A t \in Threads : thread[t].at = "edges" => AsListed(thread[t].nodes)
    /\ \A t \in Threads : thread[t].at = "sync" =>
         \A i \in DOMAIN thread[t].todo : thread[t].todo[i][2] = entity[thread[t].todo[i][1]]

(* Parents are in the graph, or come first in what a sync has yet to save. *)
Closed(g) == \A x \in NodeKeys : g[x] \in NodeKeys => g[g[x]] # Missing
Awaited(todo) ==
  \A i \in DOMAIN todo : todo[i][2] \in NodeKeys =>
    gnode[todo[i][2]] # Missing \/ \E j \in 1..(i - 1) : todo[j][1] = todo[i][2]
GraphsClosed ==
  ~doubled /\ ~mixed =>
    /\ Closed(gnode)
    /\ \A s \in snapshot : Closed(s.nodes)
    /\ \A t \in Threads : thread[t].at = "edges" => Closed(thread[t].nodes)
    /\ \A t \in Threads : thread[t].at = "sync" => Awaited(thread[t].todo)

(* Edges end in the graph.                                                 *)
EndIn(links, g) == \A e \in links : g[e[1]] # Missing /\ g[e[2]] # Missing
LinksFit ==
  /\ ~mixed => \A t \in Threads : thread[t].at = "edge" => gnode[thread[t].key] # Missing
  /\ ~torn => \A t \in Threads : thread[t].at = "edges" => thread[t].nodes = gnode
  /\ ~torn /\ ~mixed => EndIn(gedge, gnode) /\ \A s \in snapshot : EndIn(s.edges, s.nodes)

OrgInv == OrgTypes /\ EntitiesFit /\ CopiesFit /\ GraphsClosed /\ LinksFit

(* What a thread is at.                                                    *)
LEMMA WorkIs ==
  ASSUME OrgTypes, NEW t \in Threads
  PROVE  /\ thread[t].at = "sync" => thread[t] \in Syncing
         /\ thread[t].at \in {"link", "edge"} => thread[t] \in Linking
         /\ thread[t].at = "edges" => thread[t] \in Snapping
<1>1. thread[t] \in {AtRest} \cup Syncing \cup Linking \cup Snapping
  BY DEF OrgTypes
<1> QED
  BY <1>1 DEF AtRest, Syncing, Linking, Snapping

(* It holds of the empty databases.                                        *)
LEMMA OrgStarts == OrgInit => OrgInv
<1>1. SUFFICES ASSUME OrgInit PROVE OrgInv
  OBVIOUS
<1>2. /\ \A t \in Threads : thread[t] = AtRest /\ thread[t].at = "rest"
      /\ gedge = {} /\ snapshot = {} /\ listed = << >>
      /\ \A k \in EntityKeys : entity[k] = Missing
      /\ \A k \in NodeKeys : gnode[k] = Missing
  BY <1>1 DEF OrgInit, AtRest
<1>3. OrgTypes
  <2>1. gnode \in Graphed /\ entity \in [EntityKeys -> Parents]
    BY <1>1 DEF OrgInit, Graphed, Parents
  <2>2. moment \in 1..MaxMoment
    BY <1>1, OrgGraphAssumption DEF OrgInit
  <2>3. thread \in [Threads -> {AtRest} \cup Syncing \cup Linking \cup Snapping]
    BY <1>1 DEF OrgInit
  <2>4. listed \in Seq(EntityKeys) /\ DOMAIN listed = {}
    BY <1>2
  <2> QED
    BY <1>1, <1>2, <2>1, <2>2, <2>3, <2>4 DEF OrgTypes, OrgInit, Links
<1>4. EntitiesFit
  <2>1. DOMAIN listed = {}
    BY <1>2
  <2> QED BY <1>2, <2>1 DEF EntitiesFit
<1>5. CopiesFit
  BY <1>2 DEF CopiesFit, AsListed
<1>6. GraphsClosed
  BY <1>2, KeysAre DEF GraphsClosed, Closed
<1>7. LinksFit
  BY <1>2 DEF LinksFit, EndIn
<1> QED
  BY <1>3, <1>4, <1>5, <1>6, <1>7 DEF OrgInv

(* The rows stay as they are in all steps but one.                         *)
LEMMA RowsStay ==
  ASSUME OrgInv, UNCHANGED <<entity, listed, doubled>>
  PROVE  EntitiesFit'
  BY DEF OrgInv, EntitiesFit

(* A piece of a list of keys.                                              *)
LEMMA PieceOfList ==
  ASSUME NEW s \in Seq(EntityKeys), NEW i \in 1..(Len(s) + 1), NEW j \in 0..Len(s), i <= j + 1
  PROVE  /\ SubSeq(s, i, j) \in Seq(EntityKeys) /\ Len(SubSeq(s, i, j)) = j + 1 - i
         /\ \A n \in 1..(j + 1 - i) : SubSeq(s, i, j)[n] = s[i + n - 1]
<1>1. i \in Int /\ j \in Int /\ \A n \in i..j : s[n] \in EntityKeys
  OBVIOUS
<1>2. /\ SubSeq(s, i, j) \in Seq(EntityKeys)
      /\ Len(SubSeq(s, i, j)) = IF i <= j THEN j - i + 1 ELSE 0
      /\ \A n \in 1..(j - i + 1) : SubSeq(s, i, j)[n] = s[i + n - 1]
  BY <1>1, SubSeqProperties
<1>3. j + 1 - i = (IF i <= j THEN j - i + 1 ELSE 0) /\ j + 1 - i = j - i + 1
  OBVIOUS
<1> QED
  BY <1>2, <1>3

(* An id that is new joins the list at its end; one that is not marks the  *)
(* rows as doubled.                                                        *)
LEMMA RegisterStep == ASSUME OrgInv, RegisterEntity PROVE OrgInv'
<1>1. PICK type \in EntityTypes, up \in EntityKeys \cup {Top} :
        LET key == <<type, moment>> IN
        /\ (type = "COMPANY") = (up = Top)
        /\ up # Top => entity[up] # Missing
        /\ doubled' = (doubled \/ entity[key] # Missing)
        /\ entity' = [entity EXCEPT ![key] = up]
        /\ listed' = Append(Others(key), key)
        /\ UNCHANGED <<moment, gnode, gedge, snapshot, thread, copied, kills, mixed, torn>>
  BY DEF RegisterEntity
<1> DEFINE key == <<type, moment>>
<1>2. OrgTypes
  BY DEF OrgInv
<1>3. key \in EntityKeys /\ key \in NodeKeys /\ key[1] = type
  BY <1>2, KeysAre DEF OrgTypes, EntityKeys
<1>4. up # Missing /\ up \in Parents
  BY KeysAre DEF Parents
<1>5. /\ entity' \in [EntityKeys -> Parents] /\ entity'[key] = up
      /\ \A k \in EntityKeys : k # key => entity'[k] = entity[k]
  BY <1>1, <1>2, <1>3, <1>4 DEF OrgTypes
<1>6. PICK others \in Seq(EntityKeys) :
        /\ others = Others(key)
        /\ \A i \in DOMAIN others : \E j \in DOMAIN listed : others[i] = listed[j]
        /\ (\A i \in DOMAIN listed : listed[i] # key) => others = listed
  <2>1. listed \in Seq(EntityKeys)
    BY <1>2 DEF OrgTypes
  <2>2. CASE \E i \in DOMAIN listed : listed[i] = key
    <3>1. PICK n : n = (CHOOSE i \in DOMAIN listed : listed[i] = key)
      OBVIOUS
    <3>2. n \in DOMAIN listed
      BY <2>2, <3>1
    <3>3. n \in 1..Len(listed) /\ Len(listed) \in Nat
      BY <2>1, <3>2
    <3>4. PICK front \in Seq(EntityKeys) :
            /\ front = SubSeq(listed, 1, n - 1) /\ Len(front) = n - 1
            /\ \A i \in 1..(n - 1) : front[i] = listed[i]
      <4>1. 1 \in 1..(Len(listed) + 1) /\ n - 1 \in 0..Len(listed) /\ 1 <= (n - 1) + 1
            /\ (n - 1) + 1 - 1 = n - 1
        BY <3>3
      <4>2. /\ SubSeq(listed, 1, n - 1) \in Seq(EntityKeys)
            /\ Len(SubSeq(listed, 1, n - 1)) = (n - 1) + 1 - 1
            /\ \A i \in 1..((n - 1) + 1 - 1) : SubSeq(listed, 1, n - 1)[i] = listed[1 + i - 1]
        BY <2>1, <4>1, PieceOfList
      <4>3. \A i \in 1..(n - 1) : 1 + i - 1 = i
        OBVIOUS
      <4> QED BY <4>1, <4>2, <4>3
    <3>5. PICK back \in Seq(EntityKeys) :
            /\ back = SubSeq(listed, n + 1, Len(listed)) /\ Len(back) = Len(listed) - n
            /\ \A i \in 1..(Len(listed) - n) : back[i] = listed[n + i]
      <4>1. n + 1 \in 1..(Len(listed) + 1) /\ Len(listed) \in 0..Len(listed) /\ n + 1 <= Len(listed) + 1
            /\ Len(listed) + 1 - (n + 1) = Len(listed) - n
        BY <3>3
      <4>2. /\ SubSeq(listed, n + 1, Len(listed)) \in Seq(EntityKeys)
            /\ Len(SubSeq(listed, n + 1, Len(listed))) = Len(listed) + 1 - (n + 1)
            /\ \A i \in 1..(Len(listed) + 1 - (n + 1)) :
                 SubSeq(listed, n + 1, Len(listed))[i] = listed[(n + 1) + i - 1]
        BY <2>1, <4>1, PieceOfList
      <4>3. PICK b : b = SubSeq(listed, n + 1, Len(listed))
        OBVIOUS
      <4>4. ASSUME NEW i \in 1..(Len(listed) - n) PROVE b[i] = listed[n + i]
        <5>1. (n + 1) + i - 1 = n + i /\ i \in 1..(Len(listed) + 1 - (n + 1))
          BY <3>3
        <5>2. b[i] = listed[(n + 1) + i - 1]
          BY <4>2, <4>3, <5>1
        <5> QED BY <5>1, <5>2
      <4>5. b \in Seq(EntityKeys) /\ Len(b) = Len(listed) - n
        BY <4>1, <4>2, <4>3
      <4> QED BY <4>3, <4>4, <4>5
    <3>6. PICK s \in Seq(EntityKeys) : s = front \o back
      BY ConcatProperties
    <3>7. Len(s) = Len(front) + Len(back) /\ \A i \in 1..Len(s) :
            s[i] = IF i <= Len(front) THEN front[i] ELSE back[i - Len(front)]
      BY <3>6, ConcatProperties
    <3>8. ASSUME NEW i \in DOMAIN s PROVE \E j \in DOMAIN listed : s[i] = listed[j]
      <4>1. i \in 1..Len(s) /\ i \in Nat /\ Len(s) = Len(listed) - 1
        <5>1. i \in 1..Len(s)
          OBVIOUS
        <5>2. Len(s) = (n - 1) + (Len(listed) - n)
          BY <3>4, <3>5, <3>7
        <5> QED BY <3>3, <5>1, <5>2
      <4>2. CASE i <= n - 1
        <5>1. s[i] = listed[i] /\ i \in DOMAIN listed
          BY <3>3, <3>4, <3>7, <4>1, <4>2
        <5> QED BY <5>1
      <4>3. CASE ~(i <= n - 1)
        <5>1. i - (n - 1) \in 1..(Len(listed) - n) /\ n + (i - (n - 1)) = i + 1 /\ i + 1 \in DOMAIN listed
          BY <3>3, <4>1, <4>3
        <5>2. s[i] = back[i - (n - 1)]
          BY <3>4, <3>7, <4>1, <4>3
        <5>3. back[i - (n - 1)] = listed[i + 1]
          BY <3>5, <5>1
        <5> QED BY <5>1, <5>2, <5>3
      <4> QED BY <4>2, <4>3
    <3>9. Others(key) = s
      BY <2>2, <3>1, <3>4, <3>5, <3>6 DEF Others, RemoveAt
    <3> QED BY <2>2, <3>8, <3>9
  <2>3. CASE ~ \E i \in DOMAIN listed : listed[i] = key
    BY <2>1, <2>3 DEF Others
  <2> QED BY <2>2, <2>3
<1>7. PICK more \in Seq(EntityKeys) : more = Append(others, key)
  BY <1>3, AppendProperties
<1>8. /\ Len(more) = Len(others) + 1 /\ more[Len(others) + 1] = key
      /\ \A i \in 1..Len(others) : more[i] = others[i]
      /\ DOMAIN others = 1..Len(others) /\ DOMAIN more = 1..(Len(others) + 1) /\ Len(others) \in Nat
  BY <1>3, <1>7, AppendProperties
<1>9. listed' = more
  BY <1>1, <1>6, <1>7
<1>10. OrgTypes'
  <2>1. ASSUME NEW i \in DOMAIN more PROVE entity'[more[i]] # Missing
    <3>1. CASE more[i] = key
      BY <1>4, <1>5, <3>1
    <3>2. CASE more[i] # key
      <4>1. i \in 1..Len(others)
        BY <1>8, <3>2
      <4>2. PICK j \in DOMAIN listed : more[i] = listed[j]
        BY <1>6, <1>8, <4>1
      <4>3. listed[j] \in EntityKeys /\ entity[listed[j]] # Missing
        BY <1>2 DEF OrgTypes
      <4> QED BY <1>5, <3>2, <4>2, <4>3
    <3> QED BY <3>1, <3>2
  <2>2. doubled' \in BOOLEAN
    BY <1>1
  <2> QED
    BY <1>1, <1>2, <1>5, <1>9, <2>1, <2>2 DEF OrgTypes
<1>11. SUFFICES ASSUME TRUE PROVE EntitiesFit' /\ CopiesFit' /\ GraphsClosed' /\ LinksFit'
  BY <1>10 DEF OrgInv
<1>12. LinksFit'
  BY <1>1 DEF OrgInv, LinksFit
<1>13. GraphsClosed'
  BY <1>1 DEF OrgInv, GraphsClosed, Awaited
<1>14. CASE doubled'
  BY <1>12, <1>13, <1>14 DEF EntitiesFit, CopiesFit
<1>15. CASE ~doubled'
  <2>1. ~doubled /\ entity[key] = Missing
    BY <1>1, <1>15
  <2>2. \A i \in DOMAIN listed : listed[i] # key
    BY <1>2, <2>1 DEF OrgTypes
  <2>3. others = listed
    BY <1>6, <2>2
  <2>4. /\ \A i, j \in DOMAIN listed : listed[i] = listed[j] => i = j
        /\ \A k \in EntityKeys : entity[k] # Missing => \E i \in DOMAIN listed : listed[i] = k
        /\ \A i \in DOMAIN listed :
             IF entity[listed[i]] = Top THEN listed[i][1] = "COMPANY"
             ELSE \E j \in 1..(i - 1) : listed[j] = entity[listed[i]]
    BY <2>1 DEF OrgInv, EntitiesFit
  <2>5. EntitiesFit'
    <3>0. \A i \in DOMAIN more : IF i \in DOMAIN listed THEN more[i] = listed[i]
                                 ELSE i = Len(others) + 1 /\ more[i] = key
      <4>1. TAKE i \in DOMAIN more
      <4>2. i \in 1..Len(others) \/ i = Len(others) + 1
        BY <1>8, <4>1
      <4>3. DOMAIN listed = 1..Len(others) /\ Len(others) + 1 \notin 1..Len(others)
        BY <1>8, <2>3
      <4> QED BY <1>8, <2>3, <4>2, <4>3
    <3>1. \A i, j \in DOMAIN more : more[i] = more[j] => i = j
      <4>1. TAKE i, j \in DOMAIN more
      <4>2. CASE i \in DOMAIN listed /\ j \in DOMAIN listed
        BY <2>4, <3>0, <4>2
      <4>3. CASE i \in DOMAIN listed /\ j \notin DOMAIN listed
        BY <2>2, <3>0, <4>3
      <4>4. CASE i \notin DOMAIN listed /\ j \in DOMAIN listed
        BY <2>2, <3>0, <4>4
      <4>5. CASE i \notin DOMAIN listed /\ j \notin DOMAIN listed
        BY <3>0, <4>5
      <4> QED BY <4>2, <4>3, <4>4, <4>5
    <3>2. ASSUME NEW k \in EntityKeys, entity'[k] # Missing PROVE \E i \in DOMAIN more : more[i] = k
      <4>1. CASE k = key
        BY <1>8, <4>1
      <4>2. CASE k # key
        <5>1. PICK i \in DOMAIN listed : listed[i] = k
          BY <1>5, <2>4, <3>2, <4>2
        <5> QED BY <1>8, <2>3, <5>1
      <4> QED BY <4>1, <4>2
    <3>3. ASSUME NEW i \in DOMAIN more
          PROVE  IF entity'[more[i]] = Top THEN more[i][1] = "COMPANY"
                 ELSE \E j \in 1..(i - 1) : more[j] = entity'[more[i]]
      <4>1. CASE more[i] = key
        <5>1. i = Len(others) + 1
          BY <2>2, <3>0, <4>1
        <5>2. CASE up = Top
          BY <1>1, <1>3, <1>5, <4>1, <5>2
        <5>3. CASE up # Top
          <6>1. PICK j \in DOMAIN listed : listed[j] = up
            BY <1>1, <2>4, <5>3
          <6>2. j \in 1..(i - 1) /\ more[j] = up
            BY <1>8, <2>3, <5>1, <6>1
          <6> QED BY <1>5, <4>1, <5>3, <6>2
        <5> QED BY <5>2, <5>3
      <4>2. CASE more[i] # key
        <5>1. i \in DOMAIN listed /\ more[i] = listed[i] /\ i \in 1..Len(others)
          BY <1>8, <2>3, <4>2
        <5>2. entity'[more[i]] = entity[listed[i]]
          <6>1. listed[i] \in EntityKeys
            BY <1>2, <5>1 DEF OrgTypes
          <6> QED BY <1>5, <4>2, <5>1, <6>1
        <5>3. CASE entity[listed[i]] = Top
          BY <2>4, <5>1, <5>2, <5>3
        <5>4. CASE entity[listed[i]] # Top
          <6>1. PICK j \in 1..(i - 1) : listed[j] = entity[listed[i]]
            BY <2>4, <5>1, <5>4
          <6>2. j \in 1..Len(others)
            BY <1>8, <5>1, <6>1
          <6>3. more[j] = listed[j]
            BY <1>8, <2>3, <6>2
          <6> QED BY <5>2, <5>4, <6>1, <6>3
        <5> QED BY <5>3, <5>4
      <4> QED BY <4>1, <4>2
    <3> QED BY <1>9, <3>1, <3>2, <3>3 DEF EntitiesFit
  <2>6. ASSUME NEW g \in Graphed, AsListed(g)
        PROVE  \A x \in NodeKeys : g[x] # Missing => g[x] = IF x \in EntityKeys THEN entity'[x] ELSE Top
    <3>1. TAKE x \in NodeKeys
    <3>2. HAVE g[x] # Missing
    <3>3. g[x] = IF x \in EntityKeys THEN entity[x] ELSE Top
      BY <2>6, <3>2 DEF AsListed
    <3>4. x \in EntityKeys => x # key
      BY <2>1, <3>2, <3>3
    <3> QED BY <1>5, <3>3, <3>4
  <2>7. CopiesFit'
    <3>1. /\ AsListed(gnode) /\ \A s \in snapshot : AsListed(s.nodes)
          /\ \A t \in Threads : thread[t].at = "edges" => AsListed(thread[t].nodes)
          /\ \A t \in Threads : thread[t].at = "sync" =>
               \A i \in DOMAIN thread[t].todo : thread[t].todo[i][2] = entity[thread[t].todo[i][1]]
      BY <2>1 DEF OrgInv, CopiesFit
    <3>2. gnode \in Graphed /\ \A s \in snapshot : s.nodes \in Graphed
      BY <1>2 DEF OrgTypes
    <3>3. \A t \in Threads : thread[t].at = "edges" => thread[t].nodes \in Graphed
      BY <1>2, WorkIs DEF Snapping
    <3>4. ASSUME NEW t \in Threads, thread[t].at = "sync", NEW i \in DOMAIN thread[t].todo
          PROVE  thread[t].todo[i][2] = entity'[thread[t].todo[i][1]]
      <4>1. PICK p \in EntityKeys \X (EntityKeys \cup {Top}) : p = thread[t].todo[i]
        <5>1. thread[t].todo \in Seq(EntityKeys \X (EntityKeys \cup {Top}))
          BY <1>2, <3>4, WorkIs DEF Syncing
        <5> QED BY <3>4, <5>1
      <4>2. p[2] = entity[p[1]] /\ p[2] # Missing /\ p[1] \in EntityKeys
        BY <3>1, <3>4, <4>1, KeysAre
      <4>3. p[1] # key
        BY <2>1, <4>2
      <4> QED BY <1>5, <4>1, <4>2, <4>3
    <3>5. (\A x \in NodeKeys : gnode[x] # Missing => gnode[x] = IF x \in EntityKeys THEN entity'[x] ELSE Top)
      BY <2>6, <3>1, <3>2
    <3>6. \A s \in snapshot : \A x \in NodeKeys :
            s.nodes[x] # Missing => s.nodes[x] = IF x \in EntityKeys THEN entity'[x] ELSE Top
      BY <2>6, <3>1, <3>2
    <3>7. \A t \in Threads : thread[t].at = "edges" => \A x \in NodeKeys :
            thread[t].nodes[x] # Missing => thread[t].nodes[x] = IF x \in EntityKeys THEN entity'[x] ELSE Top
      BY <2>6, <3>1, <3>3
    <3> QED BY <1>1, <3>4, <3>5, <3>6, <3>7 DEF CopiesFit, AsListed
  <2> QED BY <1>12, <1>13, <2>5, <2>7
<1> QED BY <1>14, <1>15

(* A thread takes up or puts down work, and nothing else is written.       *)
LEMMA WorkStep ==
  ASSUME OrgInv, NEW t \in Threads, NEW w \in {AtRest} \cup Syncing \cup Linking \cup Snapping,
         thread' = [thread EXCEPT ![t] = w],
         UNCHANGED <<moment, entity, listed, gnode, gedge, snapshot, doubled, mixed, torn>>,
         w.at = "edges" => w.nodes = gnode,
         w.at = "sync" /\ ~doubled =>
           \A i \in DOMAIN w.todo : w.todo[i][2] = entity[w.todo[i][1]],
         w.at = "sync" /\ ~doubled /\ ~mixed => Awaited(w.todo),
         w.at # "edge"
  PROVE  OrgInv'
<1>1. OrgTypes /\ EntitiesFit /\ CopiesFit /\ GraphsClosed /\ LinksFit
  BY DEF OrgInv
<1>2. thread'[t] = w /\ \A u \in Threads : u # t => thread'[u] = thread[u]
  BY <1>1 DEF OrgTypes
<1>3. OrgTypes'
  BY <1>1 DEF OrgTypes
<1>4. EntitiesFit'
  BY RowsStay
<1>5. CopiesFit'
  <2>1. CASE doubled
    BY <2>1 DEF CopiesFit
  <2>2. CASE ~doubled
    <3>1. /\ AsListed(gnode) /\ \A s \in snapshot : AsListed(s.nodes)
          /\ \A u \in Threads : thread[u].at = "edges" => AsListed(thread[u].nodes)
          /\ \A u \in Threads : thread[u].at = "sync" =>
               \A i \in DOMAIN thread[u].todo : thread[u].todo[i][2] = entity[thread[u].todo[i][1]]
      BY <1>1, <2>2 DEF CopiesFit
    <3>2. AsListed(gnode)' /\ \A s \in snapshot : AsListed(s.nodes)'
      BY <3>1 DEF AsListed
    <3>3. \A u \in Threads : thread'[u].at = "edges" => AsListed(thread[u].nodes)'
      <4>1. TAKE u \in Threads
      <4>2. CASE u = t
        BY <1>2, <3>1, <4>2 DEF AsListed
      <4>3. CASE u # t
        BY <1>2, <3>1, <4>3 DEF AsListed
      <4> QED BY <4>2, <4>3
    <3>4. \A u \in Threads : thread'[u].at = "sync" =>
            \A i \in DOMAIN thread'[u].todo : thread'[u].todo[i][2] = entity[thread'[u].todo[i][1]]
      <4>1. TAKE u \in Threads
      <4>2. CASE u = t
        BY <1>2, <2>2, <4>2
      <4>3. CASE u # t
        BY <1>2, <3>1, <4>3
      <4> QED BY <4>2, <4>3
    <3> QED BY <3>2, <3>3, <3>4 DEF CopiesFit
  <2> QED BY <2>1, <2>2
<1>6. GraphsClosed'
  <2>1. CASE doubled \/ mixed
    BY <2>1 DEF GraphsClosed
  <2>2. CASE ~doubled /\ ~mixed
    <3>1. /\ Closed(gnode) /\ \A s \in snapshot : Closed(s.nodes)
          /\ \A u \in Threads : thread[u].at = "edges" => Closed(thread[u].nodes)
          /\ \A u \in Threads : thread[u].at = "sync" => Awaited(thread[u].todo)
      BY <1>1, <2>2 DEF GraphsClosed
    <3>2. Closed(gnode)' /\ \A s \in snapshot : Closed(s.nodes)'
      BY <3>1 DEF Closed
    <3>3. \A u \in Threads : thread'[u].at = "edges" => Closed(thread[u].nodes)'
      <4>1. TAKE u \in Threads
      <4>2. CASE u = t
        BY <1>2, <3>1, <4>2 DEF Closed
      <4>3. CASE u # t
        BY <1>2, <3>1, <4>3 DEF Closed
      <4> QED BY <4>2, <4>3
    <3>4. \A u \in Threads : thread'[u].at = "sync" => Awaited(thread[u].todo)'
      <4>1. TAKE u \in Threads
      <4>2. CASE u = t
        BY <1>2, <2>2, <4>2 DEF Awaited
      <4>3. CASE u # t
        BY <1>2, <3>1, <4>3 DEF Awaited
      <4> QED BY <4>2, <4>3
    <3> QED BY <3>2, <3>3, <3>4 DEF GraphsClosed
  <2> QED BY <2>1, <2>2
<1>7. LinksFit'
  BY <1>1, <1>2 DEF LinksFit, EndIn
<1> QED
  BY <1>3, <1>4, <1>5, <1>6, <1>7 DEF OrgInv

(* A row is written to the graph: it fits, its parent is there, and what   *)
(* waits for it waits no longer.                                           *)
LEMMA WriteStep ==
  ASSUME OrgInv, NEW t \in Threads, NEW k \in NodeKeys, NEW v \in EntityKeys \cup {Top},
         NEW w \in {AtRest} \cup Syncing \cup Linking,
         gnode' = [gnode EXCEPT ![k] = v], thread' = [thread EXCEPT ![t] = w],
         torn' = (torn \/ BetweenReads),
         UNCHANGED <<moment, entity, listed, gedge, snapshot, doubled, mixed>>,
         ~doubled => v = IF k \in EntityKeys THEN entity[k] ELSE Top,
         ~doubled /\ ~mixed /\ v \in NodeKeys => gnode[v] # Missing,
         w.at = "sync" /\ ~doubled =>
           \A i \in DOMAIN w.todo : w.todo[i][2] = entity[w.todo[i][1]],
         w.at = "sync" /\ ~doubled /\ ~mixed =>
           \A i \in DOMAIN w.todo : w.todo[i][2] \in NodeKeys =>
             gnode'[w.todo[i][2]] # Missing \/ \E j \in 1..(i - 1) : w.todo[j][1] = w.todo[i][2],
         w.at = "edge" /\ ~mixed => gnode'[w.key] # Missing
  PROVE  OrgInv'
<1>1. OrgTypes /\ EntitiesFit /\ CopiesFit /\ GraphsClosed /\ LinksFit
  BY DEF OrgInv
<1>2. thread'[t] = w /\ \A u \in Threads : u # t => thread'[u] = thread[u]
  BY <1>1 DEF OrgTypes
<1>3. /\ v # Missing /\ v \in Parents /\ w.at # "edges"
      /\ gnode'[k] = v /\ \A x \in NodeKeys : x # k => gnode'[x] = gnode[x]
  BY <1>1, KeysAre DEF OrgTypes, Parents, Graphed, AtRest, Syncing, Linking
<1>4. \A x \in NodeKeys : gnode[x] # Missing => gnode'[x] # Missing
  BY <1>3
<1>5. OrgTypes'
  <2>1. gnode' \in Graphed /\ torn' \in BOOLEAN
    BY <1>1, <1>3 DEF OrgTypes, Graphed
  <2>2. thread' \in [Threads -> {AtRest} \cup Syncing \cup Linking \cup Snapping]
    BY <1>1 DEF OrgTypes
  <2> QED
    BY <1>1, <2>1, <2>2 DEF OrgTypes
<1>6. EntitiesFit'
  BY RowsStay
<1>7. CopiesFit'
  <2>1. CASE doubled
    BY <2>1 DEF CopiesFit
  <2>2. CASE ~doubled
    <3>1. /\ AsListed(gnode) /\ \A s \in snapshot : AsListed(s.nodes)
          /\ \A u \in Threads : thread[u].at = "edges" => AsListed(thread[u].nodes)
          /\ \A u \in Threads : thread[u].at = "sync" =>
               \A i \in DOMAIN thread[u].todo : thread[u].todo[i][2] = entity[thread[u].todo[i][1]]
      BY <1>1, <2>2 DEF CopiesFit
    <3>2. \A s \in snapshot : AsListed(s.nodes)'
      BY <3>1 DEF AsListed
    <3>3. \A x \in NodeKeys : gnode'[x] # Missing => gnode'[x] = IF x \in EntityKeys THEN entity[x] ELSE Top
      <4>1. TAKE x \in NodeKeys
      <4>2. CASE x = k
        BY <1>3, <2>2, <4>2
      <4>3. CASE x # k
        BY <1>3, <3>1, <4>3 DEF AsListed
      <4> QED BY <4>2, <4>3
    <3>4. \A u \in Threads : thread'[u].at = "edges" => AsListed(thread[u].nodes)'
      BY <1>2, <1>3, <3>1 DEF AsListed
    <3>5. \A u \in Threads : thread'[u].at = "sync" =>
            \A i \in DOMAIN thread'[u].todo : thread'[u].todo[i][2] = entity[thread'[u].todo[i][1]]
      <4>1. TAKE u \in Threads
      <4>2. CASE u = t
        BY <1>2, <2>2, <4>2
      <4>3. CASE u # t
        BY <1>2, <3>1, <4>3
      <4> QED BY <4>2, <4>3
    <3>6. AsListed(gnode)'
      BY <3>3 DEF AsListed
    <3>7. \A u \in Threads : thread'[u].at = "edges" => thread'[u] = thread[u]
      BY <1>2, <1>3
    <3> QED BY <3>2, <3>4, <3>5, <3>6, <3>7 DEF CopiesFit
  <2> QED BY <2>1, <2>2
<1>8. GraphsClosed'
  <2>1. CASE doubled \/ mixed
    BY <2>1 DEF GraphsClosed
  <2>2. CASE ~doubled /\ ~mixed
    <3>1. /\ Closed(gnode) /\ \A s \in snapshot : Closed(s.nodes)
          /\ \A u \in Threads : thread[u].at = "edges" => Closed(thread[u].nodes)
          /\ \A u \in Threads : thread[u].at = "sync" => Awaited(thread[u].todo)
      BY <1>1, <2>2 DEF GraphsClosed
    <3>2. \A s \in snapshot : Closed(s.nodes)'
      BY <3>1 DEF Closed
    <3>3. \A x \in NodeKeys : gnode'[x] \in NodeKeys => gnode'[gnode'[x]] # Missing
      <4>1. TAKE x \in NodeKeys
      <4>2. CASE x = k
        BY <1>3, <1>4, <2>2, <4>2
      <4>3. CASE x # k
        BY <1>3, <1>4, <3>1, <4>3 DEF Closed
      <4> QED BY <4>2, <4>3
    <3>4. \A u \in Threads : thread'[u].at = "edges" => Closed(thread[u].nodes)' /\ thread'[u] = thread[u]
      BY <1>2, <1>3, <3>1 DEF Closed
    <3>5. \A u \in Threads : thread'[u].at = "sync" =>
            \A i \in DOMAIN thread'[u].todo : thread'[u].todo[i][2] \in NodeKeys =>
              \/ gnode'[thread'[u].todo[i][2]] # Missing
              \/ \E j \in 1..(i - 1) : thread'[u].todo[j][1] = thread'[u].todo[i][2]
      <4>1. TAKE u \in Threads
      <4>2. CASE u = t
        BY <1>2, <2>2, <4>2
      <4>3. CASE u # t
        BY <1>2, <1>4, <3>1, <4>3 DEF Awaited
      <4> QED BY <4>2, <4>3
    <3>6. Closed(gnode)'
      BY <3>3 DEF Closed
    <3> QED BY <3>2, <3>4, <3>5, <3>6 DEF GraphsClosed, Awaited
  <2> QED BY <2>1, <2>2
<1>9. LinksFit'
  <2>1. ~mixed => \A u \in Threads : thread'[u].at = "edge" => gnode'[thread'[u].key] # Missing
    <3>1. SUFFICES ASSUME ~mixed, NEW u \in Threads, thread'[u].at = "edge"
                   PROVE  gnode'[thread'[u].key] # Missing
      OBVIOUS
    <3>2. CASE u = t
      BY <1>2, <3>1, <3>2
    <3>3. CASE u # t
      <4>1. thread[u].at = "edge" /\ thread'[u] = thread[u] /\ gnode[thread[u].key] # Missing
        BY <1>1, <1>2, <3>1, <3>3 DEF LinksFit
      <4>2. thread[u].key \in NodeKeys
        BY <1>1, <4>1, WorkIs DEF Linking, NodeKeys
      <4> QED BY <1>4, <4>1, <4>2
    <3> QED BY <3>2, <3>3
  <2>2. ~torn' => \A u \in Threads : thread'[u].at # "edges"
    BY <1>2, <1>3 DEF BetweenReads
  <2>3. ~torn' /\ ~mixed => EndIn(gedge, gnode)' /\ \A s \in snapshot : EndIn(s.edges, s.nodes)
    <3>1. SUFFICES ASSUME ~torn', ~mixed
                   PROVE  EndIn(gedge, gnode)' /\ \A s \in snapshot : EndIn(s.edges, s.nodes)
      OBVIOUS
    <3>2. EndIn(gedge, gnode) /\ \A s \in snapshot : EndIn(s.edges, s.nodes)
      BY <1>1, <3>1 DEF LinksFit
    <3>3. \A e \in gedge : e[1] \in NodeKeys /\ e[2] \in NodeKeys
      BY <1>1 DEF OrgTypes, Links
    <3> QED BY <1>4, <3>2, <3>3 DEF EndIn
  <2> QED BY <2>1, <2>2, <2>3 DEF LinksFit, EndIn
<1> QED
  BY <1>5, <1>6, <1>7, <1>8, <1>9 DEF OrgInv

(* A sync that begins has each parent before its children.                 *)
LEMMA BeginSyncStep == ASSUME OrgInv, NEW t \in Threads, BeginSync(t) PROVE OrgInv'
<1>1. PICK todo : todo = [i \in DOMAIN listed |-> <<listed[i], entity[listed[i]]>>]
  OBVIOUS
<1>2. PICK w : w = [at |-> "sync", todo |-> todo]
  OBVIOUS
<1>3. /\ listed # << >> /\ thread' = [thread EXCEPT ![t] = w]
      /\ UNCHANGED <<moment, entity, listed, gnode, gedge, snapshot, doubled, mixed, torn>>
  BY <1>1, <1>2 DEF BeginSync, Takes
<1>4. OrgTypes /\ EntitiesFit
  BY DEF OrgInv
<1>5. listed \in Seq(EntityKeys) /\ DOMAIN listed = 1..Len(listed) /\ Len(listed) \in Nat
  BY <1>4 DEF OrgTypes
<1>6. ASSUME NEW i \in DOMAIN listed
      PROVE  /\ todo[i] = <<listed[i], entity[listed[i]]>> /\ listed[i] \in EntityKeys
             /\ todo[i][1] = listed[i] /\ todo[i][2] = entity[listed[i]]
             /\ todo[i] \in EntityKeys \X (EntityKeys \cup {Top})
  <2>1. todo[i] = <<listed[i], entity[listed[i]]>> /\ listed[i] \in EntityKeys
    BY <1>1, <1>5
  <2>2. entity[listed[i]] \in EntityKeys \cup {Top}
    BY <1>4, <2>1 DEF OrgTypes, Parents
  <2> QED BY <2>1, <2>2
<1>7. todo \in Seq(EntityKeys \X (EntityKeys \cup {Top})) /\ todo # << >> /\ DOMAIN todo = DOMAIN listed
  <2>1. todo \in [1..Len(listed) -> EntityKeys \X (EntityKeys \cup {Top})]
    BY <1>1, <1>5, <1>6
  <2>2. todo \in Seq(EntityKeys \X (EntityKeys \cup {Top})) /\ Len(todo) = Len(listed)
    BY <1>5, <2>1
  <2>3. Len(listed) # 0
    BY <1>3, <1>5, EmptySeq
  <2> QED BY <1>1, <2>2, <2>3
<1>8. w \in Syncing /\ w.at = "sync" /\ w.todo = todo
  BY <1>2, <1>7 DEF Syncing
<1>9. \A i \in DOMAIN todo : todo[i][2] = entity[todo[i][1]]
  BY <1>6, <1>7
<1>10. ASSUME ~doubled PROVE Awaited(todo)
  <2>1. SUFFICES ASSUME NEW i \in DOMAIN todo, todo[i][2] \in NodeKeys
                 PROVE  \E j \in 1..(i - 1) : todo[j][1] = todo[i][2]
    BY DEF Awaited
  <2>2. i \in DOMAIN listed /\ entity[listed[i]] # Top /\ todo[i][2] = entity[listed[i]]
    BY <1>6, <1>7, <2>1, KeysAre
  <2>3. PICK j \in 1..(i - 1) : listed[j] = entity[listed[i]]
    BY <1>4, <1>10, <2>2 DEF EntitiesFit
  <2>4. j \in DOMAIN listed
    BY <1>5, <2>2, <2>3
  <2> QED BY <1>6, <2>2, <2>3, <2>4
<1> QED
  BY <1>3, <1>8, <1>9, <1>10, WorkStep

(* A sync saves the first of what it has yet to save.                      *)
LEMMA SyncOneStep == ASSUME OrgInv, NEW t \in Threads, SyncOne(t) PROVE OrgInv'
<1> DEFINE Pairs == EntityKeys \X (EntityKeys \cup {Top})
<1>1. PICK todo : todo = thread[t].todo
  OBVIOUS
<1>2. OrgTypes /\ CopiesFit /\ GraphsClosed
  BY DEF OrgInv
<1>3. thread[t].at = "sync" /\ thread[t] = [at |-> "sync", todo |-> todo] /\ todo \in Seq(Pairs) /\ todo # << >>
  <2>1. thread[t].at = "sync"
    BY DEF SyncOne
  <2> QED BY <1>1, <1>2, <2>1, WorkIs DEF Syncing
<1>4. PICK pair \in Pairs : pair = Head(todo) /\ pair = todo[1] /\ 1 \in DOMAIN todo
  <2>1. Len(todo) \in Nat /\ Len(todo) # 0
    BY <1>3, EmptySeq
  <2>2. Head(todo) = todo[1] /\ 1 \in 1..Len(todo)
    BY <1>3, <2>1
  <2> QED BY <1>3, <2>2
<1>5. PICK k \in EntityKeys, v \in EntityKeys \cup {Top} : k = pair[1] /\ v = pair[2]
  BY <1>4
<1>6. PICK rest \in Seq(Pairs) :
        rest = Tail(todo) /\ Len(rest) = Len(todo) - 1 /\ \A i \in 1..Len(rest) : rest[i] = todo[i + 1]
  <2>1. PICK rest : rest = Tail(todo)
    OBVIOUS
  <2>2. \A S : \A s \in Seq(S) : s # << >> =>
          /\ Tail(s) \in Seq(S) /\ Len(Tail(s)) = Len(s) - 1
          /\ \A i \in 1..Len(Tail(s)) : Tail(s)[i] = s[i + 1]
    BY HeadTailProperties
  <2>3. rest \in Seq(Pairs) /\ Len(rest) = Len(todo) - 1 /\ \A i \in 1..Len(rest) : rest[i] = todo[i + 1]
    BY <1>3, <2>1, <2>2, Zenon
  <2> QED BY <2>1, <2>3
<1>7. PICK w : w = IF Len(todo) = 1 THEN AtRest ELSE [at |-> "sync", todo |-> rest]
  OBVIOUS
<1>8. /\ gnode' = [gnode EXCEPT ![k] = v] /\ torn' = (torn \/ BetweenReads)
      /\ thread' = [thread EXCEPT ![t] = w]
      /\ UNCHANGED <<moment, entity, listed, gedge, snapshot, doubled, mixed>>
  <2>1. [thread[t] EXCEPT !.todo = Tail(@)] = [at |-> "sync", todo |-> rest]
    <3>1. PICK r : r = thread[t]
      OBVIOUS
    <3>2. r = [at |-> "sync", todo |-> todo] /\ rest = Tail(todo)
      BY <1>3, <1>6, <3>1
    <3>3. r.todo = todo /\ Tail(r.todo) = rest
      BY <3>2
    <3>4. [r EXCEPT !.todo = rest] = [at |-> "sync", todo |-> rest]
      <4>1. r \in [at: {"sync"}, todo: Seq(Pairs)] /\ rest \in Seq(Pairs)
        BY <1>3, <1>6, <3>2
      <4> HIDE DEF Pairs
      <4> QED BY <4>1
    <3>5. [r EXCEPT !.todo = Tail(@)] = [r EXCEPT !.todo = rest]
      BY <3>3, Zenon
    <3> QED BY <3>1, <3>4, <3>5
  <2> QED
    BY <1>1, <1>4, <1>5, <1>7, <2>1 DEF SyncOne, Turns
<1>9. /\ w \in {AtRest} \cup Syncing /\ w.at # "edge" /\ (w.at = "sync" => w.todo = rest)
      /\ k \in NodeKeys /\ v # Missing
  <2>1. CASE Len(todo) = 1
    <3>1. w = AtRest /\ w.at = "rest"
      BY <1>7, <2>1 DEF AtRest
    <3> QED BY <3>1, KeysAre
  <2>2. CASE Len(todo) # 1
    <3>1. Len(rest) # 0 /\ rest # << >>
      <4>1. Len(todo) \in Nat /\ Len(rest) = Len(todo) - 1
        BY <1>3, <1>6
      <4>2. Len(rest) # 0
        BY <2>2, <4>1
      <4>3. Len(<< >>) = 0
        OBVIOUS
      <4> QED BY <4>2, <4>3
    <3>2. w = [at |-> "sync", todo |-> rest] /\ w.at = "sync" /\ w.todo = rest
      BY <1>7, <2>2
    <3> QED BY <3>1, <3>2, KeysAre DEF Syncing
  <2> QED BY <2>1, <2>2
<1>10. gnode'[k] = v /\ \A x \in NodeKeys : gnode[x] # Missing => gnode'[x] # Missing
  BY <1>2, <1>8, <1>9 DEF OrgTypes, Graphed
<1>11. Len(todo) \in Nat /\ \A i \in DOMAIN rest : i \in 1..Len(rest) /\ i + 1 \in DOMAIN todo /\ rest[i] = todo[i + 1]
  <2>1. DOMAIN todo = 1..Len(todo) /\ Len(todo) \in Nat /\ DOMAIN rest = 1..Len(rest)
    BY <1>3, <1>6
  <2> QED BY <1>6, <2>1
<1>12. ASSUME ~doubled
       PROVE  v = entity[k] /\ \A i \in DOMAIN rest : rest[i][2] = entity[rest[i][1]]
  <2>1. \A i \in DOMAIN todo : todo[i][2] = entity[todo[i][1]]
    BY <1>1, <1>2, <1>3, <1>12 DEF CopiesFit
  <2> QED BY <1>4, <1>5, <1>11, <2>1
<1>13. ASSUME ~doubled, ~mixed
       PROVE  /\ v \in NodeKeys => gnode[v] # Missing
              /\ \A i \in DOMAIN rest : rest[i][2] \in NodeKeys =>
                   gnode'[rest[i][2]] # Missing \/ \E j \in 1..(i - 1) : rest[j][1] = rest[i][2]
  <2>1. \A i \in DOMAIN todo : todo[i][2] \in NodeKeys =>
          gnode[todo[i][2]] # Missing \/ \E j \in 1..(i - 1) : todo[j][1] = todo[i][2]
    BY <1>1, <1>2, <1>3, <1>13 DEF GraphsClosed, Awaited
  <2>2. v \in NodeKeys => gnode[v] # Missing
    <3>1. ~ \E j \in 1..(1 - 1) : TRUE
      OBVIOUS
    <3> QED BY <1>4, <1>5, <2>1, <3>1
  <2>3. ASSUME NEW i \in DOMAIN rest, rest[i][2] \in NodeKeys, gnode'[rest[i][2]] = Missing
        PROVE  \E j \in 1..(i - 1) : rest[j][1] = rest[i][2]
    <3>1. i + 1 \in DOMAIN todo /\ rest[i] = todo[i + 1] /\ i \in 1..Len(rest) /\ Len(rest) \in Nat
      BY <1>6, <1>11
    <3>2. PICK j \in 1..(i + 1 - 1) : todo[j][1] = rest[i][2]
      BY <1>10, <2>1, <2>3, <3>1
    <3>3. j # 1
      BY <1>4, <1>5, <1>9, <1>10, <2>3, <3>2
    <3>4. j - 1 \in 1..(i - 1) /\ j - 1 \in 1..Len(rest) /\ (j - 1) + 1 = j
      BY <3>1, <3>2, <3>3
    <3>5. rest[j - 1] = todo[j]
      BY <1>6, <3>4
    <3> QED BY <3>2, <3>4, <3>5
  <2> QED BY <2>2, <2>3
<1>14. ~doubled => v = IF k \in EntityKeys THEN entity[k] ELSE Top
  BY <1>12
<1>15. w.at = "sync" /\ ~doubled => \A i \in DOMAIN w.todo : w.todo[i][2] = entity[w.todo[i][1]]
  BY <1>9, <1>12
<1>16. w.at = "sync" /\ ~doubled /\ ~mixed =>
         \A i \in DOMAIN w.todo : w.todo[i][2] \in NodeKeys =>
           gnode'[w.todo[i][2]] # Missing \/ \E j \in 1..(i - 1) : w.todo[j][1] = w.todo[i][2]
  <2>1. SUFFICES ASSUME w.at = "sync", ~doubled, ~mixed
                 PROVE  \A i \in DOMAIN w.todo : w.todo[i][2] \in NodeKeys =>
                          gnode'[w.todo[i][2]] # Missing \/ \E j \in 1..(i - 1) : w.todo[j][1] = w.todo[i][2]
    OBVIOUS
  <2>2. w.todo = rest
    BY <1>9, <2>1
  <2> QED BY <1>13, <2>1, <2>2
<1> QED
  BY <1>8, <1>9, <1>13, <1>14, <1>15, <1>16, WriteStep

(* A strategy request takes its key from the clock.                        *)
LEMMA BeginLinkStep == ASSUME OrgInv, NEW t \in Threads, BeginLink(t) PROVE OrgInv'
<1>1. PICK w : w = [at |-> "link", key |-> <<"ORGANIZATION_STRATEGY", moment>>]
  OBVIOUS
<1>2. thread' = [thread EXCEPT ![t] = w]
      /\ UNCHANGED <<moment, entity, listed, gnode, gedge, snapshot, doubled, mixed, torn>>
  BY <1>1 DEF BeginLink, Takes
<1>3. w \in Linking /\ w.at = "link"
  BY <1>1 DEF Linking, OrgInv, OrgTypes
<1> QED
  BY <1>2, <1>3, WorkStep

(* The strategy layer saves its node, which has no parent.                 *)
LEMMA SaveStrategyNodeStep == ASSUME OrgInv, NEW t \in Threads, SaveStrategyNode(t) PROVE OrgInv'
<1>1. thread[t].at = "link" /\ OrgTypes
  BY DEF SaveStrategyNode, OrgInv
<1>2. PICK k : k = thread[t].key
  OBVIOUS
<1>3. thread[t] = [at |-> "link", key |-> k] /\ k \in NodeKeys /\ k \notin EntityKeys
  <2>1. thread[t] \in Linking
    BY <1>1, WorkIs
  <2>2. thread[t] = [at |-> "link", key |-> k] /\ k \in {"ORGANIZATION_STRATEGY"} \X (1..MaxMoment)
    BY <1>1, <1>2, <2>1 DEF Linking
  <2> QED BY <2>2 DEF NodeKeys, EntityKeys, EntityTypes
<1>4. PICK w : w = [at |-> "edge", key |-> k]
  OBVIOUS
<1>5. w \in Linking /\ w.at = "edge" /\ w.key = k
  <2>1. k \in {"ORGANIZATION_STRATEGY"} \X (1..MaxMoment)
    BY <1>3 DEF NodeKeys
  <2> QED BY <1>4, <2>1 DEF Linking
<1>6. /\ gnode' = [gnode EXCEPT ![k] = Top] /\ torn' = (torn \/ BetweenReads)
      /\ thread' = [thread EXCEPT ![t] = w]
      /\ UNCHANGED <<moment, entity, listed, gedge, snapshot, doubled, mixed>>
  <2>1. [thread[t] EXCEPT !.at = "edge"] = w
    BY <1>3, <1>4
  <2> QED BY <1>2, <2>1 DEF SaveStrategyNode, Turns
<1>7. gnode'[k] = Top /\ Top # Missing /\ Top \notin NodeKeys
  BY <1>1, <1>3, <1>6, KeysAre DEF OrgTypes, Graphed
<1> QED
  BY <1>3, <1>5, <1>6, <1>7, WriteStep

(* A snapshot that begins holds the nodes as they are.                     *)
LEMMA BeginSnapshotStep == ASSUME OrgInv, NEW t \in Threads, BeginSnapshot(t) PROVE OrgInv'
<1>1. PICK w : w = [at |-> "edges", nodes |-> gnode]
  OBVIOUS
<1>2. thread' = [thread EXCEPT ![t] = w]
      /\ UNCHANGED <<moment, entity, listed, gnode, gedge, snapshot, doubled, mixed, torn>>
  BY <1>1 DEF BeginSnapshot, Takes
<1>3. w \in Snapping /\ w.at = "edges" /\ w.nodes = gnode
  BY <1>1 DEF Snapping, OrgInv, OrgTypes
<1> QED
  BY <1>2, <1>3, WorkStep

(* An edge is drawn from a node the thread saved to one it found.          *)
LEMMA SaveStrategyEdgeStep == ASSUME OrgInv, NEW t \in Threads, SaveStrategyEdge(t) PROVE OrgInv'
<1>1. OrgTypes /\ CopiesFit /\ GraphsClosed /\ LinksFit /\ thread[t].at = "edge"
  BY DEF OrgInv, SaveStrategyEdge
<1>2. PICK k : k = thread[t].key
  OBVIOUS
<1>3. k \in NodeKeys
  <2>1. thread[t] \in Linking
    BY <1>1, WorkIs
  <2> QED BY <1>2, <2>1 DEF Linking, NodeKeys
<1>4. /\ thread' = [thread EXCEPT ![t] = AtRest] /\ torn' = (torn \/ BetweenReads)
      /\ UNCHANGED <<moment, entity, listed, gnode, snapshot, doubled, mixed>>
  BY DEF SaveStrategyEdge, Turns
<1>5. \A e \in gedge' : e \in gedge \/ \E x \in InGraph(gnode) : e = <<k, x>>
  BY <1>2 DEF SaveStrategyEdge
<1>6. \A u \in Threads : thread'[u] = AtRest \/ thread'[u] = thread[u]
  BY <1>1, <1>4 DEF OrgTypes
<1>7. AtRest.at = "rest"
  BY DEF AtRest
<1>8. OrgTypes'
  <2>1. gedge' \in Links
    BY <1>1, <1>3, <1>5 DEF OrgTypes, Links, InGraph
  <2> QED BY <1>1, <1>4, <2>1 DEF OrgTypes
<1>9. EntitiesFit' /\ CopiesFit' /\ GraphsClosed'
  BY <1>1, <1>4, <1>6, <1>7, RowsStay DEF CopiesFit, AsListed, GraphsClosed, Closed, Awaited
<1>10. LinksFit'
  <2>1. ~mixed => \A u \in Threads : thread'[u].at = "edge" => gnode[thread'[u].key] # Missing
    BY <1>1, <1>6, <1>7 DEF LinksFit
  <2>2. ~torn' => \A u \in Threads : thread'[u].at # "edges"
    BY <1>4, <1>6, <1>7 DEF BetweenReads
  <2>3. ~torn' /\ ~mixed => EndIn(gedge, gnode)' /\ \A s \in snapshot : EndIn(s.edges, s.nodes)
    <3>1. SUFFICES ASSUME ~torn', ~mixed
                   PROVE  EndIn(gedge, gnode)' /\ \A s \in snapshot : EndIn(s.edges, s.nodes)
      OBVIOUS
    <3>2. EndIn(gedge, gnode) /\ (\A s \in snapshot : EndIn(s.edges, s.nodes)) /\ gnode[k] # Missing
      BY <1>1, <1>2, <1>4, <3>1 DEF LinksFit
    <3> QED BY <1>4, <1>5, <3>2 DEF EndIn, InGraph
  <2> QED BY <1>4, <2>1, <2>2, <2>3 DEF LinksFit, EndIn
<1> QED
  BY <1>8, <1>9, <1>10 DEF OrgInv

(* A snapshot keeps the nodes it read and the links that are there now.    *)
LEMMA SaveSnapshotStep == ASSUME OrgInv, NEW t \in Threads, SaveSnapshot(t) PROVE OrgInv'
<1>1. OrgTypes /\ CopiesFit /\ GraphsClosed /\ LinksFit /\ thread[t].at = "edges"
  BY DEF OrgInv, SaveSnapshot
<1>2. PICK new : new = [nodes |-> thread[t].nodes, edges |-> gedge]
  OBVIOUS
<1>3. new \in [nodes: Graphed, edges: Links] /\ new.nodes = thread[t].nodes /\ new.edges = gedge
  <2>1. thread[t].nodes \in Graphed
    BY <1>1, WorkIs DEF Snapping
  <2> QED BY <1>1, <1>2, <2>1 DEF OrgTypes
<1>4. /\ thread' = [thread EXCEPT ![t] = AtRest] /\ snapshot' = snapshot \cup {new}
      /\ UNCHANGED <<moment, entity, listed, gnode, gedge, doubled, mixed, torn>>
  BY <1>2 DEF SaveSnapshot, Turns
<1>5. \A u \in Threads : thread'[u] = AtRest \/ thread'[u] = thread[u]
  BY <1>1, <1>4 DEF OrgTypes
<1>6. AtRest.at = "rest"
  BY DEF AtRest
<1>7. OrgTypes'
  BY <1>1, <1>3, <1>4 DEF OrgTypes
<1>8. EntitiesFit'
  BY <1>4, RowsStay
<1>9. CopiesFit'
  <2>1. ~doubled => AsListed(new.nodes)
    BY <1>1, <1>3 DEF CopiesFit
  <2> QED BY <1>1, <1>4, <1>5, <1>6, <2>1 DEF CopiesFit, AsListed
<1>10. GraphsClosed'
  <2>1. ~doubled /\ ~mixed => Closed(new.nodes)
    BY <1>1, <1>3 DEF GraphsClosed
  <2> QED BY <1>1, <1>4, <1>5, <1>6, <2>1 DEF GraphsClosed, Closed, Awaited
<1>11. LinksFit'
  <2>1. ~torn /\ ~mixed => EndIn(new.edges, new.nodes)
    BY <1>1, <1>3 DEF LinksFit
  <2> QED BY <1>1, <1>4, <1>5, <1>6, <2>1 DEF LinksFit, EndIn
<1> QED
  BY <1>7, <1>8, <1>9, <1>10, <1>11 DEF OrgInv

(* A restore puts what a snapshot holds in the graph's place.              *)
LEMMA RestoreStep == ASSUME OrgInv, NEW t \in Threads, Restore(t) PROVE OrgInv'
<1>1. OrgTypes /\ CopiesFit /\ GraphsClosed /\ LinksFit
  BY DEF OrgInv
<1>2. PICK s \in snapshot :
        /\ gnode' = s.nodes /\ gedge' = s.edges
        /\ mixed' = (mixed \/ Writing) /\ torn' = (torn \/ BetweenReads)
        /\ UNCHANGED <<moment, entity, listed, snapshot, thread, doubled>>
  BY DEF Restore
<1>3. OrgTypes'
  <2>1. s.nodes \in Graphed /\ s.edges \in Links
    BY <1>1 DEF OrgTypes
  <2>2. mixed' \in BOOLEAN /\ torn' \in BOOLEAN
    BY <1>1, <1>2 DEF OrgTypes
  <2> QED BY <1>1, <1>2, <2>1, <2>2 DEF OrgTypes
<1>4. EntitiesFit'
  BY <1>2, RowsStay
<1>5. CopiesFit'
  BY <1>1, <1>2 DEF CopiesFit, AsListed
<1>6. GraphsClosed'
  <2>1. ~mixed' => ~mixed /\ \A u \in Threads : thread[u].at # "sync"
    BY <1>2 DEF Writing
  <2> QED BY <1>1, <1>2, <2>1 DEF GraphsClosed, Closed
<1>7. LinksFit'
  <2>1. ~mixed' => ~mixed /\ \A u \in Threads : thread[u].at # "edge"
    BY <1>2 DEF Writing
  <2>2. ~torn' => ~torn /\ \A u \in Threads : thread[u].at # "edges"
    BY <1>2 DEF BetweenReads
  <2> QED BY <1>1, <1>2, <2>1, <2>2 DEF LinksFit, EndIn
<1> QED
  BY <1>3, <1>4, <1>5, <1>6, <1>7 DEF OrgInv

(* A crash puts everyone to rest.                                          *)
LEMMA KillStep == ASSUME OrgInv, Kill PROVE OrgInv'
<1>1. OrgTypes /\ CopiesFit /\ GraphsClosed /\ LinksFit
  BY DEF OrgInv
<1>2. UNCHANGED <<moment, entity, listed, gnode, gedge, snapshot, doubled, mixed, torn>>
      /\ thread' = [t \in Threads |-> AtRest]
  BY DEF Kill
<1>3. \A u \in Threads : thread'[u].at = "rest"
  BY <1>2 DEF AtRest
<1>4. OrgTypes'
  BY <1>1, <1>2 DEF OrgTypes
<1>5. EntitiesFit'
  BY <1>2, RowsStay
<1>6. CopiesFit' /\ GraphsClosed' /\ LinksFit'
  BY <1>1, <1>2, <1>3 DEF CopiesFit, AsListed, GraphsClosed, Closed, LinksFit, EndIn
<1> QED
  BY <1>4, <1>5, <1>6 DEF OrgInv

(* Time passes, or nothing happens.                                        *)
LEMMA PassStep == ASSUME OrgInv, Pass \/ UNCHANGED orgVars PROVE OrgInv'
<1>1. OrgTypes /\ CopiesFit /\ GraphsClosed /\ LinksFit
  BY DEF OrgInv
<1>2. UNCHANGED <<entity, listed, gnode, gedge, snapshot, thread, doubled, mixed, torn>>
  BY DEF Pass, orgVars
<1>3. moment' \in 1..MaxMoment
  BY <1>1, OrgGraphAssumption DEF Pass, orgVars, OrgTypes
<1>4. OrgTypes'
  BY <1>1, <1>2, <1>3 DEF OrgTypes
<1>5. EntitiesFit'
  BY <1>2, RowsStay
<1>6. CopiesFit' /\ GraphsClosed' /\ LinksFit'
  BY <1>1, <1>2 DEF CopiesFit, AsListed, GraphsClosed, Closed, Awaited, LinksFit, EndIn
<1> QED
  BY <1>4, <1>5, <1>6 DEF OrgInv

(* Every step keeps the invariant.                                         *)
LEMMA OrgStep == OrgInv /\ [OrgNext]_orgVars => OrgInv'
<1>1. SUFFICES ASSUME OrgInv, [OrgNext]_orgVars PROVE OrgInv'
  OBVIOUS
<1>2. CASE Pass \/ UNCHANGED orgVars
  BY <1>1, <1>2, PassStep
<1>3. CASE RegisterEntity
  BY <1>1, <1>3, RegisterStep
<1>4. CASE Kill
  BY <1>1, <1>4, KillStep
<1>5. ASSUME NEW t \in Threads,
             \/ BeginSync(t) \/ SyncOne(t) \/ BeginLink(t) \/ SaveStrategyNode(t) \/ SaveStrategyEdge(t)
             \/ BeginSnapshot(t) \/ SaveSnapshot(t) \/ Restore(t)
      PROVE  OrgInv'
  BY <1>1, <1>5, BeginSyncStep, SyncOneStep, BeginLinkStep, SaveStrategyNodeStep, SaveStrategyEdgeStep,
     BeginSnapshotStep, SaveSnapshotStep, RestoreStep
<1> QED
  BY <1>1, <1>2, <1>3, <1>4, <1>5 DEF OrgNext

(* The rows' places put every graph that fits them in order.               *)
LEMMA PlacesOrder ==
  ASSUME OrgInv, ~doubled
  PROVE  \E pos : Ordered(gnode, pos)
<1>1. OrgTypes /\ AsListed(gnode)
  BY DEF OrgInv, CopiesFit
<1>2. /\ \A i, j \in DOMAIN listed : listed[i] = listed[j] => i = j
      /\ \A k \in EntityKeys : entity[k] # Missing => \E i \in DOMAIN listed : listed[i] = k
      /\ \A i \in DOMAIN listed : entity[listed[i]] # Top => \E j \in 1..(i - 1) : listed[j] = entity[listed[i]]
  BY DEF OrgInv, EntitiesFit
<1>3. DOMAIN listed = 1..Len(listed) /\ Len(listed) \in Nat
  BY <1>1 DEF OrgTypes
<1> DEFINE Shown(x) == \E i \in DOMAIN listed : listed[i] = x
           pos == [x \in NodeKeys |-> IF Shown(x) THEN CHOOSE i \in DOMAIN listed : listed[i] = x ELSE 0]
<1>4. ASSUME NEW i \in DOMAIN listed, listed[i] \in NodeKeys PROVE pos[listed[i]] = i
  <2>1. PICK n : n = CHOOSE j \in DOMAIN listed : listed[j] = listed[i]
    OBVIOUS
  <2>2. n \in DOMAIN listed /\ listed[n] = listed[i]
    BY <1>4, <2>1
  <2>3. pos[listed[i]] = n
    BY <1>4, <2>1
  <2> QED BY <1>2, <1>4, <2>2, <2>3
<1>5. pos \in [NodeKeys -> Nat]
  <2>1. ASSUME NEW x \in NodeKeys PROVE pos[x] \in Nat
    <3>1. CASE Shown(x)
      <4>1. PICK i \in DOMAIN listed : listed[i] = x
        BY <3>1
      <4> QED BY <1>3, <1>4, <4>1
    <3>2. CASE ~Shown(x)
      BY <3>2
    <3> QED BY <3>1, <3>2
  <2>2. pos = [x \in NodeKeys |-> pos[x]]
    OBVIOUS
  <2> HIDE DEF pos
  <2> QED BY <2>1, <2>2
<1>6. ASSUME NEW x \in NodeKeys, gnode[x] \in NodeKeys PROVE pos[gnode[x]] < pos[x]
  <2>1. x \in EntityKeys /\ gnode[x] = entity[x] /\ entity[x] # Missing /\ entity[x] # Top
    BY <1>1, <1>6, KeysAre DEF AsListed
  <2>2. PICK i \in DOMAIN listed : listed[i] = x
    BY <1>2, <2>1
  <2>3. PICK j \in 1..(i - 1) : listed[j] = gnode[x]
    BY <1>2, <2>1, <2>2
  <2>4. j \in DOMAIN listed /\ j < i
    BY <1>3, <2>2, <2>3
  <2> HIDE DEF pos
  <2> QED BY <1>4, <1>6, <2>2, <2>3, <2>4
<1> HIDE DEF pos
<1> QED
  BY <1>5, <1>6 DEF Ordered

(* A graph that fits the rows has no orphans but under a company.          *)
LEMMA GraphIsWhole ==
  ASSUME OrgInv, ~doubled, ~mixed
  PROVE  Whole(gnode)
<1>1. OrgTypes /\ AsListed(gnode) /\ Closed(gnode)
  BY DEF OrgInv, CopiesFit, GraphsClosed
<1>2. /\ \A k \in EntityKeys : entity[k] # Missing => \E i \in DOMAIN listed : listed[i] = k
      /\ \A i \in DOMAIN listed : entity[listed[i]] = Top => listed[i][1] = "COMPANY"
  BY DEF OrgInv, EntitiesFit
<1>3. ASSUME NEW x \in EntityKeys, gnode[x] = Top PROVE x[1] = "COMPANY"
  <2>1. entity[x] = Top /\ Top # Missing
    BY <1>1, <1>3, KeysAre DEF AsListed
  <2> QED BY <1>2, <2>1
<1> QED
  BY <1>1, <1>3 DEF Whole, Closed

(* What the states that satisfy the invariant answer.                      *)
LEMMA OrgAnswers ==
  OrgInv => /\ EveryoneHasAnOwner /\ DescentMirrorsAscent /\ HierarchyIsATree
            /\ ImpactIsMutual /\ SnapshotIsClosed
<1>1. SUFFICES ASSUME OrgInv
               PROVE  /\ EveryoneHasAnOwner /\ DescentMirrorsAscent /\ HierarchyIsATree
                      /\ ImpactIsMutual /\ SnapshotIsClosed
  OBVIOUS
<1>2. gnode \in Graphed /\ gedge \in Links /\ InGraph(gnode) \subseteq NodeKeys
  BY <1>1 DEF OrgInv, OrgTypes, InGraph
<1>3. EveryoneHasAnOwner
  <2>1. SUFFICES ASSUME ~doubled, ~mixed, NEW k \in InGraph(gnode), k[1] \in EntityTypes
                 PROVE  Owner(gnode, k) # Missing
    BY DEF EveryoneHasAnOwner
  <2>2. PICK pos : Ordered(gnode, pos)
    BY <1>1, <2>1, PlacesOrder
  <2>3. Whole(gnode)
    BY <1>1, <2>1, GraphIsWhole
  <2> QED BY <1>2, <2>1, <2>2, <2>3, OwnersAreFound
<1>4. DescentMirrorsAscent
  <2>1. ASSUME NEW k \in InGraph(gnode), NEW a \in InGraph(gnode)
        PROVE  a \in ToSet(Ancestors(gnode, k)) <=> k \in Descendants(gnode, a)
    BY <1>2, TraversalsAgree
  <2> QED BY <2>1 DEF DescentMirrorsAscent
<1>5. HierarchyIsATree
  <2>1. SUFFICES ASSUME ~doubled, NEW k \in InGraph(gnode) PROVE k \notin Descendants(gnode, k)
    BY DEF HierarchyIsATree
  <2>2. PICK pos : Ordered(gnode, pos)
    BY <1>1, <2>1, PlacesOrder
  <2> QED BY <1>2, <2>1, <2>2, OrderIsATree
<1>6. ImpactIsMutual
  <2>1. ASSUME NEW k \in InGraph(gnode), NEW x \in InGraph(gnode)
        PROVE  x \in Impacted(gnode, gedge, k) <=> k \in Impacted(gnode, gedge, x)
    BY <1>2, ImpactMutual
  <2> QED BY <2>1 DEF ImpactIsMutual
<1>7. SnapshotIsClosed
  <2>1. SUFFICES ASSUME ~torn, ~mixed, NEW s \in snapshot, NEW e \in s.edges
                 PROVE  {e[1], e[2]} \subseteq InGraph(s.nodes)
    BY DEF SnapshotIsClosed
  <2>2. s.nodes[e[1]] # Missing /\ s.nodes[e[2]] # Missing
    BY <1>1, <2>1 DEF OrgInv, LinksFit, EndIn
  <2>3. e[1] \in NodeKeys /\ e[2] \in NodeKeys
    BY <1>1, <2>1 DEF OrgInv, OrgTypes, Links
  <2> QED BY <2>2, <2>3 DEF InGraph
<1> QED
  BY <1>3, <1>4, <1>5, <1>6, <1>7

(* Only a restore takes anything out of the graph.                         *)
LEMMA NothingElseForgets ==
  OrgInv /\ [OrgNext]_orgVars =>
    [\/ InGraph(gnode) \subseteq InGraph(gnode') /\ gedge \subseteq gedge'
     \/ [nodes |-> gnode', edges |-> gedge'] \in snapshot]_orgVars
<1> DEFINE Kept == InGraph(gnode) \subseteq InGraph(gnode') /\ gedge \subseteq gedge'
<1>1. SUFFICES ASSUME OrgInv, OrgNext
               PROVE  Kept \/ [nodes |-> gnode', edges |-> gedge'] \in snapshot
  OBVIOUS
<1>2. OrgTypes
  BY <1>1 DEF OrgInv
<1>3. CASE Pass \/ RegisterEntity \/ Kill
  BY <1>3 DEF Pass, RegisterEntity, Kill
<1>4. ASSUME NEW t \in Threads,
             BeginSync(t) \/ BeginLink(t) \/ BeginSnapshot(t) \/ SaveSnapshot(t) \/ SaveStrategyEdge(t)
      PROVE  Kept
  BY <1>4 DEF BeginSync, BeginLink, BeginSnapshot, SaveSnapshot, SaveStrategyEdge, Takes
<1>5. ASSUME NEW k \in NodeKeys, NEW v, v # Missing, gnode' = [gnode EXCEPT ![k] = v]
      PROVE  InGraph(gnode) \subseteq InGraph(gnode')
  BY <1>2, <1>5 DEF InGraph, OrgTypes, Graphed
<1>6. ASSUME NEW t \in Threads, SyncOne(t) PROVE Kept
  <2>1. PICK todo : todo = thread[t].todo
    OBVIOUS
  <2>2. todo \in Seq(EntityKeys \X (EntityKeys \cup {Top})) /\ todo # << >>
    BY <1>2, <1>6, <2>1, WorkIs DEF SyncOne, Syncing
  <2>3. PICK pair \in EntityKeys \X (EntityKeys \cup {Top}) : pair = Head(todo)
    BY <2>2, HeadTailProperties
  <2>4. gnode' = [gnode EXCEPT ![pair[1]] = pair[2]] /\ gedge' = gedge
    BY <1>6, <2>1, <2>3 DEF SyncOne
  <2>5. pair[1] \in NodeKeys /\ pair[2] # Missing
    BY <2>3, KeysAre
  <2> QED BY <1>5, <2>4, <2>5
<1>7. ASSUME NEW t \in Threads, SaveStrategyNode(t) PROVE Kept
  <2>1. thread[t].key \in NodeKeys
    BY <1>2, <1>7, WorkIs DEF SaveStrategyNode, Linking, NodeKeys
  <2>2. gnode' = [gnode EXCEPT ![thread[t].key] = Top] /\ gedge' = gedge
    BY <1>7 DEF SaveStrategyNode
  <2> QED BY <1>5, <2>1, <2>2, KeysAre
<1>8. ASSUME NEW t \in Threads, Restore(t) PROVE [nodes |-> gnode', edges |-> gedge'] \in snapshot
  <2>1. PICK s \in snapshot : gnode' = s.nodes /\ gedge' = s.edges
    BY <1>8 DEF Restore
  <2>2. s \in [nodes: Graphed, edges: Links]
    BY <1>2 DEF OrgTypes
  <2>3. s = [nodes |-> s.nodes, edges |-> s.edges]
    BY <2>2
  <2> QED BY <2>1, <2>3
<1> QED
  BY <1>1, <1>3, <1>4, <1>6, <1>7, <1>8 DEF OrgNext

(* At every moment the graph is as the organization has it, answers alike  *)
(* from both ends and can be restored, and only a restore takes anything   *)
(* out of it: GraphIsSound.                                                *)
THEOREM GraphStaysWhole == OrgSpec => GraphIsSound
<1>1. OrgSpec => []OrgInv
  BY OrgStarts, OrgStep, PTL DEF OrgSpec
<1>2. OrgSpec => OnlyRestoreForgets
  BY <1>1, NothingElseForgets, PTL DEF OrgSpec, OnlyRestoreForgets
<1> QED
  BY <1>1, <1>2, OrgAnswers, PTL DEF GraphIsSound
=============================================================================
