---------------------------- MODULE ExecutionDag ----------------------------
(***************************************************************************)
(* The order of execution loops (local-bridge/app/execution_dag/): a DAG   *)
(* is created over loops that exist, and advancing it prepares the first   *)
(* loop that nothing blocks.  The loops themselves live in another         *)
(* database and are moved by their own requests at any time (module        *)
(* LoopLifecycle); the manager reads their statuses one by one.            *)
(***************************************************************************)
EXTENDS LoopLifecycle, AcyclicEdges, Naturals, Sequences, FiniteSets, FiniteSetsExt, SequencesExt

CONSTANTS
  MaxEdges,       \* bound: how many edges a request may name
  MaxDagRestarts  \* bound: how often the process may restart

ASSUME DagAssumption == MaxEdges \in Nat /\ MaxDagRestarts \in Nat /\ IsFiniteSet(Loops)

VARIABLES
  dag,          \* the row of execution_dags
  dagCall,      \* the request that is being served, and its copies
  dagRestarts,  \* restarts so far
  advanced,     \* history: the loops that advance has prepared
  overwritten   \* history: loops whose row was replaced from an older copy

dagVars == <<phase, dag, dagCall, dagRestarts, advanced, overwritten>>

-----------------------------------------------------------------------------
Dag == [status: {"none", "created", "completed"}, loops: Seq(Loops), edges: SUBSET (Loops \X Loops)]
DagOf(st, loops, es) == [status |-> st, loops |-> loops, edges |-> es]
Members(d) == Range(d.loops)

(* A call: the loops whose status it has yet to read, those it saw over,   *)
(* and of these the COMPLETED ones; the reports on_loop_completed has yet  *)
(* to get; the loop that prepare was called for, and the copy of its row.  *)
NoLoop == "none"
DagCall ==
  [at: {"idle", "read", "pick", "load", "ready", "wait"}, op: {"none", "create", "advance"},
   todo: Seq(Loops), over: SUBSET Loops, done: SUBSET Loops,
   left: Nat, loop: Loops \cup {NoLoop}, copy: Phases]
DagIdle == [at |-> "idle", op |-> "none", todo |-> << >>, over |-> {}, done |-> {},
            left |-> 0, loop |-> NoLoop, copy |-> "absent"]
DagReads(op, loops, reports) ==
  [DagIdle EXCEPT !.at = "read", !.op = op, !.todo = loops, !.left = reports]

-----------------------------------------------------------------------------
(* _has_cycle: a depth-first search that follows each edge once.  A node   *)
(* is "visiting" while it is on the path of calls, and "visited" once      *)
(* nothing it leads to came back to the path.                              *)

Unvisited(s) == Loops \ (s.visited \cup Range(s.path))

(* Slip: a node counts as visited as soon as it is entered.                *)
FollowEdgeVisitedOnly(s, e) ==
  [path    |-> IF e[2] \in Unvisited(s) THEN Append(s.path, e[2]) ELSE s.path,
   visited |-> s.visited, left |-> s.left \ {e}, cycle |-> FALSE]

(* visit(target), which is found on the path, was visited, or is a call.   *)
FollowEdge(s, e) ==
  [path    |-> IF e[2] \in Unvisited(s) THEN Append(s.path, e[2]) ELSE s.path,
   visited |-> s.visited, left |-> s.left \ {e}, cycle |-> e[2] \in Range(s.path)]

(* The call of the last node on the path follows its next edge or returns; *)
(* with no call left the search goes on with the next node.                *)
VisitOnward(s) ==
  LET onward == {e \in s.left : e[1] = s.path[Len(s.path)]} IN
  IF onward # {} THEN FollowEdge(s, CHOOSE e \in onward : TRUE)
  ELSE [path |-> Front(s.path), visited |-> s.visited \cup {s.path[Len(s.path)]},
        left |-> s.left, cycle |-> FALSE]

Visit(s) ==
  IF s.cycle \/ (s.path = << >> /\ s.visited = Loops) THEN s
  ELSE IF s.path # << >> THEN VisitOnward(s)
  ELSE [path |-> <<CHOOSE n \in Loops \ s.visited : TRUE>>, visited |-> s.visited,
        left |-> s.left, cycle |-> FALSE]

(* Each step follows an edge, enters a first node or leaves one.           *)
VisitSteps(es) == Cardinality(es) + 2 * Cardinality(Loops)
Visits(es) ==
  LET after[n \in 0..VisitSteps(es)] ==
        IF n = 0 THEN [path |-> << >>, visited |-> {}, left |-> es, cycle |-> FALSE]
        ELSE Visit(after[n - 1])
  IN after
DagHasCycle(es) == Visits(es)[VisitSteps(es)].cycle

ValidEdges(loops, es) ==
  /\ es \subseteq Range(loops) \X Range(loops)
  /\ \A e \in es : e[1] # e[2]
  /\ ~DagHasCycle(es)

OverNow == {l \in Loops : phase[l] \in {"completed", "stopped"}}
DoneNow == {l \in Loops : phase[l] = "completed"}

(* Slip: a loop only waits for sources that are still under way.           *)
ReadyAfterAny(d, over, done) == {l \in Members(d) \ over : Sources(d.edges, l) \subseteq over}

(* ready_loops, on statuses as they were read.                             *)
Ready(d, over, done) == {l \in Members(d) \ over : Sources(d.edges, l) \subseteq done}

-----------------------------------------------------------------------------
DagInit ==
  /\ LifecycleInit
  /\ dag = DagOf("none", << >>, {})
  /\ dagCall = DagIdle
  /\ dagRestarts = 0
  /\ advanced = {} /\ overwritten = {}

DagUnchanged == UNCHANGED <<phase, dagRestarts, advanced, overwritten>>

(* execution_dag_create: refused if an id is unknown or the edges are not  *)
(* valid; an id that is named twice counts once.  Then main.py reports     *)
(* each loop to on_loop_completed.                                         *)
CreateDag ==
  /\ dagCall.at = "idle" /\ dag.status = "none"
  /\ \E loops \in BoundedSeq(Loops, Cardinality(Loops)), n \in 0..MaxEdges :
       \E es \in kSubset(n, Loops \X Loops) :
         /\ loops # << >> /\ IsInjective(loops)
         /\ \A i \in DOMAIN loops : phase[loops[i]] # "absent"
         /\ ValidEdges(loops, es)
         /\ dag' = DagOf("created", loops, es)
         /\ dagCall' = DagReads("create", loops, Len(loops))
  /\ DagUnchanged

BeginAdvance ==
  /\ dagCall.at = "idle" /\ dag.status = "created"
  /\ dagCall' = DagReads("advance", dag.loops, 0)
  /\ UNCHANGED dag /\ DagUnchanged

(* loop_statuses: one read per loop, while the loops move.                 *)
ReadStatus ==
  LET l == Head(dagCall.todo) IN
  /\ dagCall.at = "read" /\ dagCall.todo # << >>
  /\ dagCall' = [dagCall EXCEPT !.todo = Tail(@), !.over = @ \cup ({l} \cap OverNow),
                                !.done = @ \cup ({l} \cap DoneNow),
                                !.at = IF Len(dagCall.todo) = 1 THEN "pick" ELSE "read"]
  /\ UNCHANGED dag /\ DagUnchanged

(* Slip: one completed loop is enough.                                     *)
AnyCompleted(d, done) == Members(d) \cap done # {}

AllCompleted(d, done) == Members(d) \subseteq done

(* on_loop_completed, once for every loop of the new DAG: the statuses are *)
(* read again for the next one.  No other code calls it.                   *)
OnLoopCompleted ==
  /\ dagCall.at = "pick" /\ dagCall.op = "create"
  /\ dag' = IF AllCompleted(dag, dagCall.done)
            THEN DagOf("completed", dag.loops, dag.edges) ELSE dag
  /\ dagCall' = IF dagCall.left = 1 THEN DagIdle
                ELSE DagReads("create", dag.loops, dagCall.left - 1)
  /\ DagUnchanged

(* ready[0]: the first in the order of loop_ids.                           *)
PickReady ==
  LET ready == Ready(dag, dagCall.over, dagCall.done) IN
  /\ dagCall.at = "pick" /\ dagCall.op = "advance"
  /\ \E i \in DOMAIN dag.loops :
       /\ dag.loops[i] \in ready
       /\ \A j \in 1..(i - 1) : dag.loops[j] \notin ready
       /\ dagCall' = [dagCall EXCEPT !.at = "load", !.loop = dag.loops[i]]
  /\ UNCHANGED dag /\ DagUnchanged

(* prepare: the loop is loaded and must have no proposal.  Its task makes  *)
(* the proposal, which may be refused; then the copy is saved twice.       *)
LoadPicked ==
  LET l == dagCall.loop IN
  /\ dagCall.at = "load" /\ phase[l] = "planning"
  /\ dagCall' = [dagCall EXCEPT !.at = "ready", !.copy = phase[l]]
  /\ UNCHANGED dag /\ DagUnchanged

SaveLoop(l) ==
  /\ phase' = [phase EXCEPT ![l] = "underway"]
  /\ overwritten' = IF phase[l] = dagCall.copy THEN overwritten ELSE overwritten \cup {l}

SavePicked ==
  /\ dagCall.at = "ready"
  /\ SaveLoop(dagCall.loop)
  /\ dagCall' = [dagCall EXCEPT !.at = "wait", !.copy = "underway"]
  /\ UNCHANGED <<dag, dagRestarts, advanced>>

(* Slip: the loop is recorded after the call forgot it.                    *)
SaveWaitingForgetful ==
  /\ dagCall.at = "wait"
  /\ SaveLoop(dagCall.loop)
  /\ dagCall' = DagIdle
  /\ advanced' = advanced \cup {dagCall'.loop}
  /\ UNCHANGED <<dag, dagRestarts>>

SaveWaiting ==
  /\ dagCall.at = "wait"
  /\ SaveLoop(dagCall.loop)
  /\ advanced' = advanced \cup {dagCall.loop}
  /\ dagCall' = DagIdle
  /\ UNCHANGED <<dag, dagRestarts>>

(* Nothing is ready, the loop has a proposal or has moved on, or its task  *)
(* cannot be proposed.                                                     *)
RefuseAdvance ==
  /\ \/ /\ dagCall.at = "pick" /\ dagCall.op = "advance"
        /\ Ready(dag, dagCall.over, dagCall.done) = {}
     \/ dagCall.at = "load"
  /\ dagCall' = DagIdle
  /\ UNCHANGED dag /\ DagUnchanged

(* The loops' own requests.  execution_loop_prepare is one of them: the    *)
(* DAG does not keep a loop from being prepared out of order.              *)
LoopRequest ==
  /\ LifecycleNext
  /\ UNCHANGED <<dag, dagCall, dagRestarts, advanced, overwritten>>

(* A crash; the start marks every loop under way as recovered.             *)
CrashDag ==
  /\ dagRestarts < MaxDagRestarts
  /\ dagRestarts' = dagRestarts + 1
  /\ dagCall' = DagIdle
  /\ phase' = [l \in Loops |-> IF phase[l] = "planning" THEN "underway" ELSE phase[l]]
  /\ UNCHANGED <<dag, advanced, overwritten>>

DagNext ==
  \/ CreateDag \/ BeginAdvance \/ ReadStatus \/ OnLoopCompleted
  \/ PickReady \/ LoadPicked \/ SavePicked \/ SaveWaiting \/ RefuseAdvance
  \/ LoopRequest \/ CrashDag

DagSpec == DagInit /\ [][DagNext]_dagVars

-----------------------------------------------------------------------------
(* Properties.                                                             *)

(* Type correctness of the DAG's row, the call and the loops' rows.        *)
DagTypeOK ==
  /\ phase \in [Loops -> Phases]
  /\ dag \in Dag /\ dagCall \in DagCall
  /\ dagRestarts \in 0..MaxDagRestarts
  /\ advanced \subseteq Loops /\ overwritten \subseteq Loops

(* What the depth-first search of _has_cycle lets through has no cycle:    *)
(* "Cyclic execution dependency detected" is raised for every other DAG.   *)
StoredDagIsAcyclic == Acyclic(Loops, dag.edges)

(* advance prepares a loop only when all it depends on is COMPLETED, and   *)
(* this stays so: although the statuses are read one after the other and   *)
(* the loops move meanwhile, unless a row was replaced from an older copy. *)
AdvancedInOrder ==
  \A l \in advanced : \A s \in Sources(dag.edges, l) :
    phase[s] = "completed" \/ s \in overwritten

(* A DAG is never stuck by its order: while none of its loops has failed   *)
(* or was rolled back, and not all are COMPLETED, one of them is ready.    *)
OrderLeavesALoopReady ==
  \/ \E l \in Members(dag) : phase[l] = "stopped"
  \/ AllCompleted(dag, DoneNow)
  \/ Ready(dag, OverNow, DoneNow) # {}

(* A COMPLETED DAG has only COMPLETED loops.                               *)
CompletedDagIsDone ==
  dag.status = "completed" =>
    \A l \in Members(dag) : phase[l] = "completed" \/ l \in overwritten

(* The order of a DAG is sound, kept to, and never what blocks it.         *)
DagKeepsOrder ==
  /\ DagTypeOK /\ StoredDagIsAcyclic
  /\ AdvancedInOrder /\ CompletedDagIsDone /\ OrderLeavesALoopReady
=============================================================================
