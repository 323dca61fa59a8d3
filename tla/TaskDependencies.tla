-------------------------- MODULE TaskDependencies --------------------------
(***************************************************************************)
(* The graph of task dependencies (local-bridge/app/task/dependency.py).   *)
(* An instance loads the edges from a JSONL file when it is constructed;   *)
(* add searches the edges in memory for a path back before it appends to   *)
(* both.  Each instance has a lock of its own: two instances on one file   *)
(* do not see each other's edges.  A crash may leave a line half written;  *)
(* such a line is skipped by the next load, and a line appended to it is   *)
(* not readable either.  The type of a dependency is left out.             *)
(***************************************************************************)
EXTENDS AcyclicEdges, Naturals, Sequences, FiniteSets, Functions

CONSTANTS
  Tasks,      \* task ids
  Graphs,     \* instances of TaskDependencyGraph on the same file
  MaxLines,   \* bound: lines of the file
  MaxCrashes  \* bound: crashes

ASSUME DependencyAssumption == MaxLines \in Nat /\ MaxCrashes \in Nat /\ IsFiniteSet(Tasks)

VARIABLES
  lines,    \* the file: its lines, readable or torn
  open,     \* the instances that were constructed
  edges,    \* _edges of each instance
  adding,   \* the call of add that holds the lock of each instance
  crashes,  \* crashes so far
  sound,    \* history: the instances that loaded no cycle
  blind     \* history: an edge was appended by an instance that had not
            \* loaded all the file holds

depVars == <<lines, open, edges, adding, crashes, sound, blind>>

Dependencies == Tasks \X Tasks
Line == [torn: {TRUE}] \cup [edge: Dependencies]
Torn == [torn |-> TRUE]
Readable(file) == {i \in DOMAIN file : file[i] # Torn}
Stored(file) == {file[i].edge : i \in Readable(file)}

Searching == [at: {"search", "write"}, edge: Dependencies, seen: SUBSET Tasks, stack: SUBSET Tasks]
Unlocked == [at |-> "idle"]
Add == Searching \cup {Unlocked}

(* _has_path(target_task, source_task): from the target of the new edge.   *)
SearchFor(edge) == [at |-> "search", edge |-> edge, seen |-> {}, stack |-> {edge[2]}]

(* The search with the call's lock held, for has_cycle: in a round a node  *)
(* is taken from the stack, and what it leads to is put there unless seen. *)
Round(es, s) ==
  LET n == CHOOSE n \in s.stack : TRUE IN
  IF s.stack = {} THEN s
  ELSE [seen |-> s.seen \cup {n}, stack |-> (s.stack \cup Targets(es, n)) \ (s.seen \cup {n})]

(* A round sees a new node, so that there are as many as tasks at most.    *)
Rounds(es, start) ==
  LET after[n \in 0..Cardinality(Tasks)] ==
        IF n = 0 THEN [seen |-> {}, stack |-> {start}] ELSE Round(es, after[n - 1])
  IN after
Reached(es, start) == Rounds(es, start)[Cardinality(Tasks)].seen

(* Slip: a second way from an edge's source to its target is a cycle.      *)
HasCycleForward(es) == \E e \in es : e[2] \in Reached(es \ {e}, e[1])

(* has_cycle: an edge from whose target there is a path to its source that *)
(* does not use the edge itself.                                           *)
HasCycle(es) == \E e \in es : e[1] \in Reached(es \ {e}, e[2])

-----------------------------------------------------------------------------
DepInit ==
  /\ lines = << >> /\ open = {} /\ crashes = 0
  /\ edges = [g \in Graphs |-> {}]
  /\ adding = [g \in Graphs |-> Unlocked]
  /\ sound = {} /\ blind = FALSE

Calls(g, call) == adding' = [adding EXCEPT ![g] = call]

(* __init__ and _load; also a new instance in the place of an old one.     *)
Construct(g) ==
  /\ adding[g].at = "idle"
  /\ open' = open \cup {g}
  /\ edges' = [edges EXCEPT ![g] = Stored(lines)]
  /\ sound' = IF Acyclic(Tasks, Stored(lines)) THEN sound \cup {g} ELSE sound \ {g}
  /\ UNCHANGED <<lines, adding, crashes, blind>>

(* add takes the lock; an edge the instance knows is returned as it is.    *)
BeginAdd(g, source, target) ==
  /\ g \in open /\ adding[g].at = "idle" /\ Len(lines) < MaxLines
  /\ source # target /\ <<source, target>> \notin edges[g]
  /\ Calls(g, SearchFor(<<source, target>>))
  /\ UNCHANGED <<lines, open, edges, crashes, sound, blind>>

(* Slip: a node is seen without a look at its own targets.                 *)
SearchNodeShallow(g, n) ==
  LET c == adding[g] IN
  /\ c.at = "search" /\ n \in c.stack /\ n # c.edge[1]
  /\ Calls(g, [c EXCEPT !.seen = @ \cup {n}, !.stack = @ \ {n}])
  /\ UNCHANGED <<lines, open, edges, crashes, sound, blind>>

(* One round of _has_path's loop over edges + [edge].                      *)
SearchNode(g, n) ==
  LET c == adding[g] IN
  /\ c.at = "search" /\ n \in c.stack /\ n # c.edge[1]
  /\ Calls(g, [at |-> "search", edge |-> c.edge, seen |-> c.seen \cup {n},
               stack |-> (c.stack \ {n}) \cup
                 (IF n \in c.seen THEN {} ELSE Targets(edges[g] \cup {c.edge}, n))])
  /\ UNCHANGED <<lines, open, edges, crashes, sound, blind>>

(* The source of the new edge was reached: DependencyCycleError.           *)
RefuseAdd(g) ==
  LET c == adding[g] IN
  /\ c.at = "search" /\ c.edge[1] \in c.stack
  /\ Calls(g, Unlocked)
  /\ UNCHANGED <<lines, open, edges, crashes, sound, blind>>

(* Slip: the edge's ends are kept in the place of the edge.                *)
AcceptAddUntyped(g) ==
  LET c == adding[g] IN
  /\ c.at = "search" /\ c.stack = {}
  /\ edges' = [edges EXCEPT ![g] = @ \cup {c.edge[1], c.edge[2]}]
  /\ Calls(g, Unlocked)
  /\ UNCHANGED <<lines, open, crashes, sound, blind>>

AcceptAdd(g) ==
  LET c == adding[g] IN
  /\ c.at = "search" /\ c.stack = {}
  /\ edges' = [edges EXCEPT ![g] = @ \cup {c.edge}]
  /\ Calls(g, [at |-> "write", edge |-> c.edge, seen |-> {}, stack |-> {}])
  /\ UNCHANGED <<lines, open, crashes, sound, blind>>

(* A line appended behind a torn one is part of it.                        *)
Appended(file, line) ==
  IF file # << >> /\ file[Len(file)] = Torn THEN file ELSE Append(file, line)

WriteEdge(g) ==
  LET c == adding[g] IN
  /\ c.at = "write" /\ Len(lines) < MaxLines
  /\ lines' = Appended(lines, [edge |-> c.edge])
  /\ blind' = (blind \/ ~(Stored(lines) \subseteq edges[g]))
  /\ Calls(g, Unlocked)
  /\ UNCHANGED <<open, edges, crashes, sound>>

(* The process dies, perhaps while a line is being written.                *)
CrashGraphs ==
  /\ crashes < MaxCrashes
  /\ crashes' = crashes + 1
  /\ \/ UNCHANGED lines
     \/ /\ \E g \in Graphs : adding[g].at = "write" /\ Len(lines) < MaxLines
        /\ lines' = Appended(lines, Torn)
  /\ open' = {} /\ sound' = {}
  /\ edges' = [g \in Graphs |-> {}]
  /\ adding' = [g \in Graphs |-> Unlocked]
  /\ UNCHANGED blind

DepNext ==
  \/ \E g \in Graphs :
       \/ Construct(g) \/ RefuseAdd(g) \/ AcceptAdd(g) \/ WriteEdge(g)
       \/ \E s, t \in Tasks : BeginAdd(g, s, t)
       \/ \E n \in Tasks : SearchNode(g, n)
  \/ CrashGraphs

DepSpec == DepInit /\ [][DepNext]_depVars

-----------------------------------------------------------------------------
(* Properties.                                                             *)

(* Type correctness of the file and of what the instances hold.            *)
DepTypeOK ==
  /\ lines \in Seq(Line) /\ open \subseteq Graphs
  /\ edges \in [Graphs -> SUBSET Dependencies]
  /\ adding \in [Graphs -> Add]
  /\ crashes \in Nat /\ sound \subseteq Graphs /\ blind \in BOOLEAN

(* What the search of add lets an instance keep has no cycle, if what the  *)
(* instance loaded had none.                                               *)
SoundGraphStaysAcyclic == \A g \in sound : Acyclic(Tasks, edges[g])

(* The file holds no cycle, unless an instance appended to it that had not *)
(* loaded what another one had written.                                    *)
FileIsAcyclicUnlessBlind == ~blind => Acyclic(Tasks, Stored(lines))

(* has_cycle, which is what the endpoint reports of the file, is right of  *)
(* every set of edges that an instance can come to hold.                   *)
HasCycleIsRight == \A g \in Graphs : HasCycle(edges[g]) <=> ~Acyclic(Tasks, edges[g])

(* No cycle gets into an instance of the graph, or into the file, but by   *)
(* instances that do not see each other's edges; and the report of cycles  *)
(* is right.                                                               *)
DependenciesStayAcyclic ==
  /\ DepTypeOK /\ SoundGraphStaysAcyclic
  /\ FileIsAcyclicUnlessBlind /\ HasCycleIsRight
=============================================================================
