------------------------------ MODULE OrgGraph ------------------------------
(***************************************************************************)
(* The organization graph (local-bridge/app/organization/graph.py and      *)
(* organization_graph): entities are registered under a parent in one      *)
(* database, copied into the graph's database by a sync that upserts them  *)
(* one by one, joined by the edges of the strategy layer, and the whole    *)
(* graph is kept in snapshots and restored from them.  Every one of these  *)
(* is a request a human approved, and they overlap.  The graph is asked    *)
(* for ancestors, descendants, owners and impact.                          *)
(***************************************************************************)
EXTENDS Naturals, Sequences, FiniteSets, SequencesExt

CONSTANTS
  Threads,      \* handler threads
  MaxMoment,    \* bound: the clock the ids are made of
  MaxEntities,  \* bound: registrations
  MaxCopies,    \* bound: syncs, snapshots, restores and strategies
  MaxRequests,  \* bound: all of these together
  MaxKills      \* bound: crashes

ASSUME OrgGraphAssumption ==
  MaxMoment \in Nat \ {0} /\ MaxEntities \in Nat /\ MaxCopies \in Nat /\ MaxRequests \in Nat
    /\ MaxKills \in Nat

VARIABLES
  moment,
  entity,     \* org_entities: key -> the parent's key
  listed,     \* its keys, oldest first
  gnode,      \* graph_nodes: key -> the parent's key
  gedge,      \* graph_edges
  snapshot,   \* organization_graph_snapshots
  thread,     \* per handler thread: the request it is at
  copied, kills,
  \* history variables: no guard reads them
  doubled,    \* an id was given to two entities
  mixed,      \* the graph was replaced while another request was writing it
  torn        \* the graph was written between a snapshot's two reads

orgVars == <<moment, entity, listed, gnode, gedge, snapshot, thread, copied, kills, doubled, mixed, torn>>

-----------------------------------------------------------------------------
(* The id of an entity: its type and the second it was made in.            *)
EntityTypes == {"COMPANY", "TEAM", "PROJECT"}
EntityKeys == EntityTypes \X (1..MaxMoment)
NodeKeys == EntityKeys \cup ({"ORGANIZATION_STRATEGY"} \X (1..MaxMoment))
Top == <<"top", 0>>          \* no parent
Missing == <<"missing", 0>>  \* no row

AtRest == [at |-> "rest"]
OrgInit ==
  /\ moment = 1 /\ copied = 0 /\ kills = 0
  /\ entity = [k \in EntityKeys |-> Missing] /\ listed = << >>
  /\ gnode = [k \in NodeKeys |-> Missing] /\ gedge = {} /\ snapshot = {}
  /\ thread = [t \in Threads |-> AtRest]
  /\ doubled = FALSE /\ mixed = FALSE /\ torn = FALSE

InGraph(g) == {k \in NodeKeys : g[k] # Missing}

-----------------------------------------------------------------------------
(* The reasoning engine, on the nodes g.                                   *)

(* A step of get_ancestors: to a parent that is stored and was not met.    *)
Climb(g, c) ==
  LET up == g[c.at] IN
  IF up \in {Top, Missing} \/ up \in ToSet(c.path) THEN c
  ELSE IF g[up] = Missing THEN c
  ELSE [path |-> Append(c.path, up), at |-> up]

(* get_ancestors: nearest first.  A walk that meets nothing twice has no   *)
(* more steps than there are keys.                                         *)
Climbs(g, k) ==
  LET after[n \in 0..Cardinality(NodeKeys)] ==
        IF n = 0 THEN [path |-> << >>, at |-> k] ELSE Climb(g, after[n - 1])
  IN after
Ancestors(g, k) == Climbs(g, k)[Cardinality(NodeKeys)].path

(* What edges lead to from the keys in start, breadth first: near, and     *)
(* what is one step further.                                               *)
Further(edges, near) == near \cup {e[2] : e \in {x \in edges : x[1] \in near}}
Spreads(edges, start) ==
  LET after[n \in 0..Cardinality(NodeKeys)] ==
        IF n = 0 THEN start ELSE Further(edges, after[n - 1])
  IN after
Spread(edges, start) == Spreads(edges, start)[Cardinality(NodeKeys)]

(* Slip: the children, and no further.                                     *)
DescendantsNear(g, k) == {x \in NodeKeys : g[x] = k}

(* get_descendants: breadth first over the stored children.                *)
Descendants(g, k) == Spread({<<g[x], x>> : x \in InGraph(g)}, {x \in NodeKeys : g[x] = k})

(* find_owner: a company is its own; the nearest team above, else the      *)
(* company above.                                                          *)
Owner(g, k) ==
  LET up == Ancestors(g, k)
      nearest(type) == CHOOSE i \in DOMAIN up : up[i][1] = type /\ \A j \in 1..(i - 1) : up[j][1] # type
      above(type) == \E i \in DOMAIN up : up[i][1] = type IN
  IF k[1] = "COMPANY" THEN k
  ELSE IF above("TEAM") THEN up[nearest("TEAM")]
  ELSE IF above("COMPANY") THEN up[nearest("COMPANY")] ELSE Missing

(* Slip: an edge is followed from its source only.                         *)
ImpactedForward(g, edges, k) == (Spread(edges, {k}) \ {k}) \cap InGraph(g)

(* impact_analysis: every relation the program stores is one of those it   *)
(* follows both ways, also through nodes that are not stored.              *)
Impacted(g, edges, k) ==
  (Spread(edges \cup {<<e[2], e[1]>> : e \in edges}, {k}) \ {k}) \cap InGraph(g)

-----------------------------------------------------------------------------
Pass ==
  /\ moment < MaxMoment /\ moment' = moment + 1
  /\ UNCHANGED <<entity, listed, gnode, gedge, snapshot, thread, copied, kills, doubled, mixed, torn>>

Room == Len(listed) + copied < MaxRequests

(* The rows that an INSERT OR REPLACE of key leaves as they are.           *)
Others(key) ==
  IF \E i \in DOMAIN listed : listed[i] = key
  THEN RemoveAt(listed, CHOOSE i \in DOMAIN listed : listed[i] = key) ELSE listed

(* Slip: any parent will do.                                               *)
RegisterAnywhere ==
  \E type \in EntityTypes, up \in EntityKeys \cup {Top} :
    LET key == <<type, moment>> IN
    /\ Len(listed) < MaxEntities /\ Room
    /\ (type = "COMPANY") = (up = Top)
    /\ doubled' = (doubled \/ entity[key] # Missing)
    /\ entity' = [entity EXCEPT ![key] = up]
    /\ listed' = Append(Others(key), key)
    /\ UNCHANGED <<moment, gnode, gedge, snapshot, thread, copied, kills, mixed, torn>>

(* OrganizationGraphManager.register: a company has no parent, all others  *)
(* have one that is stored, of whatever type.  A row with the id is        *)
(* replaced.                                                               *)
RegisterEntity ==
  \E type \in EntityTypes, up \in EntityKeys \cup {Top} :
    LET key == <<type, moment>> IN
    /\ Len(listed) < MaxEntities /\ Room
    /\ (type = "COMPANY") = (up = Top)
    /\ up # Top => entity[up] # Missing
    /\ doubled' = (doubled \/ entity[key] # Missing)
    /\ entity' = [entity EXCEPT ![key] = up]
    /\ listed' = Append(Others(key), key)
    /\ UNCHANGED <<moment, gnode, gedge, snapshot, thread, copied, kills, mixed, torn>>

Takes(t, work) ==
  /\ thread[t] = AtRest /\ copied < MaxCopies /\ Room /\ copied' = copied + 1
  /\ thread' = [thread EXCEPT ![t] = work]
  /\ UNCHANGED <<moment, entity, listed, gnode, gedge, kills, doubled, torn>>
Turns(t, work) ==
  thread' = [thread EXCEPT ![t] = work] /\ UNCHANGED <<moment, entity, listed, copied, kills, doubled>>
BetweenReads == \E t \in Threads : thread[t].at = "edges"
Writing == \E t \in Threads : thread[t].at \in {"sync", "link", "edge"}

(* organization_graph_sync: the entities are listed, then saved.           *)
BeginSync(t) ==
  /\ listed # << >>
  /\ Takes(t, [at |-> "sync", todo |-> [i \in DOMAIN listed |-> <<listed[i], entity[listed[i]]>>]])
  /\ UNCHANGED <<snapshot, mixed>>

(* Slip: the newest first.                                                 *)
SyncOneBackwards(t) ==
  LET todo == thread[t].todo pair == todo[Len(todo)] IN
  /\ thread[t].at = "sync"
  /\ gnode' = [gnode EXCEPT ![pair[1]] = pair[2]]
  /\ torn' = (torn \/ BetweenReads)
  /\ Turns(t, IF Len(todo) = 1 THEN AtRest ELSE [thread[t] EXCEPT !.todo = Front(@)])
  /\ UNCHANGED <<gedge, snapshot, mixed>>

SyncOne(t) ==
  LET todo == thread[t].todo pair == Head(todo) IN
  /\ thread[t].at = "sync"
  /\ gnode' = [gnode EXCEPT ![pair[1]] = pair[2]]
  /\ torn' = (torn \/ BetweenReads)
  /\ Turns(t, IF Len(todo) = 1 THEN AtRest ELSE [thread[t] EXCEPT !.todo = Tail(@)])
  /\ UNCHANGED <<gedge, snapshot, mixed>>

(* The strategy layer saves a node, then an edge to a project it finds.    *)
BeginLink(t) ==
  /\ Takes(t, [at |-> "link", key |-> <<"ORGANIZATION_STRATEGY", moment>>])
  /\ UNCHANGED <<snapshot, mixed>>
SaveStrategyNode(t) ==
  /\ thread[t].at = "link"
  /\ gnode' = [gnode EXCEPT ![thread[t].key] = Top]
  /\ torn' = (torn \/ BetweenReads)
  /\ Turns(t, [thread[t] EXCEPT !.at = "edge"])
  /\ UNCHANGED <<gedge, snapshot, mixed>>

(* Slip: the project is looked up among the registered ones.               *)
SaveStrategyEdgeAhead(t) ==
  /\ thread[t].at = "edge"
  /\ \E k \in {x \in EntityKeys : x[1] = "PROJECT" /\ entity[x] # Missing} :
       gedge' = gedge \cup {<<thread[t].key, k>>}
  /\ torn' = (torn \/ BetweenReads)
  /\ Turns(t, AtRest) /\ UNCHANGED <<gnode, snapshot, mixed>>

SaveStrategyEdge(t) ==
  /\ thread[t].at = "edge"
  /\ \/ \E k \in {x \in InGraph(gnode) : x[1] = "PROJECT"} : gedge' = gedge \cup {<<thread[t].key, k>>}
     \/ UNCHANGED gedge
  /\ torn' = (torn \/ BetweenReads)
  /\ Turns(t, AtRest) /\ UNCHANGED <<gnode, snapshot, mixed>>

(* GraphSnapshotManager.create: the nodes, then the edges; the checksum is *)
(* that of what was read.                                                  *)
BeginSnapshot(t) ==
  Takes(t, [at |-> "edges", nodes |-> gnode]) /\ UNCHANGED <<snapshot, mixed>>
SaveSnapshot(t) ==
  /\ thread[t].at = "edges"
  /\ snapshot' = snapshot \cup {[nodes |-> thread[t].nodes, edges |-> gedge]}
  /\ Turns(t, AtRest) /\ UNCHANGED <<gnode, gedge, mixed, torn>>

(* Slip: the deletion is committed by itself.                              *)
RestoreCleared(t) ==
  \E s \in snapshot :
    /\ thread[t] = AtRest /\ copied < MaxCopies /\ Room /\ copied' = copied + 1
    /\ gnode' = [k \in NodeKeys |-> Missing] /\ gedge' = {}
    /\ mixed' = (mixed \/ Writing) /\ torn' = (torn \/ BetweenReads)
    /\ UNCHANGED <<moment, entity, listed, snapshot, thread, kills, doubled>>

(* GraphSnapshotManager.restore: one transaction replaces the graph.       *)
Restore(t) ==
  \E s \in snapshot :
    /\ thread[t] = AtRest /\ copied < MaxCopies /\ Room /\ copied' = copied + 1
    /\ gnode' = s.nodes /\ gedge' = s.edges
    /\ mixed' = (mixed \/ Writing) /\ torn' = (torn \/ BetweenReads)
    /\ UNCHANGED <<moment, entity, listed, snapshot, thread, kills, doubled>>

Kill ==
  /\ kills < MaxKills /\ kills' = kills + 1
  /\ \E t \in Threads : thread[t] # AtRest
  /\ thread' = [t \in Threads |-> AtRest]
  /\ UNCHANGED <<moment, entity, listed, gnode, gedge, snapshot, copied, doubled, mixed, torn>>

OrgNext ==
  \/ Pass \/ RegisterEntity \/ Kill
  \/ \E t \in Threads :
       \/ BeginSync(t) \/ SyncOne(t) \/ BeginLink(t) \/ SaveStrategyNode(t) \/ SaveStrategyEdge(t)
       \/ BeginSnapshot(t) \/ SaveSnapshot(t) \/ Restore(t)

OrgSpec == OrgInit /\ [][OrgNext]_orgVars

-----------------------------------------------------------------------------
(* Properties.                                                             *)

(* Whatever part of a sync has run, whatever snapshot was restored and     *)
(* wherever the process died, the graph has an owner for every entity in   *)
(* it: parents are saved before their children.  Only an id that two       *)
(* entities share, or a restore in the middle of a sync, leaves orphans.   *)
EveryoneHasAnOwner ==
  doubled \/ mixed \/
    \A k \in InGraph(gnode) : k[1] \in EntityTypes => Owner(gnode, k) # Missing

(* The two traversals agree: a is an ancestor of k exactly when k is a     *)
(* descendant of a, in half-synced graphs and in those with a cycle that   *)
(* a shared id has made.                                                   *)
DescentMirrorsAscent ==
  LET above == [k \in InGraph(gnode) |-> ToSet(Ancestors(gnode, k))]
      below == [a \in InGraph(gnode) |-> Descendants(gnode, a)] IN
  \A k, a \in InGraph(gnode) : a \in above[k] <=> k \in below[a]

(* Nobody is above themselves, except by a shared id.                      *)
HierarchyIsATree ==
  doubled \/ \A k \in InGraph(gnode) : k \notin Descendants(gnode, k)

(* Impact is mutual.                                                       *)
ImpactIsMutual ==
  LET hit == [k \in InGraph(gnode) |-> Impacted(gnode, gedge, k)] IN
  \A k, x \in InGraph(gnode) : x \in hit[k] <=> k \in hit[x]

(* A snapshot is a graph: its edges end in its nodes, unless the graph was *)
(* written between the two reads, or replaced under a writer.              *)
SnapshotIsClosed ==
  torn \/ mixed \/
    \A s \in snapshot : \A e \in s.edges : {e[1], e[2]} \subseteq InGraph(s.nodes)

(* The graph loses nothing except to a restore, and a restore leaves just  *)
(* what a snapshot holds.                                                  *)
OnlyRestoreForgets ==
  [][\/ InGraph(gnode) \subseteq InGraph(gnode') /\ gedge \subseteq gedge'
     \/ [nodes |-> gnode', edges |-> gedge'] \in snapshot]_orgVars

(* The copy in the graph's database is a tree like the organization, what  *)
(* is asked of it is answered alike from both ends, and its snapshots can  *)
(* be restored.                                                            *)
GraphIsSound ==
  /\ [](EveryoneHasAnOwner /\ DescentMirrorsAscent /\ HierarchyIsATree)
  /\ [](ImpactIsMutual /\ SnapshotIsClosed)
  /\ OnlyRestoreForgets
=============================================================================
