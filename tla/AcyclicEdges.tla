---------------------------- MODULE AcyclicEdges ----------------------------
(* Sets of edges <<source, target>> between nodes, and what it means that  *)
(* they have no cycle.                                                     *)

Sources(es, n) == {e[1] : e \in {f \in es : f[2] = n}}
Targets(es, n) == {e[2] : e \in {f \in es : f[1] = n}}

(* Acyclic: in every set of nodes there is one that has no source in it.   *)
Acyclic(N, es) == \A S \in SUBSET N : S # {} => \E n \in S : \A m \in S : <<m, n>> \notin es
=============================================================================
