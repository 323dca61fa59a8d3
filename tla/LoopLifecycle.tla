--------------------------- MODULE LoopLifecycle ---------------------------
(***************************************************************************)
(* Execution loops as the rest of the system sees them.  With one thread,  *)
(* ExecutionLoop implements this; ExecutionDag orders loops of which it    *)
(* knows no more than this.                                                *)
(***************************************************************************)
CONSTANT Loops

(* absent: no row yet; planning: no proposal yet; underway: from the       *)
(* proposal to the verdict, and recovered after a restart; stopped: failed *)
(* or rolled back.                                                         *)
VARIABLE phase

Phases == {"absent", "planning", "underway", "completed", "stopped"}

LifecycleInit == phase = [l \in Loops |-> "absent"]

Becomes(l, from, to) == phase[l] \in from /\ phase' = [phase EXCEPT ![l] = to]

Create(l) == Becomes(l, {"absent"}, "planning")
(* prepare, or a restart before it.                                        *)
Leave(l) == Becomes(l, {"planning"}, "underway")
Complete(l) == Becomes(l, {"underway"}, "completed")
Stop(l) == Becomes(l, {"planning", "underway"}, "stopped")

LifecycleNext == \E l \in Loops : Create(l) \/ Leave(l) \/ Complete(l) \/ Stop(l)

LifecycleSpec == LifecycleInit /\ [][LifecycleNext]_phase
=============================================================================
