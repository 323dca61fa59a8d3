--------------------------- MODULE MCExecutionLoop ---------------------------
(* Small instances of ExecutionLoop for TLC.  No task but the first, and   *)
(* no proposal, content or thread, is told apart from the others.          *)
EXTENDS ExecutionLoop, TLC

Symmetry ==
  Permutations(Handlers) \cup Permutations(Proposals) \cup Permutations(Contents)

=============================================================================
