--------------------------- MODULE MCApprovalStore ---------------------------
(***************************************************************************)
(* Small instances of ApprovalStore for TLC.  Requests and threads are     *)
(* interchangeable, so the safety runs use symmetry.                       *)
(***************************************************************************)
EXTENDS ApprovalStore, TLC

Symmetry == Permutations(Requests) \cup Permutations(Handlers)

=============================================================================
