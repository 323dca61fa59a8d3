-------------------------- MODULE MCWorkflowManager --------------------------
(* Instances of WorkflowManager for TLC.                                   *)
EXTENDS WorkflowManager, TLC

CONSTANTS a1, a2, q1, q2, h1, h2

NoActions == << >>
OneWrite == a1 :> "write"
WriteAndTest == a1 :> "write" @@ a2 :> "test"
AgentAndGate == a1 :> "agent" @@ a2 :> "gate"

HandlerSymmetry == Permutations(Handlers)

=============================================================================
