----------------------------- MODULE MCServices -----------------------------
(* Small instances, for TLC, of the modules about what several requests    *)
(* work on at once.  They share no state: a run looks at one, as chosen at *)
(* the start.  Who asks, and what is asked for, is not told apart.         *)
EXTENDS ExecutionDag, TaskDependencies, Assistant, Strategy, OrgGraph, Extension,
        TLC

VARIABLE focus

(* The configuration has the same loops, tasks and requests everywhere.    *)
Symmetry == Permutations(Loops) \cup Permutations(Slots)

Init ==
  /\ focus \in {"loops", "tasks", "assistant", "strategy", "graph", "extension"}
  /\ DagInit /\ DepInit /\ AssistantInit /\ StrategyInit /\ OrgInit /\ ExtensionInit

Next ==
  /\ UNCHANGED focus
  /\ \/ /\ focus = "loops" /\ DagNext
        /\ UNCHANGED <<depVars, assistantVars, strategyVars, orgVars, extensionVars>>
     \/ /\ focus = "tasks" /\ DepNext
        /\ UNCHANGED <<dagVars, assistantVars, strategyVars, orgVars, extensionVars>>
     \/ /\ focus = "assistant" /\ AssistantNext
        /\ UNCHANGED <<dagVars, depVars, strategyVars, orgVars, extensionVars>>
     \/ /\ focus = "strategy" /\ StrategyNext
        /\ UNCHANGED <<dagVars, depVars, assistantVars, orgVars, extensionVars>>
     \/ /\ focus = "graph" /\ OrgNext
        /\ UNCHANGED <<dagVars, depVars, assistantVars, strategyVars, extensionVars>>
     \/ /\ focus = "extension" /\ ExtensionNext
        /\ UNCHANGED <<dagVars, depVars, assistantVars, strategyVars, orgVars>>

Spec ==
  Init /\ [][Next]_<<focus, dagVars, depVars, assistantVars, strategyVars, orgVars,
                      extensionVars>>
=============================================================================
