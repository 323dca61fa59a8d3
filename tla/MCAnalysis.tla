----------------------------- MODULE MCAnalysis -----------------------------
(* Small instances, for TLC, of the modules about what the bridge computes *)
(* and judges.  They share no state: a run looks at one, as chosen at the  *)
(* start.                                                                  *)
EXTENDS Patch, Chat, Governance, Validation, Improvements, TLC

CONSTANTS c1, r1, r2, p1, p2, a1, a2

VARIABLE focus

Init ==
  /\ focus \in {"patch", "chat", "governance", "validation", "improvements"}
  /\ PatchInit /\ ChatInit /\ GovInit /\ ValidationInit /\ ImprovementInit
  /\ focus # "patch" => original = << >>
  /\ focus # "chat" =>
       ask = [face |-> "llm", way |-> "chat", adapter |-> "local", known |-> TRUE, ready |-> TRUE]

AnswersChat ==
  /\ focus = "chat" /\ ChatNext
  /\ UNCHANGED <<focus, patchVars, govVars, validationVars, improvementVars>>

Next ==
  \/ AnswersChat
  \/ /\ focus = "patch" /\ PatchNext
     /\ UNCHANGED <<focus, chatVars, govVars, validationVars, improvementVars>>
  \/ /\ focus = "governance" /\ GovNext
     /\ UNCHANGED <<focus, patchVars, chatVars, validationVars, improvementVars>>
  \/ /\ focus = "validation" /\ ValidationNext
     /\ UNCHANGED <<focus, patchVars, chatVars, govVars, improvementVars>>
  \/ /\ focus = "improvements" /\ ImprovementNext
     /\ UNCHANGED <<focus, patchVars, chatVars, govVars, validationVars>>

vars == <<focus, patchVars, chatVars, govVars, validationVars, improvementVars>>

(* The fairness of ChatSpec.                                               *)
Spec == Init /\ [][Next]_vars /\ WF_vars(AnswersChat)
=============================================================================
