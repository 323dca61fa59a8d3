SPECIFICATION Spec
CONSTANTS
  a1 = a1
  a2 = a2
  q1 = q1
  q2 = q2
  h1 = h1
  h2 = h2
  Actions = {a1, a2}
  Kind <- AgentAndGate
  StageRequests = {q1, q2}
  StartTypes = {"requirement", "delivery"}
  Handlers = {h1}
  Lapsing = {q1}
  MaxStages = 2
  MaxRestarts = 0
INVARIANTS
  DeliveryIsEarned
PROPERTIES
  ApprovedStageIsFrozen
