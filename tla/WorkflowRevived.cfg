SPECIFICATION Spec
CONSTANTS
  a1 = a1
  a2 = a2
  q1 = q1
  q2 = q2
  h1 = h1
  h2 = h2
  Actions = {}
  Kind <- NoActions
  StageRequests = {}
  StartTypes = {"requirement"}
  Handlers = {h1, h2}
  Lapsing = {}
  MaxStages = 1
  MaxRestarts = 0
PROPERTIES TerminalIsFinal
