SPECIFICATION Spec
CONSTANTS
  a1 = a1
  a2 = a2
  q1 = q1
  q2 = q2
  h1 = h1
  h2 = h2
  Actions = {a1, a2}
  Kind <- WriteAndTest
  StageRequests = {q1, q2}
  StartTypes = {"requirement", "testing"}
  Handlers = {h1}
  Lapsing = {a1}
  MaxStages = 2
  MaxRestarts = 1

  
  
PROPERTIES
  TerminalIsFinal
  
