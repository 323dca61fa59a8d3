SPECIFICATION Spec
CONSTANTS
  r1 = r1
  h1 = h1
  h2 = h2
  Requests = {r1}
  Handlers = {h1, h2}
  MaxRestarts = 0
INVARIANTS
  AtMostOnce
