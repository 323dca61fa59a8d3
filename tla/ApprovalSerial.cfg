SPECIFICATION Spec
CONSTANTS
  r1 = r1
  r2 = r2
  h1 = h1
  Requests = {r1, r2}
  Handlers = {h1}
  MaxRestarts = 2
INVARIANTS
  AtMostOnce
PROPERTIES
  ImplementsLifecycle
