SPECIFICATION FairSpec
CONSTANTS
  r1 = r1
  h1 = h1
  h2 = h2
  Requests = {r1}
  Handlers = {h1, h2}
  MaxRestarts = 2
INVARIANTS
  RunsWereAllowed
  StatusIsTrue
PROPERTIES
  SettledForever
  RequestsSettle
