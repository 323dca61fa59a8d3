SPECIFICATION Spec
CONSTANTS
  v1 = v1
  t1 = t1
  t2 = t2
  t3 = t3
  h1 = h1
  h2 = h2
  Loops = {t1, t2, t3}
  MaxEdges = 3
  MaxDagRestarts = 1
  Tasks = {t1, t2, t3}
  Graphs = {h1, h2}
  MaxLines = 3
  MaxCrashes = 1
  Vendors = {v1}
  Asks = {t1, t2, t3}
  MaxDeaths = 1
  Slots = {h1, h2}
  MaxSecond = 2
  MaxServed = 4
  MaxStops = 1
  Threads = {h1, h2}
  MaxMoment = 2
  MaxEntities = 3
  MaxCopies = 3
  MaxRequests = 5
  MaxKills = 1
  Tabs = {h1, h2}
  Blocks = {v1}
  MaxClicks = 2
SYMMETRY Symmetry
INVARIANTS
  DagKeepsOrder
  DependenciesStayAcyclic
  EachCardIsDecidedOnce
PROPERTIES
  CredentialsAreSound
  StrategyIsAccountedFor
  
CHECK_DEADLOCK FALSE
