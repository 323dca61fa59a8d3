SPECIFICATION Spec
CONSTANTS
  d1 = d1
  a1 = a1
  a2 = a2
  f1 = f1
  w1 = w1
  w2 = w2
  Docs = {d1}
  Workers = {w1, w2}
  MaxMoves = 4
  MaxStops = 1
  Actions = {a1, a2}
  Targets = {f1}
  TargetOf <- SameTarget
  Runners = {w1, w2}
  MaxRollbacks = 2
  MaxMishaps = 1
  Writers = {w1, w2}
  Cited = {0, 3}
  MaxEntries = 3
  MaxUndone = 1
  MaxKills = 1
  MaxLines = 2
  MaxRecords = 5
  MaxHalts = 3
  Requests = {a1, a2}
  Interval = 2
  MaxTime = 3
  MaxCrashed = 2
  Issues = {a1, a2}
  Options = {"left", "right"}
  Resolvers = {w1, w2}
  Window = 3
  MaxJournal = 5
  MaxTears = 1
  MaxRows = 3
  Sample = {"file_write", "simulation_plan", "benchmark_transition"}
  MaxCuts = 1
  MaxAsked = 3
  MaxLosses = 1
SYMMETRY Symmetry
INVARIANTS
  
  
  ConflictsStayResolved
  QueueIsTruthful
  ActionsAreServed
PROPERTIES
  WorkIsAccountedFor
  DecisionsAreFound
  
  RecordsMoveLegally
CHECK_DEADLOCK FALSE
