SPECIFICATION Spec
CONSTANTS
  c1 = c1
  r1 = r1
  r2 = r2
  p1 = p1
  p2 = p2
  a1 = a1
  a2 = a2
  Plain = {"x", "y"}
  Dashed = {"-- z"}
  MaxFile = 3
  MaxPatch = 5
  MaxParts = 4
  Claims = {c1}
  Reviews = {r1, r2}
  Scores = {30, 45}
  MaxMeasured = 2
  MaxFalls = 1
  Confidences = {0, 20, 50, 60, 95}
  MaxEvaluations = 2
  Cases = 3
  MaxRuns = 1
  Proposals = {p1, p2}
  Readers = {a1, a2}
  MaxOutages = 1
INVARIANTS
  
  StreamsAreHonest
  
  
PROPERTIES
  
  AssistantEnds
CHECK_DEADLOCK FALSE
