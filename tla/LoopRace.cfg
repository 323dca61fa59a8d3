SPECIFICATION Spec
CONSTANTS
  c1 = c1
  f1 = f1
  h1 = h1
  h2 = h2
  p1 = p1
  p2 = p2
  t1 = t1
  Tasks = {t1}
  First = t1
  Proposals = {p1, p2}
  Files = {f1}
  Contents = {c1}
  Handlers = {h1, h2}
  MaxPlans = 2
  MaxRestarts = 0
SYMMETRY Symmetry
INVARIANTS
  StatusIsEarned
  RunsOncePerPlan
CHECK_DEADLOCK FALSE
