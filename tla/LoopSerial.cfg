SPECIFICATION Spec
CONSTANTS
  c1 = c1
  c2 = c2
  f1 = f1
  h1 = h1
  p1 = p1
  p2 = p2
  p3 = p3
  t1 = t1
  t2 = t2
  Tasks = {t1, t2}
  First = t1
  Proposals = {p1, p2, p3}
  Files = {f1}
  Contents = {c1, c2}
  Handlers = {h1}
  MaxPlans = 2
  MaxRestarts = 2
SYMMETRY Symmetry
INVARIANTS
  RunsOncePerPlan
  RestoreUndoesAllTasks
  RunsAreRecorded
PROPERTIES
  ImplementsLoopLifecycle
