\* The callers stop when they have no more to submit.
CHECK_DEADLOCK FALSE
SPECIFICATION Spec
CONSTANTS
  p1 = p1
  p2 = p2
  t1 = t1
  t2 = t2
  t3 = t3
  NoTask = NoTask
  Nobody = Nobody
  Threads = {p1, p2}
  Tasks = {t1, t2, t3}
  Follow <- OneCallback
  MaxGen = 3
  RecycleAfter = 1
INVARIANTS
  TypeOK
  OneExecutor
  GoneIsDrained
PROPERTIES
  WaitEnds
  ImplementsService
