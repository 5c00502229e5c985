\* run_in_workers returns.
CHECK_DEADLOCK FALSE
SPECIFICATION Spec
CONSTANTS
  NumWorkers = {0, 1, 2}
  QueueLengths = {0, 1}
  MaxTasks = 5
INVARIANTS
  TypeOK
  ResumesInTime
  EndIsClean
PROPERTIES
  RunEnds
