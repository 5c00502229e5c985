\* The callers stop when they have no more to submit.
CHECK_DEADLOCK FALSE
SPECIFICATION Spec
CONSTANTS
  MaxWorkers = 2
  RetireAfter = 2
  Prefork = TRUE
  MaxWork = 3
  MaxTimeouts = 0
  QueueSize = 2
  MayLeak = FALSE
  MaxFailures = 0
PROPERTIES
  WarmAtEntry
