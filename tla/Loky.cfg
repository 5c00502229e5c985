\* The callers stop when they have no more to submit.
CHECK_DEADLOCK FALSE
SPECIFICATION Spec
CONSTANTS
  MaxWorkers = 2
  RetireAfter = 3
  Prefork = TRUE
  MaxWork = 4
  MaxTimeouts = 1
  QueueSize = 2
  MayLeak = TRUE
  MaxFailures = 1
INVARIANTS
  TypeOK
  OnePlace
  LiveAreBounded
  CleanRetirement
PROPERTIES
  ItemResolved
  ExitTerminates
