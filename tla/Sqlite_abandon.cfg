\* Callers stop, closed storages stop.
CHECK_DEADLOCK FALSE
SPECIFICATION AllSpec
CONSTANTS
  s1 = s1
  s2 = s2
  k1 = k1
  k2 = k2
  NoStore = NoStore
  Absent = Absent
  Parts = {"sqlite"}
  Stores = {s1, s2}
  Keys = {k1, k2}
  MaxCalls = 2
  Ops = {1}
  MinConn = 1
  MaxConn = 2
  Objects = {1}
  Process <- Processes
  ReadOnly <- Readers
  MaxCursors = 1
  MaxRows = 2
INVARIANTS
  StoredWhenReturned
