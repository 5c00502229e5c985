\* Callers, readers of chains and set-ups come to an end.
CHECK_DEADLOCK FALSE
SPECIFICATION AllSpec
CONSTANTS
  p1 = p1
  p2 = p2
  f1 = f1
  f2 = f2
  a1 = a1
  a2 = a2
  global = global
  session = session
  NoStore = NoStore
  Absent = Absent
  Parts = {"cache", "iter", "tree", "log"}
  Threads = {p1, p2}
  Functions = {f1, f2}
  Args = {a1, a2}
  Stores = {global, session}
  Values <- Returned
  Signature <- OwnSignature
  Hash <- OwnHash
  Results <- Distinct
  MaxCalls = 4
  MaxLinks = 2
  Adapters <- AllAdapters
  Sources <- Lists
  Apply <- Mark
  Spread <- Split
  Key <- Odd
  Keep <- NotOne
  Raises <- Three
  Tuples <- SomeTuples
  Unhashable = {9}
  Capacity = 2
  MaxAdds = 4
  MaxForeign = 1
INVARIANTS
  AllTypeOK
  AnswersRight
  AgreesWithEager
  ReadsOnlyWhatItNeeds
  CountsAddUp
  SetUpOnce
  HandlersSeeTheSame
PROPERTIES
  EntriesSettle
