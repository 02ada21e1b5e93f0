SPECIFICATION FairSpec
CONSTANTS
  A = A
  B = B
  NoStation = NoStation
  Stations = {A}
  Home = A
  BucketRows = 1
  QueueCap = 3
  BufferCap = 3
  Attempts = 2
  Budgets <- FairBudgets
INVARIANTS
  HistoryIsWhole
PROPERTIES
  RequestTakenUp
  SeedEnds
  RunningEnds
  HistoryConverges
CHECK_DEADLOCK FALSE
