SPECIFICATION Spec
CONSTANTS
  A = A
  B = B
  NoStation = NoStation
  Stations = {A}
  Home = A
  BucketRows = 2
  QueueCap = 2
  BufferCap = 1
  Attempts = 2
  Budgets <- GrantBudgets
INVARIANTS
  RunningIsHonest
CHECK_DEADLOCK FALSE
