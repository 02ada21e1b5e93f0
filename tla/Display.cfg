SPECIFICATION Spec
CONSTANTS
  A = A
  B = B
  NoStation = NoStation
  Stations = {A, B}
  Home = A
  BucketRows = 2
  QueueCap = 2
  BufferCap = 1
  Attempts = 2
  Budgets <- DisplayBudgets
INVARIANTS
  StationIsolation
  LiveMeansReceived
  NoLiveRowLost
  LoadedMeansComplete
  RequestHasWakeUp
  AuthorityOfOwner
  ClearedStaysCleared
PROPERTIES
  ReseedKeepsHistory
CHECK_DEADLOCK FALSE
