SPECIFICATION FairSpec
CONSTANTS
  A = A
  B = B
  t = t
  Stations = {A, B}
  Tokens = {t}
  Nobody = Nobody
  Controls = {"Reset", "Go"}
  MaxOrders = 2
  Budget <- ResetBudget
PROPERTIES
  LineSpec
  LinkRestored
CHECK_DEADLOCK FALSE
