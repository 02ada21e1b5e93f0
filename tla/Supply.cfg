SPECIFICATION Spec
CONSTANTS
  A = A
  B = B
  t = t
  Stations = {A}
  Tokens = {t}
  Nobody = Nobody
  Controls = {"supply"}
  MaxOrders = 2
  Budget <- SupplyBudget
INVARIANTS
  CurrentSocketHasSender
PROPERTIES
  LineSpec
CHECK_DEADLOCK FALSE
