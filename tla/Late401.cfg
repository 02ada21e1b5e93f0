SPECIFICATION AccountSpec
CONSTANTS
  A = A
  B = B
  C = C
  inst = inst
  onA = onA
  onB = onB
  None = None
  Unscoped = Unscoped
  Addresses = {A, B, C}
  Tokens = {inst, onA, onB}
  Homes <- AcceptedAt
  Paired = {inst}
  Remembered = {inst, onA, onB}
  Limit = 2
  MaxInFlight = 2
PROPERTY RefusalEndsItsOwn
CHECK_DEADLOCK FALSE
