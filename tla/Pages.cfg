SPECIFICATION PagesSpec
CONSTANTS
  A = A
  B = B
  C = C
  inst = inst
  onA = onA
  onB = onB
  None = None
  Unscoped = Unscoped
  Addresses = {A, B, C}
  Tokens = {inst, onA, onB}
  Homes <- AcceptedAt
  Paired = {inst}
  Remembered = {inst, onA, onB}
  Limit = 2
  MaxInFlight = 2
  NRuns = 3
  EraOf <- InEras
  Capacity = 2
  Cancellable = {1}
  MaxRevision = 2
  MaxEpoch = 1
  MaxAsked = 1
  Bindings = {x, y}
  NoReading = NoReading
  MaxContext = 1
  MaxTicket = 1
  Fresh = 1
  PostLimit = 1
  MaxTime = 3
  MaxSource = 1
  MaxSerial = 1
  Boards = {b1, b2}
  Files = {f1, f2}
  NoBoard = NoBoard
  NoFile = NoFile
  MaxEra = 2
  MaxOperation = 3
  MaxJob = 1
  Occurrences = {o1}
  o1 = o1
  NoSnapshot = NoSnapshot
  MaxRetired = 1
  MaxAuthority = 2
  MaxConditionRevision = 3
  MaxConnection = 2
  MaxWire = 1
  Sites = {A, B}
  Sensors = {s1, s2}
  MaxPoint = 2
  MaxCalibration = 1
  MaxMove = 1
  Recordings = {1, 2}
  Parts = 1
  MaxIdentity = 1
  MaxChoice = 3
  MaxErrand = 2
INVARIANTS
  TokenStaysHome
  SignOutLasts
  RememberedIsCurrent
  OwnedAnswerIsOurs
  PanelsOfThisEra
  CancelOnce
  TicketOnce
  ConfirmIsReviewed
  UnlockIsRecent
  OldAnswerNeverUnlocks
  FlashIsConsented
  ConsentIsSpent
  NominalIsHonest
  QuietEventIsOver
  BusyIsHonest
PROPERTIES
  RunningStaysShown
  DetailsStay
  ScreenNeverBack
  EditsStay
  ReplaceIsConfirmed
  ExportIsChosen
CHECK_DEADLOCK FALSE
