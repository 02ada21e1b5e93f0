SPECIFICATION FairStorage
CONSTANTS
  T1 = T1
  T2 = T2
  T3 = T3
  P = P
  Q = Q
  x = x
  y = y
  v = v
  None = None
  Absent = Absent
  Malformed = Malformed
  Nobody = Nobody
  Tasks = {T1, T2, T3}
  Processes = {P, Q}
  ProcessOf <- InProcess
  Keys = {x, y}
  Values = {v}
  Requests <- MCRequests
  MaxCalls = 3
  MaxKills = 1
  MaxOutages = 1
PROPERTIES
  StoreSpec
  CallEnds
CHECK_DEADLOCK FALSE
