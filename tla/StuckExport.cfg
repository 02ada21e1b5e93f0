SPECIFICATION ExportSpec
CONSTANTS
  Recordings = {1, 2}
  Parts = 1
  MaxIdentity = 1
  MaxChoice = 3
  MaxErrand = 2
INVARIANT
  DownloadEnds
CHECK_DEADLOCK FALSE
