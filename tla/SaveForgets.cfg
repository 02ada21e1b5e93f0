SPECIFICATION CalSpec
CONSTANTS
  Sites = {A, B}
  Sensors = {s1, s2}
  MaxPoint = 1
  MaxCalibration = 1
  MaxMove = 1
PROPERTY SaveKeepsOthers
CHECK_DEADLOCK FALSE
