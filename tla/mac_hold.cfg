SPECIFICATION Spec
CONSTANTS
  Schedules <- MCRealSchedules
  ExpressLengths = {64}
  PreemptableLengths = {1500}
  PreambleSize = 8
  CrcSize = 4
  InterFrameGap = 12
  MinNonFinal = 60
  MinFinal = 60
  DistinctNames = TRUE
  MaxExpress = 1
  MaxPreemptable = 1
PROPERTIES
  HoldAdvanceSuffices
