SPECIFICATION CarefulSpec
CONSTANTS
  Schedules <- MCSchedules
  ExpressLengths = {5}
  PreemptableLengths = {8, 14}
  PreambleSize = 2
  CrcSize = 1
  InterFrameGap = 2
  MinNonFinal = 4
  MinFinal = 4
  DistinctNames = FALSE
  MaxExpress = 3
  MaxPreemptable = 2
INVARIANTS
  AssertionsHold
  FramesConserved
  ExpressSoonSent
PROPERTIES
  PartsAreLegal
  FramesAreDelivered
