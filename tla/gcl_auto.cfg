SPECIFICATION Spec
CONSTANTS
  Gates = {"tt", "be"}
  InitialSchedule <- MCInitial10
  BaseTime = 0
  DefaultInterval = 40
  LengthAwareGates = {"be"}
  MtuTime = 3
  MaxAhead = 10
  TicksPerUs = 1
  IncreaseStepLength = 1
  DecreaseStepLength = 1
  MaxIncreaseStepLength = 2
  MaxDecreaseStepLength = 2
  UpperLimitTime = 8
  LowerLimitTime = 4
  AutoIntervalDecrease = TRUE
  Delays = {4, 8, 12}
  TTGate = "tt"
  MaxLag = 13
INVARIANTS
  TickNotInThePast
CHECK_DEADLOCK FALSE
