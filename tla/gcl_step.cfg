SPECIFICATION Spec
CONSTANTS
  Gates = {"tt", "be"}
  InitialSchedule <- MCInitial30
  BaseTime = 0
  DefaultInterval = 40
  LengthAwareGates = {"be"}
  MtuTime = 3
  MaxAhead = 15
  TicksPerUs = 2
  IncreaseStepLength = 4
  DecreaseStepLength = 2
  MaxIncreaseStepLength = 10
  MaxDecreaseStepLength = 6
  UpperLimitTime = 20
  LowerLimitTime = 10
  AutoIntervalDecrease = FALSE
  Delays = {10, 20, 30}
  TTGate = "tt"
  MaxLag = 31
INVARIANTS
  AssertionsHold
  ReservedShare
  OverloadEnlarges
PROPERTIES
  KeepsPromise
  SlotChangeBounded
  OverloadReachesLongest
  UnderloadReachesShortest
