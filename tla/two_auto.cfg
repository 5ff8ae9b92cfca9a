SPECIFICATION Spec
CONSTANTS
  Cycle = 10
  InitialTT = 4
  Delays = {1, 2, 3}
  UsedTimes <- MCUsedTimes
  TicksPerUs = 1
  IncreaseStepLength = 1
  DecreaseStepLength = 1
  MaxIncreaseStepLength = 2
  MaxDecreaseStepLength = 2
  UpperLimitTime = 2
  LowerLimitTime = 1
  AutoIntervalDecrease = TRUE
INVARIANTS
  AssertionsHold
  PointersAgree
  OnlySelectedIsAdjusted
CHECK_DEADLOCK FALSE
