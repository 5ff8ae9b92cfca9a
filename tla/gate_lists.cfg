SPECIFICATION Spec
CONSTANTS
  Gates = {"tt", "be", "bg"}
  InitialSchedule <- ExactInitial
  Proposals <- AllProposals
  BaseTime = 2
  DefaultInterval = 40
  LengthAwareGates = {"tt", "be"}
  MtuTime = 3
  MaxAhead = 16
INVARIANTS
  GatesFollowSchedule
PROPERTIES
  CycleLastsCycleTime
  ExchangedAtCycleStart
  NewScheduleIsLoaded
CHECK_DEADLOCK FALSE
