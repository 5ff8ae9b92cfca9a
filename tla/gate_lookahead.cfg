SPECIFICATION AnyLookaheadSpec
CONSTANTS
  Gates = {"tt", "be", "bg"}
  InitialSchedule <- LongInitial
  Proposals <- LongProposals
  BaseTime = 2
  DefaultInterval = 40
  LengthAwareGates = {"be"}
  MtuTime = 3
  MaxAhead = 16
PROPERTIES
  CycleLastsCycleTime
