SPECIFICATION CarefulSpec
CONSTANTS
  States = {"x", "y"}
  InitialAdminState = "y"
  InitialAdminSchedule <- Full
  AdminSchedules <- MCSchedules
  MaxAge = 6
INVARIANTS
  AssertionsHold
  OperStateFollowsSchedule
  CycleEndsInTime
  DatagramsFollowList
PROPERTIES
  ExchangedOnTime
  CyclesGoOn
  LastConfigIsApplied
