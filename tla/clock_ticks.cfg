SPECIFICATION CarefulSpec
CONSTANTS
  Listeners = {manager, other}
  LegacyListeners = {controller, generator}
  Intervals = {2, 3}
  FirstInterval = 2
  Drifts = {0, 1}
  Deltas = {0, 3}
  IdleTicks = {0, 2}
  Kinds = {0}
  MaxPending = 2
  MaxChanges = 2
  Horizon = 8
INVARIANTS
  AssertionsHold
PROPERTIES
  TimestampsKeepPromise
  TicksKeepPromise
SYMMETRY Alike
