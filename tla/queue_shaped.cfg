SPECIFICATION CarefulSpec
CONSTANTS
  Queues = {0, 1}
  ExpressQueues = {0}
  ShapedQueues = {1}
  SendSlope = 3
  ShaperOverhead = 3
  LengthAwareGates = {1}
  Lengths = {1, 2}
  PreambleSize = 1
  MtuTime = 3
  InterFrameGap = 1
  BufferCapacity = 2
  ControlList <- MCControlList
  MaxArrivals = 2
  MaxCredit = 12
INVARIANTS
  AssertionsHold
  TransmissionInSlot
  WorkConserving
  ShaperKeepsWatch
  PaysForOneFrame
PROPERTIES
  StartsHighest
  FramesAreSent
