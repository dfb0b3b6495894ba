CONSTANTS
  B = 16
  signal1 = 16
  ball_signal = 32
  Messages <- MCMessages
  FifoDepth = 16
  Capacity = 12
  MaxMessages = 3
SPECIFICATION Spec
INVARIANTS AppliedInOrder NothingLost
PROPERTIES CollectedEventually
CHECK_DEADLOCK FALSE
