CONSTANTS
  B = 3
  signal1 = 3
  ball_signal = 6
  Messages <- MCMessages
  FifoDepth = 2
  Capacity = 16
  MaxSent = 1
  Habits = {"hasty", "rules", "clock", "lossy"}
SPECIFICATION Spec
PROPERTIES DeafUntilReset
CHECK_DEADLOCK FALSE
