CONSTANTS
  B = 3
  signal1 = 3
  ball_signal = 6
  Messages <- MCMessages
  FifoDepth = 16
  Capacity = 16
  MaxSent = 2
  Habits = {"hasty"}
SPECIFICATION Spec
INVARIANTS BothOrNeither
CHECK_DEADLOCK FALSE
