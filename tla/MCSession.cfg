CONSTANTS
  B = 3
  signal1 = 3
  ball_signal = 6
  Messages <- OneMessage
  FifoDepth = 16
  Capacity = 16
  MaxSent = 3
  Habits = {}
SPECIFICATION Spec
INVARIANTS ReadWasSent
PROPERTIES PlayTogether NobodyAlone
CHECK_DEADLOCK FALSE
