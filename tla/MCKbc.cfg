SPECIFICATION Spec
CONSTANTS
  Faults = {"slow", "keys"}
  DataSync = {TRUE, FALSE}
  MaxKeys = 2
  MaxPackets = 3
  MaxDamage = 1
INVARIANTS PacketsWhole KeysHandledOnce Synchronises
PROPERTY TurnsOnAndOff
CHECK_DEADLOCK FALSE
