SPECIFICATION ProgramSpec
CONSTANTS
  Byte = 4
  Word = 64
  horizontal_start = 3
  horizontal_end = 9
  vertical_start = 2
  vertical_end = 9
  width = 1
  height = 2
  Spot <- MCSpot
  Low = {0, 1, 3}
  Times <- NewYear
  Slow = FALSE
  Binary = FALSE
  MayFail = {"buffers", "mode", "ier", "timer", "keyboard", "mouse", "rtc", "sp"}
  MayStay = {"mode", "timer", "keyboard", "mouse", "rtc", "sp"}
INVARIANTS TypeOK SomethingSelected OptionIsTheSelection
           DrawnWhereNotRedrawn ShownWithinTwoTicks
           DeltaIsTwosComplement PointerInField
           LoopHasEverything ExitSafely CurrentTimeShown DigitsExist
PROPERTY DateCatchesUp
CHECK_DEADLOCK FALSE
