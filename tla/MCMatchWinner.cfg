CONSTANTS
  Hz = 5
  GameTime = 7
  MinFlight = 4
  CountBound = 42
SPECIFICATION Spec
INVARIANT WinnerNotBehind
