SPECIFICATION MatchSpec
CONSTANTS
  Hz = 5
  GameTime = 7
  MinFlight = 4
  CountBound = 42
  horizontal_start = 3
  horizontal_end = 8
  vertical_start = 2
  vertical_end = 10
  middle_field = 6
  left_post = 4
  right_post = 7
  max_velocity = 1
  ball_size = 1
  puck_size = 2
  BallPixels <- OneCell
  PuckPixels <- FourCells
  BallSpot <- MCBallSpot
  BlueSpot <- MCBlueSpot
  RedSpot <- MCRedSpot
  MouseMoves <- Drags
  Disks <- AtTheLine
  MaxWire = 1
INVARIANTS TypeOK ClockTracksTicks GoalRate VerdictWithinAGoal CopyKeepsOffset
PROPERTIES MatchEnds
