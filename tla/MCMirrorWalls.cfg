SPECIFICATION MirrorSpec
CONSTANTS
  horizontal_start = 3
  horizontal_end = 8
  vertical_start = 2
  vertical_end = 10
  middle_field = 6
  left_post = 4
  right_post = 7
  max_velocity = 1
  ball_size = 1
  puck_size = 2
  BallPixels <- OneCell
  PuckPixels <- FourCells
  BallSpot <- MCBallSpot
  BlueSpot <- MCBlueSpot
  RedSpot <- MCRedSpot
  MouseMoves <- Drags
  Disks <- AtTheLine
  MaxWire = 1
INVARIANT RedShowsOpponent
