CONSTANTS
  horizontal_start = 3
  horizontal_end = 7
  vertical_start = 2
  vertical_end = 10
  middle_field = 6
  left_post = 4
  right_post = 6
  max_velocity = 1
  ball_size = 1
  puck_size = 2
  BallPixels <- MCBallPixels
  PuckPixels <- MCPuckPixels
  BallSpot <- MCBallSpot
  BlueSpot <- MCBlueSpot
  RedSpot <- MCRedSpot
  MouseMoves <- Drags
  PeerMoves <- Echoes
  PeerSpeeds <- Speeds
  MaxDelta = 3
  MinFlight = 3
  WordSize = 16
  signal1 = 4
  ball_signal = 8
SPECIFICATION Spec
INVARIANTS TypeOK PucksInOwnHalf BallInField BallSpeedLimited PuckWordIsNoSignal
PROPERTIES ImplementsGoals
