------------------------------ MODULE Physics -------------------------------
(***************************************************************************)
(* model/physics.c: how a sprite may move on the table.  A sprite is the   *)
(* record of its position (top left corner, y growing downwards) and its   *)
(* last speed (yspeed growing upwards, as the mouse reports it); its size  *)
(* and its opaque pixels do not change and are constants.  The operators   *)
(* are pure: Table.tla applies them to the three sprites of a game.        *)
(***************************************************************************)
EXTENDS Integers

CONSTANTS
  horizontal_start, horizontal_end,   \* the side walls
  vertical_start, vertical_end,       \* the end walls
  middle_field,                       \* the line between the two halves
  left_post, right_post,              \* the goal mouth, in both end walls
  max_velocity,                       \* bound on the Ball's speed components
  ball_size, puck_size,               \* width = height of the two images
  BallPixels, PuckPixels,             \* offsets of their opaque pixels
  BallSpot, BlueSpot, RedSpot         \* starting positions, as [x, y]

(* physics.h orders the walls, the line and the posts, and the images fit  *)
(* between them.                                                           *)
ASSUME GeometryAssumption ==
  /\ \A n \in {horizontal_start, horizontal_end, vertical_start, vertical_end,
               middle_field, left_post, right_post} : n \in Int
  /\ \A n \in {max_velocity, ball_size, puck_size} : n \in Nat \ {0}
  /\ horizontal_start + puck_size <= horizontal_end
  /\ vertical_start + puck_size <= middle_field
  /\ middle_field + puck_size <= vertical_end
  /\ ball_size <= puck_size

(* reset_game_state puts the Ball inside the walls and clear of both goal  *)
(* lines, and each puck in its own half.                                   *)
ASSUME SpotAssumption ==
  /\ \A s \in {BallSpot, BlueSpot, RedSpot} : s \in [x : Int, y : Int]
  /\ BallSpot.x >= horizontal_start
  /\ BallSpot.x + ball_size <= horizontal_end
  /\ BallSpot.y > vertical_start
  /\ BallSpot.y + ball_size < vertical_end
  /\ \A s \in {BlueSpot, RedSpot} :
       s.x >= horizontal_start /\ s.x + puck_size <= horizontal_end
  /\ BlueSpot.y >= middle_field /\ BlueSpot.y + puck_size <= vertical_end
  /\ RedSpot.y >= vertical_start /\ RedSpot.y + puck_size <= middle_field

(* A sprite, and one put at rest on a spot. *)
Sprite == [x : Int, y : Int, xspeed : Int, yspeed : Int]

AtRest(spot) == [x |-> spot.x, y |-> spot.y, xspeed |-> 0, yspeed |-> 0]

-----------------------------------------------------------------------------

(* Mutated form: the right wall tested against the sprite's left edge.     *)
detect_wall_collision_left_edge(size, new_x, new_y) ==
  { w \in {"top", "right", "bottom", "left"} :
      \/ w = "top"    /\ new_y < vertical_start
      \/ w = "right"  /\ new_x > horizontal_end
      \/ w = "bottom" /\ new_y + size > vertical_end
      \/ w = "left"   /\ new_x < horizontal_start }

(* detect_wall_collision: the walls a sprite of this size would cross at   *)
(* (new_x, new_y); the code's info[0..3] are top, right, bottom and left.  *)
detect_wall_collision(size, new_x, new_y) ==
  { w \in {"top", "right", "bottom", "left"} :
      \/ w = "top"    /\ new_y < vertical_start
      \/ w = "right"  /\ new_x + size > horizontal_end
      \/ w = "bottom" /\ new_y + size > vertical_end
      \/ w = "left"   /\ new_x < horizontal_start }

(* Mutated form: the upper half tests the sprite's top edge, not its       *)
(* bottom edge, against the line.                                          *)
detect_middle_field_collision_top_edge(object, new_y) ==
  IF object.y < middle_field
    THEN new_y >= object.y /\ new_y > middle_field
    ELSE new_y <= object.y /\ new_y < middle_field

(* detect_middle_field_collision: a puck moving towards the middle line    *)
(* from its own side would cross it.                                       *)
detect_middle_field_collision(object, new_y) ==
  IF object.y < middle_field
    THEN new_y >= object.y /\ new_y + puck_size > middle_field
    ELSE new_y <= object.y /\ new_y < middle_field

(* detect_goal_collision: the players whose score a Ball at (new_x, new_y) *)
(* increments: it is between the posts and touches an end line.            *)
detect_goal_collision(new_x, new_y) ==
  { p \in {1, 2} :
      /\ new_x >= left_post
      /\ new_x + ball_size <= right_post
      /\ \/ p = 2 /\ new_y <= vertical_start
         \/ p = 1 /\ new_y + ball_size >= vertical_end }

(* detect_collision and pixel_detection: some pixel is opaque in the Ball  *)
(* at (ball_x, ball_y) and in a puck at (puck_x, puck_y).                  *)
detect_collision(ball_x, ball_y, puck_x, puck_y) ==
  \E p \in BallPixels :
    [x |-> ball_x + p.x - puck_x, y |-> ball_y + p.y - puck_y] \in PuckPixels

(* handle_play_area_collision on the Ball: it stays where it is and turns  *)
(* back, once per wall it would have crossed.                              *)
bounce_off_walls(object, walls) ==
  [object EXCEPT
     !.xspeed = IF "right" \in walls /\ "left" \in walls THEN @
                ELSE IF "right" \in walls \/ "left" \in walls THEN -@ ELSE @,
     !.yspeed = IF "top" \in walls /\ "bottom" \in walls THEN @
                ELSE IF "top" \in walls \/ "bottom" \in walls THEN -@ ELSE @]

(* handle_play_area_collision on a puck: it is put against the walls it    *)
(* would have crossed; the later assignment wins when there are two.       *)
clamp_to_walls(object, walls) ==
  [object EXCEPT
     !.x = IF "left" \in walls THEN horizontal_start
           ELSE IF "right" \in walls THEN horizontal_end - puck_size ELSE @,
     !.y = IF "bottom" \in walls THEN vertical_end - puck_size
           ELSE IF "top" \in walls THEN vertical_start ELSE @]

(* The component v held between the two speed limits. *)
Limit(v) == IF v > max_velocity THEN max_velocity
            ELSE IF v < -max_velocity THEN -max_velocity ELSE v

(* Mutated form: only the horizontal component is limited.                 *)
normalize_speed_x_only(object) == [object EXCEPT !.xspeed = Limit(@)]

(* normalize_speed *)
normalize_speed(object) ==
  [object EXCEPT !.xspeed = Limit(@), !.yspeed = Limit(@)]

(* bounce_off and ball_collision: the Ball's speed after it met a puck.    *)
(* It turns back from a puck at rest that it ran into, and takes the       *)
(* puck's (limited) speed in every other case.                             *)
bounce_off(ball, puck) ==
  IF puck.xspeed = 0 /\ puck.yspeed = 0
    THEN [ball EXCEPT !.xspeed = -@, !.yspeed = -@]
    ELSE normalize_speed([ball EXCEPT !.xspeed = puck.xspeed, !.yspeed = puck.yspeed])

ball_collision(ball, puck) ==
  normalize_speed([ball EXCEPT !.xspeed = puck.xspeed, !.yspeed = puck.yspeed])

-----------------------------------------------------------------------------

(* move(puck, x, y, 2): where the puck ends up.  The walls come first, then *)
(* the middle line, then, on the main PC, the disk: against what stopped    *)
(* it, where it was if the disk did (hits), or where it was told to go,     *)
(* which is now its speed.                                                  *)
move_puck(puck, x, y, hits) ==
  LET walls == detect_wall_collision(puck_size, puck.x + x, puck.y - y)
  IN  IF walls # {} THEN clamp_to_walls(puck, walls)
      ELSE IF detect_middle_field_collision(puck, puck.y - y)
        THEN [puck EXCEPT !.y = IF @ < middle_field THEN middle_field - puck_size
                                                    ELSE middle_field]
      ELSE IF hits THEN puck
      ELSE [x |-> puck.x + x, y |-> puck.y - y, xspeed |-> x, yspeed |-> y]
=============================================================================
