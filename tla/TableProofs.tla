---------------------------- MODULE TableProofs -----------------------------
(***************************************************************************)
(* The table is safe for every geometry, every bound on displacements and  *)
(* every disk and puck image that satisfy the assumptions of Physics.tla   *)
(* and Table.tla.                                                          *)
(***************************************************************************)
EXTENDS Table, TLAPS

(* The constants as plain facts, for the arithmetic below.                 *)
LEMMA Geometry ==
  /\ horizontal_start \in Int /\ horizontal_end \in Int
  /\ vertical_start \in Int /\ vertical_end \in Int
  /\ middle_field \in Int /\ left_post \in Int /\ right_post \in Int
  /\ max_velocity \in Nat \ {0} /\ ball_size \in Nat \ {0} /\ puck_size \in Nat \ {0}
  /\ horizontal_start + puck_size <= horizontal_end
  /\ vertical_start + puck_size <= middle_field
  /\ middle_field + puck_size <= vertical_end
  /\ ball_size <= puck_size
  /\ MaxDelta \in Nat
  /\ MaxDelta <= middle_field - vertical_start
  /\ MaxDelta <= vertical_end - middle_field
  BY GeometryAssumption, MovesAssumption

(* The starting positions as plain facts.                                  *)
LEMMA Spots ==
  /\ BallSpot.x \in Int /\ BallSpot.y \in Int
  /\ BlueSpot.x \in Int /\ BlueSpot.y \in Int
  /\ RedSpot.x \in Int /\ RedSpot.y \in Int
  /\ BallSpot.x >= horizontal_start /\ BallSpot.x + ball_size <= horizontal_end
  /\ BallSpot.y > vertical_start /\ BallSpot.y + ball_size < vertical_end
  /\ BlueSpot.x >= horizontal_start /\ BlueSpot.x + puck_size <= horizontal_end
  /\ RedSpot.x >= horizontal_start /\ RedSpot.x + puck_size <= horizontal_end
  /\ BlueSpot.y >= middle_field /\ BlueSpot.y + puck_size <= vertical_end
  /\ RedSpot.y >= vertical_start /\ RedSpot.y + puck_size <= middle_field
<1>1. BallSpot \in [x : Int, y : Int] /\ BlueSpot \in [x : Int, y : Int]
      /\ RedSpot \in [x : Int, y : Int]
  BY SpotAssumption
<1>. QED
  BY <1>1, SpotAssumption

(* Which walls detect_wall_collision reports.                              *)
LEMMA Walls ==
  ASSUME NEW size \in Int, NEW a \in Int, NEW b \in Int
  PROVE  LET w == detect_wall_collision(size, a, b)
         IN  /\ "top" \in w <=> b < vertical_start
             /\ "right" \in w <=> a + size > horizontal_end
             /\ "bottom" \in w <=> b + size > vertical_end
             /\ "left" \in w <=> a < horizontal_start
             /\ w = {} <=> /\ b >= vertical_start
                           /\ a + size <= horizontal_end
                           /\ b + size <= vertical_end
                           /\ a >= horizontal_start
<1>. DEFINE w == detect_wall_collision(size, a, b)
<1>1. /\ "top" \in w <=> b < vertical_start
      /\ "right" \in w <=> a + size > horizontal_end
      /\ "bottom" \in w <=> b + size > vertical_end
      /\ "left" \in w <=> a < horizontal_start
  BY DEF detect_wall_collision
<1>2. w \subseteq {"top", "right", "bottom", "left"}
  BY DEF detect_wall_collision
<1>3. w = {} <=> ~("top" \in w) /\ ~("right" \in w) /\ ~("bottom" \in w) /\ ~("left" \in w)
  BY <1>2
<1>. HIDE DEF w
<1>4. w = {} <=> /\ b >= vertical_start
                 /\ a + size <= horizontal_end
                 /\ b + size <= vertical_end
                 /\ a >= horizontal_start
  BY <1>1, <1>3, Geometry
<1>. QED
  BY <1>1, <1>4 DEF w

-----------------------------------------------------------------------------
(* The pucks. *)

InColumn(p) == p.x >= horizontal_start /\ p.x + puck_size <= horizontal_end
InBlueHalf(p) == InColumn(p) /\ p.y >= middle_field /\ p.y + puck_size <= vertical_end
InRedHalf(p) == InColumn(p) /\ p.y >= vertical_start /\ p.y + puck_size <= middle_field

Delta == -MaxDelta .. MaxDelta

(* A moved puck is a sprite.                                               *)
LEMMA MovedPuckType ==
  ASSUME NEW p \in Sprite, NEW x \in Int, NEW y \in Delta
  PROVE  MovedPuck(p, x, y) \in Sprite
<1>. DEFINE w == detect_wall_collision(puck_size, p.x + x, p.y - y)
<1>1. x \in Int /\ y \in Int
  BY Geometry DEF Delta
<1>2. clamp_to_walls(p, w) \in Sprite
  <2>. HIDE DEF w
  <2>. DEFINE cx == IF "left" \in w THEN horizontal_start
                    ELSE IF "right" \in w THEN horizontal_end - puck_size ELSE p.x
              cy == IF "bottom" \in w THEN vertical_end - puck_size
                    ELSE IF "top" \in w THEN vertical_start ELSE p.y
  <2>1. cx \in Int /\ cy \in Int
    BY Geometry DEF Sprite
  <2>2. clamp_to_walls(p, w) = [p EXCEPT !.x = cx, !.y = cy]
    BY DEF clamp_to_walls
  <2>. HIDE DEF cx, cy
  <2>. QED
    BY <2>1, <2>2 DEF Sprite
<1>3. [p EXCEPT !.y = IF @ < middle_field THEN middle_field - puck_size
                                           ELSE middle_field] \in Sprite
  BY Geometry DEF Sprite
<1>4. [x |-> p.x + x, y |-> p.y - y, xspeed |-> x, yspeed |-> y] \in Sprite
  BY <1>1 DEF Sprite
<1>. QED
  BY <1>2, <1>3, <1>4 DEF MovedPuck, move_puck

(* No displacement of at most MaxDelta takes the blue puck out of its      *)
(* half: one that reaches the top wall would be longer than a half.        *)
LEMMA BluePuckStays ==
  ASSUME NEW p \in Sprite, NEW x \in Int, NEW y \in Delta, InBlueHalf(p)
  PROVE  InBlueHalf(MovedPuck(p, x, y))
<1>. DEFINE w == detect_wall_collision(puck_size, p.x + x, p.y - y)
<1>. USE Geometry
<1>0. p.x \in Int /\ p.y \in Int /\ x \in Int /\ y \in Int
      /\ -MaxDelta <= y /\ y <= MaxDelta
  BY DEF Sprite, Delta
<1>1. /\ "top" \in w <=> p.y - y < vertical_start
      /\ "right" \in w <=> p.x + x + puck_size > horizontal_end
      /\ "bottom" \in w <=> p.y - y + puck_size > vertical_end
      /\ "left" \in w <=> p.x + x < horizontal_start
      /\ w = {} <=> /\ p.y - y >= vertical_start
                    /\ p.x + x + puck_size <= horizontal_end
                    /\ p.y - y + puck_size <= vertical_end
                    /\ p.x + x >= horizontal_start
  <2>1. p.x + x \in Int /\ p.y - y \in Int /\ puck_size \in Int
    BY <1>0
  <2>. QED
    BY ONLY <2>1, Walls
<1>2. ~("top" \in w)
  BY <1>0, <1>1 DEF InBlueHalf
<1>. HIDE DEF w
<1>3. CASE w # {}
  <2>1. MovedPuck(p, x, y) = clamp_to_walls(p, w)
    BY <1>3 DEF MovedPuck, move_puck, w
  <2>. QED
    BY <1>0, <1>2, <2>1 DEF clamp_to_walls, InBlueHalf, InColumn, Sprite
<1>4. CASE w = {} /\ detect_middle_field_collision(p, p.y - y)
  <2>1. MovedPuck(p, x, y) = [p EXCEPT !.y = middle_field]
    BY <1>0, <1>4 DEF MovedPuck, move_puck, w, InBlueHalf, Sprite
  <2>. QED
    BY <1>0, <2>1 DEF InBlueHalf, InColumn, Sprite
<1>5. CASE w = {} /\ ~detect_middle_field_collision(p, p.y - y)
  <2>1. p.y - y >= middle_field
    BY <1>0, <1>5 DEF detect_middle_field_collision, InBlueHalf
  <2>2. CASE PuckHitsBall(p, x, y)
    BY <1>5, <2>2 DEF MovedPuck, move_puck, w
  <2>3. CASE ~PuckHitsBall(p, x, y)
    <3>1. MovedPuck(p, x, y) = [x |-> p.x + x, y |-> p.y - y, xspeed |-> x, yspeed |-> y]
      BY <1>5, <2>3 DEF MovedPuck, move_puck, w
    <3>. QED
      BY <1>0, <1>1, <1>5, <2>1, <3>1 DEF InBlueHalf, InColumn
  <2>. QED
    BY <2>2, <2>3
<1>. QED
  BY <1>3, <1>4, <1>5

(* The same for the red puck, whose displacements come from the other PC.  *)
LEMMA RedPuckStays ==
  ASSUME NEW p \in Sprite, NEW x \in Int, NEW y \in Delta, InRedHalf(p)
  PROVE  InRedHalf(MovedPuck(p, x, y))
<1>. DEFINE w == detect_wall_collision(puck_size, p.x + x, p.y - y)
<1>. USE Geometry
<1>0. p.x \in Int /\ p.y \in Int /\ x \in Int /\ y \in Int
      /\ -MaxDelta <= y /\ y <= MaxDelta
  BY DEF Sprite, Delta
<1>1. /\ "top" \in w <=> p.y - y < vertical_start
      /\ "right" \in w <=> p.x + x + puck_size > horizontal_end
      /\ "bottom" \in w <=> p.y - y + puck_size > vertical_end
      /\ "left" \in w <=> p.x + x < horizontal_start
      /\ w = {} <=> /\ p.y - y >= vertical_start
                    /\ p.x + x + puck_size <= horizontal_end
                    /\ p.y - y + puck_size <= vertical_end
                    /\ p.x + x >= horizontal_start
  <2>1. p.x + x \in Int /\ p.y - y \in Int /\ puck_size \in Int
    BY <1>0
  <2>. QED
    BY ONLY <2>1, Walls
<1>2. ~("bottom" \in w)
  BY <1>0, <1>1 DEF InRedHalf
<1>. HIDE DEF w
<1>3. CASE w # {}
  <2>1. MovedPuck(p, x, y) = clamp_to_walls(p, w)
    BY <1>3 DEF MovedPuck, move_puck, w
  <2>. QED
    BY <1>0, <1>2, <2>1 DEF clamp_to_walls, InRedHalf, InColumn, Sprite
<1>4. CASE w = {} /\ detect_middle_field_collision(p, p.y - y)
  <2>0. p.y < middle_field
    BY <1>0 DEF InRedHalf
  <2>1. MovedPuck(p, x, y) = [p EXCEPT !.y = middle_field - puck_size]
    BY <1>4, <2>0 DEF MovedPuck, move_puck, w
  <2>. QED
    BY <1>0, <2>1 DEF InRedHalf, InColumn, Sprite
<1>5. CASE w = {} /\ ~detect_middle_field_collision(p, p.y - y)
  <2>1. p.y - y + puck_size <= middle_field
    BY <1>0, <1>5 DEF detect_middle_field_collision, InRedHalf
  <2>2. CASE PuckHitsBall(p, x, y)
    BY <1>5, <2>2 DEF MovedPuck, move_puck, w
  <2>3. CASE ~PuckHitsBall(p, x, y)
    <3>1. MovedPuck(p, x, y) = [x |-> p.x + x, y |-> p.y - y, xspeed |-> x, yspeed |-> y]
      BY <1>5, <2>3 DEF MovedPuck, move_puck, w
    <3>. QED
      BY <1>0, <1>1, <1>5, <2>1, <3>1 DEF InRedHalf, InColumn
  <2>. QED
    BY <2>2, <2>3
<1>. QED
  BY <1>3, <1>4, <1>5

-----------------------------------------------------------------------------
(* The disk. *)

Speed == -max_velocity .. max_velocity

(* A disk on the table, no faster than it may be, and no further from the  *)
(* centre spot than f ticks at full speed take it.  The last conjunct is   *)
(* what makes the time between goals inductive.                            *)
InField(b) ==
  /\ b.x >= horizontal_start /\ b.x + ball_size <= horizontal_end
  /\ b.y >= vertical_start   /\ b.y + ball_size <= vertical_end
Limited(b) == b.xspeed \in Speed /\ b.yspeed \in Speed
Near(y, f) ==
  f < MinFlight => /\ y - BallSpot.y <= max_velocity * f
                   /\ BallSpot.y - y <= max_velocity * f
GoodBall(b, f) == b \in Sprite /\ InField(b) /\ Limited(b) /\ Near(b.y, f)

(* Two disks at the same place differ in speed only.                       *)
SamePlace(a, b) == a.x = b.x /\ a.y = b.y

(* normalize_speed limits any speed.                                       *)
LEMMA NormalizeLimits ==
  ASSUME NEW b \in Sprite
  PROVE  /\ normalize_speed(b) \in Sprite
         /\ Limited(normalize_speed(b))
         /\ SamePlace(normalize_speed(b), b)
<1>1. Limit(b.xspeed) \in Speed /\ Limit(b.yspeed) \in Speed
  BY Geometry DEF Limit, Speed, Sprite
<1>2. normalize_speed(b) = [b EXCEPT !.xspeed = Limit(b.xspeed), !.yspeed = Limit(b.yspeed)]
  BY DEF normalize_speed
<1>3. Limit(b.xspeed) \in Int /\ Limit(b.yspeed) \in Int
  BY <1>1, Geometry DEF Speed
<1>. QED
  BY <1>1, <1>2, <1>3 DEF Sprite, Limited, SamePlace

(* A disk that met a puck has a limited speed.                             *)
LEMMA CollisionLimits ==
  ASSUME NEW b \in Sprite, NEW p \in Sprite
  PROVE  /\ ball_collision(b, p) \in Sprite
         /\ Limited(ball_collision(b, p))
         /\ SamePlace(ball_collision(b, p), b)
<1>. DEFINE c == [b EXCEPT !.xspeed = p.xspeed, !.yspeed = p.yspeed]
<1>1. c \in Sprite /\ SamePlace(c, b)
  BY DEF Sprite, SamePlace
<1>. HIDE DEF c
<1>2. ball_collision(b, p) = normalize_speed(c)
  BY DEF ball_collision, c
<1>. QED
  BY <1>1, <1>2, NormalizeLimits DEF SamePlace

(* One that ran into a puck too, though turning back is not normalized.    *)
LEMMA BounceLimits ==
  ASSUME NEW b \in Sprite, NEW p \in Sprite, Limited(b)
  PROVE  /\ bounce_off(b, p) \in Sprite
         /\ Limited(bounce_off(b, p))
         /\ SamePlace(bounce_off(b, p), b)
<1>1. CASE p.xspeed = 0 /\ p.yspeed = 0
  <2>. DEFINE vx == -b.xspeed
              vy == -b.yspeed
  <2>1. bounce_off(b, p) = [b EXCEPT !.xspeed = vx, !.yspeed = vy]
    BY <1>1 DEF bounce_off
  <2>2. vx \in Speed /\ vy \in Speed /\ vx \in Int /\ vy \in Int
    BY Geometry DEF Limited, Speed, Sprite
  <2>. HIDE DEF vx, vy
  <2>. QED
    BY <2>1, <2>2 DEF Sprite, Limited, SamePlace
<1>2. CASE ~(p.xspeed = 0 /\ p.yspeed = 0)
  <2>1. bounce_off(b, p) = ball_collision(b, p)
    BY <1>2 DEF bounce_off, ball_collision
  <2>. QED
    BY <2>1, CollisionLimits
<1>. QED
  BY <1>1, <1>2

(* And one that met a wall.                                                *)
LEMMA WallLimits ==
  ASSUME NEW b \in Sprite, NEW w, Limited(b)
  PROVE  /\ bounce_off_walls(b, w) \in Sprite
         /\ Limited(bounce_off_walls(b, w))
         /\ SamePlace(bounce_off_walls(b, w), b)
<1>. DEFINE vx == IF "right" \in w /\ "left" \in w THEN b.xspeed
                  ELSE IF "right" \in w \/ "left" \in w THEN -b.xspeed ELSE b.xspeed
            vy == IF "top" \in w /\ "bottom" \in w THEN b.yspeed
                  ELSE IF "top" \in w \/ "bottom" \in w THEN -b.yspeed ELSE b.yspeed
<1>1. vx \in Speed /\ vy \in Speed
  BY Geometry DEF Limited, Speed
<1>2. bounce_off_walls(b, w) = [b EXCEPT !.xspeed = vx, !.yspeed = vy]
  BY DEF bounce_off_walls
<1>3. vx \in Int /\ vy \in Int
  BY <1>1, Geometry DEF Speed
<1>. HIDE DEF vx, vy
<1>. QED
  BY <1>1, <1>2, <1>3 DEF Sprite, Limited, SamePlace

(* A disk that only changed speed is as good as it was, and stays so as    *)
(* ticks go by.                                                            *)
NextFlight(f) == IF f < MinFlight THEN f + 1 ELSE f

(* A tick takes the disk no further from its spot than its limit.          *)
LEMMA NearLater ==
  ASSUME NEW y \in Int, NEW f \in 0 .. MinFlight, NEW d \in Speed, Near(y, f)
  PROVE  Near(y - d, NextFlight(f))
<1>. DEFINE reach == max_velocity * f
<1>0. /\ MinFlight \in Nat \ {0} /\ max_velocity \in Nat \ {0} /\ BallSpot.y \in Int
      /\ f \in Nat /\ d \in Int /\ -max_velocity <= d /\ d <= max_velocity
  BY FlightAssumption, Geometry, Spots DEF Speed
<1>1. reach \in Int /\ max_velocity * (f + 1) = reach + max_velocity
  BY <1>0
<1>2. f < MinFlight => y - BallSpot.y <= reach /\ BallSpot.y - y <= reach
  BY DEF Near
<1>. HIDE DEF reach
<1>3. f < MinFlight => /\ (y - d) - BallSpot.y <= reach + max_velocity
                       /\ BallSpot.y - (y - d) <= reach + max_velocity
  BY <1>0, <1>1, <1>2
<1>4. CASE f < MinFlight
  BY <1>0, <1>1, <1>3, <1>4 DEF Near, NextFlight
<1>5. CASE f = MinFlight
  BY <1>0, <1>5 DEF Near, NextFlight
<1>. QED
  BY <1>0, <1>4, <1>5

(* A disk that did not move is good a tick later.                          *)
LEMMA SameBallLater ==
  ASSUME NEW b, NEW c \in Sprite, NEW f \in 0 .. MinFlight,
         GoodBall(b, f), Limited(c), SamePlace(c, b)
  PROVE  GoodBall(c, f) /\ GoodBall(c, NextFlight(f))
<1>1. b.y \in Int /\ c.y = b.y /\ c.x = b.x
  BY DEF GoodBall, Sprite, SamePlace
<1>2. InField(c)
  BY <1>1 DEF GoodBall, InField
<1>3. Near(c.y, f)
  BY <1>1 DEF GoodBall
<1>4. Near(c.y - 0, NextFlight(f))
  <2>1. 0 \in Speed
    BY Geometry DEF Speed
  <2>. QED
    BY <1>1, <1>3, <2>1, NearLater
<1>5. c.y - 0 = c.y
  BY <1>1
<1>. QED
  BY <1>2, <1>3, <1>4, <1>5 DEF GoodBall

-----------------------------------------------------------------------------
(* A tick of the disk. *)

GoalArea(y) == y <= vertical_start \/ y + ball_size >= vertical_end

(* Before the MinFlight-th tick since the centre spot the disk is short of *)
(* both end lines.                                                         *)
LEMMA TooSoon ==
  ASSUME NEW y \in Int, NEW f \in 0 .. MinFlight, Near(y, f), GoalArea(y)
  PROVE  f >= MinFlight
<1>. SUFFICES ASSUME f < MinFlight PROVE FALSE
  BY FlightAssumption
<1>0. /\ MinFlight \in Nat \ {0} /\ max_velocity \in Nat \ {0} /\ BallSpot.y \in Int
      /\ f \in Nat /\ f <= MinFlight - 1
      /\ vertical_start \in Int /\ vertical_end \in Int /\ ball_size \in Int
  BY FlightAssumption, Geometry, Spots
<1>. DEFINE near == max_velocity * f
            far  == max_velocity * (MinFlight - 1)
<1>1. near \in Int /\ far \in Int /\ near <= far
  BY <1>0
<1>2. y - BallSpot.y <= near /\ BallSpot.y - y <= near
  BY DEF Near
<1>3. far < BallSpot.y - vertical_start /\ far < vertical_end - ball_size - BallSpot.y
  BY FlightAssumption
<1>. HIDE DEF near, far
<1>. QED
  BY <1>0, <1>1, <1>2, <1>3 DEF GoalArea

BallStep == BallScores \/ BallFlies \/ BallHitsPuck

(* Every outcome of move(Ball, ...) leaves a good disk, and is a tick of   *)
(* Goals.tla.                                                              *)
LEMMA BallStepGood ==
  ASSUME GoodBall(Ball, flight), flight \in 0 .. MinFlight,
         redpuck \in Sprite, bluepuck \in Sprite, BallStep
  PROVE  /\ GoodBall(Ball', flight')
         /\ flight' \in 0 .. MinFlight
         /\ goals' \subseteq {1, 2}
         /\ G!Fly \/ G!Score
<1>0. /\ Ball \in Sprite /\ InField(Ball) /\ Limited(Ball) /\ Near(Ball.y, flight)
      /\ MinFlight \in Nat \ {0}
      /\ Ball.x \in Int /\ Ball.y \in Int /\ Ball.xspeed \in Int /\ Ball.yspeed \in Int
  BY FlightAssumption DEF GoodBall, Sprite
<1>1. Near(NewY, NextFlight(flight)) /\ NewX \in Int /\ NewY \in Int
  BY <1>0, NearLater DEF NewX, NewY, Limited
<1>2. NextFlight(flight) \in 0 .. MinFlight
  BY <1>0 DEF NextFlight
<1>3. CASE BallScores
  <2>1. GoalArea(NewY)
    BY <1>3, <1>1 DEF BallScores, InGoal, detect_goal_collision, GoalArea
  <2>2. flight + 1 >= MinFlight
    <3>1. NextFlight(flight) >= MinFlight
      BY <1>1, <1>2, <2>1, TooSoon
    <3>. QED
      BY <1>0, <3>1 DEF NextFlight
  <2>3. ~(NewY <= vertical_start /\ NewY + ball_size >= vertical_end)
    BY <1>1, Geometry
  <2>4. goals' \in {{1}, {2}}
    <3>1. goals' = detect_goal_collision(NewX, NewY) /\ goals' # {}
      BY <1>3 DEF BallScores, InGoal
    <3>2. goals' \subseteq {1, 2} /\ ~(1 \in goals' /\ 2 \in goals')
      BY <2>3, <3>1 DEF detect_goal_collision
    <3>. QED
      BY <3>1, <3>2
  <2>5. flight' = 0 /\ Ball' = AtRest(BallSpot)
    BY <1>3 DEF BallScores
  <2>6. GoodBall(AtRest(BallSpot), 0)
    BY Spots, Geometry DEF GoodBall, AtRest, Sprite, InField, Limited, Near, Speed
  <2>. QED
    BY <1>0, <2>2, <2>4, <2>5, <2>6 DEF G!Score
<1>4. CASE BallFlies
  <2>0. goals' = {} /\ flight' = NextFlight(flight)
    BY <1>4 DEF BallFlies, Tick, NextFlight
  <2>1. CASE UNCHANGED Ball
    <3>1. GoodBall(Ball, NextFlight(flight))
      BY <1>0, SameBallLater DEF SamePlace
    <3>. QED
      BY <1>2, <2>0, <2>1, <3>1 DEF G!Fly, NextFlight
  <2>2. CASE Ball' = bounce_off_walls(Ball, detect_wall_collision(ball_size, NewX, NewY))
    <3>1. Ball' \in Sprite /\ Limited(Ball') /\ SamePlace(Ball', Ball)
      BY <1>0, <2>2, WallLimits
    <3>2. GoodBall(Ball', NextFlight(flight))
      BY <1>0, <3>1, SameBallLater
    <3>. QED
      BY <1>2, <2>0, <3>2 DEF G!Fly, NextFlight
  <2>3. CASE ~AtWall /\ Ball' = [Ball EXCEPT !.x = NewX, !.y = NewY]
    <3>1. InField(Ball')
      <4>1. /\ NewY >= vertical_start /\ NewX + ball_size <= horizontal_end
            /\ NewY + ball_size <= vertical_end /\ NewX >= horizontal_start
        BY <1>1, <2>3, Walls, Geometry DEF AtWall
      <4>2. Ball'.x = NewX /\ Ball'.y = NewY
        BY <1>0, <2>3 DEF Sprite
      <4>. QED
        BY <4>1, <4>2 DEF InField
    <3>2. /\ Ball' \in Sprite /\ Ball'.y = NewY
          /\ Ball'.xspeed = Ball.xspeed /\ Ball'.yspeed = Ball.yspeed
      BY <1>0, <1>1, <2>3 DEF Sprite
    <3>3. Limited(Ball')
      BY <1>0, <3>2 DEF Limited
    <3>4. GoodBall(Ball', NextFlight(flight))
      BY <1>1, <3>1, <3>2, <3>3 DEF GoodBall
    <3>. QED
      BY <1>2, <2>0, <3>4 DEF G!Fly, NextFlight
  <2>. QED
    BY <1>4, <2>1, <2>2, <2>3 DEF BallFlies
<1>5. CASE BallHitsPuck
  <2>0. goals' = {} /\ flight' = NextFlight(flight)
    BY <1>5 DEF BallHitsPuck, Tick, NextFlight
  <2>1. PICK p \in {redpuck, bluepuck} : Ball' = bounce_off(Ball, p)
    BY <1>5 DEF BallHitsPuck
  <2>2. Ball' \in Sprite /\ Limited(Ball') /\ SamePlace(Ball', Ball)
    BY <1>0, <2>1, BounceLimits
  <2>3. GoodBall(Ball', NextFlight(flight))
    BY <1>0, <2>2, SameBallLater
  <2>. QED
    BY <1>2, <2>0, <2>3 DEF G!Fly, NextFlight
<1>. QED
  BY <1>3, <1>4, <1>5 DEF BallStep

-----------------------------------------------------------------------------
(* The words on the line. *)

PuckWidth == horizontal_end - puck_size - horizontal_start

(* The two's complement of a displacement is no reserved word.             *)
LEMMA WordIsNoSignal ==
  ASSUME NEW d \in -PuckWidth .. PuckWidth
  PROVE  d % WordSize \notin {signal1, ball_signal}
<1>0. /\ WordSize \in Nat /\ PuckWidth \in Nat /\ d \in Int
      /\ signal1 \in Nat /\ signal1 > PuckWidth /\ signal1 < WordSize - PuckWidth
      /\ ball_signal \in Nat /\ ball_signal > PuckWidth /\ ball_signal < WordSize - PuckWidth
  BY SignalAssumption, Geometry DEF PuckWidth
<1>. HIDE DEF PuckWidth
<1>1. WordSize > 0 /\ PuckWidth < WordSize
  BY <1>0
<1>2. CASE d >= 0
  <2>1. d % WordSize = d
    BY <1>0, <1>1, <1>2
  <2>. QED
    BY <1>0, <2>1
<1>3. CASE d < 0
  <2>. DEFINE r == d + WordSize
  <2>1. r \in 0 .. WordSize - 1 /\ d = (-1) * WordSize + r
    BY <1>0, <1>1, <1>3
  <2>2. d % WordSize = r
    BY <1>0, <1>1, <2>1
  <2>. QED
    BY <1>0, <2>2
<1>. QED
  BY <1>0, <1>2, <1>3

-----------------------------------------------------------------------------
(* The invariant. *)

(* In a match the transmitted position is one the puck was in.             *)
PreviousInField ==
  mainState = "GAME" =>
    previous_x >= horizontal_start /\ previous_x + puck_size <= horizontal_end

IInv ==
  /\ TypeOK
  /\ GoodBall(Ball, flight)
  /\ InBlueHalf(bluepuck)
  /\ InRedHalf(redpuck)
  /\ PreviousInField
  /\ PuckWordIsNoSignal

(* The sprites as loader_sprite and reset_game_state place them.           *)
LEMMA SpotsGood ==
  /\ GoodBall(AtRest(BallSpot), 0)
  /\ AtRest(BlueSpot) \in Sprite /\ InBlueHalf(AtRest(BlueSpot))
  /\ AtRest(RedSpot) \in Sprite /\ InRedHalf(AtRest(RedSpot))
<1>1. GoodBall(AtRest(BallSpot), 0)
  BY Spots, Geometry DEF GoodBall, AtRest, Sprite, InField, Limited, Near, Speed
<1>2. AtRest(BlueSpot) \in Sprite /\ InBlueHalf(AtRest(BlueSpot))
  BY Spots DEF AtRest, Sprite, InBlueHalf, InColumn
<1>3. AtRest(RedSpot) \in Sprite /\ InRedHalf(AtRest(RedSpot))
  BY Spots DEF AtRest, Sprite, InRedHalf, InColumn
<1>. QED
  BY <1>1, <1>2, <1>3

(* The invariant is what the properties ask for.                           *)
LEMMA IInvImplies ==
  IInv => TypeOK /\ PucksInOwnHalf /\ BallInField /\ BallSpeedLimited /\ PuckWordIsNoSignal
  BY DEF IInv, GoodBall, InField, Limited, Speed, InBlueHalf, InRedHalf, InColumn,
         PucksInOwnHalf, BallInField, BallSpeedLimited

(* It holds of the program's initial state.                                *)
LEMMA InitIInv == Init => IInv
<1>. SUFFICES ASSUME Init PROVE IInv
  OBVIOUS
<1>1. TypeOK
  BY SpotsGood, FlightAssumption DEF Init, TypeOK, GoodBall
<1>2. PreviousInField /\ PuckWordIsNoSignal
  BY DEF Init, PreviousInField, PuckWordIsNoSignal
<1>. QED
  BY <1>1, <1>2, SpotsGood DEF Init, IInv

(* PushBall: whichever puck hits it, the disk stays good, and the message  *)
(* about it is no puck message.                                            *)
LEMMA PushBallGood ==
  ASSUME GoodBall(Ball, flight), flight \in 0 .. MinFlight,
         NEW p \in Sprite, NEW x \in Int, NEW y \in Delta, PushBall(p, x, y)
  PROVE  /\ GoodBall(Ball', flight)
         /\ sent' \in Seq(Message)
         /\ PuckWordIsNoSignal'
<1>1. CASE PuckHitsBall(p, x, y)
  <2>. DEFINE b == ball_collision(Ball, p)
  <2>1. Ball' = b /\ sent' = <<BallMessage(b)>>
    BY <1>1 DEF PushBall
  <2>2. b \in Sprite /\ Limited(b) /\ SamePlace(b, Ball)
    BY CollisionLimits DEF GoodBall
  <2>. HIDE DEF b
  <2>3. GoodBall(b, flight)
    BY <2>2, SameBallLater
  <2>4. BallMessage(b) \in Message /\ BallMessage(b).kind = "ball"
    BY <2>2 DEF BallMessage, Message, Sprite
  <2>. QED
    BY <2>1, <2>3, <2>4 DEF PuckWordIsNoSignal
<1>2. CASE ~PuckHitsBall(p, x, y)
  BY <1>2 DEF PushBall, PuckWordIsNoSignal
<1>. QED
  BY <1>1, <1>2

(* Two places between the side walls are at most PuckWidth apart.          *)
LEMMA WithinColumn ==
  ASSUME NEW a \in Int, NEW b \in Int,
         a >= horizontal_start, a + puck_size <= horizontal_end,
         b >= horizontal_start, b + puck_size <= horizontal_end
  PROVE  a - b \in -PuckWidth .. PuckWidth
  BY Geometry DEF PuckWidth

(* A puck let go of keeps its place.                                       *)
LEMMA StoppedPuck ==
  ASSUME NEW p \in Sprite
  PROVE  /\ [p EXCEPT !.xspeed = 0, !.yspeed = 0] \in Sprite
         /\ [p EXCEPT !.xspeed = 0, !.yspeed = 0].x = p.x
         /\ [p EXCEPT !.xspeed = 0, !.yspeed = 0].y = p.y
<1>1. ASSUME NEW u \in Int, NEW v \in Int
      PROVE  /\ [p EXCEPT !.xspeed = u, !.yspeed = v] \in Sprite
             /\ [p EXCEPT !.xspeed = u, !.yspeed = v].x = p.x
             /\ [p EXCEPT !.xspeed = u, !.yspeed = v].y = p.y
  BY DEF Sprite
<1>. DEFINE z == 0
<1>2. z \in Int
  OBVIOUS
<1>. HIDE DEF z
<1>3. /\ [p EXCEPT !.xspeed = z, !.yspeed = z] \in Sprite
      /\ [p EXCEPT !.xspeed = z, !.yspeed = z].x = p.x
      /\ [p EXCEPT !.xspeed = z, !.yspeed = z].y = p.y
  BY <1>1, <1>2
<1>. QED
  BY <1>3, Zenon DEF z

(* Every handler preserves the invariant and is a step of Goals.tla.       *)
LEMMA NextIInv == IInv /\ [Next]_vars => IInv' /\ [G!Next]_(G!vars)
<1>. SUFFICES ASSUME IInv, [Next]_vars PROVE IInv' /\ [G!Next]_(G!vars)
  OBVIOUS
<1>0. /\ mainState \in {"MAIN_MENU", "GAME", "OVER"} /\ is_main_pc \in BOOLEAN
      /\ Ball \in Sprite /\ bluepuck \in Sprite /\ redpuck \in Sprite
      /\ previous_x \in Int /\ previous_y \in Int /\ puck_transmit \in {0, 1}
      /\ sent \in Seq(Message) /\ flight \in 0 .. MinFlight /\ goals \subseteq {1, 2}
      /\ GoodBall(Ball, flight) /\ InBlueHalf(bluepuck) /\ InRedHalf(redpuck)
      /\ PreviousInField /\ PuckWordIsNoSignal
      /\ bluepuck.x \in Int /\ bluepuck.y \in Int
  BY DEF IInv, TypeOK, Sprite
<1>1. CASE timer_int
  <2>1. /\ mainState = "GAME" /\ mainState' \in {"GAME", "OVER"}
        /\ is_main_pc' = is_main_pc /\ bluepuck' = bluepuck /\ redpuck' = redpuck
        /\ BallStep
    BY <1>1 DEF timer_int, BallStep
  <2>2. /\ GoodBall(Ball', flight') /\ flight' \in 0 .. MinFlight
        /\ goals' \subseteq {1, 2} /\ (G!Fly \/ G!Score)
    BY <1>0, <2>1, BallStepGood
  <2>3. puck_transmit' \in {0, 1} /\ previous_x' \in Int /\ previous_y' \in Int
    BY <1>0, <1>1 DEF timer_int, transmit_puck_change, Due
  <2>4. PreviousInField'
    BY <1>0, <1>1, <2>1 DEF timer_int, transmit_puck_change, PreviousInField, InBlueHalf, InColumn
  <2>5. /\ PuckMessages \in Seq(Message)
        /\ \A i \in DOMAIN PuckMessages :
             PuckMessages[i].kind = "puck" =>
               PuckMessages[i].x % WordSize \notin {signal1, ball_signal}
    <3>. DEFINE dx == bluepuck.x - previous_x
                dy == bluepuck.y - previous_y
    <3>0. /\ previous_x >= horizontal_start /\ previous_x + puck_size <= horizontal_end
          /\ bluepuck.x >= horizontal_start /\ bluepuck.x + puck_size <= horizontal_end
      BY <1>0, <2>1 DEF PreviousInField, InBlueHalf, InColumn
    <3>1. dx \in -PuckWidth .. PuckWidth /\ dx \in Int /\ dy \in Int
      BY <1>0, <3>0, WithinColumn
    <3>2. PuckMessage(dx, dy) \in Message /\ PuckMessage(dx, dy).x = dx
      BY <3>1 DEF PuckMessage, Message
    <3>3. dx % WordSize \notin {signal1, ball_signal}
      BY <3>1, WordIsNoSignal
    <3>4. PuckMessages \in {<< >>, <<PuckMessage(dx, dy)>>}
      BY DEF PuckMessages
    <3>. HIDE DEF dx, dy
    <3>5. CASE PuckMessages = << >>
      BY <3>5
    <3>6. CASE PuckMessages = <<PuckMessage(dx, dy)>>
      BY <3>2, <3>3, <3>6
    <3>. QED
      BY <3>4, <3>5, <3>6
  <2>6. sent' \in Seq(Message) /\ PuckWordIsNoSignal'
    <3>1. CASE sent' = PuckMessages
      BY <2>5, <3>1 DEF PuckWordIsNoSignal
    <3>2. CASE sent' = Append(PuckMessages, BallMessage(Ball'))
      <4>1. BallMessage(Ball') \in Message /\ BallMessage(Ball').kind = "ball"
        BY <2>2 DEF BallMessage, Message, GoodBall, Sprite
      <4>2. /\ sent' \in Seq(Message) /\ Len(sent') = Len(PuckMessages) + 1
            /\ sent'[Len(PuckMessages) + 1] = BallMessage(Ball')
            /\ \A i \in 1 .. Len(PuckMessages) : sent'[i] = PuckMessages[i]
        BY <2>5, <3>2, <4>1
      <4>. QED
        BY <2>5, <4>1, <4>2 DEF PuckWordIsNoSignal
    <3>. QED
      BY <1>1, <3>1, <3>2 DEF timer_int
  <2>7. TypeOK'
    BY <1>0, <2>1, <2>2, <2>3, <2>6 DEF TypeOK, GoodBall
  <2>8. InBlueHalf(bluepuck)' /\ InRedHalf(redpuck)'
    BY <1>0, <2>1 DEF InBlueHalf, InRedHalf, InColumn
  <2>. QED
    BY <2>2, <2>4, <2>6, <2>7, <2>8 DEF IInv, G!Next
<1>2. CASE mouse_int_drag
  <2>1. PICK d \in MouseMoves :
          /\ bluepuck' = MovedPuck(bluepuck, d.x, d.y)
          /\ PushBall(bluepuck, d.x, d.y)
    BY <1>2 DEF mouse_int_drag
  <2>2. /\ goals' = {} /\ mainState' = mainState /\ is_main_pc' = is_main_pc
        /\ redpuck' = redpuck /\ previous_x' = previous_x /\ previous_y' = previous_y
        /\ puck_transmit' = puck_transmit /\ flight' = flight
    BY <1>2 DEF mouse_int_drag
  <2>3. d.x \in Int /\ d.y \in Delta
    BY MovesAssumption DEF Delta
  <2>4. bluepuck' \in Sprite /\ InBlueHalf(bluepuck')
    BY <1>0, <2>1, <2>3, MovedPuckType, BluePuckStays
  <2>5. GoodBall(Ball', flight) /\ sent' \in Seq(Message) /\ PuckWordIsNoSignal'
    BY <1>0, <2>1, <2>3, PushBallGood
  <2>6. TypeOK' /\ InRedHalf(redpuck)' /\ PreviousInField'
    BY <1>0, <2>2, <2>4, <2>5 DEF TypeOK, GoodBall, InRedHalf, InColumn, PreviousInField
  <2>7. GoodBall(Ball, flight)' /\ InBlueHalf(bluepuck)'
    BY <2>2, <2>4, <2>5
  <2>. QED
    BY <2>2, <2>5, <2>6, <2>7 DEF IInv, G!Next, G!Rest
<1>3. CASE mouse_int_release
  <2>1. /\ goals' = {} /\ sent' = << >> /\ mainState' = mainState /\ is_main_pc' = is_main_pc
        /\ Ball' = Ball /\ redpuck' = redpuck
        /\ previous_x' = previous_x /\ previous_y' = previous_y
        /\ puck_transmit' = puck_transmit /\ flight' = flight
        /\ bluepuck' = [bluepuck EXCEPT !.xspeed = 0, !.yspeed = 0]
    BY <1>3 DEF mouse_int_release
  <2>2. bluepuck' \in Sprite /\ bluepuck'.x = bluepuck.x /\ bluepuck'.y = bluepuck.y
    BY <1>0, <2>1, StoppedPuck
  <2>3. TypeOK' /\ GoodBall(Ball, flight)' /\ InRedHalf(redpuck)'
    BY <1>0, <2>1, <2>2 DEF TypeOK, InRedHalf, InColumn
  <2>4. InBlueHalf(bluepuck)'
    BY <1>0, <2>2 DEF InBlueHalf, InColumn
  <2>5. PreviousInField' /\ PuckWordIsNoSignal'
    BY <1>0, <2>1 DEF PreviousInField, PuckWordIsNoSignal
  <2>. QED
    BY <2>1, <2>3, <2>4, <2>5 DEF IInv, G!Next, G!Rest
<1>4. CASE sp_int_puck
  <2>1. PICK d \in PeerMoves :
          /\ redpuck' = MovedPuck(redpuck, -d.x, d.y)
          /\ PushBall(redpuck, -d.x, d.y)
    BY <1>4 DEF sp_int_puck
  <2>2. /\ goals' = {} /\ mainState' = mainState /\ is_main_pc' = is_main_pc
        /\ bluepuck' = bluepuck /\ previous_x' = previous_x /\ previous_y' = previous_y
        /\ puck_transmit' = puck_transmit /\ flight' = flight
    BY <1>4 DEF sp_int_puck
  <2>3. -d.x \in Int /\ d.y \in Delta
    <3>1. d \in [x : Int, y : -MaxDelta .. MaxDelta]
      BY MovesAssumption
    <3>. QED
      BY <3>1, Geometry DEF Delta
  <2>4. redpuck' \in Sprite /\ InRedHalf(redpuck')
    BY <1>0, <2>1, <2>3, MovedPuckType, RedPuckStays
  <2>5. GoodBall(Ball', flight) /\ sent' \in Seq(Message) /\ PuckWordIsNoSignal'
    BY <1>0, <2>1, <2>3, PushBallGood
  <2>6. TypeOK' /\ InBlueHalf(bluepuck)' /\ PreviousInField'
    BY <1>0, <2>2, <2>4, <2>5 DEF TypeOK, GoodBall, InBlueHalf, InColumn, PreviousInField
  <2>7. GoodBall(Ball, flight)' /\ InRedHalf(redpuck)'
    BY <2>2, <2>4, <2>5
  <2>. QED
    BY <2>2, <2>5, <2>6, <2>7 DEF IInv, G!Next, G!Rest
<1>5. CASE sp_int_ball
  <2>1. PICK v \in PeerSpeeds : Ball' = [Ball EXCEPT !.xspeed = -v.x, !.yspeed = -v.y]
    BY <1>5 DEF sp_int_ball
  <2>2. /\ goals' = {} /\ sent' = << >> /\ mainState' = mainState /\ is_main_pc' = is_main_pc
        /\ bluepuck' = bluepuck /\ redpuck' = redpuck
        /\ previous_x' = previous_x /\ previous_y' = previous_y
        /\ puck_transmit' = puck_transmit /\ flight' = flight
    BY <1>5 DEF sp_int_ball
  <2>3. Ball' \in Sprite /\ Limited(Ball') /\ SamePlace(Ball', Ball)
    <3>. DEFINE vx == -v.x
                vy == -v.y
    <3>1. v \in [x : -max_velocity .. max_velocity, y : -max_velocity .. max_velocity]
      BY MovesAssumption
    <3>2. vx \in Speed /\ vy \in Speed /\ vx \in Int /\ vy \in Int
      BY <3>1, Geometry DEF Speed
    <3>. HIDE DEF vx, vy
    <3>3. Ball' = [Ball EXCEPT !.xspeed = vx, !.yspeed = vy]
      BY <2>1 DEF vx, vy
    <3>. QED
      BY <1>0, <3>2, <3>3 DEF Sprite, Limited, SamePlace
  <2>4. GoodBall(Ball', flight)
    BY <1>0, <2>3, SameBallLater
  <2>5. TypeOK' /\ InBlueHalf(bluepuck)' /\ InRedHalf(redpuck)'
    BY <1>0, <2>2, <2>3 DEF TypeOK, InBlueHalf, InRedHalf, InColumn
  <2>6. GoodBall(Ball, flight)' /\ PreviousInField' /\ PuckWordIsNoSignal'
    BY <1>0, <2>2, <2>4 DEF PreviousInField, PuckWordIsNoSignal
  <2>. QED
    BY <2>2, <2>5, <2>6 DEF IInv, G!Next, G!Rest
<1>6. CASE NewGame
  <2>1. /\ mainState' \in {"MAIN_MENU", "GAME"} /\ is_main_pc' \in BOOLEAN
        /\ Ball' = AtRest(BallSpot) /\ bluepuck' = AtRest(BlueSpot) /\ redpuck' = AtRest(RedSpot)
        /\ previous_x' = BlueSpot.x /\ previous_y' = BlueSpot.y
        /\ sent' = << >> /\ goals' = {} /\ flight' = 0 /\ puck_transmit' = puck_transmit
    BY <1>0, <1>6 DEF NewGame, reset_game_state
  <2>2. TypeOK'
    BY <1>0, <2>1, SpotsGood, Spots, FlightAssumption DEF TypeOK, GoodBall
  <2>3. GoodBall(Ball, flight)' /\ InBlueHalf(bluepuck)' /\ InRedHalf(redpuck)'
    BY <2>1, SpotsGood
  <2>4. PreviousInField' /\ PuckWordIsNoSignal'
    BY <2>1, Spots DEF PreviousInField, PuckWordIsNoSignal
  <2>. QED
    BY <2>1, <2>2, <2>3, <2>4 DEF IInv, G!Next, G!Restart
<1>7. CASE LeaveGame
  <2>1. /\ mainState' = "MAIN_MENU" /\ sent' = << >> /\ goals' = {}
        /\ UNCHANGED <<is_main_pc, Ball, bluepuck, redpuck, previous_x, previous_y,
                       puck_transmit, flight>>
    BY <1>7 DEF LeaveGame
  <2>2. TypeOK' /\ GoodBall(Ball, flight)' /\ InBlueHalf(bluepuck)' /\ InRedHalf(redpuck)'
    BY <1>0, <2>1 DEF TypeOK
  <2>3. PreviousInField' /\ PuckWordIsNoSignal'
    BY <2>1 DEF PreviousInField, PuckWordIsNoSignal
  <2>. QED
    BY <2>1, <2>2, <2>3 DEF IInv, G!Next, G!Rest
<1>8. CASE UNCHANGED vars
  <2>1. IInv'
    BY <1>0, <1>8 DEF vars, IInv, TypeOK, PreviousInField, PuckWordIsNoSignal
  <2>. QED
    BY <1>8, <2>1 DEF vars, G!vars
<1>. QED
  BY <1>1, <1>2, <1>3, <1>4, <1>5, <1>6, <1>7, <1>8 DEF Next

(* The invariant holds throughout.                                         *)
LEMMA IInvHolds == Spec => []IInv
  BY InitIInv, NextIInv, PTL DEF Spec

(* The sprites, the history and what is sent are of their types.           *)
THEOREM TableTyped == Spec => []TypeOK
  BY IInvHolds, IInvImplies, PTL

(* The pucks keep to their halves, whatever the mouse and the other PC     *)
(* make of them and however the walls are tested before the line.          *)
THEOREM PucksKeepToHalves == Spec => []PucksInOwnHalf
  BY IInvHolds, IInvImplies, PTL

(* The disk keeps to the field, pushed, bounced and reset in any order.    *)
THEOREM DiskStaysInField == Spec => []BallInField
  BY IInvHolds, IInvImplies, PTL

(* The disk keeps to its speed limit, though only some of the code that    *)
(* gives it a speed limits it.                                             *)
THEOREM DiskKeepsToLimit == Spec => []BallSpeedLimited
  BY IInvHolds, IInvImplies, PTL

(* No puck message of a match begins with a reserved word: a displacement  *)
(* is never read as a signal or as the speed of the disk.                  *)
THEOREM NoPuckWordIsSignal == Spec => []PuckWordIsNoSignal
  BY IInvHolds, IInvImplies, PTL

(* The table implements Goals.tla: goals come one at a time and at least   *)
(* MinFlight ticks apart.                                                  *)
THEOREM TableImplementsGoals == Spec => ImplementsGoals
<1>1. Init => G!Init
  BY DEF Init, G!Init
<1>2. Spec => []IInv
  BY InitIInv, NextIInv, PTL DEF Spec
<1>3. IInv /\ [Next]_vars => [G!Next]_(G!vars)
  BY NextIInv
<1>. QED
  BY <1>1, <1>2, <1>3, PTL DEF Spec, ImplementsGoals, G!Spec
=============================================================================
