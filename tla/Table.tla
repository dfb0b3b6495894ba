-------------------------------- MODULE Table -------------------------------
(***************************************************************************)
(* The table of one PC: its disk (Ball), its own puck (bluepuck) and the   *)
(* copy of the other player's puck (redpuck), moved by the timer, the      *)
(* mouse and the serial port handlers of model/model.c through             *)
(* physics.c.  Only the PC that started the game (is_main_pc) detects      *)
(* collisions; the other one is told the disk's speed.                     *)
(*                                                                         *)
(* Abstractions: mainState is MAIN_MENU (and RULES, which treats the table *)
(* alike), GAME or OVER (WIN, LOST and TIE); the clock that ends a game is *)
(* in MatchClock.tla, so a tick may end the game at any time; a message is *)
(* received whole (bytes are in SerialLink.tla); the mouse pointer, which  *)
(* nothing on the table reads, is left out.                                *)
(***************************************************************************)
EXTENDS Physics, Sequences

CONSTANTS
  MouseMoves,     \* [x, y] displacements a mouse packet may carry
  PeerMoves,      \* [x, y] displacements the other PC may send
  PeerSpeeds,     \* [x, y] disk speeds the other PC may send
  MaxDelta,       \* bound on a displacement along the table
  MinFlight,      \* ticks from BallSpot to a goal (see Goals.tla)
  WordSize,       \* 2^16: number of values of a word on the wire
  signal1, ball_signal   \* the two reserved words

(* A nine bit mouse delta and a puck's largest move within its half are    *)
(* smaller than a half of the table is long; the sender limits disk        *)
(* speeds.                                                                 *)
ASSUME MovesAssumption ==
  /\ MaxDelta \in Nat
  /\ MaxDelta <= middle_field - vertical_start
  /\ MaxDelta <= vertical_end - middle_field
  /\ MouseMoves \subseteq [x : Int, y : -MaxDelta .. MaxDelta]
  /\ PeerMoves  \subseteq [x : Int, y : -MaxDelta .. MaxDelta]
  /\ PeerSpeeds \subseteq [x : -max_velocity .. max_velocity,
                           y : -max_velocity .. max_velocity]

(* MinFlight - 1 ticks at full speed do not reach either end line.         *)
ASSUME FlightAssumption ==
  /\ MinFlight \in Nat \ {0}
  /\ max_velocity * (MinFlight - 1) < BallSpot.y - vertical_start
  /\ max_velocity * (MinFlight - 1) < vertical_end - ball_size - BallSpot.y

(* serialport.h: the reserved words lie between the displacements and the  *)
(* two's complement of the negative ones.                                  *)
ASSUME SignalAssumption ==
  /\ WordSize \in Nat
  /\ \A s \in {signal1, ball_signal} :
       /\ s \in Nat
       /\ s > horizontal_end - puck_size - horizontal_start
       /\ s < WordSize - (horizontal_end - puck_size - horizontal_start)

VARIABLES
  mainState,               \* the screen the program is in
  is_main_pc,              \* this PC detects collisions
  Ball, bluepuck, redpuck, \* the sprites
  previous_x, previous_y,  \* bluepuck's position as last transmitted
  puck_transmit,           \* ticks since the last transmission
  sent,                    \* the messages the last step put on the line
  flight, goals            \* history: see Goals.tla

vars == <<mainState, is_main_pc, Ball, bluepuck, redpuck, previous_x,
          previous_y, puck_transmit, sent, flight, goals>>

(* What a step may put on the line. *)
Message == [kind : {"puck", "ball"}, x : Int, y : Int]
PuckMessage(x, y) == [kind |-> "puck", x |-> x, y |-> y]
BallMessage(b) == [kind |-> "ball", x |-> b.xspeed, y |-> b.yspeed]

-----------------------------------------------------------------------------
(* move(puck, x, y, 2), as detect_collision_in_layer decides it. *)

(* The walls and the middle line come first and are tested without looking *)
(* at the disk. *)
PuckBlocked(puck, x, y) ==
  \/ detect_wall_collision(puck_size, puck.x + x, puck.y - y) # {}
  \/ detect_middle_field_collision(puck, puck.y - y)

PuckHitsBall(puck, x, y) ==
  /\ ~PuckBlocked(puck, x, y)
  /\ is_main_pc
  /\ detect_collision(Ball.x, Ball.y, puck.x + x, puck.y - y)

MovedPuck(puck, x, y) == move_puck(puck, x, y, PuckHitsBall(puck, x, y))

(* A puck that runs into the disk passes its last speed to it and tells    *)
(* the other PC.                                                           *)
PushBall(puck, x, y) ==
  IF PuckHitsBall(puck, x, y)
    THEN /\ Ball' = ball_collision(Ball, puck)
         /\ sent' = <<BallMessage(ball_collision(Ball, puck))>>
    ELSE /\ sent' = << >>
         /\ UNCHANGED Ball

-----------------------------------------------------------------------------
(* move(Ball, Ball->xspeed, Ball->yspeed, 1): one disjunct per outcome. *)

NewX == Ball.x + Ball.xspeed
NewY == Ball.y - Ball.yspeed

Moving == Ball.xspeed # 0 \/ Ball.yspeed # 0
InGoal == detect_goal_collision(NewX, NewY) # {}
AtWall == detect_wall_collision(ball_size, NewX, NewY) # {}
AtPuck(puck) == is_main_pc /\ detect_collision(NewX, NewY, puck.x, puck.y)

Tick == flight' = IF flight < MinFlight THEN flight + 1 ELSE flight

(* Mutated form: a goal stops the disk without putting it back.            *)
BallScores_stays ==
  /\ Moving /\ InGoal
  /\ Ball' = [Ball EXCEPT !.xspeed = 0, !.yspeed = 0]
  /\ goals' = detect_goal_collision(NewX, NewY)
  /\ flight' = 0

BallScores ==
  /\ Moving /\ InGoal
  /\ Ball' = AtRest(BallSpot)
  /\ goals' = detect_goal_collision(NewX, NewY)
  /\ flight' = 0

BallFlies ==
  /\ goals' = {}
  /\ Tick
  /\ \/ ~Moving /\ UNCHANGED Ball
     \/ /\ Moving /\ ~InGoal /\ AtWall
        /\ Ball' = bounce_off_walls(Ball, detect_wall_collision(ball_size, NewX, NewY))
     \/ /\ Moving /\ ~InGoal /\ ~AtWall /\ ~AtPuck(redpuck) /\ ~AtPuck(bluepuck)
        /\ Ball' = [Ball EXCEPT !.x = NewX, !.y = NewY]

(* The red puck is tested first. *)
BallHitsPuck ==
  /\ goals' = {}
  /\ Tick
  /\ Moving /\ ~InGoal /\ ~AtWall
  /\ \/ AtPuck(redpuck) /\ Ball' = bounce_off(Ball, redpuck)
     \/ ~AtPuck(redpuck) /\ AtPuck(bluepuck) /\ Ball' = bounce_off(Ball, bluepuck)

-----------------------------------------------------------------------------
(* transmit_puck_change, every second tick of a game. *)

Due == puck_transmit + 1 = 2
PuckChanged == bluepuck.x # previous_x \/ bluepuck.y # previous_y

PuckMessages ==
  IF Due /\ PuckChanged
    THEN <<PuckMessage(bluepuck.x - previous_x, bluepuck.y - previous_y)>>
    ELSE << >>

(* Mutated form: the tick counter is not reset after a transmission.       *)
transmit_puck_change_no_reset ==
  /\ puck_transmit' = puck_transmit + 1
  /\ previous_x' = IF Due THEN bluepuck.x ELSE previous_x
  /\ previous_y' = IF Due THEN bluepuck.y ELSE previous_y

transmit_puck_change ==
  /\ puck_transmit' = IF Due THEN 0 ELSE puck_transmit + 1
  /\ previous_x' = IF Due THEN bluepuck.x ELSE previous_x
  /\ previous_y' = IF Due THEN bluepuck.y ELSE previous_y

(* timer_int in a game: transmit, let the clock end the game or not, then  *)
(* move the disk.  A disk that met a puck is announced to the other PC;    *)
(* one that met a wall is not, the other PC sees the wall itself.          *)
timer_int ==
  /\ mainState = "GAME"
  /\ transmit_puck_change
  /\ mainState' \in {"GAME", "OVER"}
  /\ \/ (BallScores \/ BallFlies) /\ sent' = PuckMessages
     \/ BallHitsPuck /\ sent' = Append(PuckMessages, BallMessage(Ball'))
  /\ UNCHANGED <<is_main_pc, bluepuck, redpuck>>

(* mouse_int, when a byte completes a packet.  It moves the puck whatever  *)
(* screen the program shows.  With the left button up the puck stops.      *)
mouse_int_drag ==
  \E d \in MouseMoves :
    /\ bluepuck' = MovedPuck(bluepuck, d.x, d.y)
    /\ PushBall(bluepuck, d.x, d.y)
    /\ goals' = {}
    /\ UNCHANGED <<mainState, is_main_pc, redpuck, previous_x, previous_y,
                   puck_transmit, flight>>

mouse_int_release ==
  /\ bluepuck' = [bluepuck EXCEPT !.xspeed = 0, !.yspeed = 0]
  /\ sent' = << >>
  /\ goals' = {}
  /\ UNCHANGED <<mainState, is_main_pc, Ball, redpuck, previous_x, previous_y,
                 puck_transmit, flight>>

(* sp_int in a game, with a whole message in the queue: the other player   *)
(* sits across the table, so its displacement and the disk's speed are     *)
(* turned round.                                                           *)
sp_int_puck ==
  \E d \in PeerMoves :
    /\ mainState = "GAME"
    /\ redpuck' = MovedPuck(redpuck, -d.x, d.y)
    /\ PushBall(redpuck, -d.x, d.y)
    /\ goals' = {}
    /\ UNCHANGED <<mainState, is_main_pc, bluepuck, previous_x, previous_y,
                   puck_transmit, flight>>

sp_int_ball ==
  \E v \in PeerSpeeds :
    /\ mainState = "GAME"
    /\ Ball' = [Ball EXCEPT !.xspeed = -v.x, !.yspeed = -v.y]
    /\ sent' = << >>
    /\ goals' = {}
    /\ UNCHANGED <<mainState, is_main_pc, bluepuck, redpuck, previous_x,
                   previous_y, puck_transmit, flight>>

(* Mutated form: the transmitted position is not brought up to date.       *)
reset_game_state_keeps_previous ==
  /\ Ball' = AtRest(BallSpot)
  /\ bluepuck' = AtRest(BlueSpot)
  /\ redpuck' = AtRest(RedSpot)
  /\ UNCHANGED <<previous_x, previous_y>>

(* reset_game_state, as far as the table is concerned. *)
reset_game_state ==
  /\ Ball' = AtRest(BallSpot)
  /\ bluepuck' = AtRest(BlueSpot)
  /\ redpuck' = AtRest(RedSpot)
  /\ previous_x' = BlueSpot.x
  /\ previous_y' = BlueSpot.y

(* The ways into a game: the start button (keyboard_int), the start signal *)
(* of the other PC (sp_int), and play again (popOutButtons), which keeps   *)
(* is_main_pc.  A menu with two buttons selected (Menu.tla) resets the     *)
(* game and then shows the rules instead of it.                            *)
NewGame ==
  /\ \/ /\ mainState = "MAIN_MENU"
        /\ \/ mainState' = "GAME" /\ is_main_pc' \in BOOLEAN
           \/ mainState' = "MAIN_MENU" /\ is_main_pc' = TRUE
     \/ mainState = "OVER" /\ mainState' = "GAME" /\ UNCHANGED is_main_pc
  /\ reset_game_state
  /\ sent' = << >>
  /\ goals' = {}
  /\ flight' = 0
  /\ UNCHANGED puck_transmit

(* The way out of one: ESC (keyboard_int) or the other PC's (sp_int).      *)
LeaveGame ==
  /\ mainState = "GAME"
  /\ mainState' = "MAIN_MENU"
  /\ sent' = << >>
  /\ goals' = {}
  /\ UNCHANGED <<is_main_pc, Ball, bluepuck, redpuck, previous_x, previous_y,
                 puck_transmit, flight>>

(* loader_sprite and the initializers of model.c. *)
Init ==
  /\ mainState = "MAIN_MENU"
  /\ is_main_pc = TRUE
  /\ Ball = AtRest(BallSpot)
  /\ bluepuck = AtRest(BlueSpot)
  /\ redpuck = AtRest(RedSpot)
  /\ previous_x = 0 /\ previous_y = 0
  /\ puck_transmit = 0
  /\ sent = << >>
  /\ flight = 0 /\ goals = {}

Next ==
  \/ timer_int
  \/ mouse_int_drag \/ mouse_int_release
  \/ sp_int_puck \/ sp_int_ball
  \/ NewGame \/ LeaveGame

Spec == Init /\ [][Next]_vars

-----------------------------------------------------------------------------

TypeOK ==
  /\ mainState \in {"MAIN_MENU", "GAME", "OVER"}
  /\ is_main_pc \in BOOLEAN
  /\ Ball \in Sprite /\ bluepuck \in Sprite /\ redpuck \in Sprite
  /\ previous_x \in Int /\ previous_y \in Int
  /\ puck_transmit \in {0, 1}
  /\ sent \in Seq(Message)
  /\ flight \in 0 .. MinFlight
  /\ goals \subseteq {1, 2}

(* Each puck stays between the side walls and in its own half.  The walls  *)
(* are tested before the middle line and put the puck on the far wall, so  *)
(* a large displacement could jump a puck over the line; and a puck that   *)
(* once got across would be held on the wrong side by the same test.       *)
PucksInOwnHalf ==
  /\ \A p \in {bluepuck, redpuck} :
       p.x >= horizontal_start /\ p.x + puck_size <= horizontal_end
  /\ bluepuck.y >= middle_field /\ bluepuck.y + puck_size <= vertical_end
  /\ redpuck.y >= vertical_start /\ redpuck.y + puck_size <= middle_field

(* The disk never crosses a wall, whatever hits it and whatever speed the  *)
(* other PC gives it: it is refused the move and turned back.              *)
BallInField ==
  /\ Ball.x >= horizontal_start /\ Ball.x + ball_size <= horizontal_end
  /\ Ball.y >= vertical_start   /\ Ball.y + ball_size <= vertical_end

(* The disk is never faster than max_velocity, though a puck may be many   *)
(* times faster and two of the ways it gets a speed do not limit it.       *)
BallSpeedLimited ==
  /\ Ball.xspeed \in -max_velocity .. max_velocity
  /\ Ball.yspeed \in -max_velocity .. max_velocity

(* The word the other PC reads first of a puck message, delta_x as two     *)
(* bytes, is never one of the two reserved words: it would be taken for    *)
(* the end of the game or for a disk speed.                                *)
PuckWordIsNoSignal ==
  \A i \in DOMAIN sent :
    sent[i].kind = "puck" => sent[i].x % WordSize \notin {signal1, ball_signal}

G == INSTANCE Goals

(* The table gives the scoreboard goals as Goals.tla allows them: one at a *)
(* time and at least MinFlight ticks apart, however the pucks push the     *)
(* disk and however often a game is left and started again.                *)
ImplementsGoals == G!Spec
=============================================================================
