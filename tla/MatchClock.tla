---------------------------- MODULE MatchClock ------------------------------
(***************************************************************************)
(* The clock and the scoreboard of a match on one PC: the part of          *)
(* timer_int (model/model.c) that counts the seconds and decides who won,  *)
(* and the parts of the other handlers that start and leave a match.       *)
(* Goals come from the table, at the pace Goals.tla allows.                *)
(*                                                                         *)
(* Once a second (time_count % sys_hz() == 0) the handler looks at the     *)
(* scores; only then does it move the disk, which may score again.         *)
(***************************************************************************)
EXTENDS Integers

CONSTANTS
  Hz,          \* sys_hz(): timer ticks per second
  GameTime,    \* seconds on the clock of a new match (200)
  MinFlight,   \* ticks from the centre spot to a goal
  CountBound   \* bound of the model on time_count

(* The bound is past the last tick of a match, so it only cuts off the     *)
(* counting between matches (ClockTracksTicks).                            *)
ASSUME ClockAssumption ==
  /\ Hz \in Nat \ {0} /\ GameTime \in Nat /\ MinFlight \in Nat \ {0}
  /\ CountBound \in Nat /\ CountBound >= Hz * (GameTime + 1)

VARIABLES
  mainState,
  time_count,                       \* ticks since the match started
  time_remaining,                   \* seconds left
  player_1_score, player_2_score,   \* the opponent's and this player's goals
  flight, goals,                    \* see Goals.tla
  skipped        \* history: a look at the scores found one past three

vars == <<mainState, time_count, time_remaining, player_1_score,
          player_2_score, flight, goals, skipped>>

G == INSTANCE Goals

Results == {"WIN", "LOST", "TIE"}

-----------------------------------------------------------------------------

(* A whole second has passed with this tick. *)
OnTheSecond == (time_count + 1) % Hz = 0

(* Mutated forms: the clock stops at one second, and the clock is taken    *)
(* down without the test for zero.                                         *)
NextTime_stops_at_one == IF time_remaining > 1 THEN time_remaining - 1 ELSE time_remaining
NextTime_unguarded == time_remaining - 1

(* "if (time_remaining > 0) time_remaining--" *)
NextTime == IF time_remaining > 0 THEN time_remaining - 1 ELSE time_remaining

(* Mutated form: the player with the fewer points wins on time.            *)
Verdict_swapped ==
  IF time_remaining > 0
    THEN IF player_1_score = 3 THEN "LOST"
         ELSE IF player_2_score = 3 THEN "WIN" ELSE "GAME"
    ELSE IF player_1_score = player_2_score THEN "TIE"
         ELSE IF player_1_score > player_2_score THEN "WIN" ELSE "LOST"

(* The state the scores put the program in, before the disk moves. *)
Verdict ==
  IF time_remaining > 0
    THEN IF player_1_score = 3 THEN "LOST"
         ELSE IF player_2_score = 3 THEN "WIN" ELSE "GAME"
    ELSE IF player_1_score = player_2_score THEN "TIE"
         ELSE IF player_1_score > player_2_score THEN "LOST" ELSE "WIN"

(* Mutated form: the clock runs on every tick.                             *)
Clock_every_tick ==
  time_remaining' = NextTime /\ mainState' = IF OnTheSecond THEN Verdict ELSE mainState

Clock ==
  IF OnTheSecond
    THEN time_remaining' = NextTime /\ mainState' = Verdict
    ELSE UNCHANGED <<time_remaining, mainState>>

(* Mutated form: a goal counts twice.                                      *)
CountGoals_twice ==
  /\ player_1_score' = player_1_score + IF 1 \in goals' THEN 2 ELSE 0
  /\ player_2_score' = player_2_score + IF 2 \in goals' THEN 2 ELSE 0

(* detect_goal_collision: each goal of this tick goes on the board. *)
CountGoals ==
  /\ player_1_score' = player_1_score + IF 1 \in goals' THEN 1 ELSE 0
  /\ player_2_score' = player_2_score + IF 2 \in goals' THEN 1 ELSE 0

(* The scores are compared with three, once a second: two goals of one     *)
(* player between two looks take his from two to four, and no later look   *)
(* finds it at three.                                                      *)
Skips ==
  OnTheSecond /\ time_remaining > 0 /\ (player_1_score > 3 \/ player_2_score > 3)

(* timer_int in a match. *)
timer_int ==
  /\ mainState = "GAME"
  /\ time_count < CountBound
  /\ time_count' = time_count + 1
  /\ Clock
  /\ skipped' = (skipped \/ Skips)
  /\ (G!Fly \/ G!Score)
  /\ CountGoals

(* timer_int on any other screen only counts. *)
timer_int_idle ==
  /\ mainState # "GAME"
  /\ time_count < CountBound
  /\ time_count' = time_count + 1
  /\ goals' = {}
  /\ UNCHANGED <<mainState, time_remaining, player_1_score, player_2_score, flight, skipped>>

(* reset_game_state, from the menu (start button or start signal) or from  *)
(* the result (play again).                                                *)
reset_game_state ==
  /\ time_remaining' = GameTime
  /\ time_count' = 0
  /\ player_1_score' = 0
  /\ player_2_score' = 0
  /\ skipped' = FALSE
  /\ G!Restart

(* A menu with two buttons selected (Menu.tla) resets the match and then   *)
(* shows the rules, which this clock does not tell from the menu.          *)
NewGame ==
  /\ mainState # "GAME"
  /\ \/ mainState' = "GAME"
     \/ mainState = "MAIN_MENU" /\ UNCHANGED mainState
  /\ reset_game_state

(* ESC, or the other PC's quit signal. *)
LeaveGame ==
  /\ mainState = "GAME"
  /\ mainState' = "MAIN_MENU"
  /\ G!Rest
  /\ UNCHANGED <<time_count, time_remaining, player_1_score, player_2_score, skipped>>

(* time_remaining has no initializer and is a global, so it starts at 0.   *)
Init ==
  /\ mainState = "MAIN_MENU"
  /\ time_count = 0
  /\ time_remaining = 0
  /\ player_1_score = 0 /\ player_2_score = 0
  /\ skipped = FALSE
  /\ G!Init

Next == timer_int \/ timer_int_idle \/ NewGame \/ LeaveGame

Spec == Init /\ [][Next]_vars

(* The timer interrupts whatever the players do, and driver_receive hands  *)
(* its notifications to the loop: ticks of a match do not stop.            *)
FairSpec == Spec /\ WF_vars(timer_int)

-----------------------------------------------------------------------------

TypeOK ==
  /\ mainState \in {"MAIN_MENU", "GAME"} \cup Results
  /\ time_count \in Nat
  /\ time_remaining \in 0 .. GameTime
  /\ player_1_score \in Nat /\ player_2_score \in Nat
  /\ flight \in 0 .. MinFlight
  /\ goals \in {{}, {1}, {2}}
  /\ skipped \in BOOLEAN

(* In a match the clock shows whole seconds since its start, and the match *)
(* is over one second after the clock reached zero: the count of ticks,    *)
(* which every screen shares and a new match resets, and the seconds on    *)
(* the clock never drift apart.                                            *)
ClockTracksTicks ==
  mainState = "GAME" =>
    /\ Hz * (GameTime - time_remaining) <= time_count
    /\ time_count < Hz * (GameTime - time_remaining + 1)

(* No match has more goals than its ticks allow: the scores, which index   *)
(* the tables of digits when they are drawn, are bounded by the clock and  *)
(* the disk's flight, not by the rule that three goals win.                *)
GoalRate ==
  MinFlight * (player_1_score + player_2_score) + flight <= time_count

(* Every match ends, by a verdict or by a player leaving. *)
MatchEnds == mainState = "GAME" ~> mainState # "GAME"

(* As long as no player's score skipped three between two looks, a result  *)
(* contradicts the board it is shown on by no more than the goal of its    *)
(* own tick, whose disk moves after the scores were compared: nobody has   *)
(* won who is behind, and a tie is off by one goal at most.  Three goals   *)
(* of both players, of which the opponent's is looked at first, are too    *)
(* many for one second to be followed by another goal (Hz < 2 * MinFlight).*)
VerdictWithinAGoal ==
  ~skipped =>
    /\ mainState = "WIN"  => player_1_score <= player_2_score
    /\ mainState = "LOST" => player_2_score <= player_1_score
    /\ mainState = "TIE"  => player_1_score - player_2_score \in -1 .. 1

(* The report, page 6: "To win the game, a player must either score nine   *)
(* points or have the most points when time runs out": the winner is not   *)
(* behind on the board, however he won (the limit in the code is three).   *)
WinnerNotBehind ==
  /\ mainState = "WIN"  => player_1_score <= player_2_score
  /\ mainState = "LOST" => player_2_score <= player_1_score
=============================================================================
