----------------------------- MODULE MatchProofs -----------------------------
(***************************************************************************)
(* A match on one PC.  Its clock never drifts from the ticks and it has no *)
(* more goals than its ticks allow, for every frequency of the timer,      *)
(* length of a match and flight of the disk; its verdict fits the scores   *)
(* until one of them has skipped three.  And the copy of the other         *)
(* player's puck goes where the puck goes, on any table and from any       *)
(* spots, until a report takes it where it has no room or the disk is in   *)
(* the way: a report between two positions that have room is one that no   *)
(* wall and no line of move changes.                                       *)
(***************************************************************************)
EXTENDS MatchClock, Mirror, TLAPS

(* The quotient and the remainder are the only ones. *)
LEMMA Remainder ==
  ASSUME NEW d \in Nat \ {0}, NEW q \in Nat, NEW r \in 0 .. d - 1
  PROVE  (d * q + r) % d = r
<1>. DEFINE m == d * q + r
            v == m \div d
            w == m % d
<1>1. d * q \in Nat /\ m \in Nat
  OBVIOUS
<1>2. v \in Nat /\ w \in 0 .. d - 1 /\ m = d * v + w
  <2>. HIDE DEF m
  <2>. QED BY <1>1
<1>. HIDE DEF v, w
<1>3. CASE v = q
  BY <1>1, <1>2, <1>3 DEF w
<1>4. CASE v > q
  <2>1. PICK j \in Nat : v = q + 1 + j
    <3>1. v - q - 1 \in Nat /\ v = q + 1 + (v - q - 1)
      BY <1>2, <1>4
    <3>. QED BY <3>1
  <2>2. d * v = d * q + d + d * j /\ d * j \in Nat
    BY <2>1
  <2>. QED
    BY <1>1, <1>2, <2>2
<1>5. CASE v < q
  <2>1. PICK j \in Nat : q = v + 1 + j
    <3>1. q - v - 1 \in Nat /\ q = v + 1 + (q - v - 1)
      BY <1>2, <1>5
    <3>. QED BY <3>1
  <2>2. d * q = d * v + d + d * j /\ d * j \in Nat
    BY <1>2, <2>1
  <2>. QED
    BY <1>1, <1>2, <2>2
<1>. QED
  BY <1>2, <1>3, <1>4, <1>5

(* Between two multiples of Hz, the only tick on which time_count % Hz is  *)
(* zero is the one that reaches the second of them.                        *)
LEMMA SecondEnds ==
  ASSUME NEW n \in Nat, NEW k \in Nat,
         Hz * k <= n, n < Hz * (k + 1)
  PROVE  (n + 1) % Hz = 0 <=> n + 1 = Hz * (k + 1)
<1>. DEFINE low == Hz * k
<1>0. Hz \in Nat \ {0} /\ low \in Nat
  BY ClockAssumption
<1>1. Hz * (k + 1) = low + Hz
  BY ClockAssumption
<1>2. low <= n /\ n < low + Hz
  BY <1>1
<1>3. CASE n + 1 = low + Hz
  <2>1. n + 1 = Hz * (k + 1) + 0 /\ 0 \in 0 .. Hz - 1 /\ k + 1 \in Nat
    BY <1>0, <1>1, <1>3
  <2>2. (Hz * (k + 1) + 0) % Hz = 0
    BY <1>0, <2>1, Remainder
  <2>. QED
    BY <1>1, <1>3, <2>1, <2>2
<1>4. CASE n + 1 # low + Hz
  <2>. DEFINE r == n + 1 - low
  <2>1. r \in 1 .. Hz - 1 /\ r \in 0 .. Hz - 1 /\ n + 1 = low + r
    BY <1>0, <1>2, <1>4
  <2>. HIDE DEF r
  <2>2. (low + r) % Hz = r
    BY <1>0, <2>1, Remainder
  <2>. HIDE DEF low
  <2>. QED
    BY <1>0, <1>1, <1>4, <2>1, <2>2
<1>. QED
  BY <1>3, <1>4

(* Another goal takes another flight.                                      *)
LEMMA AnotherGoal ==
  ASSUME NEW s \in Nat
  PROVE  /\ MinFlight * (s + 1) = MinFlight * s + MinFlight
         /\ MinFlight * s \in Nat
  BY ClockAssumption

(* A tick without a goal lets the flight grow as fast as the ticks do.     *)
LEMMA OneMoreTick ==
  ASSUME NEW m \in Nat, NEW f \in Nat, NEW g \in Nat, NEW t \in Nat,
         m + f <= t, g <= f + 1
  PROVE  m + g <= t + 1
  OBVIOUS

-----------------------------------------------------------------------------

(* The invariant needs no strengthening: each part is inductive next to    *)
(* TypeOK.                                                                 *)
IInv == TypeOK /\ ClockTracksTicks /\ GoalRate

(* The program starts with it.                                             *)
LEMMA InitIInv == Init => IInv
<1>. SUFFICES ASSUME Init PROVE IInv
  OBVIOUS
<1>. USE ClockAssumption
<1>1. TypeOK
  <2>1. skipped \in BOOLEAN
    BY DEF Init
  <2>. QED
    BY <2>1 DEF Init, TypeOK, G!Init
<1>2. ClockTracksTicks
  BY DEF Init, ClockTracksTicks
<1>3. MinFlight * (0 + 0) = 0
  OBVIOUS
<1>4. GoalRate
  BY <1>3 DEF Init, GoalRate, G!Init
<1>. QED
  BY <1>1, <1>2, <1>4 DEF IInv

(* What a tick does to the clock.                                          *)
LEMMA TickKeepsTime ==
  ASSUME TypeOK, ClockTracksTicks, timer_int
  PROVE  /\ mainState' \in {"GAME"} \cup Results
         /\ time_remaining' \in 0 .. GameTime
         /\ ClockTracksTicks'
<1>. DEFINE k == GameTime - time_remaining
<1>0. /\ mainState = "GAME" /\ time_count' = time_count + 1 /\ Clock
      /\ time_count \in Nat /\ time_remaining \in 0 .. GameTime
      /\ Hz \in Nat \ {0} /\ GameTime \in Nat /\ k \in Nat
  BY ClockAssumption DEF timer_int, TypeOK
<1>1. Hz * k <= time_count /\ time_count < Hz * (k + 1)
  BY <1>0 DEF ClockTracksTicks
<1>2. OnTheSecond <=> time_count + 1 = Hz * (k + 1)
  BY <1>0, <1>1, SecondEnds DEF OnTheSecond
<1>. DEFINE low == Hz * k
<1>3. /\ Hz * (k + 1) = low + Hz /\ Hz * (k + 1 + 1) = low + Hz + Hz
      /\ low \in Nat
  BY <1>0
<1>4. CASE OnTheSecond /\ time_remaining > 0
  <2>1. /\ time_remaining' = time_remaining - 1
        /\ mainState' \in {"GAME"} \cup Results
    BY <1>0, <1>4 DEF Clock, NextTime, Verdict, Results
  <2>2. GameTime - time_remaining' = k + 1
    BY <1>0, <2>1
  <2>3. time_count' = low + Hz
    BY <1>0, <1>2, <1>3, <1>4
  <2>4. Hz * (k + 1) <= time_count' /\ time_count' < Hz * (k + 1 + 1)
    BY <1>0, <1>3, <2>3
  <2>. QED
    BY <1>0, <1>4, <2>1, <2>2, <2>4 DEF ClockTracksTicks
<1>5. CASE OnTheSecond /\ ~(time_remaining > 0)
  <2>1. time_remaining' = time_remaining /\ mainState' \in Results
    BY <1>0, <1>5 DEF Clock, NextTime, Verdict, Results
  <2>2. mainState' # "GAME"
    BY <2>1 DEF Results
  <2>. QED
    BY <1>0, <2>1, <2>2 DEF ClockTracksTicks
<1>6. CASE ~OnTheSecond
  <2>1. time_remaining' = time_remaining /\ mainState' = "GAME"
    BY <1>0, <1>6 DEF Clock
  <2>2. Hz * k <= time_count' /\ time_count' < Hz * (k + 1)
    <3>. HIDE DEF k
    <3>. QED BY <1>0, <1>1, <1>2, <1>3, <1>6
  <2>. QED
    BY <1>0, <2>1, <2>2 DEF ClockTracksTicks
<1>. QED
  BY <1>4, <1>5, <1>6

(* What a tick does to the scores.                                         *)
LEMMA TickKeepsRate ==
  ASSUME TypeOK, GoalRate, timer_int
  PROVE  /\ player_1_score' \in Nat /\ player_2_score' \in Nat
         /\ flight' \in 0 .. MinFlight
         /\ goals' \in {{}, {1}, {2}}
         /\ GoalRate'
<1>. DEFINE s == player_1_score + player_2_score
<1>0. /\ time_count' = time_count + 1 /\ CountGoals /\ (G!Fly \/ G!Score)
      /\ time_count \in Nat /\ player_1_score \in Nat /\ player_2_score \in Nat
      /\ s \in Nat /\ flight \in 0 .. MinFlight /\ MinFlight \in Nat \ {0}
      /\ MinFlight * s + flight <= time_count
  BY ClockAssumption DEF timer_int, TypeOK, GoalRate
<1>1. CASE G!Fly
  <2>1. /\ goals' = {} /\ flight' \in 0 .. MinFlight /\ flight' <= flight + 1
    BY <1>0, <1>1 DEF G!Fly
  <2>2. player_1_score' = player_1_score /\ player_2_score' = player_2_score
    BY <1>0, <2>1 DEF CountGoals
  <2>3. GoalRate'
    <3>1. MinFlight * s \in Nat
      BY <1>0, AnotherGoal
    <3>2. flight \in Nat /\ flight' \in Nat /\ flight' <= flight + 1
      BY <1>0, <2>1
    <3>3. MinFlight * s + flight' <= time_count + 1
      BY <1>0, <3>1, <3>2, OneMoreTick
    <3>. QED
      BY <1>0, <2>2, <3>3 DEF GoalRate
  <2>. QED
    BY <1>0, <2>1, <2>2, <2>3
<1>2. CASE G!Score
  <2>1. goals' \in {{1}, {2}} /\ flight' = 0 /\ flight + 1 >= MinFlight
    BY <1>2 DEF G!Score
  <2>2. /\ player_1_score' \in Nat /\ player_2_score' \in Nat
        /\ player_1_score' + player_2_score' = s + 1
    BY <1>0, <2>1 DEF CountGoals
  <2>. HIDE DEF s
  <2>3. MinFlight * (s + 1) + 0 <= time_count'
    BY <1>0, <2>1, AnotherGoal
  <2>4. GoalRate'
    BY <2>1, <2>2, <2>3 DEF GoalRate
  <2>5. goals' \in {{}, {1}, {2}}
    BY <2>1
  <2>. QED
    BY <1>0, <2>1, <2>2, <2>4, <2>5
<1>. QED
  BY <1>0, <1>1, <1>2

(* Every handler keeps it.                                                 *)
LEMMA NextIInv == IInv /\ [Next]_vars => IInv'
<1>. SUFFICES ASSUME IInv, [Next]_vars PROVE IInv'
  OBVIOUS
<1>0. TypeOK /\ ClockTracksTicks /\ GoalRate
  BY DEF IInv
<1>1. CASE timer_int
  <2>1. time_count' \in Nat
    BY <1>0, <1>1 DEF TypeOK, timer_int
  <2>2. skipped' \in BOOLEAN
    BY <1>1 DEF timer_int
  <2>. QED
    BY <1>0, <1>1, <2>1, <2>2, TickKeepsTime, TickKeepsRate DEF IInv, TypeOK
<1>2. CASE timer_int_idle
  <2>1. TypeOK' /\ ClockTracksTicks'
    BY <1>0, <1>2 DEF TypeOK, timer_int_idle, ClockTracksTicks
  <2>2. GoalRate'
    <3>. DEFINE m == MinFlight * (player_1_score + player_2_score) + flight
    <3>1. m \in Int
      BY <1>0, ClockAssumption DEF TypeOK
    <3>2. m' = m
      BY <1>2 DEF timer_int_idle
    <3>. HIDE DEF m
    <3>. QED BY <1>0, <1>2, <3>1, <3>2 DEF TypeOK, timer_int_idle, GoalRate, m
  <2>. QED
    BY <2>1, <2>2 DEF IInv
<1>3. CASE NewGame
  <2>1. /\ mainState' \in {"GAME", "MAIN_MENU"} /\ time_remaining' = GameTime /\ time_count' = 0
        /\ player_1_score' = 0 /\ player_2_score' = 0 /\ flight' = 0 /\ goals' = {}
    BY <1>3 DEF NewGame, reset_game_state, G!Restart
  <2>1a. skipped' \in BOOLEAN
    BY <1>3 DEF NewGame, reset_game_state
  <2>2. TypeOK'
    BY <2>1, <2>1a, ClockAssumption DEF TypeOK
  <2>3. MinFlight * (0 + 0) = 0 /\ Hz * 0 = 0 /\ Hz * (0 + 1) = Hz
    BY ClockAssumption
  <2>4. GameTime - GameTime = 0
    BY ClockAssumption
  <2>5. ClockTracksTicks'
    BY <2>1, <2>3, <2>4, ClockAssumption DEF ClockTracksTicks
  <2>6. GoalRate'
    BY <2>1, <2>3 DEF GoalRate
  <2>. QED
    BY <2>2, <2>5, <2>6 DEF IInv
<1>4. CASE LeaveGame
  <2>1. TypeOK' /\ ClockTracksTicks'
    BY <1>0, <1>4 DEF TypeOK, LeaveGame, ClockTracksTicks, G!Rest
  <2>2. GoalRate'
    BY <1>0, <1>4 DEF LeaveGame, GoalRate, G!Rest
  <2>. QED
    BY <2>1, <2>2 DEF IInv
<1>5. CASE UNCHANGED vars
  BY <1>0, <1>5 DEF vars, IInv, TypeOK, ClockTracksTicks, GoalRate
<1>. QED
  BY <1>1, <1>2, <1>3, <1>4, <1>5 DEF Next

(* The invariant holds throughout.                                         *)
LEMMA IInvHolds == Spec => []IInv
  BY InitIInv, NextIInv, PTL DEF Spec

(* The clock, the counter and the scores are of their types: the clock     *)
(* never shows a negative time.                                            *)
THEOREM ClockTyped == Spec => []TypeOK
  BY IInvHolds, PTL DEF IInv

(* In every state of every match the clock shows the whole seconds since   *)
(* the match started, whatever Hz and GameTime are.                        *)
THEOREM ClockFollowsTicks == Spec => []ClockTracksTicks
  BY IInvHolds, PTL DEF IInv

(* The goals on the board took MinFlight ticks each, whatever Hz, GameTime *)
(* and MinFlight are: the bound on the score that no line of code states.  *)
THEOREM ScoresBounded == Spec => []GoalRate
  BY IInvHolds, PTL DEF IInv

(* Ticks of the match since the last look at the scores.                   *)
SinceLook == time_count - Hz * (GameTime - time_remaining)

(* While no score has skipped three, a third goal on the board of a match  *)
(* that goes on was scored since the last look; and two of them since then *)
(* are a flight apart.                                                     *)
ThirdGoalsAreNew ==
  mainState = "GAME" /\ ~skipped =>
    /\ player_1_score >= 3 \/ player_2_score >= 3 => flight <= SinceLook
    /\ player_1_score >= 3 /\ player_2_score >= 3 => MinFlight + flight <= SinceLook

(* What a tick may do to the board and to the disk's flight.               *)
LEMMA TickScores ==
  ASSUME TypeOK, timer_int
  PROVE  \/ /\ player_1_score' = player_1_score /\ player_2_score' = player_2_score
            /\ flight' \in Nat /\ flight' <= flight + 1
         \/ /\ \/ player_1_score' = player_1_score + 1 /\ player_2_score' = player_2_score
               \/ player_1_score' = player_1_score /\ player_2_score' = player_2_score + 1
            /\ flight + 1 >= MinFlight /\ flight' = 0
<1>0. player_1_score \in Nat /\ player_2_score \in Nat /\ flight \in Nat
  BY ClockAssumption DEF TypeOK
<1>1. CASE G!Fly
  BY <1>0, <1>1 DEF timer_int, CountGoals, G!Fly
<1>2. CASE G!Score
  <2>1. goals' \in {{1}, {2}} /\ flight + 1 >= MinFlight /\ flight' = 0
    BY <1>2 DEF G!Score
  <2>2. QED
    BY <1>0, <2>1 DEF timer_int, CountGoals
<1>3. QED
  BY <1>1, <1>2 DEF timer_int

(* A tick between two looks.                                               *)
LEMMA TickBetweenLooks ==
  ASSUME IInv, ThirdGoalsAreNew, timer_int, ~OnTheSecond
  PROVE  ThirdGoalsAreNew' /\ mainState' = "GAME"
<1> DEFINE e == SinceLook
<1>1. /\ mainState = "GAME" /\ mainState' = "GAME" /\ time_remaining' = time_remaining
      /\ time_count' = time_count + 1 /\ skipped' = skipped
    BY DEF timer_int, Clock, Skips, IInv, TypeOK
<1>2. /\ e \in Int /\ e >= 0 /\ SinceLook' = e + 1
  <2>1. /\ time_count \in Nat /\ time_remaining \in 0 .. GameTime /\ Hz \in Nat /\ GameTime \in Nat
        /\ Hz * (GameTime - time_remaining) <= time_count
    BY <1>1, ClockAssumption DEF IInv, TypeOK, ClockTracksTicks
  <2> DEFINE low == Hz * (GameTime - time_remaining)
  <2>2. low \in Int /\ low' = low
    BY <1>1, <2>1
  <2> HIDE DEF low
  <2>3. SinceLook = time_count - low /\ SinceLook' = time_count' - low' /\ low <= time_count
    BY <2>1 DEF SinceLook, low
  <2>4. QED
    BY <1>1, <2>1, <2>2, <2>3
<1> HIDE DEF e
<1>3. /\ player_1_score \in Nat /\ player_2_score \in Nat /\ flight \in Nat /\ MinFlight \in Nat
  BY ClockAssumption DEF IInv, TypeOK
<1>4. ASSUME ~skipped
      PROVE  /\ player_1_score' >= 3 \/ player_2_score' >= 3 => flight' <= e + 1
             /\ player_1_score' >= 3 /\ player_2_score' >= 3 => MinFlight + flight' <= e + 1
  <2>1. /\ player_1_score >= 3 \/ player_2_score >= 3 => flight <= e
        /\ player_1_score >= 3 /\ player_2_score >= 3 => MinFlight + flight <= e
    BY <1>1, <1>4 DEF ThirdGoalsAreNew, e
  <2>2. QED
    BY <1>2, <1>3, <2>1, TickScores DEF IInv
<1>5. QED
  BY <1>1, <1>2, <1>4 DEF ThirdGoalsAreNew

(* A look that lets the match go on found no third goal, and one that ends *)
(* it compared the scores as they were before the goal of this tick.       *)
LEMMA TickWithLook ==
  ASSUME Hz < 2 * MinFlight, IInv, ThirdGoalsAreNew, timer_int, OnTheSecond
  PROVE  ThirdGoalsAreNew' /\ VerdictWithinAGoal'
<1>1. /\ mainState = "GAME" /\ mainState' = Verdict /\ time_remaining' = NextTime
      /\ time_count' = time_count + 1 /\ (~skipped' => ~skipped /\ ~Skips)
  BY DEF timer_int, Clock
<1>2. /\ player_1_score \in Nat /\ player_2_score \in Nat /\ flight \in Nat
      /\ MinFlight \in Nat \ {0} /\ Hz \in Nat \ {0}
      /\ time_count \in Nat /\ time_remaining \in 0 .. GameTime /\ GameTime \in Nat
  BY ClockAssumption DEF IInv, TypeOK
<1> DEFINE k == GameTime - time_remaining
<1>3. SinceLook = Hz - 1 /\ SinceLook \in Int
  <2>1. k \in Nat /\ Hz * k <= time_count /\ time_count < Hz * (k + 1)
    BY <1>1, <1>2 DEF IInv, ClockTracksTicks
  <2>2. time_count + 1 = Hz * (k + 1)
    BY <1>2, <2>1, SecondEnds DEF OnTheSecond
  <2>3. Hz * (k + 1) = Hz * k + Hz /\ Hz * k \in Nat
    BY <1>2, <2>1
  <2>4. QED
    BY <1>2, <2>2, <2>3 DEF SinceLook
<1>4. ASSUME ~skipped'
      PROVE  /\ time_remaining > 0 => player_1_score <= 3 /\ player_2_score <= 3
             /\ player_1_score >= 3 /\ player_2_score >= 3 => flight + 1 < MinFlight
  <2>1. ~skipped /\ ~Skips
    BY <1>1, <1>4
  <2>2. player_1_score >= 3 /\ player_2_score >= 3 => MinFlight + flight <= SinceLook
    BY <1>1, <2>1 DEF ThirdGoalsAreNew
  <2>3. QED
    BY <1>2, <1>3, <2>1, <2>2 DEF Skips
<1>5. ASSUME ~skipped', mainState' = "GAME"
      PROVE  ThirdGoalsAreNew'
  <2>1. time_remaining > 0 /\ player_1_score < 3 /\ player_2_score < 3
    BY <1>1, <1>2, <1>4, <1>5 DEF Verdict
  <2>2. SinceLook' = 0
    <3>1. time_remaining' = time_remaining - 1
      BY <1>1, <2>1 DEF NextTime
    <3>2. GameTime - time_remaining' = k + 1 /\ k \in Nat
      BY <1>2, <3>1
    <3>3. Hz * (k + 1) = Hz * k + Hz /\ Hz * k \in Nat
      BY <1>2, <3>2
    <3>4. SinceLook = time_count - Hz * k /\ SinceLook' = time_count' - Hz * (k + 1)
      BY <3>2 DEF SinceLook
    <3> HIDE DEF k
    <3>5. QED
      BY <1>1, <1>2, <1>3, <3>3, <3>4
  <2>3. \/ player_1_score' < 3 /\ player_2_score' < 3
        \/ flight' = 0 /\ (player_1_score' < 3 \/ player_2_score' < 3)
    BY <1>2, <2>1, TickScores DEF IInv
  <2>4. player_1_score' \in Nat /\ player_2_score' \in Nat
    BY <1>2, TickScores DEF IInv
  <2>5. QED
    BY <2>2, <2>3, <2>4 DEF ThirdGoalsAreNew
<1>6. ASSUME ~skipped'
      PROVE  VerdictWithinAGoal'
  <2>1. /\ Verdict = "WIN"  => player_1_score < player_2_score
        /\ Verdict = "LOST" => player_2_score <= player_1_score
        /\ Verdict = "LOST" /\ player_2_score = player_1_score
             => player_1_score = 3 /\ player_2_score = 3
        /\ Verdict = "TIE"  => player_1_score = player_2_score
    BY <1>2, <1>4, <1>6 DEF Verdict
  <2>2. QED
    BY <1>1, <1>2, <1>4, <1>6, <2>1, TickScores DEF IInv, VerdictWithinAGoal
<1>7. QED
  BY <1>5, <1>6 DEF ThirdGoalsAreNew, VerdictWithinAGoal

(* Every handler keeps both; off the match no other step touches what a    *)
(* result is shown with.                                                   *)
LEMMA VerdictNext ==
  ASSUME Hz < 2 * MinFlight, IInv, ThirdGoalsAreNew, VerdictWithinAGoal, [Next]_vars
  PROVE  ThirdGoalsAreNew' /\ VerdictWithinAGoal'
<1>1. CASE timer_int
  <2>1. CASE OnTheSecond
    BY <1>1, <2>1, TickWithLook
  <2>2. CASE ~OnTheSecond
    BY <1>1, <2>2, TickBetweenLooks DEF VerdictWithinAGoal
  <2>3. QED
    BY <2>1, <2>2
<1>2. CASE timer_int_idle
  BY <1>2 DEF timer_int_idle, ThirdGoalsAreNew, VerdictWithinAGoal
<1>3. CASE NewGame
  BY <1>3 DEF NewGame, reset_game_state, ThirdGoalsAreNew, VerdictWithinAGoal
<1>4. CASE LeaveGame
  BY <1>4 DEF LeaveGame, ThirdGoalsAreNew, VerdictWithinAGoal
<1>5. CASE UNCHANGED vars
  BY <1>5 DEF vars, ThirdGoalsAreNew, VerdictWithinAGoal, SinceLook
<1>6. QED
  BY <1>1, <1>2, <1>3, <1>4, <1>5 DEF Next

(* As long as no score skipped three between two looks, no result is shown *)
(* on a board that contradicts it by more than the goal of the deciding    *)
(* tick, whatever the length of a match, if a second has room for the      *)
(* flights of at most two goals, as 60 ticks have for flights of 48.       *)
THEOREM VerdictFitsBoard ==
  ASSUME Hz < 2 * MinFlight
  PROVE  Spec => []VerdictWithinAGoal
<1>1. Init => ThirdGoalsAreNew /\ VerdictWithinAGoal
  BY DEF Init, ThirdGoalsAreNew, VerdictWithinAGoal
<1>2. IInv /\ ThirdGoalsAreNew /\ VerdictWithinAGoal /\ [Next]_vars
        => ThirdGoalsAreNew' /\ VerdictWithinAGoal'
  BY VerdictNext
<1>3. QED
  BY <1>1, <1>2, IInvHolds, PTL DEF Spec

-----------------------------------------------------------------------------
(* The opponent's puck (Mirror.tla). *)

MirrorTypes ==
  /\ blue \in Sprite
  /\ reported \in Seq([x : Int, y : Int]) /\ reported # << >>

Copied ==
  /\ red \in Sprite
  /\ red.x = Shown(reported[1]).x /\ red.y = Shown(reported[1]).y
  /\ HasRoom(reported[1])

(* The inductive invariant: the copy is where it was told to be, and that  *)
(* is inside its walls.                                                    *)
Follows == MirrorTypes /\ (~refused /\ ~cramped => Copied)

(* move makes a puck of a puck.                                            *)
LEMMA MovedPuck ==
  ASSUME NEW p \in Sprite, NEW x \in Int, NEW y \in Int, NEW hit
  PROVE  move_puck(p, x, y, hit) \in Sprite
<1>0. /\ puck_size \in Int /\ middle_field \in Int
      /\ horizontal_start \in Int /\ horizontal_end \in Int
      /\ vertical_start \in Int /\ vertical_end \in Int
  BY GeometryAssumption
<1>1. p.x \in Int /\ p.y \in Int /\ p.xspeed \in Int /\ p.yspeed \in Int
  BY DEF Sprite
<1>2. ASSUME NEW w
      PROVE  clamp_to_walls(p, w) \in Sprite
  <2> DEFINE u == IF "left" \in w THEN horizontal_start
                  ELSE IF "right" \in w THEN horizontal_end - puck_size ELSE p.x
             v == IF "bottom" \in w THEN vertical_end - puck_size
                  ELSE IF "top" \in w THEN vertical_start ELSE p.y
  <2>1. u \in Int /\ v \in Int
    BY <1>0, <1>1
  <2>2. clamp_to_walls(p, w) = [p EXCEPT !.x = u, !.y = v]
    BY DEF clamp_to_walls, Sprite
  <2> HIDE DEF u, v
  <2>3. QED
    BY <2>1, <2>2 DEF Sprite
<1>3. [p EXCEPT !.y = IF p.y < middle_field THEN middle_field - puck_size ELSE middle_field] \in Sprite
  <2> DEFINE v == IF p.y < middle_field THEN middle_field - puck_size ELSE middle_field
  <2>1. v \in Int
    BY <1>0
  <2> HIDE DEF v
  <2>2. [p EXCEPT !.y = v] \in Sprite
    BY <2>1 DEF Sprite
  <2>3. QED
    BY <2>2 DEF v
<1>4. [x |-> p.x + x, y |-> p.y - y, xspeed |-> x, yspeed |-> y] \in Sprite
  BY <1>1 DEF Sprite
<1>5. QED
  BY <1>2, <1>3, <1>4 DEF move_puck

(* What a sequence holds. *)
LEMMA Element ==
  ASSUME NEW S, NEW s \in Seq(S), NEW i \in 1 .. Len(s)
  PROVE  s[i] \in S
OBVIOUS

(* A report between two positions that have room is applied as it stands.  *)
LEMMA ReportIsApplied ==
  ASSUME NEW p \in [x : Int, y : Int], NEW q \in [x : Int, y : Int], HasRoom(p), HasRoom(q),
         NEW r \in Sprite, r.x = Shown(p).x, r.y = Shown(p).y
  PROVE  move_puck(r, -(q.x - p.x), q.y - p.y, FALSE)
           = [x |-> Shown(q).x, y |-> Shown(q).y,
              xspeed |-> -(q.x - p.x), yspeed |-> q.y - p.y]
<1>0. /\ puck_size \in Nat \ {0} /\ middle_field \in Int
      /\ horizontal_start \in Int /\ horizontal_end \in Int
      /\ vertical_start \in Int /\ vertical_end \in Int
      /\ middle_field <= vertical_end
      /\ RedSpot.x \in Int /\ RedSpot.y \in Int /\ BlueSpot.x \in Int /\ BlueSpot.y \in Int
  BY GeometryAssumption, SpotAssumption
<1>1. /\ r.x + -(q.x - p.x) = Shown(q).x
      /\ r.y - (q.y - p.y) = Shown(q).y
  BY <1>0 DEF Shown
<1>2. /\ Shown(q).x \in Int /\ Shown(q).y \in Int
      /\ Shown(q).x >= horizontal_start /\ Shown(q).x + puck_size <= horizontal_end
      /\ Shown(q).y >= vertical_start /\ Shown(q).y + puck_size <= middle_field
      /\ r.y + puck_size <= middle_field
  BY <1>0 DEF Shown, HasRoom
<1>3. detect_wall_collision(puck_size, Shown(q).x, Shown(q).y) = {}
  BY <1>0, <1>2 DEF detect_wall_collision
<1>4. ~detect_middle_field_collision(r, Shown(q).y)
  BY <1>0, <1>2 DEF detect_middle_field_collision, Sprite
<1>5. QED
  BY <1>1, <1>3, <1>4 DEF move_puck

(* reset_game_state establishes the invariant.                             *)
LEMMA MirrorStarts ==
  ASSUME MirrorInit
  PROVE  Follows
<1>1. /\ BlueSpot \in [x : Int, y : Int] /\ RedSpot \in [x : Int, y : Int]
      /\ RedSpot.x >= horizontal_start /\ RedSpot.x + puck_size <= horizontal_end
      /\ RedSpot.y >= vertical_start /\ RedSpot.y + puck_size <= middle_field
  BY SpotAssumption
<1>2. MirrorTypes /\ red \in Sprite
  BY <1>1 DEF MirrorInit, MirrorTypes, AtRest, Sprite
<1>3. Shown(BlueSpot).x = RedSpot.x /\ Shown(BlueSpot).y = RedSpot.y
  BY <1>1 DEF Shown
<1>4. HasRoom(BlueSpot)
  BY <1>1, <1>3 DEF HasRoom
<1>5. reported[1] = BlueSpot /\ red.x = RedSpot.x /\ red.y = RedSpot.y
  BY DEF MirrorInit, AtRest
<1>6. QED
  BY <1>2, <1>3, <1>4, <1>5 DEF Follows, Copied

(* Drags, reports and their receipt keep it.                               *)
LEMMA MirrorKept ==
  ASSUME Follows, [MirrorNext]_mirrorVars
  PROVE  Follows'
<1>1. ASSUME NEW d \in MouseMoves, Drag(d)
      PROVE  Follows'
  <2>1. d.x \in Int /\ d.y \in Int
    BY MirrorAssumption
  <2>2. blue' \in Sprite
    BY <1>1, <2>1, MovedPuck DEF Follows, MirrorTypes, Drag
  <2>3. UNCHANGED <<red, reported, refused, cramped>>
    BY <1>1 DEF Drag
  <2>4. QED
    BY <2>2, <2>3 DEF Follows, MirrorTypes, Copied
<1>2. CASE transmit_puck_change
  <2>1. /\ reported' = Append(reported, At(blue)) /\ UNCHANGED <<blue, red, refused, cramped>>
        /\ At(blue) \in [x : Int, y : Int]
    BY <1>2 DEF transmit_puck_change, At, Follows, MirrorTypes, Sprite
  <2>2. MirrorTypes' /\ reported'[1] = reported[1]
    BY <2>1 DEF Follows, MirrorTypes
  <2>3. QED
    BY <2>1, <2>2 DEF Follows, Copied
<1>3. CASE sp_int_puck
  <2> DEFINE p == reported[1]
             q == reported[2]
  <2>1. PICK hit \in {FALSE} \cup {detect_collision(b.x, b.y, red.x - (q.x - p.x), red.y - (q.y - p.y))
                                    : b \in Disks} :
          /\ red' = move_puck(red, -(q.x - p.x), q.y - p.y, hit)
          /\ refused' = (refused \/ hit)
    BY <1>3 DEF sp_int_puck
  <2>2. /\ Len(reported) > 1 /\ reported' = Tail(reported) /\ blue' = blue
        /\ cramped' = (cramped \/ ~HasRoom(q))
    BY <1>3 DEF sp_int_puck
  <2>3. p \in [x : Int, y : Int] /\ q \in [x : Int, y : Int]
    <3>1. reported \in Seq([x : Int, y : Int]) /\ 1 \in 1 .. Len(reported) /\ 2 \in 1 .. Len(reported)
      BY <2>2 DEF Follows, MirrorTypes
    <3>2. QED
      BY <3>1, Element
  <2>4. reported' \in Seq([x : Int, y : Int]) /\ reported' # << >> /\ reported'[1] = q
    <3>1. reported \in Seq([x : Int, y : Int])
      BY DEF Follows, MirrorTypes
    <3>2. /\ reported' \in Seq([x : Int, y : Int])
          /\ Len(reported') = Len(reported) - 1
          /\ \A i \in 1 .. Len(reported') : reported'[i] = reported[i + 1]
      BY <2>2, <3>1
    <3>3. Len(reported') \in Nat /\ Len(reported') >= 1 /\ 1 \in 1 .. Len(reported')
      BY <2>2, <3>1, <3>2
    <3>4. reported'[1] = reported[1 + 1]
      BY <3>2, <3>3
    <3>5. reported' # << >>
      BY <3>3
    <3>6. QED
      BY <3>2, <3>4, <3>5
  <2>5. ~refused' /\ ~cramped' => Copied'
    <3> HIDE DEF p, q
    <3> HAVE ~refused' /\ ~cramped'
    <3>1. ~refused /\ ~hit /\ ~cramped /\ HasRoom(q)
      BY <2>1, <2>2
    <3>2. red \in Sprite /\ red.x = Shown(p).x /\ red.y = Shown(p).y /\ HasRoom(p)
      BY <3>1 DEF Follows, Copied, p
    <3>3. red' = move_puck(red, -(q.x - p.x), q.y - p.y, FALSE)
      BY <2>1, <3>1 DEF move_puck
    <3>4. red' = [x |-> Shown(q).x, y |-> Shown(q).y,
                  xspeed |-> -(q.x - p.x), yspeed |-> q.y - p.y]
      BY <2>3, <3>1, <3>2, <3>3, ReportIsApplied
    <3>5. red' \in Sprite
      <4>1. -(q.x - p.x) \in Int /\ q.y - p.y \in Int
        BY <2>3
      <4>2. QED
        BY <3>2, <3>3, <4>1, MovedPuck
    <3>6. QED
      BY <2>4, <3>1, <3>4, <3>5 DEF Copied
  <2>6. QED
    BY <2>2, <2>4, <2>5 DEF Follows, MirrorTypes
<1>4. CASE UNCHANGED mirrorVars
  BY <1>4 DEF mirrorVars, Follows, MirrorTypes, Copied
<1>5. QED
  BY <1>1, <1>2, <1>3, <1>4 DEF MirrorNext

(* sp_int's copy of the opponent's puck stays as far off as on its spot    *)
(* until a report takes it where it has no room or the disk refuses one,   *)
(* for every table, every two spots, every drag and any number of reports  *)
(* under way.                                                              *)
THEOREM CopyMirrors == MirrorSpec => []CopyKeepsOffset
<1>1. MirrorInit => Follows
  BY MirrorStarts
<1>2. Follows /\ [MirrorNext]_mirrorVars => Follows'
  BY MirrorKept
<1>3. Follows => CopyKeepsOffset
  <2> SUFFICES ASSUME Follows PROVE CopyKeepsOffset
    OBVIOUS
  <2>1. Head(reported) = reported[1]
    BY DEF Follows, MirrorTypes
  <2>2. QED
    BY <2>1 DEF CopyKeepsOffset, Follows, Copied, At, Shown
<1>4. QED
  BY <1>1, <1>2, <1>3, PTL DEF MirrorSpec
=============================================================================
