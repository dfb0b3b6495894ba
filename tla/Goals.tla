------------------------------- MODULE Goals --------------------------------
(***************************************************************************)
(* What the table promises the scoreboard: at most one goal per timer      *)
(* tick, and never one before the disk has had time to fly from the centre *)
(* spot to an end line.  Table.tla implements it; MatchClock.tla, which    *)
(* decides the match, relies on it.                                        *)
(***************************************************************************)
EXTENDS Naturals

CONSTANT MinFlight   \* ticks the disk needs from the centre spot to a goal

VARIABLES
  flight,   \* ticks since the disk was put on the centre spot, up to MinFlight
  goals     \* the players whose score the last step incremented

vars == <<flight, goals>>

Init == flight = 0 /\ goals = {}

(* A tick without a goal. *)
Fly ==
  /\ goals' = {}
  /\ flight' = IF flight < MinFlight THEN flight + 1 ELSE flight

(* A tick with one: the disk goes back to the centre spot. *)
Score ==
  /\ flight + 1 >= MinFlight
  /\ goals' \in {{1}, {2}}
  /\ flight' = 0

(* A new game puts the disk on the centre spot. *)
Restart == flight' = 0 /\ goals' = {}

(* Every other step leaves the disk where it is. *)
Rest == goals' = {} /\ UNCHANGED flight

Next == Fly \/ Score \/ Restart \/ Rest

Spec == Init /\ [][Next]_vars
=============================================================================
