------------------------------- MODULE MCMatch ------------------------------
(***************************************************************************)
(* What one PC shows of a match: its clock and scoreboard, and its copy of *)
(* the opponent's puck.  The two share no variable and read nothing of     *)
(* each other, so that they are checked side by side in one run: part      *)
(* says which of them moves, and the other rests in its initial state.     *)
(***************************************************************************)
EXTENDS MCMatchClock, MCMirror

VARIABLE part

partVars == <<part, vars, mirrorVars>>

MatchInit == part \in {"clock", "copy"} /\ Init /\ MirrorInit

ClockMoves == part = "clock" /\ Next /\ UNCHANGED <<part, mirrorVars>>

CopyMoves == part = "copy" /\ MirrorNext /\ UNCHANGED <<part, vars>>

(* timer_int is not enabled in the menu, where the clock rests. *)
MatchSpec ==
  MatchInit /\ [][ClockMoves \/ CopyMoves]_partVars /\ WF_vars(timer_int)
=============================================================================
