------------------------------ MODULE MCProgram -----------------------------
(***************************************************************************)
(* The program around the match: the screens and what is seen of them, the *)
(* pointer, and the life cycle with the clock.  The three share no         *)
(* variable and read nothing of each other, so that they are checked side  *)
(* by side in one run: part says which of them moves, and the others rest  *)
(* in their initial states.                                                *)
(*                                                                         *)
(* Three bits for nine in a packet: displacements from -4 to 3 on a table  *)
(* of 6 by 7.  The clock counts the seconds around a new year, where every *)
(* field of the date changes.                                              *)
(***************************************************************************)
EXTENDS View, Pointer, Lifecycle

MCSpot == [x |-> 5, y |-> 4]

NewYear ==
  LET before(s) == <<s, 59, 23, 31, 12, 23>>
      after(s)  == <<s, 0, 0, 1, 1, 24>>
  IN  <<before(57), before(58), before(59), after(0), after(1), after(2)>>

VARIABLE part

partVars == <<part, viewVars, pointerVars, lifeVars>>

ProgramInit ==
  part \in {"screens", "pointer", "life"} /\ ViewInit /\ PointerInit /\ LifeInit

ScreensMove == part = "screens" /\ ViewNext /\ UNCHANGED <<part, pointerVars, lifeVars>>

PointerMoves == part = "pointer" /\ mouse_int /\ UNCHANGED <<part, viewVars, lifeVars>>

LifeMoves == part = "life" /\ LifeNext /\ UNCHANGED <<part, viewVars, pointerVars>>

(* The fairness of LifeSpec. *)
ProgramSpec ==
  /\ ProgramInit
  /\ [][ScreensMove \/ PointerMoves \/ LifeMoves]_partVars
  /\ WF_lifeVars(part = "life" /\ Program)
  /\ WF_lifeVars(part = "life" /\ Chip)
  /\ WF_lifeVars(part = "life" /\ Interrupt("timer"))
=============================================================================
