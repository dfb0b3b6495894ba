------------------------------ MODULE MCMirror ------------------------------
(***************************************************************************)
(* A small table whose line is in the middle and whose spots do not face   *)
(* each other, as those of reset_game_state do not: red is put to the left *)
(* of the cell across from blue, and below it.  The drags together reach   *)
(* every cell and push against every wall and the line.                    *)
(***************************************************************************)
EXTENDS Mirror

Offsets(n) == [x : 0 .. n - 1, y : 0 .. n - 1]
OneCell == Offsets(1)
FourCells == Offsets(2)

MCBallSpot == [x |-> 5, y |-> 5]
MCBlueSpot == [x |-> 5, y |-> 8]
MCRedSpot  == [x |-> 3, y |-> 3]
Drags == {[x |-> -1, y |-> 2], [x |-> 2, y |-> -1], [x |-> -1, y |-> -1]}
(* The disk is next to the line, in the half of the copy. *)
AtTheLine == {[x |-> 4, y |-> 5]}
=============================================================================
