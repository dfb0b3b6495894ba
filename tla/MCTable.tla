------------------------------ MODULE MCTable -------------------------------
(***************************************************************************)
(* A table of 4 by 8 cells with a disk of one cell and pucks of two by     *)
(* two, offset from the origin as the real one is.  A puck may move three  *)
(* cells at a time and the disk one, so displacements are limited, a puck  *)
(* can reach the line and the walls from anywhere, and a goal takes four   *)
(* ticks.                                                                  *)
(***************************************************************************)
EXTENDS Table

Offsets(n) == [x : 0 .. n - 1, y : 0 .. n - 1]
MCBallPixels == Offsets(1)
(* A puck is round: its top right corner is transparent. *)
MCPuckPixels == Offsets(2) \ {[x |-> 1, y |-> 0]}

MCBallSpot == [x |-> 5, y |-> 6]
MCBlueSpot == [x |-> 4, y |-> 8]
MCRedSpot  == [x |-> 4, y |-> 2]

Drags == {[x |-> 0, y |-> 3], [x |-> 1, y |-> 1], [x |-> -1, y |-> -2]}
Echoes == {[x |-> 0, y |-> -2], [x |-> 1, y |-> 1]}
Speeds == {[x |-> 1, y |-> -1], [x |-> 0, y |-> 1]}
=============================================================================
