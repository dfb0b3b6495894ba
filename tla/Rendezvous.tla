----------------------------- MODULE Rendezvous -----------------------------
(***************************************************************************)
(* What the start and quit signals are for: two players go into a match    *)
(* together, one of them as its main PC, and come out of it together.      *)
(* Session.tla implements it for players who wait for each other.          *)
(***************************************************************************)
CONSTANT PC

VARIABLES
  phase,     \* of the pair: apart, joining, match, leaving
  playing,   \* the PCs in the match
  main       \* those of them that are its main PC

vars == <<phase, playing, main>>

Init == phase = "apart" /\ playing = {} /\ main = {}

Start(p) ==
  /\ phase = "apart" /\ phase' = "joining"
  /\ playing' = {p} /\ main' = {p}

Join ==
  /\ phase = "joining" /\ phase' = "match"
  /\ playing' = PC /\ UNCHANGED main

Leave(p) ==
  /\ phase = "match" /\ phase' = "leaving"
  /\ playing' = PC \ {p} /\ main' = main \ {p}

Follow ==
  /\ phase = "leaving" /\ phase' = "apart"
  /\ playing' = {} /\ main' = {}

Next == Join \/ Follow \/ \E p \in PC : Start(p) \/ Leave(p)

Spec == Init /\ [][Next]_vars

(* Nobody is left alone: the second player follows the first one into the  *)
(* match and out of it.                                                    *)
NobodyAlone == phase \in {"joining", "leaving"} ~> phase \in {"match", "apart"}
=============================================================================
