---------------------------- MODULE MCMatchClock ----------------------------
(***************************************************************************)
(* A second of five ticks and a flight of four: as on the real table (60   *)
(* and 48), two goals fit in a second and three do not.                    *)
(***************************************************************************)
EXTENDS MatchClock
=============================================================================
