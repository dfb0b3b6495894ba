----------------------------- MODULE MCSession ------------------------------
(***************************************************************************)
(* Bytes of three values; signal1 is 0, 1 and ball_signal 0, 2 on the line *)
(* (low byte first), as 0x1000 and 0x2000 are 0, 0x10 and 0, 0x20.         *)
(***************************************************************************)
EXTENDS Session

MCMessages == {<<1, 5>>, <<6, 4>>}
OneMessage == {<<1, 5>>}
=============================================================================
