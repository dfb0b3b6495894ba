------------------------------ MODULE MCQueue -------------------------------
(* Queue on a ring of four cells and three byte values: small enough that  *)
(* the indices wrap, the queue fills and it empties in every order.        *)
EXTENDS Queue
=============================================================================
