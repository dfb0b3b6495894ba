-------------------------------- MODULE Fifo --------------------------------
(***************************************************************************)
(* What the receive queue of the serial port promises its users: a first   *)
(* in, first out buffer of at most Capacity bytes.  A byte offered to a    *)
(* full buffer is dropped silently; a read of an empty buffer returns the  *)
(* byte 1 (the code's "return 1", which its callers cannot tell from data).*)
(* Queue.tla is the ring buffer that implements it.                        *)
(***************************************************************************)
EXTENDS Integers, Sequences

CONSTANTS
  Capacity,   \* how many bytes fit
  Byte        \* the values a byte may have

VARIABLES
  items,      \* the bytes held, oldest first
  ret         \* what the last dequeue returned

vars == <<items, ret>>

(* The contents after byte c was offered. *)
Put(s, c) == IF Len(s) = Capacity THEN s ELSE Append(s, c)

(* What a read of s returns, and what it leaves. *)
First(s) == IF s = << >> THEN 1 ELSE Head(s)
Rest(s)  == IF s = << >> THEN s ELSE Tail(s)

Init ==
  /\ items = << >>
  /\ ret \in Byte

Enqueue(c) ==
  /\ items' = Put(items, c)
  /\ UNCHANGED ret

Dequeue ==
  /\ ret' = First(items)
  /\ items' = Rest(items)

Next == (\E c \in Byte : Enqueue(c)) \/ Dequeue

Spec == Init /\ [][Next]_vars
=============================================================================
