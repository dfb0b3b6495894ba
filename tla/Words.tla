-------------------------------- MODULE Words --------------------------------
(***************************************************************************)
(* Words of two bytes on the serial line and in inQueue: how send_signal   *)
(* and the transmit functions cut them (low byte first), how read_char     *)
(* collects the bytes and how read_next_signal puts them together again.   *)
(***************************************************************************)
EXTENDS Integers, SequencesExt

CONSTANTS
  B,          \* values of a byte (256)
  Capacity,   \* bytes inQueue holds (100)
  signal1, ball_signal   \* the reserved words

ASSUME WordAssumption ==
  /\ B \in Nat \ {0, 1} /\ Capacity \in Nat
  /\ signal1 \in 0 .. B * B - 1 /\ ball_signal \in 0 .. B * B - 1
  /\ signal1 # ball_signal

Q == INSTANCE Fifo WITH items <- << >>, ret <- 1, Byte <- 0 .. B - 1

(* The two bytes of a word, low byte first. *)
BytesOf(w) == <<w % B, w \div B>>

(* The bytes of a message of one or two words. *)
Bytes(m) == IF Len(m) = 1 THEN BytesOf(m[1]) ELSE BytesOf(m[1]) \o BytesOf(m[2])

(* The queue after bytes were enqueued; those without room are dropped. *)
Enqueued(q, bytes) == SubSeq(q \o bytes, 1, Min({Len(q) + Len(bytes), Capacity}))

(* Mutated forms: one byte is enough to read a word (dequeue answers 1 for *)
(* the missing one), and two are not.                                      *)
WordReady_one_byte(q) == Len(q) >= 1

WordReady_more(q) == Len(q) > 2

(* read_next_signal: whether q has a word, the word, and what is left. *)
WordReady(q) == Len(q) >= 2
NextWord(q)  == Q!First(q) + B * Q!First(Q!Rest(q))
AfterWord(q) == Q!Rest(Q!Rest(q))
=============================================================================
