------------------------------- MODULE Queue --------------------------------
(***************************************************************************)
(* The ring buffer of controller/serialport/queue.c: the byte queue the    *)
(* serial port interrupt handler fills and the game drains.  The four      *)
(* integer fields and the array of the Queue struct are the variables;     *)
(* the interrupt handler's enqueue and the game's dequeue are the actions. *)
(* serialPort_resetFIFO, which dequeues until the queue is empty, is a run *)
(* of dequeue steps.                                                       *)
(***************************************************************************)
EXTENDS Integers, Sequences

CONSTANTS
  Capacity,   \* queue->capacity, 100 in create_queue
  Byte        \* uint8_t

ASSUME CapacityAssumption == Capacity \in Nat \ {0}
ASSUME ByteAssumption == 1 \in Byte

VARIABLES
  front_index,  \* index of the oldest byte
  back_index,   \* index of the newest byte
  size,         \* number of bytes held
  characters,   \* the array; cells outside the live range keep old bytes
  ret           \* what the last dequeue returned to its caller

vars == <<front_index, back_index, size, characters, ret>>

Index == 0 .. Capacity - 1

-----------------------------------------------------------------------------

(* is_empty and queue_is_full, the two tests the operations branch on. *)
is_empty == size = 0
queue_is_full == size = Capacity

(* The index n wrapped round the array, and the one past index i. *)
Cell(n) == n % Capacity
NextIndex(i) == Cell(i + 1)

(* Mutated forms of the three operations: create_queue with back_index     *)
(* starting at the front, enqueue without its test for a full queue, and   *)
(* dequeue advancing front_index before it reads the cell.                 *)
create_queue_back_at_front ==
  /\ front_index = 0
  /\ back_index = 0
  /\ size = 0
  /\ characters \in [Index -> Byte]
  /\ ret \in Byte

enqueue_unguarded(c) ==
  /\ back_index' = NextIndex(back_index)
  /\ characters' = [characters EXCEPT ![NextIndex(back_index)] = c]
  /\ size' = size + 1
  /\ UNCHANGED <<front_index, ret>>

dequeue_reads_after_advance ==
  \/ /\ is_empty
     /\ ret' = 1
     /\ UNCHANGED <<front_index, back_index, size, characters>>
  \/ /\ ~is_empty
     /\ ret' = characters[NextIndex(front_index)]
     /\ front_index' = NextIndex(front_index)
     /\ size' = size - 1
     /\ UNCHANGED <<back_index, characters>>

(* create_queue: malloc leaves the cells with arbitrary contents, and      *)
(* back_index starts one before front_index.                               *)
create_queue ==
  /\ front_index = 0
  /\ back_index = Capacity - 1
  /\ size = 0
  /\ characters \in [Index -> Byte]
  /\ ret \in Byte

(* enqueue: a full queue drops the byte and changes nothing. *)
enqueue(c) ==
  \/ /\ queue_is_full
     /\ UNCHANGED vars
  \/ /\ ~queue_is_full
     /\ back_index' = NextIndex(back_index)
     /\ characters' = [characters EXCEPT ![NextIndex(back_index)] = c]
     /\ size' = size + 1
     /\ UNCHANGED <<front_index, ret>>

(* dequeue: an empty queue returns 1 and changes nothing. *)
dequeue ==
  \/ /\ is_empty
     /\ ret' = 1
     /\ UNCHANGED <<front_index, back_index, size, characters>>
  \/ /\ ~is_empty
     /\ ret' = characters[front_index]
     /\ front_index' = NextIndex(front_index)
     /\ size' = size - 1
     /\ UNCHANGED <<back_index, characters>>

Init == create_queue

Next == (\E c \in Byte : enqueue(c)) \/ dequeue

Spec == Init /\ [][Next]_vars

-----------------------------------------------------------------------------

(* Every field of the struct stays in its range: no operation leaves an    *)
(* index outside the array or a size that does not fit it.                 *)
TypeOK ==
  /\ front_index \in Index
  /\ back_index \in Index
  /\ size \in 0 .. Capacity
  /\ characters \in [Index -> Byte]
  /\ ret \in Byte

(* back_index is redundant in the struct: it must always be the cell size  *)
(* places after the one before front_index.  enqueue moves back_index and  *)
(* size, dequeue front_index and size: the two ends of the ring must not   *)
(* drift apart over any sequence of calls, the refused ones (full, empty)  *)
(* included.                                                               *)
EndsAgree ==
  NextIndex(back_index) = Cell(front_index + size)

(* The bytes held, oldest first. *)
Contents == [i \in 1 .. size |-> characters[Cell(front_index + i - 1)]]

F == INSTANCE Fifo WITH items <- Contents

(* queue.c implements the bounded first in, first out buffer: no byte is   *)
(* lost, repeated, reordered or overwritten as the indices wrap, except    *)
(* the ones offered to a full queue.                                       *)
ImplementsFifo == F!Spec
=============================================================================
