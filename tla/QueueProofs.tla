---------------------------- MODULE QueueProofs -----------------------------
(***************************************************************************)
(* The ring buffer of queue.c is a bounded first in, first out buffer, for *)
(* every capacity and every set of bytes.                                  *)
(***************************************************************************)
EXTENDS Queue, SequenceTheorems, TLAPS

(* Indices wrap at most once, so the remainder is a comparison: what SMT   *)
(* needs to know of the code's "% queue->capacity".                        *)
LEMMA Wrap ==
  ASSUME NEW n \in 0 .. 2 * Capacity - 1
  PROVE  Cell(n) = IF n < Capacity THEN n ELSE n - Capacity
<1>. Capacity \in Nat \ {0}
  BY CapacityAssumption
<1>1. CASE n < Capacity
  BY <1>1 DEF Cell
<1>2. CASE n >= Capacity
  <2>. DEFINE r == n - Capacity
  <2>1. r \in 0 .. Capacity - 1 /\ n = 1 * Capacity + r
    BY <1>2
  <2>. QED
    BY <1>2, <2>1 DEF Cell
<1>. QED
  BY <1>1, <1>2

-----------------------------------------------------------------------------

(* The inductive invariant: the fields are in range and the redundant      *)
(* back_index agrees with front_index and size.                            *)
IInv == TypeOK /\ EndsAgree

(* create_queue establishes the invariant: 99 is one before 0.             *)
LEMMA InitIInv == Init => IInv
<1>. SUFFICES ASSUME Init PROVE IInv
  OBVIOUS
<1>. Capacity \in Nat \ {0}
  BY CapacityAssumption
<1>1. TypeOK
  BY DEF Init, create_queue, TypeOK, Index
<1>2. Cell(Capacity) = 0 /\ Cell(0) = 0
  BY Wrap
<1>3. EndsAgree
  BY <1>2 DEF Init, create_queue, EndsAgree, NextIndex
<1>. QED
  BY <1>1, <1>3 DEF IInv

(* Every call of enqueue or dequeue, refused or not, preserves it.         *)
LEMMA NextIInv == IInv /\ [Next]_vars => IInv'
<1>. SUFFICES ASSUME IInv, [Next]_vars PROVE IInv'
  OBVIOUS
<1>. USE DEF Index
<1>0. Capacity \in Nat \ {0} /\ 1 \in Byte
  BY CapacityAssumption, ByteAssumption
<1>1. /\ front_index \in Index /\ back_index \in Index /\ size \in 0 .. Capacity
      /\ characters \in [Index -> Byte] /\ ret \in Byte /\ EndsAgree
  BY DEF IInv, TypeOK
<1>2. \A n \in 0 .. 2 * Capacity - 1 :
        Cell(n) = IF n < Capacity THEN n ELSE n - Capacity
  BY Wrap
<1>3. \A i \in Index : NextIndex(i) = IF i + 1 < Capacity THEN i + 1 ELSE 0
  BY <1>0, <1>2 DEF NextIndex
<1>4. ASSUME NEW c \in Byte, enqueue(c) PROVE IInv'
  <2>1. CASE queue_is_full /\ UNCHANGED vars
    BY <1>1, <2>1 DEF IInv, TypeOK, EndsAgree, vars, NextIndex
  <2>2. CASE ~queue_is_full
    <3>1. size < Capacity /\ size' = size + 1 /\ front_index' = front_index
          /\ back_index' = NextIndex(back_index) /\ ret' = ret
          /\ characters' = [characters EXCEPT ![NextIndex(back_index)] = c]
      BY <1>0, <1>1, <1>4, <2>2 DEF enqueue, queue_is_full
    <3>2. TypeOK'
      BY <1>0, <1>1, <1>3, <3>1 DEF TypeOK
    <3>3. EndsAgree'
      <4>1. NextIndex(back_index) = IF front_index + size < Capacity
              THEN front_index + size ELSE front_index + size - Capacity
        BY <1>0, <1>1, <1>2, <3>1 DEF EndsAgree
      <4>2. Cell(front_index + size + 1) =
              IF front_index + size + 1 < Capacity
                THEN front_index + size + 1 ELSE front_index + size + 1 - Capacity
        BY <1>0, <1>1, <1>2, <3>1
      <4>3. NextIndex(back_index)' = NextIndex(NextIndex(back_index))
        BY <3>1 DEF NextIndex
      <4>. QED
        BY <1>0, <1>1, <1>3, <3>1, <4>1, <4>2, <4>3 DEF EndsAgree
    <3>. QED
      BY <3>2, <3>3 DEF IInv
  <2>. QED
    BY <1>4, <2>1, <2>2 DEF enqueue
<1>5. CASE dequeue
  <2>1. CASE is_empty
    BY <1>0, <1>1, <1>5, <2>1 DEF dequeue, is_empty, IInv, TypeOK, EndsAgree, NextIndex
  <2>2. CASE ~is_empty
    <3>1. size > 0 /\ size' = size - 1 /\ front_index' = NextIndex(front_index)
          /\ back_index' = back_index /\ characters' = characters
          /\ ret' = characters[front_index]
      BY <1>0, <1>1, <1>5, <2>2 DEF dequeue, is_empty
    <3>2. TypeOK'
      BY <1>0, <1>1, <1>3, <3>1 DEF TypeOK
    <3>3. EndsAgree'
      <4>1. Cell(NextIndex(front_index) + size - 1) = Cell(front_index + size)
        BY <1>0, <1>1, <1>2, <1>3, <3>1
      <4>2. NextIndex(back_index)' = Cell(front_index + size)
        BY <1>1, <3>1 DEF EndsAgree, NextIndex
      <4>3. front_index' + size' = NextIndex(front_index) + size - 1
        BY <1>0, <1>1, <1>3, <3>1
      <4>. QED
        BY <4>1, <4>2, <4>3 DEF EndsAgree
    <3>. QED
      BY <3>2, <3>3 DEF IInv
  <2>. QED
    BY <2>1, <2>2
<1>6. CASE UNCHANGED vars
  BY <1>1, <1>6 DEF vars, IInv, TypeOK, EndsAgree, NextIndex
<1>. QED
  BY <1>4, <1>5, <1>6 DEF Next

(* The invariant holds throughout.                                         *)
LEMMA IInvHolds == Spec => []IInv
  BY InitIInv, NextIInv, PTL DEF Spec

(* No call writes or reads outside the ring, whatever the order of calls.  *)
THEOREM FieldsInRange == Spec => []TypeOK
  BY IInvHolds, PTL DEF IInv

(* back_index, front_index and size agree on where the ring ends, whatever *)
(* the order of enqueue and dequeue calls.                                 *)
THEOREM QueueEndsAgree == Spec => []EndsAgree
  BY IInvHolds, PTL DEF IInv

-----------------------------------------------------------------------------

(* Contents is a sequence of size bytes.                                   *)
LEMMA ContentsType ==
  ASSUME TypeOK
  PROVE  /\ Contents \in Seq(Byte)
         /\ Len(Contents) = size
         /\ \A i \in 1 .. size :
              Contents[i] = characters[Cell(front_index + i - 1)]
<1>1. Capacity \in Nat \ {0}
  BY CapacityAssumption
<1>2. \A i \in 1 .. size : Cell(front_index + i - 1) \in Index
  <2>. SUFFICES ASSUME NEW i \in 1 .. size
                PROVE  Cell(front_index + i - 1) \in Index
    OBVIOUS
  <2>1. front_index + i - 1 \in 0 .. 2 * Capacity - 1
    BY <1>1 DEF TypeOK, Index
  <2>. QED
    BY <1>1, <2>1, Wrap DEF Index
<1>3. Contents \in [1 .. size -> Byte]
  BY <1>2 DEF Contents, TypeOK
<1>. QED
  BY <1>3 DEF Contents, TypeOK

(* create_queue starts the abstract buffer empty.                          *)
LEMMA InitRefines == Init => F!Init
<1>. SUFFICES ASSUME Init PROVE F!Init
  OBVIOUS
<1>1. size = 0 /\ ret \in Byte
  BY DEF Init, create_queue
<1>2. Contents = << >>
  BY <1>1 DEF Contents
<1>. QED
  BY <1>1, <1>2 DEF F!Init

(* enqueue is the abstract Enqueue: it appends to the contents, and it     *)
(* touches no cell that holds a byte still to be read.                     *)
LEMMA EnqueueRefines ==
  ASSUME IInv, NEW c \in Byte, enqueue(c)
  PROVE  F!Enqueue(c)
<1>0. Capacity \in Nat \ {0}
  BY CapacityAssumption
<1>1. /\ front_index \in Index /\ back_index \in Index /\ size \in 0 .. Capacity
      /\ characters \in [Index -> Byte] /\ EndsAgree
  BY DEF IInv, TypeOK
<1>2. Contents \in Seq(Byte) /\ Len(Contents) = size
  BY ContentsType DEF IInv
<1>3. CASE queue_is_full /\ UNCHANGED vars
  <2>1. Contents' = Contents
    BY <1>3 DEF Contents, vars
  <2>. QED
    BY <1>2, <1>3, <2>1 DEF F!Enqueue, F!Put, queue_is_full, vars
<1>4. CASE ~queue_is_full
  <2>. DEFINE k == NextIndex(back_index)
  <2>1. /\ size < Capacity /\ size' = size + 1 /\ front_index' = front_index
        /\ characters' = [characters EXCEPT ![k] = c] /\ ret' = ret
    BY <1>0, <1>1, <1>4, enqueue(c) DEF enqueue, queue_is_full
  <2>2. k = Cell(front_index + size) /\ k \in Index
    <3>1. front_index + size \in 0 .. 2 * Capacity - 1
      BY <1>0, <1>1, <2>1 DEF Index
    <3>. QED
      BY <1>0, <1>1, <3>1, Wrap DEF EndsAgree, Index
  <2>3. \A i \in 1 .. size : /\ Cell(front_index + i - 1) \in Index
                              /\ Cell(front_index + i - 1) # k
    <3>. SUFFICES ASSUME NEW i \in 1 .. size
                  PROVE  /\ Cell(front_index + i - 1) \in Index
                         /\ Cell(front_index + i - 1) # k
      OBVIOUS
    <3>1. /\ front_index + i - 1 \in 0 .. 2 * Capacity - 1
          /\ front_index + size \in 0 .. 2 * Capacity - 1
      BY <1>0, <1>1, <2>1 DEF Index
    <3>2. Cell(front_index + i - 1) =
            IF front_index + i - 1 < Capacity THEN front_index + i - 1
                                              ELSE front_index + i - 1 - Capacity
      BY <1>0, <1>1, <3>1, Wrap DEF Index
    <3>3. k = IF front_index + size < Capacity THEN front_index + size
                                               ELSE front_index + size - Capacity
      BY <1>0, <1>1, <2>2, <3>1, Wrap DEF Index
    <3>. QED
      BY <1>0, <1>1, <2>1, <3>2, <3>3 DEF Index
  <2>4. Contents' = [i \in 1 .. size + 1 |->
                       IF i <= size THEN Contents[i] ELSE c]
    <3>1. Contents' = [i \in 1 .. size + 1 |->
                         [characters EXCEPT ![k] = c][Cell(front_index + i - 1)]]
      BY <2>1 DEF Contents
    <3>2. ASSUME NEW i \in 1 .. size + 1
          PROVE  [characters EXCEPT ![k] = c][Cell(front_index + i - 1)]
                   = IF i <= size THEN Contents[i] ELSE c
      <4>1. CASE i <= size
        BY <1>1, <2>2, <2>3, <4>1 DEF Contents
      <4>2. CASE i = size + 1
        BY <1>1, <2>2, <4>2
      <4>. QED
        BY <1>1, <4>1, <4>2
    <3>. QED
      BY <3>1, <3>2
  <2>5. Append(Contents, c) = [i \in 1 .. size + 1 |->
                                 IF i <= size THEN Contents[i] ELSE c]
    <3>. DEFINE longer == [i \in 1 .. size + 1 |-> IF i <= size THEN Contents[i] ELSE c]
    <3>1. size + 1 \in Nat /\ \A i \in 1 .. size : Contents[i] \in Byte
      BY <1>1, <1>2, ElementOfSeq
    <3>2. longer \in [1 .. size + 1 -> Byte]
      BY <1>1, <3>1
    <3>3. longer \in Seq(Byte) /\ Len(longer) = size + 1
      BY <3>1, <3>2
    <3>4. \A i \in 1 .. size + 1 : longer[i] = Append(Contents, c)[i]
      BY <1>1, <1>2, AppendProperties
    <3>5. Append(Contents, c) \in Seq(Byte) /\ Len(Append(Contents, c)) = size + 1
      BY <1>1, <1>2, AppendProperties
    <3>. HIDE DEF longer
    <3>6. longer = Append(Contents, c)
      BY <3>3, <3>4, <3>5, SeqEqual
    <3>. QED
      BY <3>6 DEF longer
  <2>. QED
    BY <1>1, <1>2, <2>1, <2>4, <2>5 DEF F!Enqueue, F!Put
<1>. QED
  BY <1>3, <1>4 DEF enqueue

(* dequeue is the abstract Dequeue: it returns the oldest byte (or 1 when  *)
(* there is none) and leaves the others as they were.                      *)
LEMMA DequeueRefines ==
  ASSUME IInv, dequeue
  PROVE  F!Dequeue
<1>0. Capacity \in Nat \ {0}
  BY CapacityAssumption
<1>1. /\ front_index \in Index /\ size \in 0 .. Capacity
      /\ characters \in [Index -> Byte]
  BY DEF IInv, TypeOK
<1>2. /\ Contents \in Seq(Byte) /\ Len(Contents) = size
      /\ \A i \in 1 .. size : Contents[i] = characters[Cell(front_index + i - 1)]
  BY ContentsType DEF IInv
<1>3. CASE is_empty
  <2>1. Contents = << >> /\ Contents' = Contents /\ ret' = 1
    BY <1>2, <1>3 DEF dequeue, is_empty, Contents
  <2>. QED
    BY <2>1 DEF F!Dequeue, F!First, F!Rest
<1>4. CASE ~is_empty
  <2>1. /\ size > 0 /\ size' = size - 1 /\ front_index' = NextIndex(front_index)
        /\ characters' = characters /\ ret' = characters[front_index]
    BY <1>0, <1>1, <1>4 DEF dequeue, is_empty
  <2>2. Contents # << >> /\ Head(Contents) = Contents[1]
    BY <1>1, <1>2, <2>1
  <2>3. Contents[1] = characters[front_index]
    <3>1. Cell(front_index + 1 - 1) = front_index
      BY <1>0, <1>1, Wrap DEF Index
    <3>. QED
      BY <1>1, <1>2, <2>1, <3>1
  <2>4. /\ Tail(Contents) \in Seq(Byte) /\ Len(Tail(Contents)) = size - 1
        /\ \A i \in 1 .. size - 1 : Tail(Contents)[i] = Contents[i + 1]
    BY <1>2, <2>2, HeadTailProperties
  <2>5. \A i \in 1 .. size - 1 :
          Cell(NextIndex(front_index) + i - 1) = Cell(front_index + (i + 1) - 1)
    <3>. SUFFICES ASSUME NEW i \in 1 .. size - 1
                  PROVE  Cell(NextIndex(front_index) + i - 1)
                           = Cell(front_index + (i + 1) - 1)
      OBVIOUS
    <3>1. NextIndex(front_index) = IF front_index + 1 < Capacity THEN front_index + 1 ELSE 0
      BY <1>0, <1>1, Wrap DEF NextIndex, Index
    <3>. QED
      BY <1>0, <1>1, <3>1, Wrap DEF Index
  <2>. DEFINE rest == [i \in 1 .. size - 1 |->
                         characters[Cell(NextIndex(front_index) + i - 1)]]
  <2>6. Contents' = rest
    BY <2>1 DEF Contents
  <2>7. \A i \in 1 .. size - 1 : rest[i] = Tail(Contents)[i]
    BY <1>1, <1>2, <2>1, <2>4, <2>5
  <2>8. rest \in Seq(Byte) /\ Len(rest) = size - 1
    <3>1. \A i \in 1 .. size - 1 : rest[i] \in Byte
      BY <1>1, <2>1, <2>4, <2>7, ElementOfSeq
    <3>2. rest \in [1 .. size - 1 -> Byte]
      BY <3>1
    <3>. QED
      BY <1>1, <2>1, <3>2
  <2>. HIDE DEF rest
  <2>9. rest = Tail(Contents)
    BY <2>4, <2>7, <2>8, SeqEqual
  <2>. QED
    BY <2>1, <2>2, <2>3, <2>6, <2>9 DEF F!Dequeue, F!First, F!Rest
<1>. QED
  BY <1>3, <1>4

(* queue.c implements the bounded first in, first out buffer of Fifo.tla:  *)
(* every call of enqueue and dequeue is the abstract operation on the      *)
(* contents read off the ring.                                             *)
THEOREM QueueImplementsFifo == Spec => ImplementsFifo
<1>1. Init => F!Init
  BY InitRefines
<1>2. IInv /\ [Next]_vars => [F!Next]_(F!vars)
  <2>. SUFFICES ASSUME IInv, [Next]_vars PROVE [F!Next]_(F!vars)
    OBVIOUS
  <2>1. ASSUME NEW c \in Byte, enqueue(c) PROVE F!Next
    BY <2>1, EnqueueRefines DEF F!Next
  <2>2. CASE dequeue
    BY <2>2, DequeueRefines DEF F!Next
  <2>3. CASE UNCHANGED vars
    BY <2>3 DEF vars, F!vars, Contents
  <2>. QED
    BY <2>1, <2>2, <2>3 DEF Next
<1>3. Spec => []IInv
  BY InitIInv, NextIInv, PTL DEF Spec
<1>. QED
  BY <1>1, <1>2, <1>3, PTL DEF Spec, ImplementsFifo, F!Spec
=============================================================================
