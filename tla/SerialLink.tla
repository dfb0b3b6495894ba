----------------------------- MODULE SerialLink -----------------------------
(***************************************************************************)
(* One direction of the serial line during a match, byte by byte: what one *)
(* PC transmits (transmit_puck_change, transmit_ball_speed, send_signal),  *)
(* the UART that receives it, and the handler that collects the bytes in   *)
(* inQueue and takes at most one message from it (sp_ih, read_char,        *)
(* read_next_signal and sp_int).                                           *)
(*                                                                         *)
(* A message has no length and no checksum.  A word is two bytes, low byte *)
(* first; signal1 ends the match, ball_signal announces a disk speed in    *)
(* the next word, and any other word is a displacement with its second     *)
(* half in the next word.  When the second word has not arrived yet the    *)
(* handler keeps the first one in stored_x.                                *)
(*                                                                         *)
(* The UART is external: it holds FifoDepth bytes, and its interrupt line  *)
(* rises when the first byte enters an empty FIFO; the PIC is edge         *)
(* triggered and notifications of a pending interrupt coalesce, so any     *)
(* number of bytes may be waiting when the handler runs.                   *)
(***************************************************************************)
EXTENDS Words

CONSTANTS
  Messages,              \* the messages the sender may transmit
  FifoDepth,             \* bytes the UART holds (16)
  MaxMessages            \* bound of the model on the messages sent

(* A message is a sequence of words whose first word tells its kind.       *)
ASSUME LinkAssumption ==
  /\ FifoDepth \in Nat \ {0} /\ MaxMessages \in Nat
  /\ \A m \in Messages :
       \/ m = <<signal1>>
       \/ /\ m \in (0 .. B * B - 1) \X (0 .. B * B - 1)
          /\ m[1] # signal1

VARIABLES
  sentlog,      \* history: the messages sent
  line,         \* bytes on their way
  rx,           \* the receive FIFO: bytes with their error flag
  overrun,      \* LSR overrun flag
  irq,          \* a notification of the serial port is pending
  inQueue,      \* the queue of Queue.tla, as Fifo.tla promises it
  stored_x, is_stored_x,
  mainState,    \* of the receiver: GAME until signal1 is read
  applied,      \* history: the messages taken off the queue
  hurt          \* history: a byte was damaged

vars == <<sentlog, line, rx, overrun, irq, inQueue, stored_x, is_stored_x,
          mainState, applied, hurt>>

-----------------------------------------------------------------------------
(* Sending. *)

(* transmit_puck_change, transmit_ball_speed and send_signal: the bytes of *)
(* one message.  A player who has quit the match is in the menu, from      *)
(* where a push still sends the speed of the disk.  What send_char and the *)
(* reset of a quit may drop is in Session.tla.                             *)
Transmit(m) ==
  /\ Len(sentlog) < MaxMessages
  /\ Contains(sentlog, <<signal1>>) => m[1] = ball_signal
  /\ sentlog' = Append(sentlog, m)
  /\ line' = line \o Bytes(m)
  /\ UNCHANGED <<rx, overrun, irq, inQueue, stored_x, is_stored_x, mainState, applied, hurt>>

-----------------------------------------------------------------------------
(* The UART. *)

(* A byte arrives, with or without a parity or frame error.  In a full     *)
(* FIFO it is lost and the overrun flag is set.                            *)
ArriveWith(error) ==
  /\ line # << >>
  /\ line' = Tail(line)
  /\ IF Len(rx) < FifoDepth
       THEN rx' = Append(rx, [byte |-> Head(line), error |-> error]) /\ UNCHANGED overrun
       ELSE overrun' = TRUE /\ UNCHANGED rx
  /\ irq' = (irq \/ rx = << >>)
  /\ hurt' = (hurt \/ error)
  /\ UNCHANGED <<sentlog, inQueue, stored_x, is_stored_x, mainState, applied>>

Arrive == ArriveWith(FALSE)

(* One byte of a behaviour at most. *)
ArriveDamaged == ~hurt /\ ArriveWith(TRUE)

-----------------------------------------------------------------------------
(* Receiving. *)

(* How many bytes sp_ih enqueues: read_char reports an error for a damaged *)
(* byte, or for the first one after an overrun, and that ends the loop.    *)
Readable ==
  LET damaged == {i \in DOMAIN rx : rx[i].error}
  IN  IF overrun THEN 0 ELSE IF damaged = {} THEN Len(rx) ELSE Min(damaged) - 1

(* Mutated form: "if" for "while".                                         *)
sp_ih_reads_one ==
  /\ rx' = IF rx = << >> THEN rx ELSE Tail(rx)
  /\ overrun' = FALSE

(* sp_ih: read until there is no byte or an error; the byte with the error *)
(* is read too, and dropped.                                               *)
sp_ih ==
  /\ rx' = SubSeq(rx, Readable + 2, Len(rx))
  /\ overrun' = FALSE

(* inQueue after sp_ih. *)
Collected == Enqueued(inQueue, [i \in 1 .. Readable |-> rx[i].byte])

(* sp_int in a match: sp_ih, then the first word (the stored one before    *)
(* the queue's), then the second one if the first calls for it.            *)
HasFirst == is_stored_x \/ WordReady(Collected)
First == IF is_stored_x THEN stored_x ELSE NextWord(Collected)
Left  == IF is_stored_x THEN Collected ELSE AfterWord(Collected)

NoWord ==
  /\ ~HasFirst
  /\ inQueue' = Collected
  /\ UNCHANGED <<stored_x, is_stored_x, mainState, applied>>

Quit ==
  /\ HasFirst /\ First = signal1
  /\ mainState' = "MAIN_MENU"
  /\ applied' = Append(applied, <<signal1>>)
  /\ inQueue' = Left
  /\ is_stored_x' = FALSE
  /\ UNCHANGED stored_x

(* Mutated form: the first word is not kept.                               *)
StoreFirst_forgets ==
  /\ HasFirst /\ First # signal1 /\ ~WordReady(Left)
  /\ inQueue' = Left
  /\ is_stored_x' = FALSE
  /\ UNCHANGED <<stored_x, mainState, applied>>

StoreFirst ==
  /\ HasFirst /\ First # signal1 /\ ~WordReady(Left)
  /\ inQueue' = Left
  /\ stored_x' = First
  /\ is_stored_x' = TRUE
  /\ UNCHANGED <<mainState, applied>>

(* A disk speed or a displacement; Table.tla has what each does. *)
Apply ==
  /\ HasFirst /\ First # signal1 /\ WordReady(Left)
  /\ applied' = Append(applied, <<First, NextWord(Left)>>)
  /\ inQueue' = AfterWord(Left)
  /\ is_stored_x' = FALSE
  /\ UNCHANGED <<stored_x, mainState>>

sp_int ==
  /\ irq
  /\ mainState = "GAME"
  /\ irq' = FALSE
  /\ sp_ih
  /\ NoWord \/ Quit \/ StoreFirst \/ Apply
  /\ UNCHANGED <<sentlog, line, hurt>>

-----------------------------------------------------------------------------

Init ==
  /\ sentlog = << >> /\ line = << >>
  /\ rx = << >> /\ overrun = FALSE /\ irq = FALSE
  /\ inQueue = << >>
  /\ stored_x = 0 /\ is_stored_x = FALSE
  /\ mainState = "GAME"
  /\ applied = << >> /\ hurt = FALSE

Next == (\E m \in Messages : Transmit(m)) \/ Arrive \/ ArriveDamaged \/ sp_int

(* A byte on the line arrives, and a pending notification is received by   *)
(* the driver loop; nobody has to send.                                    *)
Fairness == WF_vars(Arrive) /\ WF_vars(sp_int)

Spec == Init /\ [][Next]_vars /\ Fairness

-----------------------------------------------------------------------------

(* Until a byte is damaged, the receiver takes exactly the messages the    *)
(* sender sent, whole and in order, however their bytes are spread over    *)
(* interrupts: half a message in the queue, its first word in stored_x, or *)
(* several messages collected at once.                                     *)
AppliedInOrder == ~hurt => IsPrefix(applied, sentlog)

(* Every byte sent is in one place, in the order of sending: taken, in     *)
(* stored_x, in the queue, in the FIFO or on the line.  A damaged byte     *)
(* costs itself and no other, though the loop of sp_ih ends there.         *)
NothingLost ==
  LET AllBytes(log) == FlattenSeq([i \in DOMAIN log |-> Bytes(log[i])])
      sent == AllBytes(sentlog)
      kept == AllBytes(applied) \o (IF is_stored_x THEN BytesOf(stored_x) ELSE << >>)
                \o inQueue \o [i \in DOMAIN rx |-> rx[i].byte] \o line
  IN  \/ kept = sent
      \/ hurt /\ \E i \in DOMAIN sent : kept = RemoveAt(sent, i)

(* Bytes do not stay in the UART: its interrupt line only rises again once *)
(* the FIFO was emptied, so a byte left behind silences the port.  Only a  *)
(* damaged byte leaves some, those that arrived behind it before it was    *)
(* read.                                                                   *)
CollectedEventually == rx # << >> /\ mainState = "GAME" ~> rx = << >> \/ hurt
=============================================================================
