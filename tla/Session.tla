------------------------------ MODULE Session -------------------------------
(***************************************************************************)
(* Two PCs and the serial line between them, byte by byte and both ways:   *)
(* how keyboard_int, sp_int, timer_int and popOutButtons start, quit, end  *)
(* and repeat matches, with serialPort_resetFIFO, send_char and the UARTs. *)
(*                                                                         *)
(* signal1 starts a match in a menu and quits one in a match; a second     *)
(* match after a result needs no signal.  A reset empties the receive FIFO *)
(* and inQueue, takes the byte still waiting in the transmitter with it    *)
(* and leaves a stored first word alone.  The rules and the result screens *)
(* leave the UART unread, so that its interrupt line does not fall.        *)
(*                                                                         *)
(* What messages a PC has to send is decided on its table (Table.tla); any *)
(* is possible here, whenever the code may send one.                       *)
(***************************************************************************)
EXTENDS Words

CONSTANTS
  Messages,              \* the displacements and disk speeds a PC may send
  FifoDepth,             \* bytes a UART holds (16)
  MaxSent,               \* bound of the model on what each PC sends
  Habits                 \* what players and line do that may go wrong

(* hasty: keys are pressed and pucks moved without waiting for the other   *)
(* PC.  rules: the rules are looked at.  clock: a match may end by its     *)
(* clock.  lossy: send_char may give up on a busy transmitter.             *)
ASSUME SessionAssumption ==
  /\ Habits \subseteq {"hasty", "rules", "clock", "lossy"}
  /\ \A m \in Messages : m \in (0 .. B * B - 1) \X (0 .. B * B - 1) /\ m[1] # signal1
  /\ FifoDepth \in Nat \ {0} /\ MaxSent \in Nat

PC == {1, 2}
Other(p) == 3 - p

VARIABLES
  mainState,    \* of each PC; OVER stands for WIN, LOST and TIE
  is_main_pc,
  line,         \* bytes on their way to a PC
  rx, overrun,  \* its receive FIFO and overrun flag
  irq,          \* a notification of its serial port is pending
  inQueue,
  stored,       \* <<stored_x>> while is_stored_x
  read,         \* history: the last message it took, << >> if none
  sent          \* how much it has sent

vars == <<mainState, is_main_pc, line, rx, overrun, irq, inQueue, stored, read, sent>>

(* Nothing is under way, waiting or half read. *)
Quiet == \A p \in PC :
  line[p] = << >> /\ rx[p] = << >> /\ inQueue[p] = << >> /\ stored[p] = << >>

-----------------------------------------------------------------------------
(* Sending. *)

(* The bytes the transmitter accepts: send_char drops one when it finds an *)
(* error flag of the receiver in LSR, which its read clears, and may give  *)
(* up on any of them when the line is slow.                                *)
Accepted(p, bytes) ==
  LET b == IF overrun[p] THEN Tail(bytes) ELSE bytes
      Chosen(kept) == LET order == SetToSortSeq(kept, <) IN [i \in DOMAIN order |-> b[order[i]]]
  IN  IF "lossy" \in Habits THEN {Chosen(kept) : kept \in SUBSET DOMAIN b} ELSE {b}

(* Outgoing bytes of p that survive FCR_CLEAR_XMIT.  send_char only writes *)
(* to an empty transmitter, so at most one byte is still in it.            *)
AfterClear(p) ==
  LET out == line[Other(p)]
  IN  IF out = << >> THEN {out} ELSE {out, Front(out)}

(* Mutated form: the queue keeps what it had collected.                    *)
serialPort_resetFIFO_keeps_queue(p) ==
  /\ rx' = [rx EXCEPT ![p] = << >>]
  /\ UNCHANGED inQueue

serialPort_resetFIFO(p) ==
  /\ rx' = [rx EXCEPT ![p] = << >>]
  /\ inQueue' = [inQueue EXCEPT ![p] = << >>]

(* serialPort_resetFIFO, then send_signal(signal1). *)
ResetAndSignal(p) ==
  /\ sent[p] < MaxSent
  /\ sent' = [sent EXCEPT ![p] = @ + 1]
  /\ serialPort_resetFIFO(p)
  /\ \E out \in AfterClear(p), bytes \in Accepted(p, BytesOf(signal1)) :
       line' = [line EXCEPT ![Other(p)] = out \o bytes]
  /\ overrun' = [overrun EXCEPT ![p] = FALSE]
  /\ UNCHANGED <<irq, stored, read>>

(* transmit_puck_change, from the ticks of a match, and                    *)
(* transmit_ball_speed, from a push on the main PC on whatever screen.     *)
Transmit(p, m) ==
  /\ sent[p] < MaxSent
  /\ mainState[p] = "GAME" \/ (m[1] = ball_signal /\ is_main_pc[p] /\ mainState[p] # "STOP")
  /\ "hasty" \in Habits \/ \A q \in PC : mainState[q] = "GAME"
  /\ sent' = [sent EXCEPT ![p] = @ + 1]
  /\ \E bytes \in Accepted(p, Bytes(m)) :
       line' = [line EXCEPT ![Other(p)] = @ \o bytes]
  /\ overrun' = [overrun EXCEPT ![p] = FALSE]
  /\ UNCHANGED <<mainState, is_main_pc, rx, irq, inQueue, stored, read>>

-----------------------------------------------------------------------------
(* Keys and clock. *)

Waited == "hasty" \in Habits \/ Quiet

Enter(p, screen) == mainState' = [mainState EXCEPT ![p] = screen]

(* Mutated form: the player who starts stays what the last match made him. *)
start_keeps_role(p) ==
  /\ mainState[p] = "MAIN_MENU" /\ Waited
  /\ ResetAndSignal(p)
  /\ Enter(p, "GAME") \/ ("rules" \in Habits /\ Enter(p, "RULES"))
  /\ UNCHANGED is_main_pc

(* The start button.  With the rules selected as well (Menu.tla has the    *)
(* buttons) all is done for the match and the screen becomes RULES.        *)
start(p) ==
  /\ mainState[p] = "MAIN_MENU" /\ Waited
  /\ ResetAndSignal(p)
  /\ is_main_pc' = [is_main_pc EXCEPT ![p] = TRUE]
  /\ Enter(p, "GAME") \/ ("rules" \in Habits /\ Enter(p, "RULES"))

quit(p) ==
  /\ mainState[p] = "GAME" /\ Waited
  /\ ResetAndSignal(p)
  /\ Enter(p, "MAIN_MENU")
  /\ UNCHANGED is_main_pc

(* The exit button, and RULES and back: the serial port is not touched. *)
OtherKeys(p) ==
  /\ \/ mainState[p] = "MAIN_MENU" /\ "rules" \in Habits /\ Enter(p, "RULES")
     \/ mainState[p] = "RULES" /\ Enter(p, "MAIN_MENU")
     \/ mainState[p] = "MAIN_MENU" /\ "hasty" \in Habits /\ Enter(p, "STOP")
  /\ UNCHANGED <<is_main_pc, line, rx, overrun, irq, inQueue, stored, read, sent>>

(* timer_int gives its verdict. *)
verdict(p) ==
  /\ mainState[p] = "GAME" /\ "clock" \in Habits
  /\ Enter(p, "OVER")
  /\ UNCHANGED <<is_main_pc, line, rx, overrun, irq, inQueue, stored, read, sent>>

(* popOutButtons: play again and leave reset the FIFO and send nothing. *)
popOutButtons(p) ==
  /\ mainState[p] = "OVER"
  /\ \E screen \in {"GAME", "STOP"} : Enter(p, screen)
  /\ serialPort_resetFIFO(p)
  /\ \E out \in AfterClear(p) : line' = [line EXCEPT ![Other(p)] = out]
  /\ UNCHANGED <<is_main_pc, overrun, irq, stored, read, sent>>

-----------------------------------------------------------------------------
(* Receiving. *)

(* A byte arrives at the UART of p (see SerialLink.tla). *)
Arrive(p) ==
  /\ line[p] # << >>
  /\ line' = [line EXCEPT ![p] = Tail(@)]
  /\ IF Len(rx[p]) < FifoDepth
       THEN rx' = [rx EXCEPT ![p] = Append(@, Head(line[p]))] /\ UNCHANGED overrun
       ELSE overrun' = [overrun EXCEPT ![p] = TRUE] /\ UNCHANGED rx
  /\ irq' = [irq EXCEPT ![p] = @ \/ rx[p] = << >>]
  /\ UNCHANGED <<mainState, is_main_pc, inQueue, stored, read, sent>>

(* sp_ih: the FIFO is read to its end; after an overrun one byte is read   *)
(* and dropped.  With an empty FIFO no interrupt is pending in IIR.        *)
sp_ih(p) ==
  /\ rx' = [rx EXCEPT ![p] = IF overrun[p] THEN SubSeq(@, 2, Len(@)) ELSE << >>]
  /\ overrun' = [overrun EXCEPT ![p] = @ /\ rx[p] = << >>]

Collected(p) == Enqueued(inQueue[p], IF overrun[p] THEN << >> ELSE rx[p])

(* sp_int in the menu: one word; signal1 starts a match, with a reset. *)
sp_int_menu(p) ==
  /\ mainState[p] = "MAIN_MENU"
  /\ \/ /\ ~WordReady(Collected(p)) \/ NextWord(Collected(p)) # signal1
        /\ inQueue' = [inQueue EXCEPT ![p] =
             IF WordReady(Collected(p)) THEN AfterWord(Collected(p)) ELSE Collected(p)]
        /\ sp_ih(p)
        /\ UNCHANGED <<mainState, is_main_pc, line>>
     \/ /\ WordReady(Collected(p)) /\ NextWord(Collected(p)) = signal1
        /\ serialPort_resetFIFO(p)
        /\ \E out \in AfterClear(p) : line' = [line EXCEPT ![Other(p)] = out]
        /\ overrun' = [overrun EXCEPT ![p] = @ /\ rx[p] = << >>]
        /\ Enter(p, "GAME")
        /\ is_main_pc' = [is_main_pc EXCEPT ![p] = FALSE]
  /\ UNCHANGED <<stored, read>>

(* sp_int in a match (see SerialLink.tla): a first word, the stored one    *)
(* before the queue's; signal1 quits; otherwise a second word completes a  *)
(* message, and without one the first is stored.                           *)
sp_int_game(p) ==
  LET has   == stored[p] # << >> \/ WordReady(Collected(p))
      first == IF stored[p] # << >> THEN stored[p][1] ELSE NextWord(Collected(p))
      left  == IF stored[p] # << >> \/ ~has THEN Collected(p) ELSE AfterWord(Collected(p))
      whole == has /\ first # signal1 /\ WordReady(left)
  IN  /\ mainState[p] = "GAME"
      /\ sp_ih(p)
      /\ inQueue' = [inQueue EXCEPT ![p] = IF whole THEN AfterWord(left) ELSE left]
      /\ stored' = [stored EXCEPT ![p] =
           IF has /\ first # signal1 /\ ~whole THEN <<first>> ELSE << >>]
      /\ mainState' = [mainState EXCEPT ![p] =
           IF has /\ first = signal1 THEN "MAIN_MENU" ELSE @]
      /\ read' = [read EXCEPT ![p] = IF whole THEN <<first, NextWord(left)>> ELSE @]
      /\ UNCHANGED <<is_main_pc, line>>

(* sp_int on the other screens. *)
sp_int_unread(p) ==
  /\ mainState[p] \in {"RULES", "OVER"}
  /\ UNCHANGED <<mainState, is_main_pc, line, rx, overrun, inQueue, stored, read>>

sp_int(p) ==
  /\ irq[p]
  /\ irq' = [irq EXCEPT ![p] = FALSE]
  /\ sp_int_menu(p) \/ sp_int_game(p) \/ sp_int_unread(p)
  /\ UNCHANGED sent

-----------------------------------------------------------------------------

Init ==
  /\ mainState = [p \in PC |-> "MAIN_MENU"]
  /\ is_main_pc = [p \in PC |-> TRUE]
  /\ overrun = [p \in PC |-> FALSE] /\ irq = [p \in PC |-> FALSE]
  /\ line = [p \in PC |-> << >>] /\ rx = [p \in PC |-> << >>]
  /\ inQueue = [p \in PC |-> << >>] /\ stored = [p \in PC |-> << >>]
  /\ read = [p \in PC |-> << >>]
  /\ sent = [p \in PC |-> 0]

Next == \E p \in PC :
  \/ start(p) \/ quit(p) \/ OtherKeys(p) \/ verdict(p) \/ popOutButtons(p)
  \/ Arrive(p) \/ sp_int(p)
  \/ \E m \in Messages : Transmit(p, m)

(* Bytes arrive and notifications are received; nobody has to press a key. *)
Fairness == \A p \in PC : WF_vars(Arrive(p)) /\ WF_vars(sp_int(p))

Spec == Init /\ [][Next]_vars /\ Fairness

-----------------------------------------------------------------------------

Playing == {p \in PC : mainState[p] = "GAME"}

(* Something is under way to p. *)
Addressed(p) == line[p] \o rx[p] \o inQueue[p] # << >>

R == INSTANCE Rendezvous WITH
       playing <- Playing,
       main    <- {p \in Playing : is_main_pc[p]},
       phase   <- CASE Playing = {} -> "apart"
                    [] Playing = PC -> "match"
                    [] OTHER -> IF \E p \in PC \ Playing : Addressed(p)
                                  THEN "joining" ELSE "leaving"

(* Players who wait until the line is quiet before they press a key, and   *)
(* move only when both are in the match, go into every match together with *)
(* one main PC, and out of it together, whatever the bytes' and the        *)
(* interrupts' order.                                                      *)
PlayTogether == R!Spec

(* Then no start and no quit is missed either.                             *)
NobodyAlone == R!NobodyAlone

(* The report, page 15: "The information sent should correspond to the     *)
(* data read": a message taken off the queue is one the other PC sends,    *)
(* in the first match and after any number of quits and starts.            *)
ReadWasSent == \A p \in PC : read[p] \in Messages \cup {<< >>}

(* The report, page 11: "It lets two players compete with each other by    *)
(* sending information across two computers": when everything sent has     *)
(* been read, both players are in the match or none is.                    *)
BothOrNeither == Quiet => Playing \in {{}, PC}

(* No interrupt will announce the bytes that wait in the UART of p. *)
Deaf(p) == rx[p] # << >> /\ ~irq[p]

(* A port falls silent only on a screen that does not read it, or by an    *)
(* overrun; and only a key that resets the FIFO brings it back: no byte of *)
(* the other PC does.                                                      *)
DeafUntilReset ==
  [][\A p \in PC :
       /\ ~Deaf(p) /\ Deaf(p)' => mainState[p] \in {"RULES", "OVER"} \/ overrun[p]
       /\ Deaf(p) /\ ~Deaf(p)' => rx'[p] = << >> /\ inQueue'[p] = << >> /\ mainState'[p] # mainState[p]]_vars
=============================================================================
