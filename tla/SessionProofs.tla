---------------------------- MODULE SessionProofs ---------------------------
(***************************************************************************)
(* A port that fell silent stays so until a key resets it, for every       *)
(* alphabet, FIFO depth and habit of the players and of the line.          *)
(*                                                                         *)
(* Patient players go into every match and out of it together and read     *)
(* what was sent: the pair is always in one of four phases, and in each of *)
(* them the bytes under way to a PC, from stored_x to the line, are none,  *)
(* those of one signal, or those of messages.                              *)
(***************************************************************************)
EXTENDS Session, WordsProofs

IsSeq(s) == \E S : s \in Seq(S)

(* What the argument needs of the state: one FIFO and one bit per PC.      *)
PortsOK ==
  /\ irq \in [PC -> BOOLEAN]
  /\ DOMAIN rx = PC /\ \A p \in PC : IsSeq(rx[p])
  /\ DOMAIN inQueue = PC /\ DOMAIN mainState = PC

(* A sequence stays one, whatever is appended, and is not empty then.      *)
LEMMA AppendSeq ==
  ASSUME NEW s, IsSeq(s), NEW e
  PROVE  IsSeq(Append(s, e)) /\ Append(s, e) # << >>
<1>1. PICK S : s \in Seq(S)
  BY DEF IsSeq
<1> DEFINE T == S \cup {e}
<1>2. s \in Seq(T) /\ e \in T
  BY <1>1
<1> HIDE DEF T
<1>3. Append(s, e) \in Seq(T) /\ Len(Append(s, e)) = Len(s) + 1 /\ Len(s) \in Nat
  BY <1>2
<1>4. Append(s, e) # << >>
  BY <1>3
<1>5. QED
  BY <1>3, <1>4 DEF IsSeq

(* Neither does reading its first byte change that.                        *)
LEMMA RestSeq ==
  ASSUME NEW s, IsSeq(s)
  PROVE  IsSeq(SubSeq(s, 2, Len(s))) /\ IsSeq(<< >>)
<1>1. PICK S : s \in Seq(S)
  BY DEF IsSeq
<1>2. SubSeq(s, 2, Len(s)) \in Seq(S) /\ << >> \in Seq(S)
  BY <1>1
<1>3. QED
  BY <1>2 DEF IsSeq

(* What serialPort_resetFIFO leaves.                                       *)
LEMMA ResetPort ==
  ASSUME PortsOK, NEW p \in PC, serialPort_resetFIFO(p)
  PROVE  /\ DOMAIN rx' = PC /\ DOMAIN inQueue' = PC
         /\ rx'[p] = << >> /\ inQueue'[p] = << >>
         /\ \A q \in PC \ {p} : rx'[q] = rx[q]
         /\ \A q \in PC : IsSeq(rx'[q])
<1>1. /\ rx' = [rx EXCEPT ![p] = << >>] /\ inQueue' = [inQueue EXCEPT ![p] = << >>]
      /\ DOMAIN rx = PC /\ DOMAIN inQueue = PC /\ \A q \in PC : IsSeq(rx[q])
  BY DEF serialPort_resetFIFO, PortsOK
<1>2. IsSeq(<< >>)
  BY <1>1, RestSeq
<1>3. QED
  BY <1>1, <1>2

(* What the property says of one PC.                                       *)
Silence(p) ==
  /\ ~Deaf(p) /\ Deaf(p)' => mainState[p] \in {"RULES", "OVER"} \/ overrun[p]
  /\ Deaf(p) /\ ~Deaf(p)' => rx'[p] = << >> /\ inQueue'[p] = << >> /\ mainState'[p] # mainState[p]

(* A step that leaves the port of a PC alone says nothing of it.           *)
LEMMA Untouched ==
  ASSUME NEW p \in PC, rx'[p] = rx[p], irq'[p] = irq[p]
  PROVE  Silence(p)
  BY DEF Silence, Deaf

(* A key of p that resets its port.                                        *)
LEMMA KeyResets ==
  ASSUME PortsOK, NEW p \in PC, serialPort_resetFIFO(p), irq' = irq,
         NEW screen, screen # mainState[p], Enter(p, screen)
  PROVE  PortsOK' /\ \A q \in PC : Silence(q)
<1>1. /\ DOMAIN rx' = PC /\ DOMAIN inQueue' = PC
      /\ rx'[p] = << >> /\ inQueue'[p] = << >>
      /\ \A q \in PC \ {p} : rx'[q] = rx[q]
      /\ \A q \in PC : IsSeq(rx'[q])
  BY ResetPort
<1>2. DOMAIN mainState' = PC /\ mainState'[p] = screen
  BY DEF Enter, PortsOK
<1>3. PortsOK'
  BY <1>1, <1>2 DEF PortsOK
<1>4. Silence(p)
  BY <1>1, <1>2 DEF Silence, Deaf
<1>5. ASSUME NEW q \in PC \ {p}
      PROVE  Silence(q)
  BY <1>1, <1>5, Untouched
<1>6. QED
  BY <1>3, <1>4, <1>5

(* Every step of one PC keeps the ports' shape and the property.           *)
LEMMA StepSilence ==
  ASSUME PortsOK, [Next]_vars
  PROVE  PortsOK' /\ \A q \in PC : Silence(q)
<1>1. ASSUME NEW p \in PC, start(p)
      PROVE  PortsOK' /\ \A q \in PC : Silence(q)
  BY <1>1, KeyResets DEF start, ResetAndSignal
<1>2. ASSUME NEW p \in PC, quit(p)
      PROVE  PortsOK' /\ \A q \in PC : Silence(q)
  BY <1>2, KeyResets DEF quit, ResetAndSignal
<1>3. ASSUME NEW p \in PC, popOutButtons(p)
      PROVE  PortsOK' /\ \A q \in PC : Silence(q)
  BY <1>3, KeyResets DEF popOutButtons
<1>4. ASSUME NEW p \in PC, OtherKeys(p) \/ verdict(p)
      PROVE  PortsOK' /\ \A q \in PC : Silence(q)
  <2>1. UNCHANGED <<rx, irq, inQueue>> /\ DOMAIN mainState' = PC
    BY <1>4 DEF OtherKeys, verdict, Enter, PortsOK
  <2>2. QED
    BY <2>1, Untouched DEF PortsOK
<1>5. ASSUME NEW p \in PC, NEW m \in Messages, Transmit(p, m)
      PROVE  PortsOK' /\ \A q \in PC : Silence(q)
  <2>1. UNCHANGED <<rx, irq, inQueue, mainState>>
    BY <1>5 DEF Transmit
  <2>2. QED
    BY <2>1, Untouched DEF PortsOK
<1>6. ASSUME NEW p \in PC, Arrive(p)
      PROVE  PortsOK' /\ \A q \in PC : Silence(q)
  <2> DEFINE e == Head(line[p])
  <2> HIDE DEF e
  <2>1. /\ rx' = [rx EXCEPT ![p] = Append(@, e)] \/ rx' = rx
        /\ irq' = [irq EXCEPT ![p] = @ \/ rx[p] = << >>]
        /\ UNCHANGED <<inQueue, mainState>>
    BY <1>6 DEF Arrive, e
  <2>2. IsSeq(Append(rx[p], e)) /\ Append(rx[p], e) # << >>
    BY AppendSeq DEF PortsOK
  <2>3. /\ irq' \in [PC -> BOOLEAN] /\ irq'[p] = (irq[p] \/ rx[p] = << >>)
        /\ \A q \in PC \ {p} : irq'[q] = irq[q]
    BY <2>1 DEF PortsOK
  <2>4. /\ DOMAIN rx' = PC /\ \A q \in PC : IsSeq(rx'[q])
        /\ rx'[p] = Append(rx[p], e) \/ rx'[p] = rx[p]
        /\ \A q \in PC \ {p} : rx'[q] = rx[q]
    BY <2>1, <2>2 DEF PortsOK
  <2>5. PortsOK'
    BY <2>1, <2>3, <2>4 DEF PortsOK
  <2>6. Silence(p)
    BY <2>2, <2>3, <2>4 DEF Silence, Deaf
  <2>7. ASSUME NEW q \in PC \ {p} PROVE Silence(q)
    BY <2>3, <2>4, <2>7, Untouched
  <2>8. QED
    BY <2>5, <2>6, <2>7
<1>7. ASSUME NEW p \in PC, sp_int(p)
      PROVE  PortsOK' /\ \A q \in PC : Silence(q)
  <2>1. irq[p] /\ irq' = [irq EXCEPT ![p] = FALSE]
    BY <1>7 DEF sp_int
  <2>2. /\ irq' \in [PC -> BOOLEAN] /\ irq'[p] = FALSE
        /\ \A q \in PC \ {p} : irq'[q] = irq[q]
    BY <2>1 DEF PortsOK
  <2>3. ASSUME sp_ih(p)
        PROVE  /\ DOMAIN rx' = PC /\ \A q \in PC : IsSeq(rx'[q])
               /\ rx'[p] # << >> => overrun[p]
               /\ \A q \in PC \ {p} : rx'[q] = rx[q]
    <3>1. /\ rx' = [rx EXCEPT ![p] = IF overrun[p] THEN SubSeq(@, 2, Len(@)) ELSE << >>]
          /\ DOMAIN rx = PC /\ \A q \in PC : IsSeq(rx[q])
      BY <2>3 DEF sp_ih, PortsOK
    <3>2. IsSeq(SubSeq(rx[p], 2, Len(rx[p]))) /\ IsSeq(<< >>)
      BY <3>1, RestSeq
    <3>3. QED
      BY <3>1, <3>2
  <2>4. /\ DOMAIN rx' = PC /\ \A q \in PC : IsSeq(rx'[q])
        /\ rx'[p] # << >> => overrun[p] \/ mainState[p] \in {"RULES", "OVER"}
        /\ \A q \in PC \ {p} : rx'[q] = rx[q]
        /\ DOMAIN inQueue' = PC /\ DOMAIN mainState' = PC
    <3>1. CASE sp_int_menu(p) /\ sp_ih(p)
      BY <3>1, <2>3 DEF sp_int_menu, PortsOK, Enter, serialPort_resetFIFO
    <3>2. CASE sp_int_menu(p) /\ serialPort_resetFIFO(p)
      BY <3>2, ResetPort DEF sp_int_menu, PortsOK, Enter
    <3>3. CASE sp_int_game(p)
      BY <3>3, <2>3 DEF sp_int_game, PortsOK
    <3>4. CASE sp_int_unread(p)
      BY <3>4 DEF sp_int_unread, PortsOK
    <3>5. sp_int_menu(p) => sp_ih(p) \/ serialPort_resetFIFO(p)
      BY DEF sp_int_menu
    <3>6. QED
      BY <1>7, <3>1, <3>2, <3>3, <3>4, <3>5 DEF sp_int
  <2>5. PortsOK'
    BY <2>2, <2>4 DEF PortsOK
  <2>6. Silence(p)
    BY <2>1, <2>2, <2>4 DEF Silence, Deaf
  <2>7. ASSUME NEW q \in PC \ {p} PROVE Silence(q)
    BY <2>2, <2>4, <2>7, Untouched
  <2>8. QED
    BY <2>5, <2>6, <2>7
<1>8. CASE UNCHANGED vars
  <2>1. UNCHANGED <<rx, irq, inQueue, mainState>>
    BY <1>8 DEF vars
  <2>2. QED
    BY <2>1, Untouched DEF PortsOK
<1>9. QED
  BY <1>1, <1>2, <1>3, <1>4, <1>5, <1>6, <1>7, <1>8 DEF Next

(* A port falls silent only where it is not read or by an overrun, and     *)
(* nothing but a key that resets it brings it back.                        *)
THEOREM SilentUntilReset == Spec => DeafUntilReset
<1>1. Init => PortsOK
  <2> SUFFICES ASSUME Init PROVE PortsOK
    OBVIOUS
  <2>1. << >> \in Seq({})
    OBVIOUS
  <2>2. IsSeq(<< >>)
    BY <2>1 DEF IsSeq
  <2>3. QED
    BY <2>2 DEF Init, PortsOK
<1>2. PortsOK /\ [Next]_vars => PortsOK' /\ \A q \in PC : Silence(q)
  BY StepSilence
<1>3. (\A q \in PC : Silence(q)) =>
        [\A p \in PC :
           /\ ~Deaf(p) /\ Deaf(p)' => mainState[p] \in {"RULES", "OVER"} \/ overrun[p]
           /\ Deaf(p) /\ ~Deaf(p)' => rx'[p] = << >> /\ inQueue'[p] = << >> /\ mainState'[p] # mainState[p]]_vars
  BY DEF Silence
<1>4. QED
  BY <1>1, <1>2, <1>3, PTL DEF Spec, DeafUntilReset

-----------------------------------------------------------------------------
(* Patient players.  What has not been taken yet of what was sent to a PC  *)
(* is one stream: the stored word, the queue, the receive FIFO, the line.  *)

Held(s) == IF s = << >> THEN << >> ELSE BytesOf(s[1])
Flow(s, q, r, l) == Cat(Cat(Held(s), q), Cat(r, l))

Store == {<< >>} \cup {<<w>> : w \in Word16}

(* The stored word as bytes.                                               *)
LEMMA HeldType ==
  ASSUME NEW s \in Store
  PROVE  Held(s) \in Seq(Bytes8) /\ Held(<< >>) = << >>
<1>1. CASE s = << >>
  BY <1>1 DEF Held
<1>2. CASE s # << >>
  <2>1. PICK w \in Word16 : s = <<w>>
    BY <1>2 DEF Store
  <2>2. s[1] = w
    BY <2>1
  <2>3. QED
    BY <1>2, <2>2, TwoBytes DEF Held
<1>3. QED
  BY <1>1, <1>2

(* A concatenation is empty only if both parts are.                        *)
LEMMA CatNothing ==
  ASSUME NEW a \in Seq(Bytes8), NEW b \in Seq(Bytes8), Cat(a, b) = << >>
  PROVE  a = << >> /\ b = << >>
<1>1. Len(Cat(a, b)) = Len(a) + Len(b)
  BY CatLaws
<1>2. Len(a) = 0 /\ Len(b) = 0
  BY <1>1
<1>3. QED
  BY <1>2

(* Two bytes make one word, with nothing behind it.                        *)
LEMMA OneWord ==
  ASSUME NEW v \in Word16, NEW w \in Word16, NEW s \in Seq(Bytes8),
         Cat(BytesOf(v), s) = BytesOf(w)
  PROVE  v = w /\ s = << >>
<1> DEFINE a == BytesOf(v)
           c == BytesOf(w)
<1>1. /\ a \in Seq(Bytes8) /\ Len(a) = 2 /\ a[1] = v % B /\ a[2] = v \div B
      /\ c \in Seq(Bytes8) /\ Len(c) = 2 /\ c[1] = w % B /\ c[2] = w \div B
  BY TwoBytes
<1> HIDE DEF a, c
<1>2. Cat(a, s) = c
  BY DEF a, c
<1>3. Len(a) + Len(s) = 2
  BY <1>1, <1>2, CatLaws
<1>4. s = << >>
  <2>1. Len(s) = 0
    BY <1>1, <1>3
  <2>2. QED
    BY <2>1
<1>5. a = c
  BY <1>1, <1>2, <1>4, CatLaws
<1>6. QED
  BY <1>1, <1>4, <1>5, SameWord

(* A message of two words is longer than that.                             *)
LEMMA NoPair ==
  ASSUME NEW m \in Taken, m # <<signal1>>, NEW w \in Word16, NEW s \in Seq(Bytes8)
  PROVE  Cat(Bytes(m), s) # BytesOf(w)
<1> DEFINE b == Bytes(m)
           c == BytesOf(w)
<1>1. b \in Seq(Bytes8) /\ Len(b) = 4 /\ Len(c) = 2
  BY MessageBytes, TwoBytes
<1> HIDE DEF b, c
<1>2. Len(Cat(b, s)) = Len(b) + Len(s)
  BY <1>1, CatLaws, Zenon
<1>3. Cat(b, s) # c
  <2> SUFFICES ASSUME Cat(b, s) = c PROVE FALSE
    OBVIOUS
  <2>1. Len(c) = Len(b) + Len(s)
    BY <1>2, Zenon
  <2>2. Len(s) \in Nat
    OBVIOUS
  <2>3. 2 = 4 + Len(s)
    BY <1>1, <2>1, Zenon
  <2>4. QED
    BY <2>2, <2>3
<1>4. QED
  BY <1>3 DEF b, c

(* What is sent goes to the end of the stream.                             *)
LEMMA FlowSends ==
  ASSUME NEW s \in Store, NEW q \in Seq(Bytes8), NEW r \in Seq(Bytes8),
         NEW l \in Seq(Bytes8), NEW b \in Seq(Bytes8)
  PROVE  /\ Flow(s, q, r, l) \in Seq(Bytes8) /\ Cat(l, b) \in Seq(Bytes8)
         /\ Flow(s, q, r, Cat(l, b)) = Cat(Flow(s, q, r, l), b)
<1> DEFINE a == Held(s)
<1>1. a \in Seq(Bytes8)
  BY HeldType
<1> HIDE DEF a
<1> DEFINE x == Cat(a, q)
           y == Cat(r, l)
<1>2a. x \in Seq(Bytes8) /\ y \in Seq(Bytes8) /\ Cat(l, b) \in Seq(Bytes8)
  BY <1>1, CatLaws, Zenon
<1>2b. Cat(r, Cat(l, b)) = Cat(y, b)
  BY CatLaws, ZenonT(45)
<1> HIDE DEF x, y
<1>2. /\ x \in Seq(Bytes8) /\ y \in Seq(Bytes8) /\ Cat(x, y) \in Seq(Bytes8)
      /\ Cat(l, b) \in Seq(Bytes8) /\ Cat(r, Cat(l, b)) = Cat(y, b)
  BY <1>2a, <1>2b, CatLaws, Zenon
<1>3. Cat(x, Cat(y, b)) = Cat(Cat(x, y), b)
  BY <1>2, CatLaws
<1>4. Flow(s, q, r, l) = Cat(x, y) /\ Flow(s, q, r, Cat(l, b)) = Cat(x, Cat(r, Cat(l, b)))
  BY DEF Flow, x, y, a
<1>5. QED
  BY <1>2, <1>3, <1>4

(* A byte that arrives stays where it is in the stream.                    *)
LEMMA FlowArrives ==
  ASSUME NEW s \in Store, NEW q \in Seq(Bytes8), NEW r \in Seq(Bytes8),
         NEW l \in Seq(Bytes8), l # << >>
  PROVE  /\ Append(r, Head(l)) \in Seq(Bytes8) /\ Tail(l) \in Seq(Bytes8)
         /\ Flow(s, q, Append(r, Head(l)), Tail(l)) = Flow(s, q, r, l)
<1>1. /\ Append(r, Head(l)) \in Seq(Bytes8) /\ Tail(l) \in Seq(Bytes8)
      /\ Cat(Append(r, Head(l)), Tail(l)) = Cat(r, l)
  BY Shifts DEF Cat
<1>2. QED
  BY <1>1 DEF Flow

(* So do those that sp_ih moves to the queue.                              *)
LEMMA FlowCollects ==
  ASSUME NEW s \in Store, NEW q \in Seq(Bytes8), NEW r \in Seq(Bytes8),
         NEW l \in Seq(Bytes8), Len(q) + Len(r) <= Capacity
  PROVE  /\ Enqueued(q, r) \in Seq(Bytes8) /\ Enqueued(q, r) = Cat(q, r)
         /\ Cat(Cat(Held(s), Enqueued(q, r)), l) = Flow(s, q, r, l)
<1> DEFINE a == Held(s)
           c == Enqueued(q, r)
<1>1. a \in Seq(Bytes8) /\ c = Cat(q, r)
  BY HeldType, Fits DEF Cat
<1> HIDE DEF a, c
<1>2. /\ Cat(q, r) \in Seq(Bytes8) /\ Cat(a, Cat(q, r)) = Cat(Cat(a, q), r)
      /\ Cat(a, q) \in Seq(Bytes8)
  BY <1>1, CatLaws
<1>3. Cat(Cat(Cat(a, q), r), l) = Cat(Cat(a, q), Cat(r, l))
  BY <1>2, CatLaws
<1>4. Cat(Cat(a, c), l) = Flow(s, q, r, l)
  BY <1>1, <1>2, <1>3 DEF Flow, a
<1>5. QED
  BY <1>1, <1>2, <1>4 DEF a, c

-----------------------------------------------------------------------------
(* What sp_int takes off the stream of a PC.                               *)

(* The screens of patient players, and the rest of the state.              *)
Types ==
  /\ mainState \in [PC -> {"MAIN_MENU", "GAME"}] /\ is_main_pc \in [PC -> BOOLEAN]
  /\ line \in [PC -> Seq(Bytes8)] /\ rx \in [PC -> Seq(Bytes8)] /\ inQueue \in [PC -> Seq(Bytes8)]
  /\ stored \in [PC -> Store] /\ overrun \in [PC -> BOOLEAN] /\ sent \in [PC -> Nat]
  /\ read = [p \in PC |-> read[p]]

(* What the code cannot see to: no UART has overrun, and the queue has     *)
(* room for what the next interrupt collects.                              *)
RoomLeft == \A p \in PC : overrun[p] = FALSE /\ Len(inQueue[p]) + Len(rx[p]) <= Capacity

In(p) == Flow(stored[p], inQueue[p], rx[p], line[p])

(* The types of one PC's variables.                                        *)
LEMMA TypesAt ==
  ASSUME Types, NEW p \in PC
  PROVE  /\ line[p] \in Seq(Bytes8) /\ rx[p] \in Seq(Bytes8) /\ inQueue[p] \in Seq(Bytes8)
         /\ stored[p] \in Store /\ overrun[p] \in BOOLEAN /\ sent[p] \in Nat
         /\ mainState[p] \in {"MAIN_MENU", "GAME"} /\ is_main_pc[p] \in BOOLEAN
BY DEF Types

(* sp_ih with room collects everything.                                    *)
LEMMA CollectsAll ==
  ASSUME Types, RoomLeft, NEW p \in PC
  PROVE  /\ Collected(p) \in Seq(Bytes8) /\ Collected(p) = Cat(inQueue[p], rx[p])
         /\ In(p) = Cat(Cat(Held(stored[p]), Collected(p)), line[p])
         /\ sp_ih(p) => rx' = [rx EXCEPT ![p] = << >>] /\ overrun' = overrun
<1>1. /\ line[p] \in Seq(Bytes8) /\ rx[p] \in Seq(Bytes8) /\ inQueue[p] \in Seq(Bytes8)
      /\ stored[p] \in Store /\ overrun[p] = FALSE /\ Len(inQueue[p]) + Len(rx[p]) <= Capacity
  BY TypesAt DEF RoomLeft
<1>2. Collected(p) = Enqueued(inQueue[p], rx[p])
  BY <1>1 DEF Collected
<1>3. /\ Enqueued(inQueue[p], rx[p]) \in Seq(Bytes8)
      /\ Enqueued(inQueue[p], rx[p]) = Cat(inQueue[p], rx[p])
      /\ Cat(Cat(Held(stored[p]), Enqueued(inQueue[p], rx[p])), line[p]) = In(p)
  <2> DEFINE s == stored[p]
             q == inQueue[p]
             r == rx[p]
             l == line[p]
  <2>1. /\ s \in Store /\ q \in Seq(Bytes8) /\ r \in Seq(Bytes8) /\ l \in Seq(Bytes8)
        /\ Len(q) + Len(r) <= Capacity
    BY <1>1
  <2> HIDE DEF s, q, r, l
  <2>2. /\ Enqueued(q, r) \in Seq(Bytes8) /\ Enqueued(q, r) = Cat(q, r)
        /\ Cat(Cat(Held(s), Enqueued(q, r)), l) = Flow(s, q, r, l)
    BY <2>1, FlowCollects
  <2>3. QED
    BY <2>2 DEF In, s, q, r, l
<1>4. sp_ih(p) => rx' = [rx EXCEPT ![p] = << >>] /\ overrun' = overrun
  <2>1. sp_ih(p) => /\ rx' = [rx EXCEPT ![p] = << >>]
                    /\ overrun' = [overrun EXCEPT ![p] = FALSE]
    BY <1>1 DEF sp_ih
  <2>2. [overrun EXCEPT ![p] = FALSE] = overrun
    BY <1>1 DEF Types
  <2>3. QED
    BY <2>1, <2>2
<1>5. QED
  BY <1>2, <1>3, <1>4

(* In a match: nothing, signal1, or a message of two words.  A first word  *)
(* that is kept is not signal1.                                            *)
TakesNothing(p, c) ==
  /\ mainState' = mainState /\ read' = read
  /\ stored'[p] = << >> \/ \E w \in Word16 : w # signal1 /\ stored'[p] = <<w>>
  /\ Cat(Held(stored[p]), c) = Cat(Held(stored'[p]), inQueue'[p])
TakesSignal(p, c) ==
  /\ mainState' = [mainState EXCEPT ![p] = "MAIN_MENU"] /\ read' = read
  /\ stored'[p] = << >>
  /\ Cat(Held(stored[p]), c) = Cat(BytesOf(signal1), inQueue'[p])
TakesMessage(p, c) ==
  /\ mainState' = mainState /\ stored'[p] = << >>
  /\ \E m \in Taken : /\ m # <<signal1>> /\ read' = [read EXCEPT ![p] = m]
                      /\ Cat(Held(stored[p]), c) = Cat(Bytes(m), inQueue'[p])

(* One of these is what sp_int does in a match.                            *)
LEMMA GameTakes ==
  ASSUME Types, RoomLeft, NEW p \in PC, sp_int_game(p)
  PROVE  /\ rx' = [rx EXCEPT ![p] = << >>] /\ overrun' = overrun /\ line' = line
         /\ is_main_pc' = is_main_pc
         /\ \E q \in Seq(Bytes8) : inQueue' = [inQueue EXCEPT ![p] = q]
         /\ \E s \in Store : stored' = [stored EXCEPT ![p] = s]
         /\ \/ TakesNothing(p, Collected(p)) \/ TakesSignal(p, Collected(p))
            \/ TakesMessage(p, Collected(p))
<1> DEFINE c     == Collected(p)
           has   == stored[p] # << >> \/ WordReady(c)
           first == IF stored[p] # << >> THEN stored[p][1] ELSE NextWord(c)
           left  == IF stored[p] # << >> \/ ~has THEN c ELSE AfterWord(c)
           whole == has /\ first # signal1 /\ WordReady(left)
           q     == IF whole THEN AfterWord(left) ELSE left
           s     == IF has /\ first # signal1 /\ ~whole THEN <<first>> ELSE << >>
           h     == Held(stored[p])
<1>1. /\ sp_ih(p) /\ line' = line /\ is_main_pc' = is_main_pc
      /\ inQueue' = [inQueue EXCEPT ![p] = q] /\ stored' = [stored EXCEPT ![p] = s]
      /\ mainState' = [mainState EXCEPT ![p] = IF has /\ first = signal1 THEN "MAIN_MENU" ELSE @]
      /\ read' = [read EXCEPT ![p] = IF whole THEN <<first, NextWord(left)>> ELSE @]
  BY DEF sp_int_game
<1>2. c \in Seq(Bytes8) /\ rx' = [rx EXCEPT ![p] = << >>] /\ overrun' = overrun
  BY <1>1, CollectsAll
<1> HIDE DEF c
<1>3. stored[p] \in Store /\ h \in Seq(Bytes8) /\ signal1 \in Word16
  BY TypesAt, HeldType, WordAssumption DEF Word16
<1>4. ASSUME has
      PROVE  /\ first \in Word16 /\ left \in Seq(Bytes8)
             /\ Cat(h, c) = Cat(BytesOf(first), left)
  <2>1. CASE stored[p] # << >>
    <3>1. PICK w \in Word16 : stored[p] = <<w>>
      BY <1>3, <2>1 DEF Store
    <3>2. stored[p][1] = w
      BY <3>1
    <3>3. h = BytesOf(w) /\ first = w /\ left = c
      BY <2>1, <3>2 DEF Held
    <3>4. QED
      BY <1>2, <3>3
  <2>2. CASE stored[p] = << >>
    <3>1. h = << >> /\ first = NextWord(c) /\ left = AfterWord(c) /\ WordReady(c)
      BY <1>4, <2>2 DEF Held
    <3>2. NextWord(c) \in Word16 /\ AfterWord(c) \in Seq(Bytes8) /\ c = Cat(BytesOf(NextWord(c)), AfterWord(c))
      BY <1>2, <3>1, ReadWord DEF Cat
    <3>3. Cat(<< >>, c) = c
      BY <1>2, CatLaws
    <3>4. Cat(h, c) = Cat(BytesOf(first), left)
      BY <3>1, <3>2, <3>3, Zenon
    <3>5. QED
      BY <3>1, <3>2, <3>4
  <2>3. QED
    BY <2>1, <2>2
<1>5. ASSUME ~has
      PROVE  stored[p] = << >> /\ h = << >> /\ left = c /\ s = << >> /\ q = c /\ ~whole
  BY <1>5 DEF Held
<1>6. inQueue'[p] = q /\ stored'[p] = s
  BY <1>1 DEF Types
<1>7. [mainState EXCEPT ![p] = @] = mainState /\ [read EXCEPT ![p] = @] = read
  <2>1. mainState \in [PC -> {"MAIN_MENU", "GAME"}] /\ read = [r \in PC |-> read[r]]
    BY DEF Types
  <2>2. [read EXCEPT ![p] = @] = [r \in PC |-> read[r]]
    BY <2>1
  <2>3. QED
    BY <2>1, <2>2
<1>8. CASE ~has
  <2>1. mainState' = mainState /\ read' = read
    BY <1>1, <1>5, <1>7, <1>8
  <2>2. TakesNothing(p, c)
    BY <1>5, <1>6, <1>8, <2>1 DEF TakesNothing
  <2>3. q \in Seq(Bytes8) /\ s \in Store
    BY <1>2, <1>5, <1>8 DEF Store
  <2>4. QED
    BY <1>1, <1>2, <2>2, <2>3 DEF c
<1>9. CASE has /\ first = signal1
  <2>1. ~whole /\ s = << >> /\ q = left
    BY <1>9
  <2>2. mainState' = [mainState EXCEPT ![p] = "MAIN_MENU"] /\ read' = read
    BY <1>1, <1>7, <1>9, <2>1
  <2>3. TakesSignal(p, c)
    BY <1>4, <1>6, <1>9, <2>1, <2>2 DEF TakesSignal
  <2>4. q \in Seq(Bytes8) /\ s \in Store
    BY <1>4, <1>9, <2>1 DEF Store
  <2>5. QED
    BY <1>1, <1>2, <2>3, <2>4 DEF c
<1>10. CASE has /\ first # signal1 /\ ~WordReady(left)
  <2>1. ~whole /\ s = <<first>> /\ q = left /\ Held(<<first>>) = BytesOf(first)
    BY <1>10 DEF Held
  <2>2. mainState' = mainState /\ read' = read
    BY <1>1, <1>7, <1>10, <2>1
  <2>3. TakesNothing(p, c)
    BY <1>4, <1>6, <1>10, <2>1, <2>2 DEF TakesNothing
  <2>4. q \in Seq(Bytes8) /\ s \in Store
    BY <1>4, <1>10, <2>1 DEF Store
  <2>5. QED
    BY <1>1, <1>2, <2>3, <2>4 DEF c
<1>11. CASE has /\ first # signal1 /\ WordReady(left)
  <2> DEFINE m == <<first, NextWord(left)>>
  <2>1. whole /\ s = << >> /\ q = AfterWord(left)
    BY <1>11
  <2>2. mainState' = mainState /\ read' = [read EXCEPT ![p] = m]
    BY <1>1, <1>7, <1>11, <2>1
  <2>3. /\ first \in Word16 /\ NextWord(left) \in Word16 /\ AfterWord(left) \in Seq(Bytes8)
        /\ left = Cat(BytesOf(NextWord(left)), AfterWord(left))
        /\ Cat(h, c) = Cat(BytesOf(first), left)
    BY <1>4, <1>11, ReadWord DEF Cat
  <2>4. /\ m \in Taken /\ m # <<signal1>>
        /\ Bytes(m) = Cat(BytesOf(first), BytesOf(NextWord(left)))
    <3> DEFINE f == first
               n == NextWord(left)
    <3>1. f \in Word16 /\ n \in Word16 /\ f # signal1
      BY <1>11, <2>3
    <3> HIDE DEF f, n
    <3>2. <<f, n>> \in Taken /\ <<f, n>> # <<signal1>> /\ Bytes(<<f, n>>) = Cat(BytesOf(f), BytesOf(n))
      BY <3>1 DEF Taken, Bytes, Cat
    <3>3. QED
      BY <3>2 DEF f, n
  <2>5. Cat(h, c) = Cat(Bytes(m), AfterWord(left))
    <3> DEFINE a == BytesOf(first)
               b == BytesOf(NextWord(left))
               d == AfterWord(left)
    <3>1. a \in Seq(Bytes8) /\ b \in Seq(Bytes8) /\ d \in Seq(Bytes8)
      BY <2>3, TwoBytes
    <3> HIDE DEF a, b, d
    <3>2. Cat(a, Cat(b, d)) = Cat(Cat(a, b), d)
      BY <3>1, CatLaws
    <3>3. Bytes(m) = Cat(a, b) /\ left = Cat(b, d) /\ Cat(h, c) = Cat(a, left)
      BY <2>3, <2>4 DEF a, b, d
    <3>4. Cat(h, c) = Cat(Bytes(m), d)
      BY <3>2, <3>3, Zenon
    <3>5. QED
      BY <3>4 DEF d
  <2> HIDE DEF m
  <2>6. TakesMessage(p, c)
    BY <1>6, <2>1, <2>2, <2>4, <2>5 DEF TakesMessage
  <2>7. q \in Seq(Bytes8) /\ s \in Store
    BY <2>1, <2>3 DEF Store
  <2>8. QED
    BY <1>1, <1>2, <2>6, <2>7 DEF c
<1>12. QED
  BY <1>8, <1>9, <1>10, <1>11

-----------------------------------------------------------------------------
(* The phases of a session.                                                *)

Clear(p) == line[p] = << >> /\ rx[p] = << >> /\ inQueue[p] = << >> /\ stored[p] = << >>

(* A signal, and nothing else, is under way to p; messages are.            *)
Announced(p) == stored[p] = << >> /\ In(p) = BytesOf(signal1)
Spoken(p) == \E log \in Seq(Messages) : \E n \in 0 .. Len(log) : Coded(In(p), log, n)

Apart      == \A p \in PC : mainState[p] = "MAIN_MENU" /\ Clear(p)
Joining(p) == /\ mainState[p] = "GAME" /\ is_main_pc[p] = TRUE /\ Clear(p)
              /\ mainState[Other(p)] = "MAIN_MENU" /\ Announced(Other(p))
Match      == \A p \in PC : mainState[p] = "GAME" /\ Spoken(p)
Leaving(p) == /\ mainState[p] = "MAIN_MENU" /\ Clear(p)
              /\ mainState[Other(p)] = "GAME" /\ Announced(Other(p))

Patient == Habits = {}

(* There are two PCs.                                                      *)
LEMMA TwoPCs ==
  ASSUME NEW p \in PC
  PROVE  /\ Other(p) \in PC /\ Other(p) # p /\ Other(Other(p)) = p
         /\ \A q \in PC : q = p \/ q = Other(p)
BY DEF PC, Other

(* Nothing happens to a side of the line that a step leaves alone.         *)
LEMMA SameSide ==
  ASSUME NEW p \in PC, line'[p] = line[p], rx'[p] = rx[p], inQueue'[p] = inQueue[p],
         stored'[p] = stored[p]
  PROVE  /\ In(p)' = In(p) /\ (Clear(p) => Clear(p)') /\ (Announced(p) => Announced(p)')
         /\ (Spoken(p) => Spoken(p)')
<1>1. In(p)' = In(p)
  BY DEF In
<1>2. QED
  BY <1>1 DEF Clear, Announced, Spoken

(* On a side with nothing on it nothing has been said.                     *)
LEMMA NoFlow ==
  /\ Flow(<< >>, << >>, << >>, << >>) = << >>
  /\ \E log \in Seq(Messages) : \E n \in 0 .. Len(log) : Coded(<< >>, log, n)
<1>1. << >> \in Seq(Bytes8) /\ Held(<< >>) = << >>
  BY DEF Held
<1>2. Cat(<< >>, << >>) = << >>
  BY <1>1, CatLaws, Zenon
<1>3. Flow(<< >>, << >>, << >>, << >>) = << >>
  BY <1>1, <1>2, Zenon DEF Flow
<1>4. << >> \in Seq(Messages) /\ Len(<< >>) = 0 /\ 0 \in 0 .. 0
  OBVIOUS
<1>5. Coded(<< >>, << >>, 0)
  BY <1>4 DEF Coded, OnlyLast, CodedLen, Ended
<1>6. QED
  BY <1>3, <1>4, <1>5

(* Before a step, and after it.                                            *)
LEMMA ClearSide ==
  ASSUME NEW p \in PC
  PROVE  (Clear(p) => In(p) = << >>) /\ (Clear(p)' => Spoken(p)')
<1>1. Clear(p) => In(p) = << >>
  BY NoFlow DEF Clear, In
<1>2. Clear(p)' => In(p)' = << >>
  BY NoFlow DEF Clear, In
<1>3. QED
  BY <1>1, <1>2, NoFlow DEF Spoken

(* A side where nothing is waiting differs from one with a signal.         *)
LEMMA NotQuiet ==
  ASSUME NEW p \in PC, Announced(p)
  PROVE  ~Clear(p) /\ ~Quiet
<1>1. BytesOf(signal1) # << >>
  BY DEF BytesOf
<1>2. ~Clear(p)
  BY <1>1, ClearSide DEF Announced
<1>3. QED
  BY <1>2 DEF Quiet, Clear

(* A patient player who presses a key finds the line quiet, and sends      *)
(* signal1 as it is.                                                       *)
LEMMA Signals ==
  ASSUME Types, RoomLeft, Patient, NEW p \in PC, Waited, ResetAndSignal(p)
  PROVE  /\ \A q \in PC : Clear(q)
         /\ line' = [line EXCEPT ![Other(p)] = BytesOf(signal1)]
         /\ rx' = rx /\ inQueue' = inQueue /\ overrun' = overrun
         /\ stored' = stored /\ read' = read /\ sent' \in [PC -> Nat]
<1>1. \A q \in PC : Clear(q)
  BY DEF Waited, Patient, Quiet, Clear
<1>2. Other(p) \in PC
  BY TwoPCs
<1>3. AfterClear(p) = {<< >>}
  BY <1>1, <1>2 DEF AfterClear, Clear
<1>4. Accepted(p, BytesOf(signal1)) = {BytesOf(signal1)}
  BY DEF Accepted, Patient, RoomLeft
<1>5. << >> \o BytesOf(signal1) = BytesOf(signal1)
  BY DEF BytesOf
<1>6. line' = [line EXCEPT ![Other(p)] = BytesOf(signal1)]
  BY <1>3, <1>4, <1>5 DEF ResetAndSignal
<1>7. rx' = rx /\ inQueue' = inQueue
  BY <1>1 DEF ResetAndSignal, serialPort_resetFIFO, Clear, Types
<1>8. overrun' = overrun
  <2>1. overrun' = [overrun EXCEPT ![p] = FALSE] /\ overrun[p] = FALSE
    BY DEF ResetAndSignal, RoomLeft
  <2>2. QED
    BY <2>1 DEF Types
<1>9. stored' = stored /\ read' = read /\ sent' \in [PC -> Nat]
  BY DEF ResetAndSignal, Types
<1>10. QED
  BY <1>1, <1>6, <1>7, <1>8, <1>9

(* What the signal then makes of the two sides.                            *)
LEMMA SignalSides ==
  ASSUME Types, NEW p \in PC, \A q \in PC : Clear(q),
         line' = [line EXCEPT ![Other(p)] = BytesOf(signal1)],
         rx' = rx, inQueue' = inQueue, stored' = stored
  PROVE  line' \in [PC -> Seq(Bytes8)] /\ Clear(p)' /\ Announced(Other(p))'
<1> DEFINE o == Other(p)
           b == BytesOf(signal1)
<1>1. o \in PC /\ o # p
  BY TwoPCs
<1>2. b \in Seq(Bytes8)
  BY TwoBytes, WordAssumption DEF Word16
<1> HIDE DEF o, b
<1>3. line' \in [PC -> Seq(Bytes8)] /\ line'[p] = line[p] /\ line'[o] = b
  BY <1>1, <1>2 DEF Types, o, b
<1>4. Clear(p)'
  BY <1>3 DEF Clear
<1>5. stored'[o] = << >> /\ inQueue'[o] = << >> /\ rx'[o] = << >>
  BY <1>1 DEF Clear
<1>6. Flow(<< >>, << >>, << >>, b) = b
  <2>1. << >> \in Seq(Bytes8) /\ Held(<< >>) = << >>
    BY DEF Held
  <2>2. Cat(<< >>, << >>) = << >> /\ Cat(<< >>, b) = b
    BY <1>2, <2>1, CatLaws, Zenon
  <2>3. QED
    BY <2>1, <2>2, Zenon DEF Flow
<1>7. In(o)' = b
  BY <1>3, <1>5, <1>6 DEF In
<1>8. Announced(o)'
  BY <1>5, <1>7 DEF Announced, b
<1>9. QED
  BY <1>3, <1>4, <1>8 DEF o

(* A message goes out whole, to the end of the other one's stream.         *)
LEMMA Transmits ==
  ASSUME Types, RoomLeft, Patient, NEW p \in PC, NEW m \in Messages, Transmit(p, m)
  PROVE  /\ Types' /\ UNCHANGED <<mainState, is_main_pc, rx, inQueue, stored, read>>
         /\ \A q \in PC : mainState[q] = "GAME"
         /\ In(p)' = In(p) /\ Bytes(m) \in Seq(Bytes8) /\ In(Other(p)) \in Seq(Bytes8)
         /\ In(Other(p))' = Cat(In(Other(p)), Bytes(m))
<1> DEFINE o == Other(p)
           b == Bytes(m)
<1>1. o \in PC /\ o # p
  BY TwoPCs
<1>2. m \in Taken /\ b \in Seq(Bytes8)
  <2>1. m \in Taken
    BY SessionAssumption DEF Taken, Word16
  <2>2. QED
    BY <2>1, MessageBytes
<1> HIDE DEF o, b
<1>3. Accepted(p, b) = {b}
  BY DEF Accepted, Patient, RoomLeft
<1>4. line' = [line EXCEPT ![o] = Cat(@, b)]
  BY <1>3 DEF Transmit, o, b, Cat
<1>5. /\ UNCHANGED <<mainState, is_main_pc, rx, irq, inQueue, stored, read>>
      /\ overrun' = [overrun EXCEPT ![p] = FALSE] /\ sent' = [sent EXCEPT ![p] = @ + 1]
      /\ \A q \in PC : mainState[q] = "GAME"
  BY DEF Transmit, Patient
<1>6. /\ line[o] \in Seq(Bytes8) /\ rx[o] \in Seq(Bytes8) /\ inQueue[o] \in Seq(Bytes8)
      /\ stored[o] \in Store
  BY <1>1, TypesAt
<1>7. Cat(line[o], b) \in Seq(Bytes8)
  BY <1>2, <1>6, CatLaws, Zenon
<1>8. line' \in [PC -> Seq(Bytes8)] /\ line'[p] = line[p] /\ line'[o] = Cat(line[o], b)
  BY <1>1, <1>4, <1>7 DEF Types
<1>9. Types'
  <2>1. overrun' \in [PC -> BOOLEAN] /\ sent' \in [PC -> Nat]
    BY <1>5 DEF Types
  <2>2. QED
    BY <1>5, <1>8, <2>1 DEF Types
<1>10. In(p)' = In(p)
  BY <1>5, <1>8 DEF In
<1>11. In(o) \in Seq(Bytes8) /\ In(o)' = Cat(In(o), b)
  <2> DEFINE s == stored[o]
             q == inQueue[o]
             r == rx[o]
             l == line[o]
  <2>1. In(o) = Flow(s, q, r, l) /\ In(o)' = Flow(s, q, r, Cat(l, b))
    BY <1>5, <1>8 DEF In
  <2>2. s \in Store /\ q \in Seq(Bytes8) /\ r \in Seq(Bytes8) /\ l \in Seq(Bytes8)
    BY <1>6
  <2> HIDE DEF s, q, r, l
  <2>3. Flow(s, q, r, l) \in Seq(Bytes8) /\ Flow(s, q, r, Cat(l, b)) = Cat(Flow(s, q, r, l), b)
    BY <1>2, <2>2, FlowSends
  <2>4. QED
    BY <2>1, <2>3
<1>12. QED
  BY <1>2, <1>5, <1>9, <1>10, <1>11 DEF o, b

(* A byte arrives; with room left it is not the one that overruns.         *)
LEMMA Arrives ==
  ASSUME Types, RoomLeft, RoomLeft', NEW p \in PC, Arrive(p)
  PROVE  /\ Types' /\ UNCHANGED <<mainState, is_main_pc, inQueue, stored, read>>
         /\ line[p] # << >> /\ In(p)' = In(p)
         /\ line'[Other(p)] = line[Other(p)] /\ rx'[Other(p)] = rx[Other(p)]
<1> DEFINE r == rx[p]
           l == line[p]
<1>0. r \in Seq(Bytes8) /\ l \in Seq(Bytes8) /\ inQueue[p] \in Seq(Bytes8) /\ stored[p] \in Store
  BY TypesAt
<1>1. /\ l # << >> /\ line' = [line EXCEPT ![p] = Tail(l)]
      /\ UNCHANGED <<mainState, is_main_pc, inQueue, stored, read, sent>>
  BY DEF Arrive
<1>2. rx' = [rx EXCEPT ![p] = Append(r, Head(l))] /\ overrun' = overrun
  <2>1. CASE Len(rx[p]) < FifoDepth
    BY <2>1 DEF Arrive
  <2>2. CASE ~(Len(rx[p]) < FifoDepth)
    <3>1. overrun' = [overrun EXCEPT ![p] = TRUE]
      BY <2>2 DEF Arrive
    <3>2. overrun'[p] = TRUE
      BY <3>1 DEF Types
    <3>3. QED
      BY <3>2 DEF RoomLeft
  <2>3. QED
    BY <2>1, <2>2
<1>3. /\ Append(r, Head(l)) \in Seq(Bytes8) /\ Tail(l) \in Seq(Bytes8)
      /\ Flow(stored[p], inQueue[p], Append(r, Head(l)), Tail(l)) = Flow(stored[p], inQueue[p], r, l)
  <2> DEFINE s == stored[p]
             q == inQueue[p]
  <2>1. s \in Store /\ q \in Seq(Bytes8)
    BY <1>0
  <2> HIDE DEF r, l, s, q
  <2>2. /\ Append(r, Head(l)) \in Seq(Bytes8) /\ Tail(l) \in Seq(Bytes8)
        /\ Flow(s, q, Append(r, Head(l)), Tail(l)) = Flow(s, q, r, l)
    BY <1>0, <1>1, <2>1, FlowArrives
  <2>3. QED
    BY <2>2 DEF s, q
<1> DEFINE a == Append(r, Head(l))
           t == Tail(l)
<1>4. a \in Seq(Bytes8) /\ t \in Seq(Bytes8) /\ rx' = [rx EXCEPT ![p] = a] /\ line' = [line EXCEPT ![p] = t]
  BY <1>1, <1>2, <1>3
<1>5. In(p) = Flow(stored[p], inQueue[p], a, t)
  BY <1>3 DEF In
<1> HIDE DEF a, t, r, l
<1>6. /\ rx' \in [PC -> Seq(Bytes8)] /\ line' \in [PC -> Seq(Bytes8)]
      /\ rx'[p] = a /\ line'[p] = t
      /\ line'[Other(p)] = line[Other(p)] /\ rx'[Other(p)] = rx[Other(p)]
  BY <1>4, TwoPCs DEF Types
<1>7. Types'
  BY <1>1, <1>2, <1>6 DEF Types
<1>8. In(p)' = In(p)
  BY <1>1, <1>5, <1>6 DEF In
<1>9. QED
  BY <1>1, <1>6, <1>7, <1>8 DEF l

(* sp_int in a match, in terms of the stream.                              *)
LEMMA GameStep ==
  ASSUME Types, RoomLeft, NEW p \in PC, sp_int_game(p), sent' = sent
  PROVE  /\ Types' /\ UNCHANGED <<is_main_pc, line>>
         /\ \A o \in PC \ {p} : rx'[o] = rx[o] /\ inQueue'[o] = inQueue[o] /\ stored'[o] = stored[o]
         /\ In(p) \in Seq(Bytes8) /\ In(p)' \in Seq(Bytes8) /\ rx'[p] = << >>
         /\ \/ /\ mainState' = mainState /\ read' = read /\ In(p)' = In(p)
               /\ stored'[p] = << >> \/ \E w \in Word16 : w # signal1 /\ stored'[p] = <<w>>
            \/ /\ mainState' = [mainState EXCEPT ![p] = "MAIN_MENU"] /\ read' = read
               /\ stored'[p] = << >> /\ In(p) = Cat(BytesOf(signal1), In(p)')
            \/ /\ mainState' = mainState
               /\ \E m \in Taken : /\ m # <<signal1>> /\ read' = [read EXCEPT ![p] = m]
                                   /\ In(p) = Cat(Bytes(m), In(p)')
<1> DEFINE c == Collected(p)
           l == line[p]
           a == Held(stored[p])
<1>1. /\ rx' = [rx EXCEPT ![p] = << >>] /\ overrun' = overrun /\ line' = line
      /\ is_main_pc' = is_main_pc
      /\ TakesNothing(p, c) \/ TakesSignal(p, c) \/ TakesMessage(p, c)
  BY GameTakes
<1>2. PICK q \in Seq(Bytes8) : inQueue' = [inQueue EXCEPT ![p] = q]
  BY GameTakes
<1>3. PICK s \in Store : stored' = [stored EXCEPT ![p] = s]
  BY GameTakes
<1>4. /\ c \in Seq(Bytes8) /\ l \in Seq(Bytes8) /\ a \in Seq(Bytes8) /\ In(p) = Cat(Cat(a, c), l)
  BY CollectsAll, TypesAt, HeldType
<1> HIDE DEF c, a
<1>5. /\ << >> \in Seq(Bytes8)
      /\ inQueue' \in [PC -> Seq(Bytes8)] /\ stored' \in [PC -> Store] /\ rx' \in [PC -> Seq(Bytes8)]
      /\ inQueue'[p] = q /\ stored'[p] = s /\ rx'[p] = << >> /\ line'[p] = l
      /\ \A o \in PC \ {p} : rx'[o] = rx[o] /\ inQueue'[o] = inQueue[o] /\ stored'[o] = stored[o]
  BY <1>1, <1>2, <1>3 DEF Types
<1> DEFINE h == Held(s)
<1>6. h \in Seq(Bytes8)
  BY HeldType
<1> HIDE DEF l
<1>7. In(p)' = Cat(Cat(h, q), l)
  <2>1. In(p)' = Cat(Cat(h, q), Cat(<< >>, l))
    BY <1>5 DEF In, Flow
  <2>2. Cat(<< >>, l) = l
    BY <1>4, CatLaws, Zenon
  <2>3. QED
    BY <2>1, <2>2
<1>8. s = << >> => h = << >> /\ In(p)' = Cat(q, l)
  <2>1. s = << >> => h = << >>
    BY DEF Held
  <2>2. Cat(<< >>, q) = q
    BY CatLaws, Zenon
  <2>3. QED
    BY <1>7, <2>1, <2>2
<1> HIDE DEF h
<1>9. /\ Cat(a, c) \in Seq(Bytes8) /\ Cat(h, q) \in Seq(Bytes8) /\ In(p) \in Seq(Bytes8)
      /\ In(p)' \in Seq(Bytes8)
  <2>1. Cat(a, c) \in Seq(Bytes8) /\ Cat(h, q) \in Seq(Bytes8)
    BY <1>4, <1>6, CatLaws, Zenon
  <2>2. Cat(Cat(a, c), l) \in Seq(Bytes8) /\ Cat(Cat(h, q), l) \in Seq(Bytes8)
    BY <1>4, <2>1, CatLaws, Zenon
  <2>3. QED
    BY <1>4, <1>7, <2>1, <2>2
<1>10. ASSUME NEW b \in Seq(Bytes8), s = << >>, Cat(a, c) = Cat(b, q)
       PROVE  In(p) = Cat(b, In(p)')
  <2>1. Cat(Cat(b, q), l) = Cat(b, Cat(q, l))
    BY <1>4, CatLaws, ZenonT(45)
  <2>2. QED
    BY <1>4, <1>8, <1>10, <2>1
<1>11. CASE TakesNothing(p, c)
  <2>1. /\ mainState' = mainState /\ read' = read
        /\ s = << >> \/ \E w \in Word16 : w # signal1 /\ s = <<w>>
        /\ Cat(a, c) = Cat(h, q)
    BY <1>5, <1>11 DEF TakesNothing, a, h
  <2>2. Types'
    BY <1>1, <1>5, <2>1 DEF Types
  <2>3. In(p)' = In(p)
    BY <1>4, <1>7, <2>1
  <2>4. QED
    BY <1>1, <1>5, <1>9, <2>1, <2>2, <2>3
<1>12. CASE TakesSignal(p, c)
  <2>1. /\ mainState' = [mainState EXCEPT ![p] = "MAIN_MENU"] /\ read' = read
        /\ s = << >> /\ Cat(a, c) = Cat(BytesOf(signal1), q)
    BY <1>5, <1>12 DEF TakesSignal, a
  <2>2. Types'
    BY <1>1, <1>5, <2>1 DEF Types
  <2>3. BytesOf(signal1) \in Seq(Bytes8)
    BY TwoBytes, WordAssumption DEF Word16
  <2>4. In(p) = Cat(BytesOf(signal1), In(p)')
    BY <1>10, <2>1, <2>3
  <2>5. QED
    BY <1>1, <1>5, <1>9, <2>1, <2>2, <2>4
<1>13. CASE TakesMessage(p, c)
  <2>1. mainState' = mainState /\ s = << >>
    BY <1>5, <1>13 DEF TakesMessage
  <2>2. PICK m \in Taken : /\ m # <<signal1>> /\ read' = [read EXCEPT ![p] = m]
                           /\ Cat(a, c) = Cat(Bytes(m), q)
    BY <1>5, <1>13 DEF TakesMessage, a
  <2>3. Types'
    <3>1. read' = [r \in PC |-> read'[r]]
      <4>1. read = [r \in PC |-> read[r]]
        BY DEF Types
      <4>2. read' = [r \in PC |-> IF r = p THEN m ELSE read[r]]
        BY <2>2, <4>1
      <4>3. QED
        BY <4>2
    <3>2. QED
      BY <1>1, <1>5, <2>1, <3>1 DEF Types
  <2>4. Bytes(m) \in Seq(Bytes8)
    BY MessageBytes
  <2>5. In(p) = Cat(Bytes(m), In(p)')
    BY <1>10, <2>1, <2>2, <2>4
  <2>6. QED
    BY <1>1, <1>5, <1>9, <2>1, <2>2, <2>3, <2>5
<1>14. QED
  BY <1>1, <1>11, <1>12, <1>13

(* A handler that finds nothing changes nothing.                           *)
LEMMA NothingToRead ==
  ASSUME Types, RoomLeft, NEW p \in PC, Clear(p), sp_int_menu(p) \/ sp_int_game(p)
  PROVE  UNCHANGED <<mainState, is_main_pc, line, rx, overrun, inQueue, stored, read>>
<1>1. Collected(p) = << >>
  <2>1. Collected(p) = Cat(<< >>, << >>)
    BY CollectsAll DEF Clear
  <2>2. << >> \in Seq(Bytes8)
    OBVIOUS
  <2>3. QED
    BY <2>1, <2>2, CatLaws, Zenon
<1>2. ~WordReady(Collected(p))
  BY <1>1 DEF WordReady
<1>3. /\ [rx EXCEPT ![p] = << >>] = rx /\ [inQueue EXCEPT ![p] = << >>] = inQueue
      /\ [stored EXCEPT ![p] = << >>] = stored
      /\ [mainState EXCEPT ![p] = @] = mainState
  BY DEF Types, Clear
<1>4. [read EXCEPT ![p] = @] = read
  <2>1. read = [r \in PC |-> read[r]]
    BY DEF Types
  <2>2. [read EXCEPT ![p] = @] = [r \in PC |-> read[r]]
    BY <2>1
  <2>3. QED
    BY <2>1, <2>2
<1>5. sp_ih(p) => rx' = rx /\ overrun' = overrun
  BY <1>3, CollectsAll
<1>6. CASE sp_int_menu(p)
  BY <1>1, <1>2, <1>3, <1>5, <1>6 DEF sp_int_menu
<1>7. CASE sp_int_game(p)
  <2>1. stored[p] = << >>
    BY DEF Clear
  <2>2. /\ sp_ih(p) /\ UNCHANGED <<is_main_pc, line>>
        /\ inQueue' = [inQueue EXCEPT ![p] = Collected(p)] /\ stored' = [stored EXCEPT ![p] = << >>]
        /\ mainState' = [mainState EXCEPT ![p] = @] /\ read' = [read EXCEPT ![p] = @]
    BY <1>2, <1>7, <2>1 DEF sp_int_game
  <2>3. QED
    BY <1>1, <1>3, <1>4, <1>5, <2>2
<1>8. QED
  BY <1>6, <1>7

(* In the menu, a signal that is whole starts a match; one that is not     *)
(* waits.                                                                  *)
LEMMA MenuStep ==
  ASSUME Types, RoomLeft, NEW p \in PC, sp_int_menu(p), Announced(p), Clear(Other(p)), sent' = sent
  PROVE  /\ Types' /\ UNCHANGED <<stored, read>>
         /\ Clear(Other(p))'
         /\ \/ UNCHANGED <<mainState, is_main_pc, line>> /\ Announced(p)'
            \/ /\ Clear(p)' /\ mainState' = [mainState EXCEPT ![p] = "GAME"]
               /\ is_main_pc' = [is_main_pc EXCEPT ![p] = FALSE]
<1> DEFINE c == Collected(p)
           l == line[p]
           o == Other(p)
<1>0. o \in PC /\ o # p
  BY TwoPCs
<1>1. /\ c \in Seq(Bytes8) /\ l \in Seq(Bytes8) /\ stored[p] = << >> /\ Held(<< >>) = << >>
      /\ In(p) = Cat(Cat(<< >>, c), l) /\ In(p) = BytesOf(signal1)
      /\ sp_ih(p) => rx' = [rx EXCEPT ![p] = << >>] /\ overrun' = overrun
  BY CollectsAll, TypesAt DEF Announced, Held
<1> HIDE DEF c, l, o
<1>2. Cat(c, l) = BytesOf(signal1)
  BY <1>1, CatLaws
<1>3. ASSUME WordReady(c)
      PROVE  NextWord(c) = signal1 /\ l = << >>
  <2> DEFINE w == NextWord(c)
             d == AfterWord(c)
  <2>1. w \in Word16 /\ d \in Seq(Bytes8) /\ c = Cat(BytesOf(w), d) /\ signal1 \in Word16
    BY <1>1, <1>3, ReadWord, WordAssumption DEF Cat, Word16
  <2> HIDE DEF w, d
  <2>2. BytesOf(w) \in Seq(Bytes8)
    BY <2>1, TwoBytes
  <2>3. Cat(BytesOf(w), Cat(d, l)) = BytesOf(signal1) /\ Cat(d, l) \in Seq(Bytes8)
    BY <1>1, <1>2, <2>1, <2>2, CatLaws
  <2>4. w = signal1 /\ Cat(d, l) = << >>
    BY <2>1, <2>3, OneWord
  <2>5. QED
    BY <1>1, <2>1, <2>4, CatNothing DEF w
<1>4. CASE ~WordReady(c)
  <2>1. /\ inQueue' = [inQueue EXCEPT ![p] = c] /\ sp_ih(p)
        /\ UNCHANGED <<mainState, is_main_pc, line, stored, read>>
    BY <1>4 DEF sp_int_menu, c
  <2>2. rx' = [rx EXCEPT ![p] = << >>] /\ overrun' = overrun
    BY <1>1, <2>1
  <2>3. /\ << >> \in Seq(Bytes8)
        /\ inQueue' \in [PC -> Seq(Bytes8)] /\ rx' \in [PC -> Seq(Bytes8)]
        /\ inQueue'[p] = c /\ rx'[p] = << >> /\ inQueue'[o] = inQueue[o] /\ rx'[o] = rx[o]
    BY <1>0, <1>1, <2>1, <2>2 DEF Types
  <2>4. Types'
    BY <2>1, <2>2, <2>3 DEF Types
  <2>5. In(p)' = Cat(Cat(<< >>, c), Cat(<< >>, l))
    BY <1>1, <2>1, <2>3 DEF In, Flow, l
  <2>6. Cat(<< >>, l) = l
    BY <1>1, CatLaws, Zenon
  <2>7. Announced(p)'
    BY <1>1, <2>1, <2>5, <2>6 DEF Announced
  <2>8. Clear(o)'
    BY <2>1, <2>3 DEF Clear, o
  <2>9. QED
    BY <2>1, <2>4, <2>7, <2>8 DEF o
<1>5. CASE WordReady(c)
  <2>1. /\ serialPort_resetFIFO(p) /\ Enter(p, "GAME") /\ UNCHANGED <<stored, read>>
        /\ \E out \in AfterClear(p) : line' = [line EXCEPT ![Other(p)] = out]
        /\ overrun' = [overrun EXCEPT ![p] = @ /\ rx[p] = << >>]
        /\ is_main_pc' = [is_main_pc EXCEPT ![p] = FALSE]
    BY <1>3, <1>5 DEF sp_int_menu, c
  <2>2. line' = line
    <3>1. line[o] = << >>
      BY DEF Clear, o
    <3>2. AfterClear(p) = {<< >>}
      BY <3>1 DEF AfterClear, o
    <3>3. line' = [line EXCEPT ![o] = << >>]
      BY <2>1, <3>2 DEF o
    <3>4. QED
      BY <1>0, <3>1, <3>3 DEF Types
  <2>3. /\ << >> \in Seq(Bytes8)
        /\ inQueue' \in [PC -> Seq(Bytes8)] /\ rx' \in [PC -> Seq(Bytes8)]
        /\ inQueue'[p] = << >> /\ rx'[p] = << >> /\ inQueue'[o] = inQueue[o] /\ rx'[o] = rx[o]
    BY <1>0, <2>1 DEF Types, serialPort_resetFIFO
  <2>4. /\ mainState' = [mainState EXCEPT ![p] = "GAME"] /\ overrun' \in [PC -> BOOLEAN]
        /\ mainState' \in [PC -> {"MAIN_MENU", "GAME"}] /\ is_main_pc' \in [PC -> BOOLEAN]
    BY <2>1 DEF Types, Enter
  <2>5. Types'
    BY <2>1, <2>2, <2>3, <2>4 DEF Types
  <2>6. Clear(p)'
    BY <1>1, <1>3, <1>5, <2>1, <2>2, <2>3 DEF Clear, l
  <2>7. Clear(o)'
    BY <2>1, <2>2, <2>3 DEF Clear, o
  <2>8. QED
    BY <2>1, <2>4, <2>5, <2>6, <2>7 DEF o
<1>6. QED
  BY <1>4, <1>5

-----------------------------------------------------------------------------
(* One step of patient players, phase by phase.                            *)

(* What they do not do: rules, clock, exit.                                *)
LEMMA PatientSteps ==
  ASSUME Types, Patient, Next
  PROVE  \E p \in PC :
           \/ start(p) \/ quit(p) \/ Arrive(p) \/ \E m \in Messages : Transmit(p, m)
           \/ sp_int_menu(p) /\ mainState[p] = "MAIN_MENU" /\ sent' = sent
           \/ sp_int_game(p) /\ mainState[p] = "GAME" /\ sent' = sent
<1>1. PICK p \in PC : \/ start(p) \/ quit(p) \/ OtherKeys(p) \/ verdict(p) \/ popOutButtons(p)
                      \/ Arrive(p) \/ sp_int(p) \/ \E m \in Messages : Transmit(p, m)
  BY DEF Next
<1>2. mainState[p] \in {"MAIN_MENU", "GAME"}
  BY TypesAt
<1>3. ~OtherKeys(p)
  BY <1>2 DEF OtherKeys, Patient
<1>4. ~verdict(p) /\ ~popOutButtons(p) /\ ~sp_int_unread(p)
  BY <1>2 DEF verdict, popOutButtons, sp_int_unread, Patient
<1>5. CASE sp_int(p)
  BY <1>4, <1>5 DEF sp_int, sp_int_menu, sp_int_game
<1>6. QED
  BY <1>1, <1>3, <1>4, <1>5

(* A key of a patient player is pressed on a quiet line, and the signal is *)
(* then all that is under way.                                             *)
LEMMA Keys ==
  ASSUME Types, RoomLeft, Patient, NEW p \in PC, start(p) \/ quit(p)
  PROVE  /\ Types' /\ \A q \in PC : Clear(q)
         /\ Clear(p)' /\ Announced(Other(p))' /\ read' = read
         /\ \/ /\ mainState[p] = "MAIN_MENU" /\ mainState' = [mainState EXCEPT ![p] = "GAME"]
               /\ is_main_pc' = [is_main_pc EXCEPT ![p] = TRUE]
            \/ /\ mainState[p] = "GAME" /\ mainState' = [mainState EXCEPT ![p] = "MAIN_MENU"]
               /\ is_main_pc' = is_main_pc
<1>1. Waited /\ ResetAndSignal(p)
  BY DEF start, quit
<1>2. /\ \A q \in PC : Clear(q)
      /\ line' = [line EXCEPT ![Other(p)] = BytesOf(signal1)]
      /\ rx' = rx /\ inQueue' = inQueue /\ overrun' = overrun
      /\ stored' = stored /\ read' = read /\ sent' \in [PC -> Nat]
  BY <1>1, Signals
<1>3. line' \in [PC -> Seq(Bytes8)] /\ Clear(p)' /\ Announced(Other(p))'
  BY <1>2, SignalSides
<1>4. \/ /\ mainState[p] = "MAIN_MENU" /\ mainState' = [mainState EXCEPT ![p] = "GAME"]
         /\ is_main_pc' = [is_main_pc EXCEPT ![p] = TRUE]
      \/ /\ mainState[p] = "GAME" /\ mainState' = [mainState EXCEPT ![p] = "MAIN_MENU"]
         /\ is_main_pc' = is_main_pc
  BY DEF start, quit, Enter, Patient
<1>5. mainState' \in [PC -> {"MAIN_MENU", "GAME"}] /\ is_main_pc' \in [PC -> BOOLEAN]
  BY <1>4 DEF Types
<1>6. Types'
  BY <1>2, <1>3, <1>5 DEF Types
<1>7. QED
  BY <1>2, <1>3, <1>4, <1>6

(* Neither plays: they stay so, or one of them starts a match.             *)
LEMMA FromApart ==
  ASSUME Types, RoomLeft, RoomLeft', Patient, Apart, Next
  PROVE  /\ Types' /\ read' = read
         /\ \/ Apart'
            \/ \E p \in PC : Joining(p)'
<1>1. PICK p \in PC :
           \/ start(p) \/ quit(p) \/ Arrive(p) \/ \E m \in Messages : Transmit(p, m)
           \/ sp_int_menu(p) /\ mainState[p] = "MAIN_MENU" /\ sent' = sent
           \/ sp_int_game(p) /\ mainState[p] = "GAME" /\ sent' = sent
  BY PatientSteps, Zenon
<1>2. mainState[p] = "MAIN_MENU" /\ Clear(p) /\ mainState[Other(p)] = "MAIN_MENU"
  BY TwoPCs DEF Apart
<1>3. CASE start(p) \/ quit(p)
  <2>1. /\ Types' /\ Clear(p)' /\ Announced(Other(p))' /\ read' = read
        /\ mainState' = [mainState EXCEPT ![p] = "GAME"]
        /\ is_main_pc' = [is_main_pc EXCEPT ![p] = TRUE]
    BY <1>2, <1>3, Keys
  <2>2. mainState'[p] = "GAME" /\ is_main_pc'[p] = TRUE /\ mainState'[Other(p)] = "MAIN_MENU"
    BY <1>2, <2>1, TwoPCs DEF Types
  <2>3. Joining(p)'
    BY <2>1, <2>2 DEF Joining
  <2>4. QED
    BY <2>1, <2>3
<1>4. CASE Arrive(p)
  BY <1>2, <1>4 DEF Arrive, Clear
<1>5. ASSUME NEW m \in Messages, Transmit(p, m)
      PROVE  FALSE
  BY <1>2, <1>5, Transmits
<1>6. CASE sp_int_menu(p) /\ sent' = sent
  <2>1. UNCHANGED <<mainState, is_main_pc, line, rx, overrun, inQueue, stored, read>>
    BY <1>2, <1>6, NothingToRead
  <2>2. Types' /\ Apart'
    BY <1>6, <2>1 DEF Types, Apart, Clear
  <2>3. QED
    BY <2>1, <2>2
<1>7. QED
  BY <1>1, <1>2, <1>3, <1>4, <1>5, <1>6

(* A handler or a byte that leaves two sides of the line as they are.      *)
LEMMA SidesKept ==
  ASSUME Types, RoomLeft, RoomLeft', Patient, NEW p \in PC, Clear(p), Announced(Other(p)),
         NEW q \in PC, Arrive(q)
  PROVE  /\ Types' /\ UNCHANGED <<mainState, is_main_pc, read>> /\ Clear(p)' /\ Announced(Other(p))'
<1>1. /\ Types' /\ UNCHANGED <<mainState, is_main_pc, inQueue, stored, read>>
      /\ line[q] # << >> /\ In(q)' = In(q)
      /\ line'[Other(q)] = line[Other(q)] /\ rx'[Other(q)] = rx[Other(q)]
  BY Arrives
<1>2. q = Other(p) /\ Other(q) = p
  BY <1>1, TwoPCs DEF Clear
<1>3. Clear(p)'
  BY <1>1, <1>2, SameSide
<1>4. Announced(Other(p))'
  BY <1>1, <1>2 DEF Announced
<1>5. QED
  BY <1>1, <1>3, <1>4

(* One has started: the other one joins when it has read the signal.       *)
LEMMA FromJoining ==
  ASSUME Types, RoomLeft, RoomLeft', Patient, NEW p \in PC, Joining(p), Next
  PROVE  /\ Types' /\ read' = read
         /\ \/ Joining(p)' /\ is_main_pc' = is_main_pc
            \/ Match' /\ is_main_pc' = [is_main_pc EXCEPT ![Other(p)] = FALSE]
<1> DEFINE o == Other(p)
<1>0. o \in PC /\ o # p /\ Other(o) = p /\ \A q \in PC : q = p \/ q = o
  BY TwoPCs
<1>1. PICK q \in PC :
           \/ start(q) \/ quit(q) \/ Arrive(q) \/ \E m \in Messages : Transmit(q, m)
           \/ sp_int_menu(q) /\ mainState[q] = "MAIN_MENU" /\ sent' = sent
           \/ sp_int_game(q) /\ mainState[q] = "GAME" /\ sent' = sent
  BY PatientSteps, Zenon
<1>2. /\ mainState[p] = "GAME" /\ Clear(p) /\ mainState[o] = "MAIN_MENU" /\ Announced(o)
  BY DEF Joining
<1> HIDE DEF o
<1>3. ~start(q) /\ ~quit(q)
  BY <1>0, <1>2, Keys, NotQuiet
<1>4. CASE Arrive(q)
  <2>1. /\ Types' /\ UNCHANGED <<mainState, is_main_pc, read>> /\ Clear(p)' /\ Announced(o)'
    BY <1>2, <1>4, SidesKept DEF o
  <2>2. QED
    BY <2>1 DEF Joining, o
<1>5. ASSUME NEW m \in Messages, Transmit(q, m)
      PROVE  FALSE
  <2>1. mainState[o] = "GAME"
    BY <1>0, <1>5, Transmits
  <2>2. QED
    BY <1>2, <2>1
<1>6. CASE sp_int_game(q) /\ mainState[q] = "GAME" /\ sent' = sent
  <2>1. q = p
    BY <1>0, <1>2, <1>6
  <2>2. UNCHANGED <<mainState, is_main_pc, line, rx, overrun, inQueue, stored, read>>
    BY <1>2, <1>6, <2>1, NothingToRead
  <2>3. Types' /\ Joining(p)'
    BY <1>0, <1>6, <2>2, SameSide DEF Types, Joining, o
  <2>4. QED
    BY <2>2, <2>3
<1>7. CASE sp_int_menu(q) /\ mainState[q] = "MAIN_MENU" /\ sent' = sent
  <2>1. q = o
    BY <1>0, <1>2, <1>7
  <2>2. /\ Types' /\ read' = read /\ Clear(p)'
        /\ \/ UNCHANGED <<mainState, is_main_pc, line>> /\ Announced(o)'
           \/ /\ Clear(o)' /\ mainState' = [mainState EXCEPT ![o] = "GAME"]
              /\ is_main_pc' = [is_main_pc EXCEPT ![o] = FALSE]
    BY <1>0, <1>2, <1>7, <2>1, MenuStep
  <2>3. CASE UNCHANGED <<mainState, is_main_pc, line>> /\ Announced(o)'
    BY <2>2, <2>3 DEF Joining, o
  <2>4. CASE /\ Clear(o)' /\ mainState' = [mainState EXCEPT ![o] = "GAME"]
             /\ is_main_pc' = [is_main_pc EXCEPT ![o] = FALSE]
    <3>1. \A r \in PC : mainState'[r] = "GAME"
      BY <1>0, <1>2, <2>4 DEF Types
    <3>2. \A r \in PC : Clear(r)'
      BY <1>0, <2>2, <2>4
    <3>3. \A r \in PC : Clear(r)' => Spoken(r)'
      BY ClearSide
    <3>4. Match'
      BY <3>1, <3>2, <3>3 DEF Match
    <3>5. QED
      BY <2>2, <2>4, <3>4 DEF o
  <2>5. QED
    BY <2>2, <2>3, <2>4
<1>8. QED
  BY <1>1, <1>3, <1>4, <1>5, <1>6, <1>7

(* One has left: the other one follows when it has read the signal.        *)
LEMMA FromLeaving ==
  ASSUME Types, RoomLeft, RoomLeft', Patient, NEW p \in PC, Leaving(p), Next
  PROVE  /\ Types' /\ read' = read /\ is_main_pc' = is_main_pc
         /\ Leaving(p)' \/ Apart'
<1> DEFINE o == Other(p)
<1>0. o \in PC /\ o # p /\ Other(o) = p /\ \A q \in PC : q = p \/ q = o
  BY TwoPCs
<1>1. PICK q \in PC :
           \/ start(q) \/ quit(q) \/ Arrive(q) \/ \E m \in Messages : Transmit(q, m)
           \/ sp_int_menu(q) /\ mainState[q] = "MAIN_MENU" /\ sent' = sent
           \/ sp_int_game(q) /\ mainState[q] = "GAME" /\ sent' = sent
  BY PatientSteps, Zenon
<1>2. /\ mainState[p] = "MAIN_MENU" /\ Clear(p) /\ mainState[o] = "GAME" /\ Announced(o)
  BY DEF Leaving
<1> HIDE DEF o
<1>3. ~start(q) /\ ~quit(q)
  BY <1>0, <1>2, Keys, NotQuiet
<1>4. CASE Arrive(q)
  <2>1. /\ Types' /\ UNCHANGED <<mainState, is_main_pc, read>> /\ Clear(p)' /\ Announced(o)'
    BY <1>2, <1>4, SidesKept DEF o
  <2>2. QED
    BY <2>1 DEF Leaving, o
<1>5. ASSUME NEW m \in Messages, Transmit(q, m)
      PROVE  FALSE
  <2>1. mainState[p] = "GAME"
    BY <1>0, <1>5, Transmits
  <2>2. QED
    BY <1>2, <2>1
<1>6. CASE sp_int_menu(q) /\ mainState[q] = "MAIN_MENU" /\ sent' = sent
  <2>1. q = p
    BY <1>0, <1>2, <1>6
  <2>2. UNCHANGED <<mainState, is_main_pc, line, rx, overrun, inQueue, stored, read>>
    BY <1>2, <1>6, <2>1, NothingToRead
  <2>3. Types' /\ Leaving(p)'
    BY <1>0, <1>6, <2>2, SameSide DEF Types, Leaving, o
  <2>4. QED
    BY <2>2, <2>3
<1>7. CASE sp_int_game(q) /\ mainState[q] = "GAME" /\ sent' = sent
  <2>1. q = o
    BY <1>0, <1>2, <1>7
  <2>2. /\ Types' /\ UNCHANGED <<is_main_pc, line>>
        /\ rx'[p] = rx[p] /\ inQueue'[p] = inQueue[p] /\ stored'[p] = stored[p]
        /\ In(o) \in Seq(Bytes8) /\ In(o)' \in Seq(Bytes8) /\ rx'[o] = << >>
        /\ \/ /\ mainState' = mainState /\ read' = read /\ In(o)' = In(o)
              /\ stored'[o] = << >> \/ \E w \in Word16 : w # signal1 /\ stored'[o] = <<w>>
           \/ /\ mainState' = [mainState EXCEPT ![o] = "MAIN_MENU"] /\ read' = read
              /\ stored'[o] = << >> /\ In(o) = Cat(BytesOf(signal1), In(o)')
           \/ /\ mainState' = mainState
              /\ \E m \in Taken : /\ m # <<signal1>> /\ read' = [read EXCEPT ![o] = m]
                                  /\ In(o) = Cat(Bytes(m), In(o)')
    BY <1>0, <1>7, <2>1, GameStep
  <2>3. Clear(p)'
    BY <1>2, <2>2 DEF Clear
  <2>4. In(o) = BytesOf(signal1) /\ signal1 \in Word16
    BY <1>2, WordAssumption DEF Announced, Word16
  <2>5. CASE /\ mainState' = mainState /\ read' = read /\ In(o)' = In(o)
             /\ stored'[o] = << >> \/ \E w \in Word16 : w # signal1 /\ stored'[o] = <<w>>
    <3>1. ASSUME NEW w \in Word16, w # signal1, stored'[o] = <<w>>
          PROVE  FALSE
      <4> DEFINE i == inQueue'[o]
                 l == line'[o]
                 b == BytesOf(w)
      <4>1. i \in Seq(Bytes8) /\ l \in Seq(Bytes8) /\ b \in Seq(Bytes8) /\ << >> \in Seq(Bytes8)
        BY <1>0, <2>2, TwoBytes DEF Types
      <4>2. Held(<<w>>) = b
        BY DEF Held
      <4>3. In(o)' = Cat(Cat(b, i), Cat(<< >>, l))
        BY <2>2, <3>1, <4>2 DEF In, Flow
      <4> HIDE DEF i, l
      <4>4. Cat(Cat(b, i), l) = BytesOf(signal1)
        BY <2>4, <2>5, <4>1, <4>3, CatLaws
      <4>5. Cat(b, Cat(i, l)) = BytesOf(signal1) /\ Cat(i, l) \in Seq(Bytes8)
        BY <4>1, <4>4, CatLaws
      <4>6. QED
        BY <2>4, <3>1, <4>5, OneWord
    <3>2. stored'[o] = << >>
      BY <2>5, <3>1
    <3>3. Announced(o)'
      BY <2>4, <2>5, <3>2 DEF Announced
    <3>4. QED
      BY <1>2, <2>2, <2>3, <2>5, <3>3 DEF Leaving, o
  <2>6. CASE /\ mainState' = [mainState EXCEPT ![o] = "MAIN_MENU"] /\ read' = read
             /\ stored'[o] = << >> /\ In(o) = Cat(BytesOf(signal1), In(o)')
    <3>1. In(o)' = << >>
      BY <2>2, <2>4, <2>6, OneWord
    <3>2. Clear(o)'
      <4> DEFINE i == inQueue'[o]
                 l == line'[o]
      <4>1. i \in Seq(Bytes8) /\ l \in Seq(Bytes8) /\ << >> \in Seq(Bytes8) /\ Held(<< >>) = << >>
        BY <1>0, <2>2 DEF Types, Held
      <4>2. In(o)' = Cat(Cat(<< >>, i), Cat(<< >>, l))
        BY <2>2, <2>6, <4>1 DEF In, Flow
      <4> HIDE DEF i, l
      <4>3. Cat(<< >>, i) = i /\ Cat(<< >>, l) = l
        BY <4>1, CatLaws, Zenon
      <4>4. i = << >> /\ l = << >>
        BY <3>1, <4>1, <4>2, <4>3, CatNothing
      <4>5. QED
        BY <2>2, <2>6, <4>4 DEF Clear, i, l
    <3>3. \A r \in PC : mainState'[r] = "MAIN_MENU"
      BY <1>0, <1>2, <2>6 DEF Types
    <3>4. \A r \in PC : Clear(r)'
      BY <1>0, <2>3, <3>2
    <3>5. Apart'
      BY <3>3, <3>4 DEF Apart
    <3>6. QED
      BY <2>2, <2>6, <3>5
  <2>7. ASSUME NEW m \in Taken, m # <<signal1>>, In(o) = Cat(Bytes(m), In(o)')
        PROVE  FALSE
    BY <2>2, <2>4, <2>7, NoPair
  <2>8. QED
    BY <2>2, <2>5, <2>6, <2>7
<1>8. QED
  BY <1>1, <1>3, <1>4, <1>5, <1>6, <1>7

(* What is sent in a match joins what is under way.                        *)
LEMMA SpeaksOn ==
  ASSUME NEW w \in Seq(Bytes8), NEW m \in Messages,
         \E log \in Seq(Messages) : \E n \in 0 .. Len(log) : Coded(w, log, n)
  PROVE  \E log \in Seq(Messages) : \E n \in 0 .. Len(log) : Coded(Cat(w, Bytes(m)), log, n)
<1>0. PICK log \in Seq(Messages) : \E n \in 0 .. Len(log) : Coded(w, log, n)
  OBVIOUS
<1>1. PICK n \in 0 .. Len(log) : Coded(w, log, n)
  BY <1>0
<1>2. Messages \subseteq Taken /\ <<signal1>> \notin Messages
  <2>1. ASSUME NEW x \in Messages
        PROVE  x \in Taken /\ x # <<signal1>>
    BY SessionAssumption DEF Taken, Word16
  <2>2. QED
    BY <2>1
<1>3. m \in Taken /\ log \in Seq(Taken) /\ ~Ended(log)
  <2>1. m \in Taken /\ log \in Seq(Taken)
    BY <1>2
  <2>2. log # << >> => log[Len(log)] \in Messages
    OBVIOUS
  <2>3. QED
    BY <1>2, <2>1, <2>2 DEF Ended
<1>4. Coded(w \o Bytes(m), Append(log, m), n)
  BY <1>1, <1>3, SendsNext
<1>5. Append(log, m) \in Seq(Messages) /\ n \in 0 .. Len(Append(log, m))
  OBVIOUS
<1>6. QED
  BY <1>4, <1>5 DEF Cat

(* And what is taken off it was sent: signal1 was not.                     *)
LEMMA HeardAsSpoken ==
  ASSUME NEW w \in Seq(Bytes8), NEW v \in Seq(Bytes8), NEW m \in Taken, w = Cat(Bytes(m), v),
         \E log \in Seq(Messages) : \E n \in 0 .. Len(log) : Coded(w, log, n)
  PROVE  /\ m \in Messages /\ m # <<signal1>>
         /\ \E log \in Seq(Messages) : \E n \in 0 .. Len(log) : Coded(v, log, n)
<1>0. PICK log \in Seq(Messages) : \E n \in 0 .. Len(log) : Coded(w, log, n)
  OBVIOUS
<1>1. PICK n \in 0 .. Len(log) : Coded(w, log, n)
  BY <1>0
<1>2. ASSUME NEW x \in Messages
      PROVE  x \in Taken /\ x # <<signal1>>
  BY SessionAssumption DEF Taken, Word16
<1>3. log \in Seq(Taken)
  <2>1. Messages \subseteq Taken
    BY <1>2
  <2>2. QED
    BY <2>1
<1>4. n < Len(log) /\ m = log[n + 1] /\ Coded(v, log, n + 1)
  <2>1. w = Bytes(m) \o v
    BY DEF Cat
  <2>2. log # << >> => log[Len(log)] \in Messages
    OBVIOUS
  <2>3. ~Ended(log)
    BY <1>2, <2>2 DEF Ended
  <2>4. QED
    BY <1>1, <1>3, <2>1, <2>3, TakesNext
<1>5. n + 1 \in 1 .. Len(log) /\ n + 1 \in 0 .. Len(log)
  BY <1>4
<1>6. m \in Messages
  BY <1>4, <1>5
<1>7. QED
  BY <1>2, <1>4, <1>5, <1>6

(* Both play: they stay so, whatever they say, or one of them leaves.      *)
LEMMA FromMatch ==
  ASSUME Types, RoomLeft, RoomLeft', Patient, Match, ReadWasSent, Next
  PROVE  /\ Types' /\ ReadWasSent' /\ is_main_pc' = is_main_pc
         /\ Match' \/ \E p \in PC : Leaving(p)'
<1>1. PICK p \in PC :
           \/ start(p) \/ quit(p) \/ Arrive(p) \/ \E m \in Messages : Transmit(p, m)
           \/ sp_int_menu(p) /\ mainState[p] = "MAIN_MENU" /\ sent' = sent
           \/ sp_int_game(p) /\ mainState[p] = "GAME" /\ sent' = sent
  BY PatientSteps, Zenon
<1> DEFINE o == Other(p)
<1>0. o \in PC /\ o # p /\ \A q \in PC : q = p \/ q = o
  BY TwoPCs
<1>2. /\ mainState[p] = "GAME" /\ mainState[o] = "GAME" /\ Spoken(p) /\ Spoken(o)
  BY <1>0 DEF Match
<1> HIDE DEF o
<1>3. CASE start(p) \/ quit(p)
  <2>1. /\ Types' /\ Clear(p)' /\ Announced(o)' /\ read' = read
        /\ mainState' = [mainState EXCEPT ![p] = "MAIN_MENU"] /\ is_main_pc' = is_main_pc
    BY <1>2, <1>3, Keys DEF o
  <2>2. mainState'[p] = "MAIN_MENU" /\ mainState'[o] = "GAME"
    BY <1>0, <1>2, <2>1 DEF Types
  <2>3. Leaving(p)'
    BY <2>1, <2>2 DEF Leaving, o
  <2>4. QED
    BY <2>1, <2>3 DEF ReadWasSent
<1>4. CASE Arrive(p)
  <2>1. /\ Types' /\ UNCHANGED <<mainState, is_main_pc, inQueue, stored, read>>
        /\ In(p)' = In(p) /\ line'[o] = line[o] /\ rx'[o] = rx[o]
    BY <1>4, Arrives DEF o
  <2>2. Spoken(p)'
    BY <1>2, <2>1 DEF Spoken
  <2>3. Spoken(o)'
    BY <1>0, <1>2, <2>1, SameSide
  <2>4. Match'
    BY <1>0, <1>2, <2>1, <2>2, <2>3 DEF Match
  <2>5. QED
    BY <2>1, <2>4 DEF ReadWasSent
<1>5. ASSUME NEW m \in Messages, Transmit(p, m)
      PROVE  Types' /\ ReadWasSent' /\ is_main_pc' = is_main_pc /\ Match'
  <2>1. /\ Types' /\ UNCHANGED <<mainState, is_main_pc, rx, inQueue, stored, read>>
        /\ In(p)' = In(p) /\ In(o) \in Seq(Bytes8) /\ In(o)' = Cat(In(o), Bytes(m))
    BY <1>5, Transmits DEF o
  <2>2. Spoken(p)'
    BY <1>2, <2>1 DEF Spoken
  <2>3. Spoken(o)'
    <3> DEFINE w == In(o)
    <3>1. w \in Seq(Bytes8) /\ \E log \in Seq(Messages) : \E n \in 0 .. Len(log) : Coded(w, log, n)
      BY <1>2, <2>1 DEF Spoken
    <3> HIDE DEF w
    <3>2. \E log \in Seq(Messages) : \E n \in 0 .. Len(log) : Coded(Cat(w, Bytes(m)), log, n)
      BY <3>1, SpeaksOn
    <3>3. QED
      BY <2>1, <3>2 DEF Spoken, w
  <2>4. Match'
    BY <1>0, <1>2, <2>1, <2>2, <2>3 DEF Match
  <2>5. QED
    BY <2>1, <2>4 DEF ReadWasSent
<1>6. CASE sp_int_game(p) /\ sent' = sent
  <2>1. /\ Types' /\ UNCHANGED <<is_main_pc, line>>
        /\ rx'[o] = rx[o] /\ inQueue'[o] = inQueue[o] /\ stored'[o] = stored[o]
        /\ In(p) \in Seq(Bytes8) /\ In(p)' \in Seq(Bytes8)
        /\ \/ mainState' = mainState /\ read' = read /\ In(p)' = In(p)
           \/ In(p) = Cat(BytesOf(signal1), In(p)')
           \/ /\ mainState' = mainState
              /\ \E m \in Taken : /\ m # <<signal1>> /\ read' = [read EXCEPT ![p] = m]
                                  /\ In(p) = Cat(Bytes(m), In(p)')
    BY <1>0, <1>6, GameStep
  <2>2. Spoken(o)'
    BY <1>0, <1>2, <2>1, SameSide
  <2> DEFINE w == In(p)
             v == In(p)'
  <2>3. /\ w \in Seq(Bytes8) /\ v \in Seq(Bytes8)
        /\ \E log \in Seq(Messages) : \E n \in 0 .. Len(log) : Coded(w, log, n)
    BY <1>2, <2>1 DEF Spoken
  <2>4. CASE mainState' = mainState /\ read' = read /\ In(p)' = In(p)
    <3>1. Spoken(p)'
      BY <1>2, <2>4 DEF Spoken
    <3>2. Match'
      BY <1>0, <1>2, <2>2, <2>4, <3>1 DEF Match
    <3>3. QED
      BY <2>1, <2>4, <3>2 DEF ReadWasSent
  <2>5. CASE In(p) = Cat(BytesOf(signal1), In(p)')
    <3>1. <<signal1>> \in Taken /\ Bytes(<<signal1>>) = BytesOf(signal1)
      BY DEF Taken, Bytes
    <3>2. w = Cat(Bytes(<<signal1>>), v)
      BY <2>5, <3>1
    <3> HIDE DEF w, v
    <3>3. FALSE
      BY <2>3, <3>1, <3>2, HeardAsSpoken
    <3>4. QED
      BY <3>3
  <2>6. ASSUME NEW m \in Taken, mainState' = mainState, read' = [read EXCEPT ![p] = m],
               In(p) = Cat(Bytes(m), In(p)')
        PROVE  ReadWasSent' /\ Match'
    <3>1. w = Cat(Bytes(m), v)
      BY <2>6
    <3> HIDE DEF w, v
    <3>2. /\ m \in Messages
          /\ \E log \in Seq(Messages) : \E n \in 0 .. Len(log) : Coded(v, log, n)
      BY <2>3, <3>1, HeardAsSpoken
    <3>3. Spoken(p)'
      BY <3>2 DEF Spoken, v
    <3>4. Match'
      BY <1>0, <1>2, <2>2, <2>6, <3>3 DEF Match
    <3>5. ReadWasSent'
      <4>1. read = [r \in PC |-> read[r]]
        BY DEF Types
      <4>2. \A r \in PC : read'[r] = IF r = p THEN m ELSE read[r]
        BY <2>6, <4>1
      <4>3. QED
        BY <3>2, <4>2 DEF ReadWasSent
    <3>6. QED
      BY <3>4, <3>5
  <2>7. QED
    BY <2>1, <2>4, <2>5, <2>6
<1>7. QED
  BY <1>1, <1>2, <1>3, <1>4, <1>5, <1>6

(* The inductive invariant: the pair is in one of the four phases.         *)
InPhase == Apart \/ Match \/ (\E p \in PC : Joining(p)) \/ (\E p \in PC : Leaving(p))
IInv == Types /\ ReadWasSent /\ InPhase

(* The programs begin apart.                                               *)
LEMMA SessionStarts == Init => IInv
<1> SUFFICES ASSUME Init PROVE IInv
  OBVIOUS
<1>1. Types
  <2>1. << >> \in Seq(Bytes8) /\ << >> \in Store /\ 0 \in Nat
    BY DEF Store
  <2>2. QED
    BY <2>1 DEF Init, Types
<1>2. Apart
  BY DEF Init, Apart, Clear
<1>3. ReadWasSent
  BY DEF Init, ReadWasSent
<1>4. QED
  BY <1>1, <1>2, <1>3 DEF IInv, InPhase

(* And a step of patient players keeps them in a phase.                    *)
LEMMA SessionKept ==
  ASSUME Patient, IInv, RoomLeft, RoomLeft', [Next]_vars
  PROVE  IInv'
<1>1. CASE UNCHANGED vars
  <2>1. UNCHANGED <<mainState, is_main_pc, line, rx, overrun, inQueue, stored, read, sent>>
    BY <1>1 DEF vars
  <2>2. Types' /\ ReadWasSent'
    BY <2>1 DEF IInv, Types, ReadWasSent
  <2>3. InPhase'
    BY <2>1 DEF IInv, InPhase, Apart, Match, Joining, Leaving, Spoken, Announced, Clear, In
  <2>4. QED
    BY <2>2, <2>3 DEF IInv
<1>2. CASE Next
  <2>1. CASE Apart
    BY <1>2, <2>1, FromApart DEF IInv, InPhase, ReadWasSent
  <2>2. CASE Match
    BY <1>2, <2>2, FromMatch DEF IInv, InPhase
  <2>3. ASSUME NEW p \in PC, Joining(p)
        PROVE  IInv'
    BY <1>2, <2>3, FromJoining DEF IInv, InPhase, ReadWasSent
  <2>4. ASSUME NEW p \in PC, Leaving(p)
        PROVE  IInv'
    BY <1>2, <2>4, FromLeaving DEF IInv, InPhase, ReadWasSent
  <2>5. QED
    BY <2>1, <2>2, <2>3, <2>4 DEF IInv, InPhase
<1>3. QED
  BY <1>1, <1>2

(* As long as no UART overruns and no queue overflows, patient players     *)
(* only ever read messages that were sent, over any number of matches:     *)
(* what a quit or a start leaves behind is never taken for one.            *)
THEOREM PatientReadWhatWasSent ==
  ASSUME Patient
  PROVE  Spec /\ []RoomLeft => []ReadWasSent
<1>1. Init => IInv
  BY SessionStarts
<1>2. IInv /\ RoomLeft /\ RoomLeft' /\ [Next]_vars => IInv'
  BY SessionKept
<1>3. IInv => ReadWasSent
  BY DEF IInv
<1>4. QED
  BY <1>1, <1>2, <1>3, PTL DEF Spec

-----------------------------------------------------------------------------
(* The session implements Rendezvous.                                      *)

Main  == {p \in Playing : is_main_pc[p]}
Phase == CASE Playing = {} -> "apart"
           [] Playing = PC -> "match"
           [] OTHER -> IF \E p \in PC \ Playing : Addressed(p) THEN "joining" ELSE "leaving"

(* Nothing is under way when line, FIFO and queue are empty.               *)
LEMMA NothingUnderWay ==
  ASSUME NEW a \in Seq(Bytes8), NEW b \in Seq(Bytes8), NEW c \in Seq(Bytes8)
  PROVE  a \o b \o c = << >> <=> a = << >> /\ b = << >> /\ c = << >>
<1>1. Cat(a, b) \in Seq(Bytes8) /\ << >> \in Seq(Bytes8)
  BY CatLaws
<1>2. Cat(Cat(a, b), c) = << >> => Cat(a, b) = << >> /\ c = << >>
  BY <1>1, CatNothing
<1>3. Cat(a, b) = << >> => a = << >> /\ b = << >>
  BY CatNothing
<1>4. Cat(Cat(<< >>, << >>), << >>) = << >>
  BY <1>1, CatLaws
<1>5. Cat(Cat(a, b), c) = << >> <=> a = << >> /\ b = << >> /\ c = << >>
  BY <1>2, <1>3, <1>4
<1>6. QED
  BY <1>5 DEF Cat

(* So a signal is addressed to its receiver, and nothing to a clear side.  *)
LEMMA AddressedMeans ==
  ASSUME NEW p \in PC
  PROVE  /\ Types => (Announced(p) => Addressed(p)) /\ (Clear(p) => ~Addressed(p))
         /\ Types' => (Announced(p)' => Addressed(p)') /\ (Clear(p)' => ~Addressed(p)')
<1>1. BytesOf(signal1) # << >>
  BY DEF BytesOf
<1>2. ASSUME Types
      PROVE  (Announced(p) => Addressed(p)) /\ (Clear(p) => ~Addressed(p))
  <2>1. line[p] \in Seq(Bytes8) /\ rx[p] \in Seq(Bytes8) /\ inQueue[p] \in Seq(Bytes8)
    BY <1>2 DEF Types
  <2>2. Addressed(p) <=> ~(line[p] = << >> /\ rx[p] = << >> /\ inQueue[p] = << >>)
    BY <2>1, NothingUnderWay DEF Addressed
  <2>3. Announced(p) => ~Clear(p)
    BY NotQuiet
  <2>4. QED
    BY <2>2, <2>3 DEF Clear, Announced
<1>3. ASSUME Types'
      PROVE  (Announced(p)' => Addressed(p)') /\ (Clear(p)' => ~Addressed(p)')
  <2>1. line'[p] \in Seq(Bytes8) /\ rx'[p] \in Seq(Bytes8) /\ inQueue'[p] \in Seq(Bytes8)
    BY <1>3 DEF Types
  <2>2. Addressed(p)' <=> ~(line'[p] = << >> /\ rx'[p] = << >> /\ inQueue'[p] = << >>)
    BY <2>1, NothingUnderWay DEF Addressed
  <2>3. Clear(p)' => In(p)' = << >>
    BY NoFlow DEF Clear, In
  <2>4. QED
    BY <1>1, <2>2, <2>3 DEF Clear, Announced
<1>4. QED
  BY <1>2, <1>3

(* What Rendezvous sees of each phase, before a step and after it.         *)
LEMMA SeenBefore ==
  ASSUME Types
  PROVE  /\ Apart => Phase = "apart" /\ Playing = {} /\ Main = {}
         /\ Match => Phase = "match" /\ Playing = PC
         /\ \A p \in PC : Joining(p) => Phase = "joining" /\ Playing = {p} /\ Main = {p}
         /\ \A p \in PC : Leaving(p) => Phase = "leaving" /\ Playing = {Other(p)}
<1>0. PC # {}
  BY DEF PC
<1>1. Apart => Phase = "apart" /\ Playing = {} /\ Main = {}
  <2>1. Apart => Playing = {}
    BY DEF Apart, Playing
  <2>2. Playing = {} => Phase = "apart" /\ Main = {}
    BY <1>0 DEF Phase, Main
  <2>3. QED
    BY <2>1, <2>2
<1>2. Match => Phase = "match" /\ Playing = PC
  BY <1>0 DEF Match, Phase, Playing
<1>3. ASSUME NEW p \in PC, Joining(p)
      PROVE  Phase = "joining" /\ Playing = {p} /\ Main = {p}
  <2>1. Other(p) \in PC /\ Other(p) # p /\ \A q \in PC : q = p \/ q = Other(p)
    BY TwoPCs
  <2>2. Playing = {p} /\ Main = {p}
    BY <1>3, <2>1 DEF Joining, Playing, Main
  <2>3. Addressed(Other(p))
    BY <1>3, <2>1, AddressedMeans DEF Joining
  <2>4. QED
    BY <2>1, <2>2, <2>3 DEF Phase
<1>4. ASSUME NEW p \in PC, Leaving(p)
      PROVE  Phase = "leaving" /\ Playing = {Other(p)}
  <2>1. Other(p) \in PC /\ Other(p) # p /\ \A q \in PC : q = p \/ q = Other(p)
    BY TwoPCs
  <2>2. Playing = {Other(p)}
    BY <1>4, <2>1 DEF Leaving, Playing
  <2>3. ~Addressed(p)
    BY <1>4, AddressedMeans DEF Leaving
  <2>4. QED
    BY <2>1, <2>2, <2>3 DEF Phase
<1>5. QED
  BY <1>1, <1>2, <1>3, <1>4

(* The same of the next state.                                             *)
LEMMA SeenAfter ==
  ASSUME Types'
  PROVE  /\ Apart' => Phase' = "apart" /\ Playing' = {} /\ Main' = {}
         /\ Match' => Phase' = "match" /\ Playing' = PC
         /\ \A p \in PC : Joining(p)' => Phase' = "joining" /\ Playing' = {p} /\ Main' = {p}
         /\ \A p \in PC : Leaving(p)' => Phase' = "leaving" /\ Playing' = {Other(p)}
<1>0. PC # {}
  BY DEF PC
<1>1. Apart' => Phase' = "apart" /\ Playing' = {} /\ Main' = {}
  <2>1. Apart' => Playing' = {}
    BY DEF Apart, Playing
  <2>2. Playing' = {} => Phase' = "apart" /\ Main' = {}
    BY <1>0 DEF Phase, Main
  <2>3. QED
    BY <2>1, <2>2
<1>2. Match' => Phase' = "match" /\ Playing' = PC
  BY <1>0 DEF Match, Phase, Playing
<1>3. ASSUME NEW p \in PC, Joining(p)'
      PROVE  Phase' = "joining" /\ Playing' = {p} /\ Main' = {p}
  <2>1. Other(p) \in PC /\ Other(p) # p /\ \A q \in PC : q = p \/ q = Other(p)
    BY TwoPCs
  <2>2. Playing' = {p} /\ Main' = {p}
    BY <1>3, <2>1 DEF Joining, Playing, Main
  <2>3. Addressed(Other(p))'
    BY <1>3, <2>1, AddressedMeans DEF Joining
  <2>4. QED
    BY <2>1, <2>2, <2>3 DEF Phase
<1>4. ASSUME NEW p \in PC, Leaving(p)'
      PROVE  Phase' = "leaving" /\ Playing' = {Other(p)}
  <2>1. Other(p) \in PC /\ Other(p) # p /\ \A q \in PC : q = p \/ q = Other(p)
    BY TwoPCs
  <2>2. Playing' = {Other(p)}
    BY <1>4, <2>1 DEF Leaving, Playing
  <2>3. ~Addressed(p)'
    BY <1>4, AddressedMeans DEF Leaving
  <2>4. QED
    BY <2>1, <2>2, <2>3 DEF Phase
<1>5. QED
  BY <1>1, <1>2, <1>3, <1>4

(* Every step of patient players is one of Rendezvous, or none.            *)
LEMMA StepMeets ==
  ASSUME Patient, IInv, RoomLeft, RoomLeft', [Next]_vars
  PROVE  [R!Next]_(R!vars)
<1>0. Types /\ ReadWasSent /\ InPhase /\ Types'
  BY SessionKept DEF IInv
<1>1. CASE UNCHANGED vars
  BY <1>1 DEF vars, R!vars, Playing, Addressed
<1>2. CASE Next
  <2>1. CASE Apart
    <3>1. Phase = "apart" /\ Playing = {} /\ Main = {}
      BY <1>0, <2>1, SeenBefore
    <3>2. CASE Apart'
      <4>1. Phase' = Phase /\ Playing' = Playing /\ Main' = Main
        BY <1>0, <3>1, <3>2, SeenAfter
      <4>2. QED
        BY <4>1 DEF R!vars, Phase, Main
    <3>3. ASSUME NEW p \in PC, Joining(p)'
          PROVE  R!Start(p)
      <4>1. Phase' = "joining" /\ Playing' = {p} /\ Main' = {p}
        BY <1>0, <3>3, SeenAfter
      <4>2. QED
        BY <3>1, <4>1 DEF R!Start, Phase, Main
    <3>4. QED
      BY <1>0, <1>2, <2>1, <3>2, <3>3, FromApart DEF R!Next
  <2>2. CASE Match
    <3>1. Phase = "match" /\ Playing = PC
      BY <1>0, <2>2, SeenBefore
    <3>2. is_main_pc' = is_main_pc /\ (Match' \/ \E p \in PC : Leaving(p)')
      BY <1>0, <1>2, <2>2, FromMatch
    <3>3. CASE Match'
      <4>1. Phase' = Phase /\ Playing' = Playing
        BY <1>0, <3>1, <3>3, SeenAfter
      <4>2. Main' = Main
        BY <3>2, <4>1 DEF Main
      <4>3. QED
        BY <4>1, <4>2 DEF R!vars, Phase, Main
    <3>4. ASSUME NEW p \in PC, Leaving(p)'
          PROVE  R!Leave(p)
      <4>1. Phase' = "leaving" /\ Playing' = {Other(p)}
        BY <1>0, <3>4, SeenAfter
      <4>2. Playing' = PC \ {p}
        BY <4>1, TwoPCs
      <4>3. Main' = Main \ {p}
        BY <3>1, <3>2, <4>2 DEF Main
      <4>4. QED
        BY <3>1, <4>1, <4>2, <4>3 DEF R!Leave, Phase, Main
    <3>5. QED
      BY <3>2, <3>3, <3>4 DEF R!Next
  <2>3. ASSUME NEW p \in PC, Joining(p)
        PROVE  [R!Next]_(R!vars)
    <3>1. Phase = "joining" /\ Playing = {p} /\ Main = {p} /\ is_main_pc[p] = TRUE
      BY <1>0, <2>3, SeenBefore DEF Joining
    <3>2. \/ Joining(p)'
          \/ Match' /\ is_main_pc' = [is_main_pc EXCEPT ![Other(p)] = FALSE]
      BY <1>0, <1>2, <2>3, FromJoining
    <3>3. CASE Joining(p)'
      <4>1. Phase' = Phase /\ Playing' = Playing /\ Main' = Main
        BY <1>0, <3>1, <3>3, SeenAfter
      <4>2. QED
        BY <4>1 DEF R!vars, Phase, Main
    <3>4. CASE Match' /\ is_main_pc' = [is_main_pc EXCEPT ![Other(p)] = FALSE]
      <4>1. Phase' = "match" /\ Playing' = PC
        BY <1>0, <3>4, SeenAfter
      <4>2. is_main_pc'[p] = TRUE /\ is_main_pc'[Other(p)] = FALSE
        BY <1>0, <3>1, <3>4, TwoPCs DEF Types
      <4>3. Main' = Main
        BY <3>1, <4>1, <4>2, TwoPCs DEF Main
      <4>4. R!Join
        BY <3>1, <4>1, <4>3 DEF R!Join, Phase, Main
      <4>5. QED
        BY <4>4 DEF R!Next
    <3>5. QED
      BY <3>2, <3>3, <3>4
  <2>4. ASSUME NEW p \in PC, Leaving(p)
        PROVE  [R!Next]_(R!vars)
    <3>1. Phase = "leaving" /\ Playing = {Other(p)}
      BY <1>0, <2>4, SeenBefore
    <3>2. is_main_pc' = is_main_pc /\ (Leaving(p)' \/ Apart')
      BY <1>0, <1>2, <2>4, FromLeaving
    <3>3. CASE Leaving(p)'
      <4>1. Phase' = Phase /\ Playing' = Playing
        BY <1>0, <3>1, <3>3, SeenAfter
      <4>2. Main' = Main
        BY <3>2, <4>1 DEF Main
      <4>3. QED
        BY <4>1, <4>2 DEF R!vars, Phase, Main
    <3>4. CASE Apart'
      <4>1. Phase' = "apart" /\ Playing' = {} /\ Main' = {}
        BY <1>0, <3>4, SeenAfter
      <4>2. R!Follow
        BY <3>1, <4>1 DEF R!Follow, Phase, Main
      <4>3. QED
        BY <4>2 DEF R!Next
    <3>5. QED
      BY <3>2, <3>3, <3>4
  <2>5. QED
    BY <1>0, <2>1, <2>2, <2>3, <2>4 DEF InPhase
<1>3. QED
  BY <1>1, <1>2

(* As long as no UART overruns and no queue overflows, patient players go  *)
(* into every match together, with one main PC, and out of it together:    *)
(* the session implements Rendezvous.                                      *)
THEOREM PatientPlayTogether ==
  ASSUME Patient
  PROVE  Spec /\ []RoomLeft => PlayTogether
<1>1. Init => IInv
  BY SessionStarts
<1>2. IInv /\ RoomLeft /\ RoomLeft' /\ [Next]_vars => IInv'
  BY SessionKept
<1>3. Init => R!Init
  <2> SUFFICES ASSUME Init PROVE R!Init
    OBVIOUS
  <2>1. Types /\ Apart
    BY SessionStarts DEF IInv, Init, Apart, Clear
  <2>2. Phase = "apart" /\ Playing = {} /\ Main = {}
    BY <2>1, SeenBefore
  <2>3. QED
    BY <2>2 DEF R!Init, Phase, Main
<1>4. IInv /\ RoomLeft /\ RoomLeft' /\ [Next]_vars => [R!Next]_(R!vars)
  BY StepMeets
<1>5. QED
  BY <1>1, <1>2, <1>3, <1>4, PTL DEF Spec, PlayTogether, R!Spec

-----------------------------------------------------------------------------
(* With few messages there is always room.                                 *)

FewBytes == \A p \in PC :
  overrun[p] = FALSE /\ sent[p] <= MaxSent /\ Len(In(p)) <= 4 * sent[Other(p)]

(* The parts of a stream are no longer than it.                            *)
LEMMA FlowLength ==
  ASSUME NEW s \in Store, NEW q \in Seq(Bytes8), NEW r \in Seq(Bytes8), NEW l \in Seq(Bytes8)
  PROVE  /\ Len(Flow(s, q, r, l)) \in Nat /\ Len(q) \in Nat /\ Len(r) \in Nat /\ Len(l) \in Nat
         /\ Len(q) + Len(r) + Len(l) <= Len(Flow(s, q, r, l))
<1> DEFINE h == Held(s)
           x == Cat(h, q)
           y == Cat(r, l)
<1>1. h \in Seq(Bytes8)
  BY HeldType
<1> HIDE DEF h
<1>2. x \in Seq(Bytes8) /\ Len(x) = Len(h) + Len(q) /\ y \in Seq(Bytes8) /\ Len(y) = Len(r) + Len(l)
  BY <1>1, CatLaws
<1> HIDE DEF x, y
<1>3. Len(Cat(x, y)) = Len(x) + Len(y)
  BY <1>2, CatLaws
<1>4. Len(h) \in Nat /\ Len(q) \in Nat /\ Len(r) \in Nat /\ Len(l) \in Nat
  BY <1>1
<1>5. Flow(s, q, r, l) = Cat(x, y)
  BY DEF Flow, x, y, h
<1>6. QED
  BY <1>2, <1>3, <1>4, <1>5

(* Nor are those of a PC's stream.                                         *)
LEMMA InLength ==
  ASSUME Types, NEW p \in PC
  PROVE  /\ Len(In(p)) \in Nat /\ Len(inQueue[p]) \in Nat /\ Len(rx[p]) \in Nat /\ Len(line[p]) \in Nat
         /\ Len(inQueue[p]) + Len(rx[p]) + Len(line[p]) <= Len(In(p))
<1> DEFINE s == stored[p]
           q == inQueue[p]
           r == rx[p]
           l == line[p]
<1>1. s \in Store /\ q \in Seq(Bytes8) /\ r \in Seq(Bytes8) /\ l \in Seq(Bytes8)
  BY TypesAt
<1> HIDE DEF s, q, r, l
<1>2. /\ Len(Flow(s, q, r, l)) \in Nat /\ Len(q) \in Nat /\ Len(r) \in Nat /\ Len(l) \in Nat
      /\ Len(q) + Len(r) + Len(l) <= Len(Flow(s, q, r, l))
  BY <1>1, FlowLength
<1>3. QED
  BY <1>2 DEF In, s, q, r, l

(* Few bytes leave room, also for the next one.                            *)
LEMMA FewFit ==
  ASSUME Types, FewBytes, 4 * MaxSent <= FifoDepth, 4 * MaxSent <= Capacity
  PROVE  /\ RoomLeft
         /\ \A p \in PC : Len(inQueue[p]) + Len(rx[p]) + Len(line[p]) <= Capacity
         /\ \A p \in PC : Len(rx[p]) + Len(line[p]) <= FifoDepth
<1>0. MaxSent \in Nat /\ Capacity \in Nat /\ FifoDepth \in Nat
  BY SessionAssumption, WordAssumption
<1>1. ASSUME NEW p \in PC
      PROVE  /\ overrun[p] = FALSE /\ Len(inQueue[p]) + Len(rx[p]) <= Capacity
             /\ Len(inQueue[p]) + Len(rx[p]) + Len(line[p]) <= Capacity
             /\ Len(rx[p]) + Len(line[p]) <= FifoDepth
  <2>1. /\ Len(In(p)) \in Nat /\ Len(inQueue[p]) \in Nat /\ Len(rx[p]) \in Nat /\ Len(line[p]) \in Nat
        /\ Len(inQueue[p]) + Len(rx[p]) + Len(line[p]) <= Len(In(p))
    BY InLength
  <2>2. Other(p) \in PC /\ sent[Other(p)] \in Nat
    BY TwoPCs, TypesAt
  <2>3. Len(In(p)) <= 4 * sent[Other(p)] /\ sent[Other(p)] <= MaxSent
    BY <2>2 DEF FewBytes
  <2>4. Len(In(p)) <= 4 * MaxSent
    BY <1>0, <2>1, <2>2, <2>3
  <2>5. overrun[p] = FALSE
    BY DEF FewBytes
  <2>6. /\ Len(inQueue[p]) + Len(rx[p]) <= Capacity
        /\ Len(inQueue[p]) + Len(rx[p]) + Len(line[p]) <= Capacity
        /\ Len(rx[p]) + Len(line[p]) <= FifoDepth
    <3>1. ASSUME NEW x \in Nat, NEW y \in Nat, NEW z \in Nat, NEW n \in Nat,
                 x + y + z <= n, n <= 4 * MaxSent
          PROVE  x + y <= Capacity /\ x + y + z <= Capacity /\ y + z <= FifoDepth
      BY <1>0, <3>1
    <3>2. QED
      BY <2>1, <2>4, <3>1
  <2>7. QED
    BY <2>5, <2>6
<1>2. QED
  BY <1>1 DEF RoomLeft

(* Only a byte that arrives can overrun a UART.                            *)
LEMMA NoOverrun ==
  ASSUME Types, RoomLeft, NEW p \in PC,
         start(p) \/ quit(p) \/ sp_int_menu(p) \/ sp_int_game(p) \/ \E m \in Messages : Transmit(p, m)
  PROVE  \A q \in PC : overrun'[q] = FALSE
<1>1. overrun \in [PC -> BOOLEAN] /\ \A q \in PC : overrun[q] = FALSE
  BY DEF Types, RoomLeft
<1>2. \/ overrun' = [overrun EXCEPT ![p] = FALSE]
      \/ overrun' = [overrun EXCEPT ![p] = @ /\ rx[p] = << >>]
  BY DEF start, quit, ResetAndSignal, sp_int_menu, sp_int_game, sp_ih, Transmit
<1>3. QED
  BY <1>1, <1>2

(* In the menu nothing but a signal is under way.                          *)
LEMMA MenuSide ==
  ASSUME IInv, NEW p \in PC, mainState[p] = "MAIN_MENU"
  PROVE  Clear(p) \/ (Announced(p) /\ Clear(Other(p)))
<1>1. CASE Apart
  BY <1>1 DEF Apart
<1>2. CASE Match
  BY <1>2 DEF Match
<1>3. ASSUME NEW q \in PC, Joining(q)
      PROVE  Clear(p) \/ (Announced(p) /\ Clear(Other(p)))
  <2>1. p = Other(q) /\ q = Other(p)
    BY <1>3, TwoPCs DEF Joining
  <2>2. QED
    BY <1>3, <2>1 DEF Joining
<1>4. ASSUME NEW q \in PC, Leaving(q)
      PROVE  Clear(p)
  <2>1. p = q
    BY <1>4, TwoPCs DEF Leaving
  <2>2. QED
    BY <1>4, <2>1 DEF Leaving
<1>5. QED
  BY <1>1, <1>2, <1>3, <1>4 DEF IInv, InPhase

(* A step adds four bytes for a message at most, and counts it.            *)
LEMMA FewKept ==
  ASSUME Patient, 4 * MaxSent <= FifoDepth, 4 * MaxSent <= Capacity,
         IInv, FewBytes, [Next]_vars
  PROVE  RoomLeft' /\ FewBytes' /\ IInv'
<1>0. Types /\ RoomLeft /\ MaxSent \in Nat
  BY FewFit, SessionAssumption DEF IInv
<1>1. ASSUME Types', FewBytes'
      PROVE  RoomLeft'
  <2>1. ASSUME NEW p \in PC
        PROVE  overrun'[p] = FALSE /\ Len(inQueue'[p]) + Len(rx'[p]) <= Capacity
    <3> DEFINE s == stored'[p]
               q == inQueue'[p]
               r == rx'[p]
               l == line'[p]
    <3>1. s \in Store /\ q \in Seq(Bytes8) /\ r \in Seq(Bytes8) /\ l \in Seq(Bytes8)
      BY <1>1 DEF Types
    <3>2. Other(p) \in PC /\ sent'[Other(p)] \in Nat
      BY <1>1, TwoPCs DEF Types
    <3>3. /\ overrun'[p] = FALSE /\ sent'[Other(p)] <= MaxSent
          /\ Len(Flow(s, q, r, l)) <= 4 * sent'[Other(p)]
      BY <1>1, <3>2 DEF FewBytes, In
    <3> HIDE DEF s, q, r, l
    <3>4. /\ Len(Flow(s, q, r, l)) \in Nat /\ Len(q) \in Nat /\ Len(r) \in Nat /\ Len(l) \in Nat
          /\ Len(q) + Len(r) + Len(l) <= Len(Flow(s, q, r, l))
      BY <3>1, FlowLength
    <3>5. Len(q) + Len(r) <= Capacity
      <4>1. Capacity \in Nat
        BY WordAssumption
      <4>2. QED
        BY <1>0, <3>2, <3>3, <3>4, <4>1
    <3>6. QED
      BY <3>3, <3>5 DEF q, r
  <2>2. QED
    BY <2>1 DEF RoomLeft
<1>2. ASSUME Types', NEW p \in PC, \A q \in PC : overrun'[q] = FALSE, sent' = sent,
             Len(In(p)') <= Len(In(p)), Len(In(p)') \in Nat,
             Len(In(Other(p))') <= Len(In(Other(p))), Len(In(Other(p))') \in Nat
      PROVE  FewBytes'
  <2>1. Other(p) \in PC /\ \A q \in PC : q = p \/ q = Other(p)
    BY TwoPCs
  <2>2. ASSUME NEW q \in PC
        PROVE  /\ overrun'[q] = FALSE /\ sent'[q] <= MaxSent
               /\ Len(In(q)') <= 4 * sent'[Other(q)]
    <3>1. Len(In(q)') <= Len(In(q)) /\ Len(In(q)') \in Nat
      BY <1>2, <2>1
    <3>2. /\ sent[q] <= MaxSent /\ Len(In(q)) <= 4 * sent[Other(q)]
          /\ Len(In(q)) \in Nat /\ sent[Other(q)] \in Nat
      BY <1>0, InLength, TwoPCs, TypesAt DEF FewBytes
    <3>3. Len(In(q)') <= 4 * sent[Other(q)]
      BY <3>1, <3>2
    <3>4. QED
      BY <1>2, <3>2, <3>3
  <2>3. QED
    BY <2>2 DEF FewBytes
<1>3. CASE UNCHANGED vars
  <2>1. UNCHANGED <<mainState, is_main_pc, line, rx, overrun, inQueue, stored, read, sent>>
    BY <1>3 DEF vars
  <2>2. RoomLeft' /\ FewBytes'
    BY <1>0, <2>1 DEF RoomLeft, FewBytes, In
  <2>3. QED
    BY <1>0, <2>2, SessionKept
<1>4. CASE Next
  <2>1. PICK p \in PC :
           \/ start(p) \/ quit(p) \/ Arrive(p) \/ \E m \in Messages : Transmit(p, m)
           \/ sp_int_menu(p) /\ mainState[p] = "MAIN_MENU" /\ sent' = sent
           \/ sp_int_game(p) /\ mainState[p] = "GAME" /\ sent' = sent
    BY <1>0, <1>4, PatientSteps, Zenon
  <2> DEFINE o == Other(p)
  <2>2. o \in PC /\ o # p /\ Other(o) = p /\ \A q \in PC : q = p \/ q = o
    BY TwoPCs
  <2> HIDE DEF o
  <2>3. /\ Len(In(p)) \in Nat /\ Len(In(o)) \in Nat /\ sent[p] \in Nat /\ sent[o] \in Nat
        /\ Len(In(p)) <= 4 * sent[o] /\ Len(In(o)) <= 4 * sent[p] /\ sent[o] <= MaxSent
    BY <1>0, <2>2, InLength, TypesAt DEF FewBytes, o
  <2>4. ASSUME sent[p] < MaxSent, sent' = [sent EXCEPT ![p] = @ + 1],
               \A q \in PC : overrun'[q] = FALSE,
               Len(In(p)') <= 4 * sent[o], Len(In(o)') <= 4 * sent[p] + 4, Len(In(o)') \in Nat
        PROVE  FewBytes'
    <3>1. sent'[p] = sent[p] + 1 /\ sent'[o] = sent[o]
      BY <1>0, <2>2, <2>4 DEF Types
    <3>2. sent'[p] <= MaxSent /\ sent'[o] <= MaxSent
      BY <1>0, <2>3, <2>4, <3>1
    <3>3. Len(In(o)') <= 4 * sent'[p]
      BY <2>3, <2>4, <3>1
    <3>4. ASSUME NEW q \in PC
          PROVE  overrun'[q] = FALSE /\ sent'[q] <= MaxSent /\ Len(In(q)') <= 4 * sent'[Other(q)]
      <4>1. CASE q = p
        BY <2>4, <3>1, <3>2, <4>1 DEF o
      <4>2. CASE q = o
        BY <2>2, <2>4, <3>2, <3>3, <4>2
      <4>3. QED
        BY <2>2, <4>1, <4>2
    <3>5. QED
      BY <3>4 DEF FewBytes
  <2>5. CASE start(p) \/ quit(p)
    <3>1. Types' /\ Clear(p)' /\ Announced(o)'
      BY <1>0, <2>5, Keys DEF o
    <3>2. sent[p] < MaxSent /\ sent' = [sent EXCEPT ![p] = @ + 1]
      BY <2>5 DEF start, quit, ResetAndSignal
    <3>3. \A q \in PC : overrun'[q] = FALSE
      BY <1>0, <2>5, NoOverrun
    <3>4. Len(In(p)') = 0 /\ Len(In(o)') = 2
      <4>1. In(p)' = << >>
        BY <3>1, NoFlow DEF Clear, In
      <4>2. In(o)' = BytesOf(signal1) /\ Len(BytesOf(signal1)) = 2
        BY <3>1, TwoBytes, WordAssumption DEF Announced, Word16
      <4>3. QED
        BY <4>1, <4>2
    <3>5. Len(In(p)') <= 4 * sent[o] /\ Len(In(o)') <= 4 * sent[p] + 4 /\ Len(In(o)') \in Nat
      BY <2>3, <3>4
    <3>6. FewBytes'
      BY <2>4, <3>2, <3>3, <3>5
    <3>7. QED
      BY <1>0, <1>1, <3>1, <3>6, SessionKept
  <2>6. ASSUME NEW m \in Messages, Transmit(p, m)
        PROVE  RoomLeft' /\ FewBytes' /\ IInv'
    <3>1. /\ Types' /\ In(p)' = In(p) /\ In(o) \in Seq(Bytes8) /\ In(o)' = Cat(In(o), Bytes(m))
      BY <1>0, <2>6, Transmits DEF o
    <3>2. sent[p] < MaxSent /\ sent' = [sent EXCEPT ![p] = @ + 1]
      BY <2>6 DEF Transmit
    <3>3. \A q \in PC : overrun'[q] = FALSE
      BY <1>0, <2>6, NoOverrun
    <3>4. Len(In(o)') <= Len(In(o)) + 4 /\ Len(In(o)') \in Nat
      <4> DEFINE w == In(o)
      <4>1. w \in Seq(Bytes8) /\ m \in Taken
        BY <3>1, SessionAssumption DEF Taken, Word16
      <4> HIDE DEF w
      <4>2. Len(Cat(w, Bytes(m))) <= Len(w) + 4
        BY <4>1, MessageLength
      <4>3. Cat(w, Bytes(m)) \in Seq(Bytes8)
        BY <4>1, MessageBytes, CatLaws
      <4>4. Len(Cat(w, Bytes(m))) \in Nat
        BY <4>3
      <4>5. QED
        BY <3>1, <4>2, <4>4 DEF w
    <3>5. Len(In(p)') <= 4 * sent[o] /\ Len(In(o)') <= 4 * sent[p] + 4
      <4>1. Len(In(p)') <= 4 * sent[o]
        BY <2>3, <3>1
      <4>2. Len(In(o)') <= 4 * sent[p] + 4
        BY <2>3, <3>4
      <4>3. QED
        BY <4>1, <4>2
    <3>6. FewBytes'
      BY <2>4, <3>2, <3>3, <3>4, <3>5
    <3>7. QED
      BY <1>0, <1>1, <3>1, <3>6, SessionKept
  <2>7. CASE Arrive(p)
    <3>1. RoomLeft' /\ sent' = sent
      <4> DEFINE r == rx[p]
                 l == line[p]
      <4>1. r \in Seq(Bytes8) /\ l \in Seq(Bytes8) /\ l # << >> /\ inQueue[p] \in Seq(Bytes8)
        BY <1>0, <2>7, TypesAt DEF Arrive
      <4>2. /\ Len(inQueue[p]) + Len(r) + Len(l) <= Capacity /\ Len(r) + Len(l) <= FifoDepth
        BY <1>0, FewFit
      <4>3. Len(l) \in Nat /\ Len(l) >= 1 /\ Len(r) \in Nat /\ Len(inQueue[p]) \in Nat
        BY <4>1
      <4>4. Len(rx[p]) < FifoDepth /\ Len(inQueue[p]) + (Len(r) + 1) <= Capacity
        <5>1. ASSUME NEW x \in Nat, NEW y \in Nat, NEW z \in Nat, z >= 1,
                     x + y + z <= Capacity, y + z <= FifoDepth
              PROVE  y < FifoDepth /\ x + (y + 1) <= Capacity
          <6>1. Capacity \in Nat /\ FifoDepth \in Nat
            BY SessionAssumption, WordAssumption
          <6>2. QED
            BY <5>1, <6>1
        <5>2. QED
          BY <4>2, <4>3, <5>1
      <4>5. /\ rx' = [rx EXCEPT ![p] = Append(r, Head(l))] /\ UNCHANGED <<overrun, inQueue, sent>>
        BY <2>7, <4>4 DEF Arrive
      <4>6. Len(rx'[p]) = Len(r) + 1 /\ \A q \in PC \ {p} : rx'[q] = rx[q]
        <5>1. Len(Append(r, Head(l))) = Len(r) + 1
          BY <4>1
        <5>2. QED
          BY <1>0, <4>5, <5>1 DEF Types
      <4>7. QED
        BY <1>0, <4>4, <4>5, <4>6 DEF RoomLeft
    <3>2. /\ Types' /\ UNCHANGED <<inQueue, stored>> /\ In(p)' = In(p)
          /\ line'[o] = line[o] /\ rx'[o] = rx[o]
      BY <1>0, <2>7, <3>1, Arrives DEF o
    <3>3. In(o)' = In(o)
      BY <2>2, <3>2, SameSide
    <3>4. FewBytes'
      <4>1. Len(In(p)) <= Len(In(p)) /\ Len(In(o)) <= Len(In(o))
        BY <2>3
      <4>2. QED
        BY <1>2, <2>3, <3>1, <3>2, <3>3, <4>1 DEF RoomLeft, o
    <3>5. QED
      BY <1>0, <3>1, <3>4, SessionKept
  <2>8. CASE sp_int_menu(p) /\ mainState[p] = "MAIN_MENU" /\ sent' = sent
    <3>1. \A q \in PC : overrun'[q] = FALSE
      BY <1>0, <2>8, NoOverrun
    <3>2. CASE Clear(p)
      <4>1. UNCHANGED <<mainState, is_main_pc, line, rx, overrun, inQueue, stored, read>>
        BY <1>0, <2>8, <3>2, NothingToRead
      <4>2. RoomLeft' /\ FewBytes'
        BY <1>0, <2>8, <4>1 DEF RoomLeft, FewBytes, In
      <4>3. QED
        BY <1>0, <4>2, SessionKept
    <3>3. CASE Announced(p) /\ Clear(o)
      <4>1. Types' /\ Clear(o)' /\ (Announced(p)' \/ Clear(p)')
        BY <1>0, <2>8, <3>3, MenuStep DEF o
      <4>2. In(o)' = << >> /\ (In(p)' = In(p) \/ In(p)' = << >>)
        BY <3>3, <4>1, NoFlow DEF Clear, In, Announced
      <4>3. Len(<< >>) = 0 /\ \A x \in Nat : x <= x /\ 0 <= x /\ 0 \in Nat
        OBVIOUS
      <4>4. /\ Len(In(p)') <= Len(In(p)) /\ Len(In(p)') \in Nat
            /\ Len(In(o)') <= Len(In(o)) /\ Len(In(o)') \in Nat
        BY <2>3, <4>2, <4>3, Zenon
      <4>5. FewBytes'
        BY <1>2, <2>8, <3>1, <4>1, <4>4 DEF o
      <4>6. QED
        BY <1>0, <1>1, <4>1, <4>5, SessionKept
    <3>4. QED
      BY <2>8, <3>2, <3>3, MenuSide DEF o
  <2>9. CASE sp_int_game(p) /\ mainState[p] = "GAME" /\ sent' = sent
    <3>1. \A q \in PC : overrun'[q] = FALSE
      BY <1>0, <2>9, NoOverrun
    <3>2. /\ Types' /\ line' = line
          /\ rx'[o] = rx[o] /\ inQueue'[o] = inQueue[o] /\ stored'[o] = stored[o]
          /\ In(p)' \in Seq(Bytes8)
          /\ \/ In(p)' = In(p) \/ In(p) = Cat(BytesOf(signal1), In(p)')
             \/ \E m \in Taken : In(p) = Cat(Bytes(m), In(p)')
      BY <1>0, <2>2, <2>9, GameStep
    <3>3. In(o)' = In(o)
      BY <2>2, <3>2, SameSide
    <3>4. Len(In(p)') \in Nat /\ Len(In(p)') <= Len(In(p))
      <4> DEFINE v == In(p)'
      <4>1. v \in Seq(Bytes8)
        BY <3>2
      <4>2. Len(v) \in Nat
        BY <4>1
      <4> HIDE DEF v
      <4>3. \A m \in Taken : Len(v) <= Len(Cat(Bytes(m), v))
        BY <4>1, MessageLength
      <4>4. <<signal1>> \in Taken /\ Bytes(<<signal1>>) = BytesOf(signal1)
        BY DEF Taken, Bytes
      <4>5. v = In(p) \/ \E m \in Taken : In(p) = Cat(Bytes(m), v)
        BY <3>2, <4>4, Zenon DEF v
      <4>6. Len(v) <= Len(v)
        BY <4>2
      <4>7. Len(v) <= Len(In(p))
        BY <4>3, <4>5, <4>6, Zenon
      <4>8. QED
        BY <4>2, <4>7 DEF v
    <3>5. FewBytes'
      <4>1. Len(In(o)) <= Len(In(o))
        BY <2>3
      <4>2. QED
        BY <1>2, <2>3, <2>9, <3>1, <3>2, <3>3, <3>4, <4>1 DEF o
    <3>6. QED
      BY <1>0, <1>1, <3>2, <3>5, SessionKept
  <2>10. QED
    BY <2>1, <2>5, <2>6, <2>7, <2>8, <2>9
<1>5. QED
  BY <1>3, <1>4

(* Patient players who send no more than the FIFOs and the queues hold     *)
(* need no other assumption: they play together and read what was sent.    *)
THEOREM FewPlayTogether ==
  ASSUME Patient, 4 * MaxSent <= FifoDepth, 4 * MaxSent <= Capacity
  PROVE  Spec => PlayTogether /\ []ReadWasSent
<1>1. Init => IInv /\ FewBytes
  <2> SUFFICES ASSUME Init PROVE FewBytes
    BY SessionStarts
  <2>1. ASSUME NEW p \in PC
        PROVE  overrun[p] = FALSE /\ sent[p] <= MaxSent /\ Len(In(p)) <= 4 * sent[Other(p)]
    <3>1. In(p) = << >>
      BY NoFlow DEF Init, In
    <3>2. sent[p] = 0 /\ sent[Other(p)] = 0 /\ overrun[p] = FALSE
      BY TwoPCs DEF Init
    <3>3. Len(In(p)) = 0 /\ 0 <= MaxSent
      BY <3>1, SessionAssumption
    <3>4. QED
      BY <3>2, <3>3
  <2>2. QED
    BY <2>1 DEF FewBytes
<1>2. IInv /\ FewBytes /\ [Next]_vars => IInv' /\ FewBytes'
  BY FewKept
<1>3. IInv /\ FewBytes => RoomLeft
  BY FewFit DEF IInv
<1>4. Spec => []RoomLeft
  BY <1>1, <1>2, <1>3, PTL DEF Spec
<1>5. Spec /\ []RoomLeft => PlayTogether
  BY PatientPlayTogether
<1>6. Spec /\ []RoomLeft => []ReadWasSent
  BY PatientReadWhatWasSent
<1>7. QED
  BY <1>4, <1>5, <1>6, PTL
=============================================================================
