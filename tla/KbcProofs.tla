------------------------------ MODULE KbcProofs -----------------------------
(***************************************************************************)
(* Until a fault the two devices never get into each other's way: a        *)
(* notification that is pending has its byte in the output buffer, which   *)
(* the controller keeps until it is read, and nothing else reads it.       *)
(* So the bytes of a packet are put together in the order they were sent.  *)
(* A fault costs one packet as long as bit 3 of data bytes is clear, since *)
(* mouse_int then takes nothing but a first byte where it expects one.     *)
(***************************************************************************)
EXTENDS Kbc, TLAPS

Keys == {<<"key", n, 0>> : n \in Nat}
Answers == {<<"ack", 0, 0>>} \cup {<<"data", n, 1>> : n \in Nat}
             \cup {<<"data", n, 2>> : n \in Nat} \cup {<<"data", n, 3>> : n \in Nat}
MouseBytes == [aux : {TRUE}, what : Answers, sync : BOOLEAN, ok : {TRUE}]

(* The inductive invariant: whose byte is in the output buffer is whose    *)
(* notification is pending, and the keys handled are all but that one.     *)
Apart ==
  /\ kirq \in BOOLEAN /\ mirq \in BOOLEAN
  /\ budget \in [key : Nat, packet : Nat, damage : Nat]
  /\ toSend \in Seq(MouseBytes)
  /\ handled \in Seq(Keys)
  /\ \A i \in 1 .. Len(handled) : handled[i] = <<"key", i, 0>>
  /\ stage # "loop" => ~kirq /\ ~mirq
  /\ kirq => /\ outBuf # << >> /\ outBuf[1].ok /\ outBuf[1].what = <<"key", budget.key, 0>>
             /\ Len(handled) = budget.key - 1 /\ ~mirq
  /\ ~kirq => Len(handled) = budget.key
  /\ mirq => outBuf # << >>

Faultless == "fault" \notin seen

(* What the mouse sends, and how it is marked.                             *)
LEMMA AckIsMouse == MOUSE_ACK \in MouseBytes
<1>1. <<"ack", 0, 0>> \in Answers
  BY DEF Answers
<1>2. QED
  BY <1>1 DEF MOUSE_ACK, Byte, MouseBytes

(* The bytes of a packet.                                                  *)
LEMMA DataIsMouse ==
  ASSUME NEW n \in Nat, NEW s \in BOOLEAN
  PROVE  Data(n, 1, s) \in MouseBytes /\ Data(n, 2, s) \in MouseBytes /\ Data(n, 3, s) \in MouseBytes
<1>1. <<"data", n, 1>> \in Answers /\ <<"data", n, 2>> \in Answers /\ <<"data", n, 3>> \in Answers
  BY DEF Answers
<1>2. QED
  BY <1>1 DEF Data, Byte, MouseBytes

(* Whose they are is part of each byte.                                    *)
LEMMA MouseByteFields ==
  ASSUME NEW b \in MouseBytes
  PROVE  b.aux = TRUE
  BY DEF MouseBytes

(* A packet is a sequence.                                                 *)
LEMMA Triple ==
  ASSUME NEW S, NEW a \in S, NEW b \in S, NEW c \in S
  PROVE  <<a, b, c>> \in Seq(S)
  OBVIOUS

(* What comes from the keyboard is not.                                    *)
LEMMA ScancodeFields ==
  ASSUME NEW n
  PROVE  /\ Scancode(n).aux = FALSE
         /\ [Scancode(n) EXCEPT !.ok = TRUE].what = <<"key", n, 0>>
         /\ [Scancode(n) EXCEPT !.ok = TRUE].ok = TRUE
<1>1. Scancode(n).aux = FALSE
  BY DEF Scancode, Byte
<1>2. [Scancode(n) EXCEPT !.ok = TRUE].what = <<"key", n, 0>>
  BY DEF Scancode, Byte
<1>3. [Scancode(n) EXCEPT !.ok = TRUE].ok = TRUE
  BY DEF Scancode, Byte
<1>4. QED
  BY <1>1, <1>2, <1>3, Zenon

(* What has been noted stays noted.                                        *)
LEMMA FaultsStay ==
  ASSUME [Next]_vars, Faultless'
  PROVE  Faultless
<1>1. CASE PressKey \/ MouseByte \/ MoveMouse
  <2>1. \E what, happened : Note(what, happened)
    BY <1>1 DEF PressKey, MouseByte, MoveMouse, Arrive
  <2>2. QED
    BY <2>1 DEF Note, Faultless
<1>2. CASE kbc_read_return
  BY <1>2 DEF kbc_read_return, Note, Faultless
<1>3. CASE kbc_write \/ keyboard_int \/ mouse_int \/ UNCHANGED vars
  BY <1>3 DEF kbc_write, keyboard_int, mouse_int, vars, Faultless
<1>4. QED
  BY <1>1, <1>2, <1>3 DEF Next, Driver

(* A byte that brings no fault arrives undamaged, a key in the loop.       *)
LEMMA Arrives ==
  ASSUME Faultless', Apart, NEW b, Arrive(b)
  PROVE  /\ outBuf = << >> /\ outBuf' = <<[b EXCEPT !.ok = TRUE]>>
         /\ budget' \in [key : Nat, packet : Nat, damage : Nat]
         /\ budget'.key = IF b.aux THEN budget.key ELSE budget.key + 1
         /\ ~b.aux => stage = "loop"
<1>1. PICK ok \in BOOLEAN :
        /\ outBuf' = <<[b EXCEPT !.ok = ok]>>
        /\ budget' = [budget EXCEPT !.damage = IF ok THEN @ ELSE @ + 1,
                                    !.key = IF b.aux THEN @ ELSE @ + 1]
        /\ Note("fault", ~ok \/ (~b.aux /\ stage # "loop"))
  BY DEF Arrive
<1>2. budget \in [key : Nat, packet : Nat, damage : Nat]
  BY DEF Apart
<1>3. ~(~ok \/ (~b.aux /\ stage # "loop"))
  BY <1>1 DEF Note, Faultless
<1>3a. ok = TRUE
  BY <1>3
<1>4. budget' = [key |-> IF b.aux THEN budget.key ELSE budget.key + 1,
                 packet |-> budget.packet, damage |-> budget.damage]
  BY <1>1, <1>2, <1>3a
<1>5. outBuf = << >>
  BY DEF Arrive
<1>6. outBuf' = <<[b EXCEPT !.ok = TRUE]>>
  BY <1>1, <1>3a, Zenon
<1>7. QED
  BY <1>2, <1>3, <1>4, <1>5, <1>6

(* Every step of the devices and of the driver keeps them apart.           *)
LEMMA ApartNext ==
  ASSUME Faultless => Apart, [Next]_vars, Faultless'
  PROVE  Apart'
<1> Apart
  BY FaultsStay
<1>0. budget.key \in Nat /\ budget.packet \in Nat
  BY DEF Apart
<1>1. CASE PressKey
  <2>0. /\ stage' = stage /\ kirq' = (stage \in {"enable", "loop"})
        /\ UNCHANGED <<mirq, toSend, handled>> /\ Arrive(Scancode(budget.key + 1))
        /\ Scancode(budget.key + 1).aux = FALSE
    BY <1>1, ScancodeFields DEF PressKey, device, keys
  <2>1. stage = "loop" /\ kirq' = TRUE
    BY <2>0, Arrives
  <2> DEFINE b == [Scancode(budget.key + 1) EXCEPT !.ok = TRUE]
  <2>2. /\ outBuf = << >> /\ outBuf' = <<b>>
        /\ budget' \in [key : Nat, packet : Nat, damage : Nat]
        /\ budget'.key = IF Scancode(budget.key + 1).aux THEN budget.key ELSE budget.key + 1
    BY <2>0, Arrives
  <2>2a. budget'.key = budget.key + 1
    BY <2>2, ScancodeFields
  <2>2b. b.what = <<"key", budget.key + 1, 0>> /\ b.ok = TRUE
    BY ScancodeFields
  <2> HIDE DEF b
  <2>2c. outBuf' # << >> /\ outBuf'[1].ok /\ outBuf'[1].what = <<"key", budget'.key, 0>>
    <3>1. outBuf' # << >> /\ outBuf'[1] = b
      BY <2>2
    <3>2. QED
      BY <2>2a, <2>2b, <3>1, Zenon
  <2>3. ~kirq
    BY <2>2 DEF Apart
  <2>4. ~mirq /\ Len(handled) = budget.key
    BY <2>2, <2>3 DEF Apart
  <2>5. QED
    BY <1>0, <2>0, <2>1, <2>2, <2>2a, <2>2c, <2>3, <2>4 DEF Apart
<1>2. CASE MouseByte
  <2>1. /\ toSend # << >> /\ Arrive(Head(toSend)) /\ toSend' = Tail(toSend)
        /\ mirq' = (mirq \/ stage = "loop") /\ UNCHANGED <<stage, kirq, handled>>
    BY <1>2 DEF MouseByte, keys
  <2>2. Head(toSend) \in MouseBytes /\ Tail(toSend) \in Seq(MouseBytes)
    BY <2>1 DEF Apart
  <2>3. Head(toSend).aux = TRUE
    BY <2>2, MouseByteFields
  <2> DEFINE b == [Head(toSend) EXCEPT !.ok = TRUE]
  <2>4. /\ outBuf = << >> /\ outBuf' = <<b>>
        /\ budget' \in [key : Nat, packet : Nat, damage : Nat]
        /\ budget'.key = IF Head(toSend).aux THEN budget.key ELSE budget.key + 1
    BY <2>1, <2>3, Arrives
  <2> HIDE DEF b
  <2>5. outBuf' # << >> /\ budget'.key = budget.key
    BY <2>3, <2>4
  <2>6. ~kirq /\ ~mirq
    BY <2>4 DEF Apart
  <2>7. mirq' \in BOOLEAN /\ (stage # "loop" => ~mirq')
    BY <2>1, <2>6
  <2>8. QED
    BY <2>1, <2>2, <2>4, <2>5, <2>6, <2>7 DEF Apart
<1>3. CASE MoveMouse
  <2>1. PICK s2 \in DataSync, s3 \in DataSync :
          toSend' = <<Data(budget.packet + 1, 1, TRUE), Data(budget.packet + 1, 2, s2),
                      Data(budget.packet + 1, 3, s3)>>
    BY <1>3 DEF MoveMouse
  <2>2. toSend' \in Seq(MouseBytes)
    <3>1. s2 \in BOOLEAN /\ s3 \in BOOLEAN /\ budget.packet + 1 \in Nat
      BY <1>0, KbcAssumption
    <3>2. /\ Data(budget.packet + 1, 1, TRUE) \in MouseBytes
          /\ Data(budget.packet + 1, 2, s2) \in MouseBytes
          /\ Data(budget.packet + 1, 3, s3) \in MouseBytes
      BY <3>1, DataIsMouse
    <3>3. QED
      BY <2>1, <3>2, Triple, Zenon
  <2>3. /\ budget' \in [key : Nat, packet : Nat, damage : Nat] /\ budget'.key = budget.key
        /\ UNCHANGED <<stage, outBuf, kirq, mirq, handled>>
    <3>1. /\ budget' = [budget EXCEPT !.packet = @ + 1]
          /\ UNCHANGED <<stage, outBuf, kirq, mirq, handled>>
      BY <1>3 DEF MoveMouse, keys
    <3>2. budget \in [key : Nat, packet : Nat, damage : Nat]
      BY DEF Apart
    <3>3. budget' = [key |-> budget.key, packet |-> budget.packet + 1, damage |-> budget.damage]
      BY <3>1, <3>2
    <3>4. QED
      BY <1>0, <3>1, <3>2, <3>3
  <2>4. QED
    BY <2>2, <2>3 DEF Apart
<1>4. CASE kbc_write
  <2>1. <<MOUSE_ACK>> \in Seq(MouseBytes)
    BY AckIsMouse
  <2>2. toSend' = <<MOUSE_ACK>> /\ UNCHANGED <<stage, outBuf, kirq, mirq, handled, budget>>
    BY <1>4 DEF kbc_write, keys
  <2>3. QED
    BY <2>1, <2>2 DEF Apart
<1>5. CASE kbc_read_return
  <2>1. /\ stage # "loop" /\ outBuf' = << >>
        /\ UNCHANGED <<toSend, kirq, mirq, handled, budget>>
    BY <1>5 DEF kbc_read_return, keys, device
  <2>2. ~kirq /\ ~mirq
    BY <2>1 DEF Apart
  <2>3. QED
    BY <2>1, <2>2 DEF Apart
<1>6. CASE keyboard_int
  <2>1. kirq /\ kirq' = FALSE /\ outBuf' = << >> /\ UNCHANGED <<toSend, budget>>
    BY <1>6 DEF keyboard_int, ReadOutBuf, device
  <2>2. /\ Len(handled) = budget.key - 1 /\ ~mirq
        /\ handled \in Seq(Keys) /\ \A i \in 1 .. Len(handled) : handled[i] = <<"key", i, 0>>
    BY <2>1 DEF Apart
  <2>3. outBuf # << >> /\ outBuf[1].ok /\ outBuf[1].what = <<"key", budget.key, 0>>
    BY <2>1 DEF Apart
  <2>5. /\ scancode' = outBuf[1] /\ handled' = Append(handled, scancode'.what)
        /\ mirq' = (mirq /\ stage' = "loop")
    BY <1>6, <2>3 DEF keyboard_int
  <2>6. handled' = Append(handled, <<"key", budget.key, 0>>)
    BY <2>3, <2>5
  <2>7. <<"key", budget.key, 0>> \in Keys
    BY <1>0 DEF Keys
  <2>8. /\ handled' \in Seq(Keys) /\ Len(handled') = budget.key
        /\ \A i \in 1 .. Len(handled') : handled'[i] = <<"key", i, 0>>
    <3> DEFINE k == <<"key", budget.key, 0>>
    <3>1. handled' = Append(handled, k) /\ k \in Keys
      BY <2>6, <2>7
    <3> HIDE DEF k
    <3>2. /\ handled' \in Seq(Keys) /\ Len(handled') = Len(handled) + 1
          /\ \A i \in 1 .. Len(handled) : handled'[i] = handled[i]
          /\ handled'[Len(handled) + 1] = k
      BY <2>2, <3>1
    <3>3. Len(handled') = budget.key
      BY <1>0, <2>2, <3>2
    <3>4. ASSUME NEW i \in 1 .. Len(handled')
          PROVE  handled'[i] = <<"key", i, 0>>
      <4>1. CASE i = budget.key
        BY <1>0, <2>2, <3>2, <4>1 DEF k
      <4>2. CASE i # budget.key
        <5>1. i \in 1 .. Len(handled)
          BY <1>0, <2>2, <3>2, <3>3, <4>2
        <5>2. QED
          BY <2>2, <3>2, <5>1
      <4>3. QED
        BY <4>1, <4>2
    <3>5. QED
      BY <3>2, <3>3, <3>4
  <2>9. mirq' = FALSE
    BY <2>2, <2>5
  <2>10. QED
    BY <2>1, <2>8, <2>9 DEF Apart
<1>7. CASE mouse_int
  <2>1. mirq /\ mirq' = FALSE /\ outBuf' = << >>
        /\ UNCHANGED <<stage, toSend, kirq, handled, budget>>
    BY <1>7 DEF mouse_int, ReadOutBuf, device, keys
  <2>2. ~kirq
    BY <2>1 DEF Apart
  <2>3. QED
    BY <2>1, <2>2 DEF Apart
<1>8. CASE UNCHANGED vars
  BY <1>8 DEF vars, device, keys, mouse, Apart
<1>9. QED
  BY <1>1, <1>2, <1>3, <1>4, <1>5, <1>6, <1>7, <1>8 DEF Next, Driver

(* The state the program starts in.                                        *)
LEMMA InitApart == Init => Apart
<1> SUFFICES ASSUME Init PROVE Apart
  OBVIOUS
<1>1. /\ kirq = FALSE /\ mirq = FALSE /\ outBuf = << >> /\ handled = << >> /\ toSend = << >>
      /\ budget = [key |-> 0, packet |-> 0, damage |-> 0]
  BY DEF Init
<1>2. handled \in Seq(Keys) /\ toSend \in Seq(MouseBytes) /\ Len(handled) = 0
  BY <1>1
<1>3. stage # "loop"
  BY DEF Init
<1>4. budget \in [key : Nat, packet : Nat, damage : Nat] /\ budget.key = 0
  BY <1>1
<1>5. \A i \in 1 .. Len(handled) : handled[i] = <<"key", i, 0>>
  BY <1>2
<1>6. kirq \in BOOLEAN /\ mirq \in BOOLEAN /\ ~kirq /\ ~mirq /\ Len(handled) = budget.key
  BY <1>1, <1>2, <1>4
<1>7. QED
  BY <1>2, <1>4, <1>5, <1>6, Zenon DEF Apart

(* Until a fault every key is handled once, in order, and no byte of the   *)
(* mouse is taken for one: for any number of keys and packets, whatever    *)
(* their data and whatever faults there may be later.                      *)
THEOREM KeysApart == Spec => []KeysHandledOnce
<1>1. Init => Apart
  BY InitApart
<1>2. (Faultless => Apart) /\ [Next]_vars => (Faultless' => Apart')
  BY ApartNext
<1>3. (Faultless => Apart) => KeysHandledOnce
  <2> SUFFICES ASSUME Faultless => Apart PROVE KeysHandledOnce
    OBVIOUS
  <2>1. Apart => DOMAIN handled = 1 .. Len(handled)
    BY DEF Apart
  <2>2. QED
    BY <2>1 DEF Apart, KeysHandledOnce, Faultless
<1>4. QED
  BY <1>1, <1>2, <1>3, PTL DEF Spec

-----------------------------------------------------------------------------
(* The packets.                                                            *)

(* s is what is left of packet c of the mouse after its i-th byte, with    *)
(* bit 3 of the second and third byte in D.                                *)
Follows(c, i, s, D) ==
  /\ s \in Seq(MouseBytes) /\ Len(s) = 3 - i
  /\ \A j \in 1 .. 3 - i :
       /\ s[j].what = <<"data", c, i + j>>
       /\ i + j = 1 => s[j].sync = TRUE
       /\ i + j # 1 => s[j].sync \in D

(* p is the first k bytes of packet c.                                     *)
Begun(p, c, k) ==
  /\ p \in Seq(MouseBytes) /\ Len(p) = k
  /\ \A i \in 1 .. k : p[i].what = <<"data", c, i>>

(* The next byte of a packet, and the rest.                                *)
LEMMA Onward ==
  ASSUME NEW c \in Nat, NEW i \in 0 .. 2, NEW D, NEW s, Follows(c, i, s, D)
  PROVE  /\ s # << >>
         /\ Head(s) \in MouseBytes
         /\ Head(s).what = <<"data", c, i + 1>>
         /\ i = 0 => Head(s).sync = TRUE
         /\ i # 0 => Head(s).sync \in D
         /\ Follows(c, i + 1, Tail(s), D)
<1> DEFINE t == Tail(s)
<1>1. s \in Seq(MouseBytes) /\ Len(s) = 3 - i
  BY DEF Follows
<1>2. s # << >> /\ Head(s) \in MouseBytes /\ Head(s) = s[1] /\ 1 \in 1 .. 3 - i
  BY <1>1
<1>3. /\ t \in Seq(MouseBytes) /\ Len(t) = 3 - (i + 1)
      /\ \A j \in 1 .. 3 - (i + 1) : t[j] = s[j + 1] /\ j + 1 \in 1 .. 3 - i
  BY <1>1, <1>2
<1>4. /\ s[1].what = <<"data", c, i + 1>>
      /\ i + 1 = 1 => s[1].sync = TRUE
      /\ i + 1 # 1 => s[1].sync \in D
  BY <1>2 DEF Follows
<1> HIDE DEF t
<1>5. ASSUME NEW j \in 1 .. 3 - (i + 1)
      PROVE  /\ t[j].what = <<"data", c, (i + 1) + j>>
             /\ (i + 1) + j # 1 /\ t[j].sync \in D
  <2>1. t[j] = s[j + 1] /\ j + 1 \in 1 .. 3 - i /\ i + (j + 1) = (i + 1) + j /\ i + (j + 1) # 1
    BY <1>3
  <2>2. s[j + 1].what = <<"data", c, i + (j + 1)>> /\ s[j + 1].sync \in D
    BY <2>1 DEF Follows
  <2>3. QED
    BY <2>1, <2>2
<1>6. Follows(c, i + 1, t, D)
  BY <1>3, <1>5 DEF Follows
<1>7. i = 0 \/ i + 1 # 1
  OBVIOUS
<1>8. QED
  BY <1>2, <1>4, <1>6, <1>7 DEF t

(* After the third byte nothing is left.                                   *)
LEMMA PacketDone ==
  ASSUME NEW c, NEW s, NEW D, Follows(c, 3, s, D)
  PROVE  s = << >>
  BY DEF Follows

(* A packet of the mouse.                                                  *)
LEMMA PacketFollows ==
  ASSUME NEW c \in Nat, NEW D \in SUBSET BOOLEAN, NEW s2 \in D, NEW s3 \in D
  PROVE  Follows(c, 0, <<Data(c, 1, TRUE), Data(c, 2, s2), Data(c, 3, s3)>>, D)
<1> DEFINE d1 == Data(c, 1, TRUE)
           d2 == Data(c, 2, s2)
           d3 == Data(c, 3, s3)
           s == <<d1, d2, d3>>
<1>1. s2 \in BOOLEAN /\ s3 \in BOOLEAN
  OBVIOUS
<1>2. d1 \in MouseBytes /\ d2 \in MouseBytes /\ d3 \in MouseBytes
  BY <1>1, DataIsMouse
<1>3. d1.what = <<"data", c, 1>> /\ d2.what = <<"data", c, 2>> /\ d3.what = <<"data", c, 3>>
  BY DEF Data, Byte
<1>4. d1.sync = TRUE /\ d2.sync \in D /\ d3.sync \in D
  BY DEF Data, Byte
<1> HIDE DEF d1, d2, d3
<1>5. s \in Seq(MouseBytes) /\ Len(s) = 3 /\ s[1] = d1 /\ s[2] = d2 /\ s[3] = d3
  BY <1>2
<1> HIDE DEF s
<1>6. ASSUME NEW j \in 1 .. 3 - 0
      PROVE  /\ s[j].what = <<"data", c, 0 + j>>
             /\ 0 + j = 1 => s[j].sync = TRUE
             /\ 0 + j # 1 => s[j].sync \in D
  <2>1. (j = 1 \/ j = 2 \/ j = 3) /\ 0 + j = j
    OBVIOUS
  <2>2. QED
    BY <1>3, <1>4, <1>5, <2>1
<1>7. Follows(c, 0, s, D)
  <2>1. Len(s) = 3 - 0
    BY <1>5
  <2>2. QED
    BY <1>5, <1>6, <2>1, Zenon DEF Follows
<1>8. QED
  BY <1>7 DEF s, d1, d2, d3

(* The byte that arrives is the one that was sent, but for the error.      *)
LEMMA Marked ==
  ASSUME NEW b \in MouseBytes, NEW ok \in BOOLEAN
  PROVE  /\ [b EXCEPT !.ok = ok].what = b.what /\ [b EXCEPT !.ok = ok].sync = b.sync
         /\ [b EXCEPT !.ok = ok].aux = TRUE /\ [b EXCEPT !.ok = ok].ok = ok
         /\ [b EXCEPT !.ok = TRUE] = b
         /\ b.sync \in BOOLEAN /\ b.ok = TRUE /\ b.aux = TRUE
  BY DEF MouseBytes

(* Another byte of the packet.                                             *)
LEMMA Longer ==
  ASSUME NEW p, NEW c \in Nat, NEW k \in 0 .. 2, Begun(p, c, k),
         NEW b \in MouseBytes, b.what = <<"data", c, k + 1>>
  PROVE  Begun(Append(p, b), c, k + 1)
<1> DEFINE q == Append(p, b)
<1>1. p \in Seq(MouseBytes) /\ Len(p) = k /\ \A i \in 1 .. k : p[i].what = <<"data", c, i>>
  BY DEF Begun
<1>2. /\ q \in Seq(MouseBytes) /\ Len(q) = k + 1 /\ q[k + 1] = b
      /\ \A i \in 1 .. k : q[i] = p[i]
  BY <1>1
<1> HIDE DEF q
<1>3. ASSUME NEW i \in 1 .. k + 1
      PROVE  q[i].what = <<"data", c, i>>
  <2>1. CASE i = k + 1
    BY <1>2, <2>1
  <2>2. CASE i # k + 1
    <3>1. i \in 1 .. k
      BY <2>2
    <3>2. QED
      BY <1>1, <1>2, <3>1
  <2>3. QED
    BY <2>1, <2>2
<1>4. Begun(q, c, k + 1)
  BY <1>2, <1>3 DEF Begun
<1>5. QED
  BY <1>4 DEF q

(* Three bytes of one packet are a whole one.                              *)
LEMMA ThreeAreWhole ==
  ASSUME NEW p, NEW c \in Nat, Begun(p, c, 3)
  PROVE  Whole(p)
<1>1. ASSUME NEW i \in 1 .. 3
      PROVE  p[i].what = <<"data", c, i>> /\ p[1].what = <<"data", c, 1>>
  BY DEF Begun
<1>2. ASSUME NEW i \in 1 .. 3
      PROVE  p[i].what[1] = "data" /\ p[i].what[2] = p[1].what[2] /\ p[i].what[3] = i
  BY <1>1
<1>3. QED
  BY <1>2 DEF Whole

(* Nothing of the packet that is next has left the mouse yet.              *)
Fresh(D) == toSend = << >> \/ \E c \in Nat : Follows(c, 0, toSend, D)

(* While the mouse is turned on its answer is asked for, on its way or in  *)
(* the output buffer.                                                      *)
Answering ==
  /\ packet = << >>
  /\ \/ step = "write" /\ outBuf = << >> /\ toSend = << >> /\ reporting = FALSE
     \/ step = "read" /\ outBuf = << >> /\ toSend = <<MOUSE_ACK>>
     \/ step = "read" /\ outBuf = <<MOUSE_ACK>> /\ Fresh(BOOLEAN)

(* In the loop the bytes collected, the one in the output buffer and those *)
(* to come are one packet, or two when the last byte of the first one is   *)
(* in the output buffer.                                                   *)
Pending(c, k) ==
  \/ mirq = FALSE /\ ((k = 0 /\ toSend = << >>) \/ Follows(c, k, toSend, BOOLEAN))
  \/ /\ mirq = TRUE
     /\ outBuf[1] \in MouseBytes /\ outBuf[1].what = <<"data", c, k + 1>>
     /\ k = 0 => outBuf[1].sync = TRUE
     /\ Follows(c, k + 1, toSend, BOOLEAN) \/ (k = 2 /\ Fresh(BOOLEAN))
Collecting == \E c \in Nat, k \in 0 .. 2 : Begun(packet, c, k) /\ Pending(c, k)

(* The inductive invariant of the packets.                                 *)
InStep ==
  /\ torn = 0
  /\ stage = "enable" => Answering
  /\ stage = "loop" => Collecting

(* Nothing collected is the beginning of any packet.                       *)
LEMMA NothingBegun ==
  ASSUME NEW p, NEW c, NEW d
  PROVE  /\ Begun(<< >>, d, 0)
         /\ Begun(p, c, 0) => p = << >>
  BY DEF Begun

(* The mouse sends a byte.                                                 *)
LEMMA MouseByteInStep ==
  ASSUME Apart, InStep, MouseByte, Faultless'
  PROVE  InStep'
<1>1. /\ toSend # << >> /\ Arrive(Head(toSend)) /\ toSend' = Tail(toSend)
      /\ mirq' = (mirq \/ stage = "loop") /\ UNCHANGED <<stage, step, packet, torn>>
  BY DEF MouseByte, mouse
<1>2. outBuf = << >> /\ outBuf' = <<[Head(toSend) EXCEPT !.ok = TRUE]>>
  BY <1>1, Arrives
<1>3. mirq = FALSE
  BY <1>2 DEF Apart
<1>4. CASE stage = "enable"
  <2>1. packet = << >> /\ step = "read" /\ toSend = <<MOUSE_ACK>>
    BY <1>1, <1>2, <1>4 DEF InStep, Answering
  <2>2. Head(toSend) = MOUSE_ACK /\ Tail(toSend) = << >>
    BY <2>1
  <2>3. [MOUSE_ACK EXCEPT !.ok = TRUE] = MOUSE_ACK
    BY AckIsMouse, Marked
  <2>4. outBuf' = <<MOUSE_ACK>> /\ toSend' = << >>
    BY <1>1, <1>2, <2>2, <2>3
  <2>5. Answering'
    BY <1>1, <2>1, <2>4 DEF Answering, Fresh
  <2>6. QED
    BY <1>1, <1>4, <2>5 DEF InStep
<1>5. CASE stage = "loop"
  <2>1. PICK c \in Nat, k \in 0 .. 2 : Begun(packet, c, k) /\ Pending(c, k)
    BY <1>5 DEF InStep, Collecting
  <2>2. Follows(c, k, toSend, BOOLEAN)
    BY <1>1, <1>3, <2>1 DEF Pending
  <2>3. /\ Head(toSend) \in MouseBytes /\ Head(toSend).what = <<"data", c, k + 1>>
        /\ k = 0 => Head(toSend).sync = TRUE
        /\ Follows(c, k + 1, Tail(toSend), BOOLEAN)
    BY <2>2, Onward
  <2>4. outBuf' = <<Head(toSend)>>
    BY <1>2, <2>3, Marked
  <2>5. outBuf'[1] = Head(toSend)
    BY <2>4
  <2>6. mirq' = TRUE
    BY <1>1, <1>5
  <2>7. Pending(c, k)'
    BY <1>1, <2>3, <2>5, <2>6 DEF Pending
  <2>8. Collecting'
    BY <1>1, <2>1, <2>7 DEF Collecting
  <2>9. QED
    BY <1>1, <1>5, <2>8 DEF InStep
<1>6. CASE stage # "enable" /\ stage # "loop"
  BY <1>1, <1>6 DEF InStep
<1>7. QED
  BY <1>4, <1>5, <1>6

(* The mouse is moved.                                                     *)
LEMMA MoveMouseInStep ==
  ASSUME Apart, InStep, MoveMouse
  PROVE  InStep'
<1>1. /\ reporting /\ toSend = << >>
      /\ UNCHANGED <<stage, step, outBuf, mirq, packet, torn, reporting>>
  BY DEF MoveMouse, mouse
<1>2. PICK n \in Nat : Follows(n, 0, toSend', BOOLEAN)
  <2>1. PICK s2 \in DataSync, s3 \in DataSync :
          toSend' = <<Data(budget.packet + 1, 1, TRUE), Data(budget.packet + 1, 2, s2),
                      Data(budget.packet + 1, 3, s3)>>
    BY DEF MoveMouse
  <2>2. budget.packet + 1 \in Nat
    BY DEF Apart
  <2>3. s2 \in BOOLEAN /\ s3 \in BOOLEAN
    BY KbcAssumption
  <2>4. Follows(budget.packet + 1, 0, toSend', BOOLEAN)
    BY <2>1, <2>2, <2>3, PacketFollows
  <2>5. QED
    BY <2>2, <2>4
<1>3. Fresh(BOOLEAN)'
  BY <1>2 DEF Fresh
<1>4. CASE stage = "enable"
  <2>1. <<MOUSE_ACK>> # << >>
    OBVIOUS
  <2>2. packet = << >> /\ step = "read" /\ outBuf = <<MOUSE_ACK>>
    BY <1>1, <1>4, <2>1 DEF InStep, Answering
  <2>3. Answering'
    BY <1>1, <1>3, <2>2 DEF Answering
  <2>4. QED
    BY <1>1, <1>4, <2>3 DEF InStep
<1>5. CASE stage = "loop"
  <2>1. PICK c \in Nat, k \in 0 .. 2 : Begun(packet, c, k) /\ Pending(c, k)
    BY <1>5 DEF InStep, Collecting
  <2>2. \A i \in 0 .. 3 : Follows(c, i, toSend, BOOLEAN) => i = 3
    BY <1>1 DEF Follows
  <2>3. CASE mirq = FALSE
    <3>1. k = 0
      BY <1>1, <2>1, <2>2, <2>3 DEF Pending
    <3>2. Begun(packet', n, 0)
      BY <1>1, <2>1, <3>1, NothingBegun
    <3>3. Pending(n, 0)'
      BY <1>1, <1>2, <2>3 DEF Pending
    <3>4. Collecting'
      BY <3>2, <3>3 DEF Collecting
    <3>5. QED
      BY <1>1, <3>4, <1>5 DEF InStep
  <2>4. CASE mirq = TRUE
    <3>1. k + 1 \in 0 .. 3 /\ (k + 1 = 3 => k = 2)
      OBVIOUS
    <3>2. k = 2
      BY <2>1, <2>2, <2>4, <3>1 DEF Pending
    <3>3. Pending(c, k)'
      BY <1>1, <1>3, <2>1, <2>4, <3>2 DEF Pending
    <3>4. Collecting'
      BY <1>1, <2>1, <3>3 DEF Collecting
    <3>5. QED
      BY <1>1, <3>4, <1>5 DEF InStep
  <2>5. QED
    BY <2>3, <2>4 DEF Apart
<1>6. CASE stage # "enable" /\ stage # "loop"
  BY <1>1, <1>6 DEF InStep
<1>7. QED
  BY <1>4, <1>5, <1>6

(* mouse_int takes the byte that comes next.                               *)
LEMMA MouseIntInStep ==
  ASSUME Apart, InStep, mouse_int
  PROVE  InStep'
<1>1. stage = "loop" /\ mirq = TRUE /\ mirq' = FALSE /\ outBuf # << >>
      /\ UNCHANGED <<stage, toSend>>
  BY DEF mouse_int, device, Apart
<1>2. PICK c \in Nat, k \in 0 .. 2 : Begun(packet, c, k) /\ Pending(c, k)
  BY <1>1 DEF InStep, Collecting
<1>3. /\ outBuf[1] \in MouseBytes /\ outBuf[1].what = <<"data", c, k + 1>>
      /\ k = 0 => outBuf[1].sync = TRUE
      /\ Follows(c, k + 1, toSend, BOOLEAN) \/ (k = 2 /\ Fresh(BOOLEAN))
  BY <1>1, <1>2 DEF Pending
<1>4. outBuf[1].ok = TRUE /\ outBuf[1].aux = TRUE
  BY <1>3, Marked
<1>5. byte' = outBuf[1] /\ \E d \in BOOLEAN : Collect(d)
  BY <1>1, <1>4 DEF mouse_int
<1>6. Begun(Append(packet, byte'), c, k + 1)
  BY <1>2, <1>3, <1>5, Longer
<1>7. Len(packet) = k
  BY <1>2 DEF Begun
<1>8. ~(packet = << >> /\ ~byte'.sync)
  <2>1. packet = << >> => k = 0
    BY <1>7
  <2>2. QED
    BY <1>3, <1>5, <2>1
<1>9. CASE k = 2
  <2>1. Whole(Append(packet, byte'))
    BY <1>6, <1>9, ThreeAreWhole
  <2>2. packet' = << >>
    BY <1>5, <1>7, <1>8, <1>9 DEF Collect
  <2>3. torn' = 0
    BY <1>5, <2>1 DEF Collect, InStep
  <2>4. Fresh(BOOLEAN)'
    <3>1. Follows(c, 3, toSend, BOOLEAN) => toSend = << >>
      BY DEF Follows
    <3>2. toSend' = << >> \/ \E d \in Nat : Follows(d, 0, toSend', BOOLEAN)
      BY <1>1, <1>3, <1>9, <3>1 DEF Fresh
    <3>3. QED
      BY <3>2 DEF Fresh
  <2>5. PICK d \in Nat : toSend' = << >> \/ Follows(d, 0, toSend', BOOLEAN)
    BY <2>4 DEF Fresh
  <2>6. Begun(packet', d, 0) /\ Pending(d, 0)'
    BY <1>1, <2>2, <2>5, NothingBegun DEF Pending
  <2>7. QED
    BY <1>1, <2>3, <2>6 DEF InStep, Collecting
<1>10. CASE k # 2
  <2>1. packet' = Append(packet, byte')
    BY <1>5, <1>7, <1>8, <1>10 DEF Collect
  <2>2. torn' = 0
    BY <1>5, <1>7, <1>10 DEF Collect, InStep
  <2>3. k + 1 \in 0 .. 2
    BY <1>10
  <2>4. Begun(packet', c, k + 1) /\ Pending(c, k + 1)'
    BY <1>1, <1>3, <1>6, <1>10, <2>1 DEF Pending
  <2>5. QED
    BY <1>1, <2>2, <2>3, <2>4 DEF InStep, Collecting
<1>11. QED
  BY <1>9, <1>10

(* Every step keeps the packets in step with the mouse.                    *)
LEMMA InStepNext ==
  ASSUME Faultless => Apart /\ InStep, [Next]_vars, Faultless'
  PROVE  InStep'
<1> Apart /\ InStep
  BY FaultsStay
<1>1. CASE PressKey
  <2>1. /\ stage' = stage /\ UNCHANGED <<mirq, toSend, packet, torn>>
        /\ Arrive(Scancode(budget.key + 1)) /\ Scancode(budget.key + 1).aux = FALSE
    BY <1>1, ScancodeFields DEF PressKey, device, mouse
  <2>2. stage = "loop" /\ outBuf = << >>
    BY <2>1, Arrives
  <2>3. mirq = FALSE
    BY <2>2 DEF Apart
  <2>4. PICK c \in Nat, k \in 0 .. 2 : Begun(packet, c, k) /\ Pending(c, k)
    BY <2>2 DEF InStep, Collecting
  <2>5. Pending(c, k)'
    BY <2>1, <2>3, <2>4 DEF Pending
  <2>6. QED
    BY <2>1, <2>2, <2>4, <2>5 DEF InStep, Collecting
<1>2. CASE MouseByte
  BY <1>2, MouseByteInStep
<1>3. CASE MoveMouse
  BY <1>3, MoveMouseInStep
<1>4. CASE kbc_write
  <2>1. /\ step = "write" /\ step' = "read" /\ toSend' = <<MOUSE_ACK>>
        /\ stage \in {"enable", "disable"} /\ UNCHANGED <<stage, outBuf, packet, torn>>
    BY <1>4 DEF kbc_write, mouse
  <2>2. stage = "enable" => packet = << >> /\ outBuf = << >>
    BY <2>1 DEF InStep, Answering
  <2>3. stage = "enable" => Answering'
    BY <2>1, <2>2 DEF Answering
  <2>4. QED
    BY <2>1, <2>3 DEF InStep
<1>5. CASE kbc_read_return
  <2>1. /\ step = "read" /\ outBuf # << >> /\ last' = outBuf[1]
        /\ stage \in {"enable", "disable"} /\ UNCHANGED <<toSend, mirq, packet, torn>>
        /\ IF last' = MOUSE_ACK
             THEN stage' = IF stage = "enable" THEN "loop" ELSE "off"
             ELSE UNCHANGED stage
    BY <1>5 DEF kbc_read_return, device, mouse, Note, Faultless
  <2>2. CASE stage = "enable"
    <3>1. packet = << >> /\ outBuf = <<MOUSE_ACK>> /\ Fresh(BOOLEAN)
      BY <2>1, <2>2 DEF InStep, Answering
    <3>2. stage' = "loop"
      <4>1. outBuf[1] = MOUSE_ACK
        BY <3>1
      <4>2. QED
        BY <2>1, <2>2, <4>1
    <3>3. PICK c \in Nat : toSend = << >> \/ Follows(c, 0, toSend, BOOLEAN)
      BY <3>1 DEF Fresh
    <3>4. mirq' = FALSE
      BY <2>1, <2>2 DEF Apart
    <3>5. Begun(packet', c, 0) /\ Pending(c, 0)'
      BY <2>1, <3>1, <3>3, <3>4, NothingBegun DEF Pending
    <3>6. QED
      BY <2>1, <3>2, <3>5 DEF InStep, Collecting
  <2>3. CASE stage = "disable"
    BY <2>1, <2>3 DEF InStep
  <2>4. QED
    BY <2>1, <2>2, <2>3
<1>6. CASE keyboard_int
  <2>1. /\ stage = "loop" /\ kirq /\ UNCHANGED <<toSend, packet>>
        /\ stage' \in {"loop", "disable"}
        /\ torn' = IF outBuf # << >> /\ outBuf[1].aux THEN 0 ELSE torn
        /\ mirq' = mirq \/ mirq' = (mirq /\ stage' = "loop")
    BY <1>6 DEF keyboard_int, device
  <2>2. mirq = FALSE
    BY <2>1 DEF Apart
  <2>3. mirq' = FALSE
    BY <2>1, <2>2
  <2>4. torn' = 0
    BY <2>1 DEF InStep
  <2>5. PICK c \in Nat, k \in 0 .. 2 : Begun(packet, c, k) /\ Pending(c, k)
    BY <2>1 DEF InStep, Collecting
  <2>6. Pending(c, k)'
    BY <2>1, <2>2, <2>3, <2>5 DEF Pending
  <2>7. QED
    BY <2>1, <2>4, <2>5, <2>6 DEF InStep, Collecting
<1>7. CASE mouse_int
  BY <1>7, MouseIntInStep
<1>8. CASE UNCHANGED vars
  <2>1. UNCHANGED <<stage, step, outBuf, toSend, reporting, mirq, packet, torn>>
    BY <1>8 DEF vars, device, mouse
  <2>2. QED
    BY <2>1 DEF InStep, Answering, Collecting, Pending, Fresh
<1>9. QED
  BY <1>1, <1>2, <1>3, <1>4, <1>5, <1>6, <1>7, <1>8 DEF Next, Driver

(* The mouse has been asked for nothing yet.                               *)
LEMMA InitInStep == Init => InStep
<1> SUFFICES ASSUME Init PROVE InStep
  OBVIOUS
<1>1. Answering
  BY DEF Init, Answering
<1>2. QED
  BY <1>1 DEF Init, InStep

(* Until a fault every packet that mouse_int takes apart is one packet of  *)
(* the mouse: for any number of packets and keys, whatever bit 3 of the    *)
(* bytes and wherever keys fall between them.                              *)
THEOREM PacketsInStep == Spec => []PacketsWhole
<1>1. Init => Apart /\ InStep
  BY InitApart, InitInStep
<1>2. (Faultless => Apart /\ InStep) /\ [Next]_vars => (Faultless' => Apart' /\ InStep')
  BY ApartNext, InStepNext
<1>3. (Faultless => Apart /\ InStep) => PacketsWhole
  BY DEF InStep, Faultless, PacketsWhole
<1>4. QED
  BY <1>1, <1>2, <1>3, PTL DEF Spec

-----------------------------------------------------------------------------
(* Synchronisation: after any fault.                                       *)

Plain == "bit 3" \notin seen
Budgets == [key : Nat, packet : Nat, damage : Nat]

(* A byte of the mouse is in the output buffer.                            *)
HasAux == outBuf # << >> /\ outBuf[1].aux

(* What the mouse has to send is its answer or the rest of a packet.       *)
Sending ==
  \/ toSend = << >> \/ toSend = <<MOUSE_ACK>>
  \/ \E c \in Nat, i \in 0 .. 2 : Follows(c, i, toSend, {FALSE})

(* The byte in the output buffer is an answer, or one of a packet whose    *)
(* rest is still to be sent.                                               *)
IsData(b, c, i, s) ==
  /\ b.what = <<"data", c, i>>
  /\ i = 1 => b.sync = TRUE
  /\ i # 1 => b.sync = FALSE
  /\ i = 3 \/ Follows(c, i, s, {FALSE})
Arrived ==
  /\ outBuf[1].ok => outBuf[1] \in MouseBytes
  /\ \/ outBuf[1].ok => outBuf[1] = MOUSE_ACK
     \/ \E c \in Nat, i \in 1 .. 3 : IsData(outBuf[1], c, i, toSend)

(* What has been collected is the beginning of the packet whose next byte  *)
(* is in the output buffer or to be sent.                                  *)
Aligned ==
  \/ packet = << >>
  \/ \E c \in Nat, k \in 1 .. 2 :
       /\ Begun(packet, c, k)
       /\ HasAux => outBuf[1].what = <<"data", c, k + 1>>
       /\ ~HasAux => Follows(c, k, toSend, {FALSE})

(* The inductive invariant: a torn packet leaves nothing behind, and after *)
(* it only the first byte of a packet is collected as one.                 *)
Resync ==
  /\ budget \in Budgets /\ torn \in {0, 1} /\ Sending
  /\ stage = "enable" => torn = 0
  /\ stage = "loop" => /\ HasAux => Arrived
                       /\ torn = 1 => Aligned

(* What has been noted stays noted.                                        *)
LEMMA PlainBefore ==
  ASSUME [Next]_vars, Plain'
  PROVE  Plain
<1>1. CASE PressKey \/ MouseByte \/ MoveMouse
  <2>1. \E what, happened : Note(what, happened)
    BY <1>1 DEF PressKey, MouseByte, MoveMouse, Arrive
  <2>2. QED
    BY <2>1 DEF Note, Plain
<1>2. CASE kbc_read_return
  BY <1>2 DEF kbc_read_return, Note, Plain
<1>3. CASE kbc_write \/ keyboard_int \/ mouse_int \/ UNCHANGED vars
  BY <1>3 DEF kbc_write, keyboard_int, mouse_int, vars, Plain
<1>4. QED
  BY <1>1, <1>2, <1>3 DEF Next, Driver

(* A byte arrives, damaged or not.                                         *)
LEMMA AnyArrives ==
  ASSUME budget \in Budgets, NEW b, Arrive(b)
  PROVE  /\ outBuf = << >> /\ budget' \in Budgets
         /\ \E ok \in BOOLEAN : outBuf' = <<[b EXCEPT !.ok = ok]>>
<1>1. PICK ok \in BOOLEAN :
        /\ outBuf' = <<[b EXCEPT !.ok = ok]>>
        /\ budget' = [budget EXCEPT !.damage = IF ok THEN @ ELSE @ + 1,
                                    !.key = IF b.aux THEN @ ELSE @ + 1]
  BY DEF Arrive
<1>2. budget' = [key |-> IF b.aux THEN budget.key ELSE budget.key + 1,
                 packet |-> budget.packet,
                 damage |-> IF ok THEN budget.damage ELSE budget.damage + 1]
  BY <1>1 DEF Budgets
<1>3. budget.key \in Nat /\ budget.packet \in Nat /\ budget.damage \in Nat
  BY DEF Budgets
<1>4. budget' \in Budgets
  BY <1>2, <1>3 DEF Budgets
<1>5. outBuf = << >>
  BY DEF Arrive
<1>6. QED
  BY <1>1, <1>4, <1>5, Zenon

(* A disturbed or a first torn packet.                                     *)
LEMMA CollectAny ==
  ASSUME NEW d \in BOOLEAN, Collect(d), torn \in {0, 1}, d = TRUE \/ torn = 0
  PROVE  torn' \in {0, 1} /\ (torn' = 1 => packet' = << >>)
<1>1. torn' = 0 \/ (torn' = 1 /\ Len(packet) = 2)
  BY DEF Collect
<1>2. Len(packet) = 2 => packet # << >>
  OBVIOUS
<1>3. Len(packet) = 2 => packet' = << >>
  BY <1>2 DEF Collect
<1>4. QED
  BY <1>1, <1>3

(* The mouse sends a byte.                                                 *)
LEMMA MouseByteResync ==
  ASSUME Resync, MouseByte
  PROVE  Resync'
<1>1. /\ toSend # << >> /\ Arrive(Head(toSend)) /\ toSend' = Tail(toSend)
      /\ UNCHANGED <<stage, packet, torn>>
  BY DEF MouseByte, mouse
<1>2. outBuf = << >> /\ budget' \in Budgets
  BY <1>1, AnyArrives DEF Resync
<1>3. PICK ok \in BOOLEAN : outBuf' = <<[Head(toSend) EXCEPT !.ok = ok]>>
  BY <1>1, AnyArrives DEF Resync
<1> DEFINE b == [Head(toSend) EXCEPT !.ok = ok]
<1>4. outBuf' # << >> /\ outBuf'[1] = b
  BY <1>3
<1>5. ~HasAux
  BY <1>2 DEF HasAux
<1>6. /\ Head(toSend) \in MouseBytes
      /\ Sending'
      /\ Head(toSend) = MOUSE_ACK \/ \E c \in Nat, i \in 1 .. 3 : IsData(Head(toSend), c, i, toSend')
  <2>1. CASE toSend = <<MOUSE_ACK>>
    <3>1. Head(toSend) = MOUSE_ACK /\ Tail(toSend) = << >>
      BY <2>1
    <3>2. QED
      BY <1>1, <3>1, AckIsMouse DEF Sending
  <2>2. ASSUME NEW c \in Nat, NEW i \in 0 .. 2, Follows(c, i, toSend, {FALSE})
        PROVE  /\ Head(toSend) \in MouseBytes /\ Sending'
               /\ \E m \in Nat, j \in 1 .. 3 : IsData(Head(toSend), m, j, toSend')
    <3>1. /\ Head(toSend) \in MouseBytes /\ Head(toSend).what = <<"data", c, i + 1>>
          /\ i = 0 => Head(toSend).sync = TRUE
          /\ i # 0 => Head(toSend).sync \in {FALSE}
          /\ Follows(c, i + 1, Tail(toSend), {FALSE})
      BY <2>2, Onward
    <3>2. i + 1 \in 1 .. 3 /\ (i = 0 <=> i + 1 = 1) /\ (i + 1 \in 0 .. 2 \/ i + 1 = 3)
      OBVIOUS
    <3>3. IsData(Head(toSend), c, i + 1, toSend')
      BY <1>1, <3>1, <3>2 DEF IsData
    <3>4. Follows(c, 3, Tail(toSend), {FALSE}) => Tail(toSend) = << >>
      BY PacketDone
    <3>5. Sending'
      BY <1>1, <3>1, <3>2, <3>4 DEF Sending
    <3>6. QED
      BY <3>1, <3>2, <3>3, <3>5
  <2>3. QED
    BY <1>1, <2>1, <2>2 DEF Resync, Sending
<1>7. /\ b.what = Head(toSend).what /\ b.sync = Head(toSend).sync /\ b.aux = TRUE /\ b.ok = ok
      /\ ok = TRUE => b = Head(toSend)
  BY <1>6, Marked
<1> HIDE DEF b
<1>8. HasAux'
  BY <1>4, <1>7 DEF HasAux
<1>9. Arrived'
  <2>1. b.ok => b \in MouseBytes
    BY <1>6, <1>7
  <2>2. CASE Head(toSend) = MOUSE_ACK
    <3>1. b.ok => b = MOUSE_ACK
      BY <1>7, <2>2
    <3>2. QED
      BY <1>4, <2>1, <3>1 DEF Arrived
  <2>3. ASSUME NEW c \in Nat, NEW i \in 1 .. 3, IsData(Head(toSend), c, i, toSend')
        PROVE  Arrived'
    <3>1. IsData(b, c, i, toSend')
      BY <1>4, <1>7, <2>3 DEF IsData
    <3>2. QED
      BY <1>4, <2>1, <3>1 DEF Arrived
  <2>4. QED
    BY <1>6, <2>2, <2>3
<1>10. ASSUME stage = "loop", torn = 1
       PROVE  Aligned'
  <2>1. CASE packet = << >>
    BY <1>1, <2>1 DEF Aligned
  <2>2. ASSUME NEW c \in Nat, NEW k \in 1 .. 2,
               Begun(packet, c, k), Follows(c, k, toSend, {FALSE})
        PROVE  Aligned'
    <3>1. k \in 0 .. 2
      OBVIOUS
    <3>2. b.what = <<"data", c, k + 1>>
      BY <1>7, <2>2, <3>1, Onward
    <3>3. QED
      BY <1>1, <1>4, <1>8, <2>2, <3>2 DEF Aligned
  <2>3. QED
    BY <1>5, <1>10, <2>1, <2>2 DEF Resync, Aligned
<1>11. QED
  BY <1>1, <1>2, <1>6, <1>9, <1>10 DEF Resync

(* The mouse is moved.                                                     *)
LEMMA MoveMouseResync ==
  ASSUME Resync, MoveMouse, Plain'
  PROVE  Resync'
<1>1. toSend = << >> /\ UNCHANGED <<stage, outBuf, packet, torn>>
  BY DEF MoveMouse, mouse
<1>2. PICK s2 \in DataSync, s3 \in DataSync :
        /\ toSend' = <<Data(budget.packet + 1, 1, TRUE), Data(budget.packet + 1, 2, s2),
                       Data(budget.packet + 1, 3, s3)>>
        /\ Note("bit 3", s2 \/ s3)
  BY DEF MoveMouse
<1>3. s2 \in {FALSE} /\ s3 \in {FALSE}
  <2>1. ~(s2 \/ s3)
    BY <1>2 DEF Note, Plain
  <2>2. QED
    BY <2>1, KbcAssumption
<1>4. /\ budget \in Budgets /\ budget' = [budget EXCEPT !.packet = @ + 1]
  BY DEF MoveMouse, Resync
<1>5. budget' \in Budgets /\ budget.packet + 1 \in Nat
  BY <1>4 DEF Budgets
<1>6. Follows(budget.packet + 1, 0, toSend', {FALSE})
  BY <1>2, <1>3, <1>5, PacketFollows
<1>7. Sending'
  BY <1>5, <1>6 DEF Sending
<1>8. \A c \in Nat, i \in 0 .. 3 : Follows(c, i, toSend, {FALSE}) => i = 3
  BY <1>1 DEF Follows
<1>9. HasAux' <=> HasAux
  BY <1>1 DEF HasAux
<1>10. HasAux /\ stage = "loop" => Arrived'
  <2> SUFFICES ASSUME Arrived PROVE Arrived'
    BY DEF Resync
  <2>1. ASSUME NEW c \in Nat, NEW i \in 1 .. 3, IsData(outBuf[1], c, i, toSend)
        PROVE  IsData(outBuf[1], c, i, toSend')
    <3>1. i \in 0 .. 3
      OBVIOUS
    <3>2. i = 3
      BY <1>8, <2>1, <3>1 DEF IsData
    <3>3. QED
      BY <2>1, <3>2 DEF IsData
  <2>2. QED
    BY <1>1, <2>1 DEF Arrived
<1>11. stage = "loop" /\ torn = 1 => Aligned'
  <2> SUFFICES ASSUME Aligned PROVE Aligned'
    BY DEF Resync
  <2>1. \A c \in Nat, k \in 1 .. 2 : ~Follows(c, k, toSend, {FALSE})
    BY <1>8
  <2>2. QED
    BY <1>1, <1>9, <2>1 DEF Aligned
<1>12. QED
  BY <1>1, <1>5, <1>7, <1>9, <1>10, <1>11 DEF Resync

(* mouse_int drops a byte, repeats one or takes the next.                  *)
LEMMA MouseIntResync ==
  ASSUME Resync, mouse_int
  PROVE  Resync'
<1>1. /\ stage = "loop" /\ outBuf' = << >> /\ UNCHANGED <<stage, toSend, budget>>
  BY DEF mouse_int, ReadOutBuf, device
<1>2. ~HasAux'
  BY <1>1 DEF HasAux
<1>3. SUFFICES torn' \in {0, 1} /\ (torn' = 1 => Aligned')
  BY <1>1, <1>2 DEF Resync, Sending
<1>4. CASE torn' = 0
  BY <1>4
<1>5. CASE torn' # 0
  <2> DEFINE d == (outBuf = << >> \/ byte' = MOUSE_ACK)
  <2>1. /\ outBuf # << >> => outBuf[1].ok /\ outBuf[1].aux
        /\ byte' = IF outBuf # << >> THEN outBuf[1] ELSE byte
        /\ Collect(d)
    BY <1>5 DEF mouse_int
  <2>2. d \in BOOLEAN /\ torn \in {0, 1}
    BY DEF Resync
  <2>3. CASE d = TRUE \/ torn = 0
    <3> HIDE DEF d
    <3>1. torn' \in {0, 1} /\ (torn' = 1 => packet' = << >>)
      BY <2>1, <2>2, <2>3, CollectAny
    <3>2. QED
      BY <3>1 DEF Aligned
  <2>4. CASE d = FALSE /\ torn = 1
    <3>1. /\ outBuf # << >> /\ byte' = outBuf[1] /\ byte' # MOUSE_ACK
          /\ outBuf[1].ok /\ outBuf[1].aux
      BY <2>1, <2>4
    <3>2. HasAux
      BY <3>1 DEF HasAux
    <3>3. Arrived /\ Aligned
      BY <1>1, <2>4, <3>2 DEF Resync
    <3>4. byte' \in MouseBytes
      BY <3>1, <3>3 DEF Arrived
    <3>5. PICK c \in Nat, i \in 1 .. 3 : IsData(byte', c, i, toSend)
      BY <3>1, <3>3 DEF Arrived
    <3> HIDE DEF d
    <3>6. Collect(FALSE)
      BY <2>1, <2>4
    <3>7. CASE packet = << >>
      <4>1. Len(packet) # 2
        BY <3>7
      <4>2. torn' = 1
        BY <2>4, <3>6, <4>1 DEF Collect
      <4>3. CASE i = 1
        <5>1. byte'.sync = TRUE /\ byte'.what = <<"data", c, 0 + 1>> /\ Follows(c, 1, toSend, {FALSE})
          BY <3>5, <4>3 DEF IsData
        <5>2. packet' = Append(packet, byte')
          BY <3>6, <4>1, <5>1 DEF Collect
        <5>3. Begun(packet, c, 0)
          BY <3>7, NothingBegun
        <5>4. Begun(packet', c, 0 + 1)
          BY <3>4, <5>1, <5>2, <5>3, Longer
        <5>5. Aligned'
          BY <1>1, <1>2, <5>1, <5>4 DEF Aligned
        <5>6. QED
          BY <4>2, <5>5
      <4>4. CASE i # 1
        <5>1. byte'.sync = FALSE
          BY <3>5, <4>4 DEF IsData
        <5>2. packet' = << >>
          BY <3>6, <3>7, <5>1 DEF Collect
        <5>3. QED
          BY <4>2, <5>2 DEF Aligned
      <4>5. QED
        BY <4>3, <4>4
    <3>8. CASE packet # << >>
      <4>1. PICK m \in Nat, k \in 1 .. 2 :
              Begun(packet, m, k) /\ outBuf[1].what = <<"data", m, k + 1>>
        BY <3>2, <3>3, <3>8 DEF Aligned
      <4>2. byte'.what = <<"data", m, k + 1>> /\ byte'.what = <<"data", c, i>>
        BY <3>1, <3>5, <4>1 DEF IsData
      <4>3. m = c /\ k + 1 = i
        BY <4>2
      <4>4. k \in 0 .. 2 /\ Len(packet) = k
        BY <4>1 DEF Begun
      <4>5. Begun(Append(packet, byte'), m, k + 1)
        BY <3>4, <4>1, <4>2, <4>4, Longer
      <4>6. CASE k = 2
        <5>1. Whole(Append(packet, byte'))
          BY <4>5, <4>6, ThreeAreWhole
        <5>2. torn' = 1
          BY <2>4, <3>6, <5>1 DEF Collect
        <5>3. packet' = << >>
          BY <3>6, <3>8, <4>4, <4>6 DEF Collect
        <5>4. QED
          BY <5>2, <5>3 DEF Aligned
      <4>7. CASE k = 1
        <5>1. torn' = 1 /\ packet' = Append(packet, byte')
          BY <2>4, <3>6, <3>8, <4>4, <4>7 DEF Collect
        <5>2. i = 2 /\ i # 3
          BY <4>3, <4>7
        <5>3. Follows(m, 2, toSend, {FALSE})
          BY <3>5, <4>3, <5>2 DEF IsData
        <5>4. Begun(packet', m, 2)
          BY <4>5, <4>7, <5>1
        <5>5. Aligned'
          BY <1>1, <1>2, <5>3, <5>4 DEF Aligned
        <5>6. QED
          BY <5>1, <5>5
      <4>8. QED
        BY <4>6, <4>7
    <3>9. QED
      BY <3>7, <3>8
  <2>5. QED
    BY <2>2, <2>3, <2>4
<1>6. QED
  BY <1>4, <1>5

(* Every step keeps the packets resynchronised.                            *)
LEMMA ResyncNext ==
  ASSUME Plain => Resync, [Next]_vars, Plain'
  PROVE  Resync'
<1> Resync
  BY PlainBefore
<1>1. CASE PressKey
  <2>1. /\ UNCHANGED <<stage, toSend, packet, torn>> /\ Arrive(Scancode(budget.key + 1))
    BY <1>1 DEF PressKey, device, mouse
  <2>2. outBuf = << >> /\ budget' \in Budgets
    BY <2>1, AnyArrives DEF Resync
  <2>3. PICK ok \in BOOLEAN : outBuf' = <<[Scancode(budget.key + 1) EXCEPT !.ok = ok]>>
    BY <2>1, AnyArrives DEF Resync
  <2>4. outBuf'[1].aux = FALSE
    <3> DEFINE b == [Scancode(budget.key + 1) EXCEPT !.ok = ok]
    <3>1. b.aux = FALSE
      BY DEF Scancode, Byte
    <3> HIDE DEF b
    <3>2. outBuf' = <<b>>
      BY <2>3 DEF b
    <3>3. QED
      BY <3>1, <3>2
  <2>5. ~HasAux /\ ~HasAux'
    BY <2>2, <2>4 DEF HasAux
  <2>6. Aligned => Aligned'
    BY <2>1, <2>5 DEF Aligned
  <2>7. QED
    BY <2>1, <2>2, <2>5, <2>6 DEF Resync, Sending
<1>2. CASE MouseByte
  BY <1>2, MouseByteResync
<1>3. CASE MoveMouse
  BY <1>3, MoveMouseResync
<1>4. CASE kbc_write
  <2>1. /\ stage \in {"enable", "disable"} /\ toSend' = <<MOUSE_ACK>>
        /\ UNCHANGED <<stage, packet, torn, budget>>
    BY <1>4 DEF kbc_write, mouse
  <2>2. QED
    BY <2>1 DEF Resync, Sending
<1>5. CASE kbc_read_return
  <2>1. /\ stage \in {"enable", "disable"} /\ outBuf' = << >>
        /\ UNCHANGED <<toSend, packet, torn, budget>>
        /\ stage = "disable" => stage' \in {"disable", "off"}
    BY <1>5 DEF kbc_read_return, device, mouse
  <2>2. ~HasAux'
    BY <2>1 DEF HasAux
  <2>3. CASE stage = "enable"
    <3>1. torn' = 0
      BY <2>1, <2>3 DEF Resync
    <3>2. QED
      BY <2>1, <2>2, <3>1 DEF Resync, Sending
  <2>4. CASE stage = "disable"
    BY <2>1, <2>4 DEF Resync, Sending
  <2>5. QED
    BY <2>1, <2>3, <2>4
<1>6. CASE keyboard_int
  <2>1. /\ stage = "loop" /\ outBuf' = << >> /\ UNCHANGED <<toSend, packet, budget>>
        /\ stage' \in {"loop", "disable"}
        /\ torn' = IF outBuf # << >> /\ outBuf[1].aux THEN 0 ELSE torn
    BY <1>6 DEF keyboard_int, ReadOutBuf, device
  <2>2. ~HasAux'
    BY <2>1 DEF HasAux
  <2>3. torn' \in {0, 1} /\ (torn' = 1 => torn = 1 /\ ~HasAux)
    BY <2>1 DEF Resync, HasAux
  <2>4. Aligned /\ ~HasAux => Aligned'
    BY <2>1, <2>2 DEF Aligned
  <2>5. QED
    BY <2>1, <2>2, <2>3, <2>4 DEF Resync, Sending
<1>7. CASE mouse_int
  BY <1>7, MouseIntResync
<1>8. CASE UNCHANGED vars
  <2>1. UNCHANGED <<stage, outBuf, toSend, packet, torn, budget>>
    BY <1>8 DEF vars, device, mouse
  <2>2. QED
    BY <2>1 DEF Resync, Sending, HasAux, Arrived, Aligned
<1>9. QED
  BY <1>1, <1>2, <1>3, <1>4, <1>5, <1>6, <1>7, <1>8 DEF Next, Driver

(* However bytes are lost, damaged, repeated or stolen by the keyboard's   *)
(* handler, at most one packet is torn before the packets are whole again, *)
(* unless the data themselves carry bit 3 in a second or third byte.       *)
THEOREM LosesOnePacket == Spec => []Synchronises
<1>1. Init => Resync
  <2> SUFFICES ASSUME Init PROVE Resync
    OBVIOUS
  <2>1. stage = "enable" /\ toSend = << >> /\ torn = 0
        /\ budget = [key |-> 0, packet |-> 0, damage |-> 0]
    BY DEF Init
  <2>2. budget \in Budgets
    BY <2>1 DEF Budgets
  <2>3. QED
    BY <2>1, <2>2 DEF Resync, Sending
<1>2. (Plain => Resync) /\ [Next]_vars => (Plain' => Resync')
  BY ResyncNext
<1>3. (Plain => Resync) => Synchronises
  <2>1. Resync => torn = 0 \/ torn = 1
    BY DEF Resync
  <2>2. torn = 0 \/ torn = 1 => torn <= 1
    OBVIOUS
  <2>3. QED
    BY <2>1, <2>2 DEF Plain, Synchronises
<1>4. QED
  BY <1>1, <1>2, <1>3, PTL DEF Spec
=============================================================================
