--------------------------------- MODULE Kbc --------------------------------
(***************************************************************************)
(* The keyboard and the mouse behind one i8042 controller: the drivers of  *)
(* keyboard.c and mouse.c, the exchange that turns the mouse on and off,   *)
(* and the packets that mouse_int puts together.                           *)
(*                                                                         *)
(* Both devices answer through one output buffer of one byte.  kbc_ih does *)
(* not look at whose byte it reads; kbc_read_return does not look whether  *)
(* there is one, and reads the last byte again if not.  An interrupt       *)
(* handler that finds no byte leaves the global of the last one as it was, *)
(* with no error, and that one is handled again.                           *)
(***************************************************************************)
EXTENDS Naturals, Sequences

CONSTANTS
  Faults,      \* what may go wrong: see below
  DataSync,    \* what bit 3 of the second and third byte of a packet may be
  MaxKeys, MaxPackets, MaxDamage   \* bounds of the model

(* slow: the mouse may answer a command after kbc_read_return has read.    *)
(* keys: keys are also pressed while the mouse is turned on or off.        *)
(* MaxDamage bytes arrive with a parity or timeout error.                  *)
ASSUME KbcAssumption ==
  /\ Faults \subseteq {"slow", "keys"}
  /\ DataSync \subseteq BOOLEAN /\ DataSync # {}
  /\ MaxKeys \in Nat /\ MaxPackets \in Nat /\ MaxDamage \in Nat

(* A byte: whose it is, which it is, its SYNC_BIT, and no error with it. *)
Byte(aux, what, sync) == [aux |-> aux, what |-> what, sync |-> sync, ok |-> TRUE]
MOUSE_ACK == Byte(TRUE, <<"ack", 0, 0>>, TRUE)     \* 0xFA has bit 3 set
Data(n, i, sync) == Byte(TRUE, <<"data", n, i>>, sync)
Scancode(n) == Byte(FALSE, <<"key", n, 0>>, FALSE)
NoByte == Byte(FALSE, <<"none", 0, 0>>, FALSE)     \* the initializers: 0

VARIABLES
  stage,          \* mouse_enable_reporting, device loop, ..disable.., done
  step,           \* within write_mouse_cmd
  outBuf, last,   \* the output buffer; the byte last read from it
  toSend,         \* what the mouse still has to send
  reporting,      \* data reporting is on
  kirq, mirq,     \* notifications pending
  scancode, byte, \* the drivers' globals
  packet,         \* the bytes collected; its length is count
  handled,        \* history: what keyboard_int took for keys
  torn,           \* history: packets of mixed bytes since the last fault
  budget,         \* [key, packet, damage]: what has happened of each
  seen            \* history: "fault", "bit 3" once there was one in a data byte

device == <<toSend, reporting>>
mouse  == <<byte, packet, torn>>
keys   == <<scancode, handled>>
vars   == <<stage, step, outBuf, last, device, kirq, mirq, keys, mouse, budget, seen>>

Note(what, happened) == seen' = seen \cup (IF happened THEN {what} ELSE {})

-----------------------------------------------------------------------------
(* The devices. *)

(* The controller takes a byte when the last one has been read. *)
Arrive(b) ==
  /\ outBuf = << >>
  /\ \E ok \in BOOLEAN :
       /\ ok \/ budget.damage < MaxDamage
       /\ outBuf' = <<[b EXCEPT !.ok = ok]>>
       /\ budget' = [budget EXCEPT !.damage = IF ok THEN @ ELSE @ + 1,
                                   !.key = IF b.aux THEN @ ELSE @ + 1]
       /\ Note("fault", ~ok \/ (~b.aux /\ stage # "loop"))

PressKey ==
  /\ stage = "loop" \/ (stage # "off" /\ "keys" \in Faults)
  /\ budget.key < MaxKeys
  /\ Arrive(Scancode(budget.key + 1))
  /\ kirq' = (stage \in {"enable", "loop"})
  /\ UNCHANGED <<stage, step, last, device, mirq, keys, mouse>>

MouseByte ==
  /\ toSend # << >>
  /\ Arrive(Head(toSend))
  /\ toSend' = Tail(toSend)
  /\ mirq' = (mirq \/ stage = "loop")
  /\ UNCHANGED <<stage, step, last, reporting, kirq, keys, mouse>>

MoveMouse ==
  /\ reporting /\ toSend = << >> /\ budget.packet < MaxPackets
  /\ budget' = [budget EXCEPT !.packet = @ + 1]
  /\ \E s2, s3 \in DataSync :
       LET n == budget.packet + 1
       IN  /\ toSend' = <<Data(n, 1, TRUE), Data(n, 2, s2), Data(n, 3, s3)>>
           /\ Note("bit 3", s2 \/ s3)
  /\ UNCHANGED <<stage, step, outBuf, last, reporting, kirq, mirq, keys, mouse>>

-----------------------------------------------------------------------------
(* mouse_enable_reporting and mouse_disable_reporting repeat               *)
(* write_mouse_cmd until it has read MOUSE_ACK.                            *)

(* kbc_write_cmd and kbc_write_argument: what the mouse was about to send  *)
(* gives way to its answer.                                                *)
kbc_write ==
  /\ stage \in {"enable", "disable"} /\ step = "write"
  /\ step' = "read"
  /\ toSend' = <<MOUSE_ACK>>
  /\ reporting' = (stage = "enable")
  /\ UNCHANGED <<stage, outBuf, last, kirq, mirq, keys, mouse, budget, seen>>

(* Mutated form: after a wrong answer only the reading is repeated.        *)
kbc_read_return_rereads ==
  /\ stage \in {"enable", "disable"} /\ step = "read"
  /\ outBuf # << >> \/ "slow" \in Faults
  /\ last' = IF outBuf # << >> THEN outBuf[1] ELSE last
  /\ outBuf' = << >>
  /\ IF last' = MOUSE_ACK
       THEN stage' = (IF stage = "enable" THEN "loop" ELSE "off") /\ step' = "write"
       ELSE UNCHANGED <<stage, step>>
  /\ Note("fault", outBuf = << >>)
  /\ UNCHANGED <<device, kirq, mirq, keys, mouse, budget>>

kbc_read_return ==
  /\ stage \in {"enable", "disable"} /\ step = "read"
  /\ outBuf # << >> \/ "slow" \in Faults
  /\ last' = IF outBuf # << >> THEN outBuf[1] ELSE last
  /\ outBuf' = << >>
  /\ step' = "write"
  /\ IF last' = MOUSE_ACK
       THEN stage' = IF stage = "enable" THEN "loop" ELSE "off"
       ELSE UNCHANGED stage
  /\ Note("fault", outBuf = << >>)
  /\ UNCHANGED <<device, kirq, mirq, keys, mouse, budget>>

-----------------------------------------------------------------------------
(* The device loop. *)

ReadOutBuf ==
  /\ outBuf' = << >>
  /\ last' = IF outBuf # << >> THEN outBuf[1] ELSE last

(* kbc_ih and keyboard_int; any key may end the program (Menu.tla).        *)
keyboard_int ==
  /\ stage = "loop" /\ kirq
  /\ kirq' = FALSE
  /\ ReadOutBuf
  /\ \/ /\ outBuf # << >> /\ ~outBuf[1].ok
        /\ UNCHANGED <<stage, keys, mirq>>
     \/ /\ outBuf # << >> => outBuf[1].ok
        /\ scancode' = IF outBuf # << >> THEN outBuf[1] ELSE scancode
        /\ handled' = Append(handled, scancode'.what)
        /\ stage' \in {"loop", "disable"}
        /\ mirq' = (mirq /\ stage' = "loop")
  /\ torn' = IF outBuf # << >> /\ outBuf[1].aux THEN 0 ELSE torn
  /\ UNCHANGED <<step, device, byte, packet, budget, seen>>

(* The three bytes are those of one packet. *)
Whole(p) == \A i \in 1 .. 3 : p[i].what[1] = "data" /\ p[i].what[2] = p[1].what[2] /\ p[i].what[3] = i

(* Mutated form: every byte of a packet needs the bit.                     *)
Collect_all_need_it(disturbed) ==
  /\ packet' = IF ~byte'.sync THEN packet
               ELSE IF Len(packet) = 2 THEN << >> ELSE Append(packet, byte')
  /\ torn' = (IF disturbed THEN 0 ELSE torn)
             + (IF Len(packet) = 2 /\ byte'.sync /\ ~Whole(Append(packet, byte')) THEN 1 ELSE 0)

(* Mutated form: the first byte is not checked.                            *)
Collect_any(disturbed) ==
  /\ packet' = IF Len(packet) = 2 THEN << >> ELSE Append(packet, byte')
  /\ torn' = (IF disturbed THEN 0 ELSE torn)
             + (IF Len(packet) = 2 /\ ~Whole(Append(packet, byte')) THEN 1 ELSE 0)

(* mouse_int with a byte; the first one needs its SYNC_BIT.                *)
Collect(disturbed) ==
  /\ packet' = IF packet = << >> /\ ~byte'.sync THEN packet
               ELSE IF Len(packet) = 2 THEN << >> ELSE Append(packet, byte')
  /\ torn' = (IF disturbed THEN 0 ELSE torn)
             + (IF Len(packet) = 2 /\ ~Whole(Append(packet, byte')) THEN 1 ELSE 0)

(* Mutated form: the keyboard's notifications also come here.              *)
mouse_int_wide_mask ==
  /\ stage = "loop" /\ (mirq \/ kirq)
  /\ mirq' = FALSE
  /\ ReadOutBuf
  /\ \/ /\ outBuf # << >> /\ ~(outBuf[1].ok /\ outBuf[1].aux)
        /\ torn' = 0
        /\ UNCHANGED <<byte, packet>>
     \/ /\ outBuf # << >> => outBuf[1].ok /\ outBuf[1].aux
        /\ byte' = IF outBuf # << >> THEN outBuf[1] ELSE byte
        /\ Collect(outBuf = << >> \/ byte' = MOUSE_ACK)
  /\ UNCHANGED <<stage, step, device, kirq, keys, budget, seen>>

(* mouse_ih and mouse_int: a byte with an error, or of the keyboard, is    *)
(* dropped.                                                                *)
mouse_int ==
  /\ stage = "loop" /\ mirq
  /\ mirq' = FALSE
  /\ ReadOutBuf
  /\ \/ /\ outBuf # << >> /\ ~(outBuf[1].ok /\ outBuf[1].aux)
        /\ torn' = 0
        /\ UNCHANGED <<byte, packet>>
     \/ /\ outBuf # << >> => outBuf[1].ok /\ outBuf[1].aux
        /\ byte' = IF outBuf # << >> THEN outBuf[1] ELSE byte
        /\ Collect(outBuf = << >> \/ byte' = MOUSE_ACK)
  /\ UNCHANGED <<stage, step, device, kirq, keys, budget, seen>>

-----------------------------------------------------------------------------

Init ==
  /\ stage = "enable" /\ step = "write"
  /\ outBuf = << >> /\ last = NoByte
  /\ toSend = << >> /\ reporting = FALSE
  /\ kirq = FALSE /\ mirq = FALSE
  /\ scancode = NoByte /\ byte = NoByte
  /\ packet = << >> /\ handled = << >> /\ torn = 0
  /\ budget = [key |-> 0, packet |-> 0, damage |-> 0] /\ seen = {}

Driver == kbc_write \/ kbc_read_return \/ keyboard_int \/ mouse_int

Next == Driver \/ PressKey \/ MouseByte \/ MoveMouse

(* The driver runs and the mouse answers; nobody has to touch anything.    *)
Spec == Init /\ [][Next]_vars /\ WF_vars(Driver) /\ WF_vars(MouseByte)

-----------------------------------------------------------------------------

(* Until something goes wrong, every packet that mouse_int takes apart is  *)
(* three bytes of one packet of the mouse, whatever its data and however   *)
(* keys fall between its bytes.                                            *)
PacketsWhole == "fault" \notin seen => torn = 0

(* And keyboard_int handles every key once, in the order of the keys, and  *)
(* nothing else, though the handler that finds no byte handles the last    *)
(* one again and none looks at whose byte it reads.                        *)
KeysHandledOnce ==
  "fault" \notin seen => \A i \in DOMAIN handled : handled[i] = <<"key", i, 0>>

(* mouse.h:40: "Bit that synchronises the first byte of a mouse packet":   *)
(* a byte lost, repeated or stolen costs one packet and the next is whole, *)
(* as long as no other byte has that bit.                                  *)
Synchronises == "bit 3" \notin seen => torn <= 1

(* Turning the mouse on or off comes to an end, though a late answer, a    *)
(* key or a damaged byte makes write_mouse_cmd fail and be repeated.       *)
TurnsOnAndOff == <>(stage = "loop") /\ (stage = "disable" ~> stage = "off")
=============================================================================
