--------------------------------- MODULE Rtc --------------------------------
(***************************************************************************)
(* The date and time in the corner of the main menu: rtc_update_info       *)
(* (rtc.c) against a clock chip that goes on while its registers are read. *)
(* The chip shows UIP for a while before it changes them; the driver looks *)
(* at UIP once and then reads six registers, each of them by two port      *)
(* accesses and a look at the data mode.  Lifecycle.tla calls it.          *)
(***************************************************************************)
EXTENDS Naturals, Sequences

CONSTANTS
  Times,    \* the successive seconds: <<second, minute, hour, day, month, year>>
  Slow,     \* the six reads may take longer than UIP announces an update
  Binary    \* the chip's data mode is binary, not BCD

ASSUME RtcAssumption ==
  /\ Times \in Seq([1 .. 6 -> 0 .. 99]) /\ Times # << >>
  /\ Slow \in BOOLEAN /\ Binary \in BOOLEAN

VARIABLES
  now,            \* index of the chip's time
  uip,
  reading,        \* the register to read next; 0 outside rtc_update_info
  day_time_info,  \* in the order of the registers
  began,          \* history: index of the chip's time when reading began
  unannounced,    \* UIP was clear when it began
  returned        \* history: the last rtc_update_info returned 0

chip == <<now, uip>>
rtcVars == <<chip, reading, day_time_info, began, unannounced, returned>>

-----------------------------------------------------------------------------
(* The chip. *)

Bcd(n) == 16 * (n \div 10) + (n % 10)

Register(i) == IF Binary THEN Times[now][i] ELSE Bcd(Times[now][i])

Announce ==
  /\ ~uip /\ now < Len(Times)
  /\ uip' = TRUE
  /\ UNCHANGED <<now, reading, day_time_info, began, unannounced, returned>>

(* A driver that began before UIP has the announced time to finish. *)
Update ==
  /\ uip
  /\ Slow \/ reading = 0 \/ ~unannounced
  /\ now' = now + 1
  /\ uip' = FALSE
  /\ UNCHANGED <<reading, day_time_info, began, unannounced, returned>>

-----------------------------------------------------------------------------
(* The driver. *)

(* Mutated form: the low digit is not masked.                              *)
rtc_convert_binary_unmasked(bcd) == (bcd + 10 * (bcd \div 16)) % 256

uint8_t == 0 .. 255

(* One round of the loop, on value, scale and bcd. *)
Round == [s \in uint8_t \X uint8_t \X uint8_t |->
            <<(s[1] + (s[3] % 16) * s[2]) % 256, (s[2] * 10) % 256, s[3] \div 16>>]

(* All eight of them; two use up the byte. *)
rtc_convert_binary(bcd) ==
  LET start == <<0, 1, bcd>>
  IN  Round[Round[Round[Round[Round[Round[Round[Round[start]]]]]]]][1]

(* Mutated form: the registers are read whatever UIP says.                 *)
verify_updating_ignored ==
  /\ reading = 0
  /\ began' = now
  /\ unannounced' = ~uip
  /\ returned' = FALSE
  /\ reading' = 1
  /\ UNCHANGED <<chip, day_time_info>>

(* verify_updating, at the head of rtc_update_info. *)
verify_updating ==
  /\ reading = 0
  /\ began' = now
  /\ unannounced' = ~uip
  /\ returned' = FALSE
  /\ reading' = IF uip THEN 0 ELSE 1
  /\ UNCHANGED <<chip, day_time_info>>

(* rtc_read_convert: in binary mode nothing is stored. *)
rtc_read_convert ==
  /\ reading # 0
  /\ day_time_info' =
       IF Binary THEN day_time_info
       ELSE [day_time_info EXCEPT ![reading] = rtc_convert_binary(Register(reading))]
  /\ reading' = (reading + 1) % 7
  /\ returned' = (reading = 6)
  /\ UNCHANGED <<chip, began, unannounced>>

RtcInit ==
  /\ now = 1 /\ uip = FALSE
  /\ reading = 0
  /\ day_time_info = [i \in 1 .. 6 |-> 0]
  /\ began = 1 /\ unannounced = TRUE /\ returned = FALSE

-----------------------------------------------------------------------------

(* The report, page 11: "The RTC is used to display the current time       *)
(* (hours, minutes and seconds) and date (day, month and year)": the six   *)
(* fields of a reading that succeeded are those of one second, which the   *)
(* chip showed during the reading or after it.                             *)
CurrentTimeShown == returned => \E i \in began .. now : day_time_info = Times[i]

(* vg_draw_rtc and vg_draw_time index the table of ten digits by the tens  *)
(* and the units of a field.                                               *)
DigitsExist == \A i \in 1 .. 6 : day_time_info[i] \div 10 \in 0 .. 9
=============================================================================
