------------------------------ MODULE Lifecycle -----------------------------
(***************************************************************************)
(* project.c: init takes what the program needs one after the other, the   *)
(* device loop hands each notification to the handlers of its interrupts,  *)
(* finalize gives everything back.  A call that fails makes init or        *)
(* finalize return at once, and proj_main_loop with it: nothing is undone. *)
(* Of the handlers only rtc_int is followed here (Rtc.tla): it is called   *)
(* with the timer's bit, and the loop waits while it reads.                *)
(***************************************************************************)
EXTENDS Rtc

CONSTANTS
  MayFail,    \* what may be refused when it is asked for
  MayStay     \* what may be refused when it is given back

(* What each call takes, in order.  vg_init gives up when the mode is      *)
(* unknown, before it has the buffers (mapping them panics, their malloc   *)
(* is not checked), or when it is refused; serialPort_init when IER is;    *)
(* loader_sprite checks nothing; mouse_enable_reporting is repeated until  *)
(* it succeeds (Kbc.tla).                                                  *)
vg_init == <<"buffers", "mode">>
serialPort_init == <<"ier", "inQueue">>
loader_sprite == <<"sprites">>

InitOrder ==
  vg_init \o serialPort_init
    \o <<"timer", "keyboard", "reporting", "mouse", "rtc", "sp">> \o loader_sprite

(* And what each gives back. *)
vg_exit == <<"mode">>
serialPort_exit == <<"inQueue">>
unloader_sprite == <<"sprites">>

FinalOrder ==
  vg_exit \o <<"timer", "keyboard", "mouse", "reporting", "rtc", "sp">>
    \o serialPort_exit \o unloader_sprite

Subscriptions == {"timer", "keyboard", "mouse", "rtc", "sp"}
InSeq(s) == {s[i] : i \in DOMAIN s}

(* Only these calls have their result tested. *)
ASSUME FailureAssumption ==
  /\ MayFail \subseteq Subscriptions \cup {"buffers", "mode", "ier"}
  /\ MayStay \subseteq Subscriptions \cup {"mode"}

VARIABLES
  pc,        \* init, loop, finalize, exited
  at,        \* the next entry of InitOrder or FinalOrder
  held,      \* what the program has
  pending,   \* bits of the next notification, as the set of their sources
  refused    \* history: a call was refused

lifeVars == <<pc, at, held, pending, refused, rtcVars>>

-----------------------------------------------------------------------------

(* Mutated form: init goes on without what it was refused.                 *)
init_goes_on ==
  /\ pc = "init" /\ at <= Len(InitOrder)
  /\ \/ held' = held \cup {InitOrder[at]} /\ at' = at + 1 /\ UNCHANGED <<pc, refused>>
     \/ /\ InitOrder[at] \in MayFail
        /\ at' = at + 1 /\ refused' = TRUE /\ UNCHANGED <<pc, held>>
  /\ UNCHANGED <<pending, rtcVars>>

init ==
  /\ pc = "init" /\ at <= Len(InitOrder)
  /\ \/ held' = held \cup {InitOrder[at]} /\ at' = at + 1 /\ UNCHANGED <<pc, refused>>
     \/ /\ InitOrder[at] \in MayFail
        /\ pc' = "exited" /\ refused' = TRUE /\ UNCHANGED <<at, held>>
  /\ UNCHANGED <<pending, rtcVars>>

EnterLoop ==
  /\ pc = "init" /\ at > Len(InitOrder)
  /\ pc' = "loop"
  /\ UNCHANGED <<at, held, pending, refused, rtcVars>>

(* The kernel keeps one bit per subscribed interrupt. *)
Interrupt(source) ==
  /\ pc # "exited" /\ source \in held
  /\ pending' = pending \cup {source}
  /\ UNCHANGED <<pc, at, held, refused, rtcVars>>

(* Mutated form: the clock's handler is called with the clock's own bit,   *)
(* which nothing makes the chip raise.                                     *)
Handlers_own_bit(bits) == bits

(* The tests of the loop on the bits of a notification.  The RTC's bit is  *)
(* the fifth, but RTC_MASK is the number 5: the bits of the timer and of   *)
(* nobody.                                                                 *)
Handlers(bits) == (bits \ {"rtc"}) \cup (IF "timer" \in bits THEN {"rtc"} ELSE {})

(* One round of the loop; a key may set mainState to STOP, which the loop  *)
(* sees after the remaining handlers.                                      *)
Notify ==
  /\ pc = "loop" /\ reading = 0 /\ pending # {}
  /\ pending' = {}
  /\ IF "rtc" \in Handlers(pending) THEN verify_updating ELSE UNCHANGED rtcVars
  /\ \/ UNCHANGED <<pc, at>>
     \/ "keyboard" \in Handlers(pending) /\ pc' = "finalize" /\ at' = 1
  /\ UNCHANGED <<held, refused>>

(* The rest of rtc_int, and the clock. *)
ReadRegister ==
  /\ rtc_read_convert
  /\ UNCHANGED <<pc, at, held, pending, refused>>

Chip ==
  /\ Announce \/ Update
  /\ pc # "exited"
  /\ UNCHANGED <<pc, at, held, pending, refused>>

(* Mutated form: the mouse is left reporting.                              *)
finalize_skips_reporting ==
  /\ pc = "finalize" /\ reading = 0 /\ at <= Len(FinalOrder)
  /\ \/ /\ held' = held \ ({FinalOrder[at]} \ {"reporting"})
        /\ at' = at + 1 /\ UNCHANGED <<pc, refused>>
     \/ /\ FinalOrder[at] \in MayStay
        /\ pc' = "exited" /\ refused' = TRUE /\ UNCHANGED <<at, held>>
  /\ UNCHANGED <<pending, rtcVars>>

finalize ==
  /\ pc = "finalize" /\ reading = 0 /\ at <= Len(FinalOrder)
  /\ \/ held' = held \ {FinalOrder[at]} /\ at' = at + 1 /\ UNCHANGED <<pc, refused>>
     \/ /\ FinalOrder[at] \in MayStay
        /\ pc' = "exited" /\ refused' = TRUE /\ UNCHANGED <<at, held>>
  /\ UNCHANGED <<pending, rtcVars>>

Return ==
  /\ pc = "finalize" /\ at > Len(FinalOrder)
  /\ pc' = "exited"
  /\ UNCHANGED <<at, held, pending, refused, rtcVars>>

LifeInit ==
  /\ pc = "init" /\ at = 1
  /\ held = {} /\ pending = {} /\ refused = FALSE
  /\ RtcInit

Program == init \/ EnterLoop \/ Notify \/ ReadRegister \/ finalize \/ Return

LifeNext == Program \/ Chip \/ \E source \in Subscriptions : Interrupt(source)

(* The program, the clock and the timer go on; the other devices interrupt *)
(* as they like.                                                           *)
LifeSpec == LifeInit /\ [][LifeNext]_lifeVars
            /\ WF_lifeVars(Program) /\ WF_lifeVars(Chip) /\ WF_lifeVars(Interrupt("timer"))

-----------------------------------------------------------------------------

(* The handlers draw, use the sprites, inQueue and every driver: whichever *)
(* of the tested calls was refused, no interrupt that was subscribed       *)
(* before it reaches a handler.                                            *)
LoopHasEverything == pc = "loop" => held = InSeq(InitOrder)

(* What stays: nothing frees the second buffer or turns the port's         *)
(* interrupts off.                                                         *)
NeverGivenBack == {"buffers", "ier"}

(* project.c:120: "Exit Safelly": what finalize is there to give back has  *)
(* been given back when the program ends, unless a call was refused, after *)
(* which nothing is.                                                       *)
ExitSafely == pc = "exited" /\ ~refused => held \subseteq NeverGivenBack

(* While the program stays in its loop, the menu's date catches up with    *)
(* the clock: the only calls of rtc_int are those that RTC_MASK, meant for *)
(* another bit, gives to the timer.                                        *)
DateCatchesUp == <>[](pc = "loop") => <>(day_time_info = Times[Len(Times)])
=============================================================================
