-------------------------------- MODULE Menu --------------------------------
(***************************************************************************)
(* The screens of one PC and the buttons on them: keyboard_int,            *)
(* popOutButtons, option_up and option_down (model/model.c), with the      *)
(* moves between screens that other handlers make (the end of a match in   *)
(* timer_int, the start and quit signal of the other PC in sp_int).        *)
(*                                                                         *)
(* The main menu has three buttons and the result screens two; both use    *)
(* the same global option as the index of the selected one.  A button is   *)
(* a pair of sprites (selected, unselected) whose flags the code always    *)
(* assigns together, so it is one Boolean here.                            *)
(***************************************************************************)
EXTENDS Integers, Sequences

VARIABLES
  mainState,
  option,        \* index of the selected button, of whichever screen
  menu,          \* the flags of buttons_menu_selected: 0 start, 1 rules, 2 exit
  popOut,        \* the flags of buttons_winlose_selected: 0 play again, 1 leave
  scancode,      \* the key code the last keyboard interrupt read
  is_main_pc,
  serial,        \* what the last step did to the serial port
  wild,          \* an index was used outside its array
  strayed        \* history: a start signal found another button than start

vars == <<mainState, option, menu, popOut, scancode, is_main_pc, serial, wild, strayed>>

Results == {"WIN", "LOST", "TIE"}
Screens == {"MAIN_MENU", "RULES", "GAME", "STOP"} \cup Results
Keys == {"SPACE", "S", "W", "ESC", "other"}
SerialUse == {<< >>, <<"reset">>, <<"reset", "signal1">>}

-----------------------------------------------------------------------------

(* Mutated forms: the last button is followed by none, the button left is  *)
(* not deselected, and the next one not selected.                          *)
Down_no_wrap(size) == option + 1

Select_keeps_old(flags, new) == [flags EXCEPT ![new] = TRUE]

Select_no_new(flags, new) == [flags EXCEPT ![option] = FALSE]

(* option_down and option_up: the next index on a screen of size buttons,  *)
(* and the flags after the move to it.  Only the ends that the screen      *)
(* itself can reach are tested.                                            *)
Down(size) == IF option + 1 = size THEN 0 ELSE option + 1
Up(size)   == IF option - 1 = -1 THEN size - 1 ELSE option - 1

Select(flags, new) == [flags EXCEPT ![option] = FALSE, ![new] = TRUE]

(* The index a key moves to, itself for the other keys. *)
NextOption(key, size) ==
  CASE key = "S" -> Down(size)
    [] key = "W" -> Up(size)
    [] OTHER     -> option

-----------------------------------------------------------------------------

(* keyboard_int in the main menu.  The three tests for SPACE are not       *)
(* alternatives: each selected button acts, in the order exit, start,      *)
(* rules, and the last one decides the screen.                             *)
MenuScreen(key) ==
  IF key # "SPACE" THEN "MAIN_MENU"
  ELSE IF menu[1] THEN "RULES"
  ELSE IF menu[0] THEN "GAME"
  ELSE IF menu[2] THEN "STOP" ELSE "MAIN_MENU"

KeyInMenu(key) ==
  /\ mainState = "MAIN_MENU"
  /\ mainState' = MenuScreen(key)
  /\ IF key = "SPACE" /\ menu[0]
       THEN is_main_pc' = TRUE /\ serial' = <<"reset", "signal1">>
       ELSE UNCHANGED is_main_pc /\ serial' = << >>
  /\ option' = NextOption(key, 3)
  /\ menu' = IF key \in {"S", "W"} THEN Select(menu, NextOption(key, 3)) ELSE menu
  /\ UNCHANGED <<popOut, wild, strayed>>

KeyInGame(key) ==
  /\ mainState = "GAME"
  /\ IF key = "ESC"
       THEN mainState' = "MAIN_MENU" /\ serial' = <<"reset", "signal1">>
       ELSE UNCHANGED mainState /\ serial' = << >>
  /\ UNCHANGED <<option, menu, popOut, is_main_pc, wild, strayed>>

KeyInRules(key) ==
  /\ mainState = "RULES"
  /\ mainState' = IF key = "ESC" THEN "MAIN_MENU" ELSE "RULES"
  /\ serial' = << >>
  /\ UNCHANGED <<option, menu, popOut, is_main_pc, wild, strayed>>

(* popOutButtons on a result screen.  An option left over from the main    *)
(* menu may be outside the two buttons: moving from it reads and writes    *)
(* through whatever pointer follows the array.                             *)
popOutButtons(key) ==
  /\ mainState \in Results
  /\ mainState' = IF key # "SPACE" THEN mainState
                  ELSE IF popOut[0] THEN "GAME"
                  ELSE IF popOut[1] THEN "STOP" ELSE mainState
  /\ serial' = IF key = "SPACE" /\ (popOut[0] \/ popOut[1]) THEN <<"reset">> ELSE << >>
  /\ \/ /\ key \notin {"S", "W"}
        /\ UNCHANGED <<option, popOut, wild>>
     \/ /\ key \in {"S", "W"} /\ option \in 0 .. 1
        /\ option' = NextOption(key, 2)
        /\ popOut' = Select(popOut, NextOption(key, 2))
        /\ UNCHANGED wild
     \/ /\ key \in {"S", "W"} /\ option \notin 0 .. 1
        /\ wild' = TRUE
        /\ UNCHANGED <<option, popOut>>
  /\ UNCHANGED <<menu, is_main_pc, strayed>>

(* keyboard_int: kbc_ih reads a code (or, when the controller has none     *)
(* after all its retries, leaves the previous one to be handled again);    *)
(* one with an error is skipped and changes nothing.                       *)
keyboard_int ==
  \E key \in Keys :
    /\ ~wild
    /\ scancode' = key
    /\ KeyInMenu(key) \/ KeyInGame(key) \/ KeyInRules(key) \/ popOutButtons(key)

(* timer_int: the verdict of a match (see MatchClock.tla). *)
timer_int_verdict ==
  /\ ~wild
  /\ mainState = "GAME"
  /\ mainState' \in Results
  /\ serial' = << >>
  /\ UNCHANGED <<option, menu, popOut, scancode, is_main_pc, wild, strayed>>

(* sp_int, with signal1 in the queue: it starts a match from the menu,     *)
(* whichever button is selected there, and ends one.                       *)
sp_int_start ==
  /\ ~wild
  /\ mainState = "MAIN_MENU"
  /\ mainState' = "GAME"
  /\ is_main_pc' = FALSE
  /\ serial' = <<"reset">>
  /\ strayed' = (strayed \/ option # 0)
  /\ UNCHANGED <<option, menu, popOut, scancode, wild>>

sp_int_quit ==
  /\ ~wild
  /\ mainState = "GAME"
  /\ mainState' = "MAIN_MENU"
  /\ serial' = << >>
  /\ UNCHANGED <<option, menu, popOut, scancode, is_main_pc, wild, strayed>>

(* loader_sprite selects the first button of each screen. *)
Init ==
  /\ mainState = "MAIN_MENU"
  /\ option = 0
  /\ menu = [b \in 0 .. 2 |-> b = 0]
  /\ popOut = [b \in 0 .. 1 |-> b = 0]
  /\ scancode = "other"
  /\ is_main_pc = TRUE
  /\ serial = << >>
  /\ wild = FALSE /\ strayed = FALSE

Next == keyboard_int \/ timer_int_verdict \/ sp_int_start \/ sp_int_quit

Spec == Init /\ [][Next]_vars

-----------------------------------------------------------------------------

TypeOK ==
  /\ mainState \in Screens
  /\ option \in 0 .. 2
  /\ menu \in [0 .. 2 -> BOOLEAN]
  /\ popOut \in [0 .. 1 -> BOOLEAN]
  /\ scancode \in Keys
  /\ is_main_pc \in BOOLEAN
  /\ serial \in SerialUse
  /\ wild \in BOOLEAN /\ strayed \in BOOLEAN

(* Whatever the other PC does, the menu has a selected button and a result *)
(* screen has exactly one, until an index leaves its array: SPACE always   *)
(* does something there, and on a result screen never two things at once.  *)
SomethingSelected ==
  /\ \E b \in 0 .. 2 : menu[b]
  /\ popOut[0] = ~popOut[1]

(* As long as start signals find the start button selected, option is the  *)
(* index of the selected button of the screen shown, and of no other, and  *)
(* indexes no array outside it: the two screens may share it because a     *)
(* match can only be entered with the first button of each.                *)
OptionIsTheSelection ==
  ~strayed =>
    /\ ~wild
    /\ mainState = "MAIN_MENU" => \A b \in 0 .. 2 : menu[b] <=> b = option
    /\ mainState \in Results   => \A b \in 0 .. 1 : popOut[b] <=> b = option
=============================================================================
