---------------------------- MODULE ProgramProofs ---------------------------
(***************************************************************************)
(* The program of one PC around its match, part by part: the buttons       *)
(* (Menu), what the player sees of them (View), the pointer (Pointer), the *)
(* date (Rtc) and the start and the end of the program (Lifecycle).        *)
(***************************************************************************)
EXTENDS View, Pointer, Lifecycle, TLAPS

-----------------------------------------------------------------------------
(* Menu: the flags of the buttons and the option that two screens share,   *)
(* wherever in the menu a start signal finds them.                         *)

(* S and W go to another button of the screen.                             *)
LEMMA NextOptionRange ==
  ASSUME NEW n \in {2, 3}, option \in 0 .. n - 1, NEW key \in {"S", "W"}
  PROVE  NextOption(key, n) \in 0 .. n - 1 /\ NextOption(key, n) # option
<1>1. CASE key = "S"
  BY <1>1 DEF NextOption, Down
<1>2. CASE key = "W"
  BY <1>2 DEF NextOption, Up
<1>3. QED
  BY <1>1, <1>2

(* The other keys do not move.                                             *)
LEMMA OtherKeysStay ==
  ASSUME NEW n, NEW key \in Keys \ {"S", "W"}
  PROVE  NextOption(key, n) = option
  BY DEF NextOption, Keys

(* Types and selections at the start,                                      *)
LEMMA TypeInit == Init => TypeOK /\ SomethingSelected
  BY DEF Init, TypeOK, SomethingSelected, Screens, Results, Keys, SerialUse

(* and after every step.                                                   *)
LEMMA TypeNext ==
  ASSUME TypeOK, SomethingSelected, [Next]_vars
  PROVE  TypeOK' /\ SomethingSelected'
<1> USE DEF Screens, Results, SerialUse
<1>1. ASSUME NEW key \in Keys, scancode' = key, KeyInMenu(key)
      PROVE  TypeOK' /\ SomethingSelected'
  <2>0. UNCHANGED <<popOut, wild, strayed>> /\ option' = NextOption(key, 3)
    BY <1>1 DEF KeyInMenu
  <2>1. mainState' \in Screens
    BY <1>1 DEF KeyInMenu, MenuScreen
  <2>2. is_main_pc' \in BOOLEAN /\ serial' \in SerialUse
    BY <1>1 DEF KeyInMenu, TypeOK
  <2>3. CASE key \in {"S", "W"}
    <3>1. option' \in 0 .. 2 /\ option' # option
      BY <2>0, <2>3, NextOptionRange DEF TypeOK
    <3>2. menu' = Select(menu, option')
      BY <1>1, <2>0, <2>3 DEF KeyInMenu
    <3>3. menu' \in [0 .. 2 -> BOOLEAN] /\ menu'[option'] = TRUE
      BY <3>1, <3>2 DEF Select, TypeOK
    <3>4. QED
      BY <1>1, <2>0, <2>1, <2>2, <3>1, <3>3 DEF TypeOK, SomethingSelected
  <2>4. CASE key \notin {"S", "W"}
    <3>1. option' = option
      BY <2>0, <2>4, OtherKeysStay
    <3>2. menu' = menu
      BY <1>1, <2>4 DEF KeyInMenu
    <3>3. QED
      BY <1>1, <2>0, <2>1, <2>2, <3>1, <3>2 DEF TypeOK, SomethingSelected
  <2>5. QED
    BY <2>3, <2>4
<1>2. ASSUME NEW key \in Keys, scancode' = key, KeyInGame(key) \/ KeyInRules(key)
      PROVE  TypeOK' /\ SomethingSelected'
  BY <1>2 DEF KeyInGame, KeyInRules, TypeOK, SomethingSelected
<1>3. ASSUME NEW key \in Keys, scancode' = key, popOutButtons(key)
      PROVE  TypeOK' /\ SomethingSelected'
  <2>1. mainState' \in Screens /\ serial' \in SerialUse /\ UNCHANGED <<menu, is_main_pc, strayed>>
    BY <1>3 DEF popOutButtons, TypeOK
  <2>2. CASE UNCHANGED <<option, popOut>>
    <3>1. wild' \in BOOLEAN
      BY <1>3 DEF popOutButtons, TypeOK
    <3>2. QED
      BY <1>3, <2>1, <2>2, <3>1 DEF TypeOK, SomethingSelected
  <2>3. CASE /\ key \in {"S", "W"} /\ option \in 0 .. 1
             /\ option' = NextOption(key, 2)
             /\ popOut' = Select(popOut, NextOption(key, 2))
             /\ UNCHANGED wild
    <3>1. option' \in 0 .. 1 /\ option' # option
      BY <2>3, NextOptionRange
    <3>2. /\ popOut' \in [0 .. 1 -> BOOLEAN]
          /\ popOut'[option'] = TRUE /\ popOut'[option] = FALSE
      BY <2>3, <3>1 DEF Select, TypeOK
    <3>3. \/ option = 0 /\ option' = 1
          \/ option = 1 /\ option' = 0
      BY <2>3, <3>1
    <3>4. QED
      BY <1>3, <2>1, <2>3, <3>1, <3>2, <3>3 DEF TypeOK, SomethingSelected
  <2>4. QED
    BY <1>3, <2>2, <2>3 DEF popOutButtons
<1>4. CASE timer_int_verdict
  BY <1>4 DEF timer_int_verdict, TypeOK, SomethingSelected
<1>5. CASE sp_int_start \/ sp_int_quit
  BY <1>5 DEF sp_int_start, sp_int_quit, TypeOK, SomethingSelected
<1>6. CASE UNCHANGED vars
  BY <1>6 DEF vars, TypeOK, SomethingSelected
<1>7. QED
  BY <1>1, <1>2, <1>3, <1>4, <1>5, <1>6 DEF Next, keyboard_int

(* The screens keep their types; an option of the main menu never leaves   *)
(* it, though the result screens move it with a smaller size.              *)
THEOREM TypeCorrect == Spec => []TypeOK
<1>1. Init => TypeOK /\ SomethingSelected
  BY TypeInit
<1>2. TypeOK /\ SomethingSelected /\ [Next]_vars => TypeOK' /\ SomethingSelected'
  BY TypeNext
<1>3. QED
  BY <1>1, <1>2, PTL DEF Spec

(* Wherever start signals find the menu, it keeps a selected button and a  *)
(* result screen exactly one.                                              *)
THEOREM ButtonsStaySelected == Spec => []SomethingSelected
<1>1. Init => TypeOK /\ SomethingSelected
  BY TypeInit
<1>2. TypeOK /\ SomethingSelected /\ [Next]_vars => TypeOK' /\ SomethingSelected'
  BY TypeNext
<1>3. QED
  BY <1>1, <1>2, PTL DEF Spec

-----------------------------------------------------------------------------

Only(flags, n, i) == \A b \in 0 .. n - 1 : flags[b] <=> b = i

(* Why the two screens can share option: it is 0 in a match, and the       *)
(* screen that is not shown waits with its first button selected.          *)
Shared ==
  /\ ~wild
  /\ mainState \in {"MAIN_MENU", "RULES"} => Only(menu, 3, option) /\ Only(popOut, 2, 0)
  /\ mainState = "GAME" => option = 0 /\ Only(menu, 3, 0) /\ Only(popOut, 2, 0)
  /\ mainState \in Results => option \in 0 .. 1 /\ Only(menu, 3, 0) /\ Only(popOut, 2, option)

(* Moving the selection selects the new button only.                       *)
LEMMA SelectOnly ==
  ASSUME NEW n \in {2, 3}, NEW flags \in [0 .. n - 1 -> BOOLEAN], Only(flags, n, option),
         option \in 0 .. n - 1, NEW new \in 0 .. n - 1, new # option
  PROVE  Only(Select(flags, new), n, new)
<1>1. SUFFICES ASSUME NEW b \in 0 .. n - 1
               PROVE  Select(flags, new)[b] <=> b = new
  BY DEF Only
<1>0. /\ Select(flags, new)[new] = TRUE
      /\ Select(flags, new)[option] = FALSE
      /\ \A c \in 0 .. n - 1 : c \notin {option, new} => Select(flags, new)[c] = flags[c]
  BY DEF Select
<1>2. CASE b \in {option, new}
  BY <1>0, <1>2
<1>3. CASE b \notin {option, new}
  <2>1. Select(flags, new)[b] = flags[b]
    BY <1>0, <1>3
  <2>2. flags[b] <=> b = option
    BY DEF Only
  <2>3. QED
    BY <1>3, <2>1, <2>2
<1>4. QED
  BY <1>2, <1>3

(* Every step keeps that.                                                  *)
LEMMA SharedNext ==
  ASSUME TypeOK, ~strayed => Shared, [Next]_vars, ~strayed'
  PROVE  Shared'
<1> USE DEF Results
<1>0. ~strayed /\ Shared
  <2>1. CASE keyboard_int
    BY <2>1 DEF keyboard_int, KeyInMenu, KeyInGame, KeyInRules, popOutButtons
  <2>2. CASE timer_int_verdict \/ sp_int_start \/ sp_int_quit
    BY <2>2 DEF timer_int_verdict, sp_int_start, sp_int_quit, TypeOK
  <2>3. CASE UNCHANGED vars
    BY <2>3 DEF vars
  <2>4. QED
    BY <2>1, <2>2, <2>3 DEF Next
<1>1. ASSUME NEW key \in Keys, KeyInMenu(key)
      PROVE  Shared'
  <2>1. /\ mainState = "MAIN_MENU" /\ popOut' = popOut /\ ~wild'
        /\ option \in 0 .. 2 /\ Only(menu, 3, option) /\ Only(popOut, 2, 0)
        /\ menu \in [0 .. 2 -> BOOLEAN] /\ option' = NextOption(key, 3)
    BY <1>0, <1>1 DEF KeyInMenu, Shared, TypeOK
  <2>2. CASE key \in {"S", "W"}
    <3>1. option' \in 0 .. 2 /\ option' # option
      BY <2>1, <2>2, NextOptionRange
    <3>2. menu' = Select(menu, option') /\ mainState' = "MAIN_MENU"
      BY <1>1, <2>1, <2>2 DEF KeyInMenu, MenuScreen
    <3>3. Only(menu', 3, option')
      BY <2>1, <3>1, <3>2, SelectOnly
    <3>4. QED
      BY <2>1, <3>2, <3>3 DEF Shared
  <2>3. CASE key \notin {"S", "W"}
    <3>1. option' = option /\ menu' = menu
      BY <1>1, <2>1, <2>3, OtherKeysStay DEF KeyInMenu
    <3>2. mainState' \in {"MAIN_MENU", "RULES", "STOP"} \/ (mainState' = "GAME" /\ menu[0])
      BY <1>1 DEF KeyInMenu, MenuScreen
    <3>3. menu[0] => option = 0
      BY <2>1 DEF Only
    <3>4. QED
      BY <2>1, <3>1, <3>2, <3>3 DEF Shared
  <2>4. QED
    BY <2>2, <2>3
<1>2. ASSUME NEW key \in Keys, KeyInGame(key) \/ KeyInRules(key)
      PROVE  Shared'
  BY <1>0, <1>2 DEF KeyInGame, KeyInRules, Shared
<1>3. ASSUME NEW key \in Keys, popOutButtons(key)
      PROVE  Shared'
  <2>1. /\ mainState \in Results /\ menu' = menu /\ ~wild'
        /\ option \in 0 .. 1 /\ Only(menu, 3, 0) /\ Only(popOut, 2, option)
        /\ popOut \in [0 .. 1 -> BOOLEAN]
    BY <1>0, <1>3 DEF popOutButtons, Shared, TypeOK
  <2>2. CASE key \in {"S", "W"}
    <3>1. option' = NextOption(key, 2) /\ popOut' = Select(popOut, option') /\ mainState' = mainState
      BY <1>3, <2>1, <2>2 DEF popOutButtons
    <3>2. option' \in 0 .. 1 /\ option' # option
      BY <2>1, <2>2, <3>1, NextOptionRange
    <3>3. Only(popOut', 2, option')
      BY <2>1, <3>1, <3>2, SelectOnly
    <3>4. QED
      BY <2>1, <3>1, <3>2, <3>3 DEF Shared
  <2>3. CASE key \notin {"S", "W"}
    <3>1. option' = option /\ popOut' = popOut
      BY <1>3, <2>3 DEF popOutButtons
    <3>2. mainState' = mainState \/ mainState' = "STOP" \/ (mainState' = "GAME" /\ popOut[0])
      BY <1>3 DEF popOutButtons
    <3>3. popOut[0] => option = 0
      BY <2>1 DEF Only
    <3>4. QED
      BY <2>1, <3>1, <3>2, <3>3 DEF Shared
  <2>4. QED
    BY <2>2, <2>3
<1>4. CASE timer_int_verdict
  BY <1>0, <1>4 DEF timer_int_verdict, Shared
<1>5. CASE sp_int_start \/ sp_int_quit
  <2>1. sp_int_start => option = 0
    BY DEF sp_int_start
  <2>2. QED
    BY <1>0, <1>5, <2>1 DEF sp_int_start, sp_int_quit, Shared
<1>6. CASE UNCHANGED vars
  BY <1>0, <1>6 DEF vars, Shared
<1>7. QED
  BY <1>1, <1>2, <1>3, <1>4, <1>5, <1>6 DEF Next, keyboard_int

(* While start signals find the start button selected, option is the index *)
(* of the selected button of the screen shown.                             *)
THEOREM OptionShared == Spec => []OptionIsTheSelection
<1>1. Init => TypeOK /\ SomethingSelected /\ (~strayed => Shared)
  BY TypeInit DEF Init, Shared, Only, Results
<1>2. TypeOK /\ SomethingSelected /\ (~strayed => Shared) /\ [Next]_vars
        => TypeOK' /\ SomethingSelected' /\ (~strayed' => Shared')
  BY TypeNext, SharedNext
<1>3. (~strayed => Shared) => OptionIsTheSelection
  BY DEF Shared, OptionIsTheSelection, Only
<1>4. QED
  BY <1>1, <1>2, <1>3, PTL DEF Spec

-----------------------------------------------------------------------------
(* View: the handlers of Menu with the two frame buffers.                  *)

(* Every handler with its drawing is that handler of the menu.             *)
LEMMA ViewStep ==
  ASSUME [ViewNext]_viewVars
  PROVE  [Next]_vars
<1>1. CASE Key
  BY <1>1 DEF Key, Next
<1>2. CASE timer_int
  BY <1>2 DEF timer_int, Next
<1>3. CASE PeerStarts \/ PeerQuits
  BY <1>3 DEF PeerStarts, PeerQuits, Next
<1>4. CASE UNCHANGED viewVars
  BY <1>4 DEF viewVars
<1>5. QED
  BY <1>1, <1>2, <1>3, <1>4 DEF ViewNext

(* Drawing does not interfere with the screens: what was shown of Menu     *)
(* holds of the handlers that draw.                                        *)
THEOREM ViewImplementsMenu == ViewSpec => Spec
<1>1. ViewInit => Init
  BY DEF ViewInit
<1>2. [ViewNext]_viewVars => [Next]_vars
  BY ViewStep
<1>3. QED
  BY <1>1, <1>2, PTL DEF ViewSpec, Spec

(* What is in the buffers.  A tick that finds the frame unchanged has      *)
(* drawn it, or found it drawn; the next one copies it.  The program ends  *)
(* with the step that enters STOP.                                         *)
Fresh ==
  /\ lag \in 0 .. 2
  /\ mainState = "STOP" => lag = 0
  /\ lag >= 1 => secondary_buffer = Frame
  /\ lag = 2 => main_buffer = Frame

(* A frame tells its screen.                                               *)
LEMMA FrameTellsScreen ==
  ASSUME mainState' # mainState
  PROVE  Frame' # Frame
<1>1. Frame[1] = mainState
  BY DEF Frame
<1>2. Frame'[1] = mainState'
  BY DEF Frame
<1>3. QED
  BY <1>1, <1>2

(* The frame of a screen does not depend on what it does not show.         *)
LEMMA FrameStays ==
  ASSUME UNCHANGED vars
  PROVE  Frame' = Frame
  BY DEF vars, Frame

(* A key is handled and then drawn.                                        *)
LEMMA KeyFresh ==
  ASSUME DrawnWhereNotRedrawn, Fresh, Key
  PROVE  DrawnWhereNotRedrawn' /\ Fresh'
<1>1. /\ secondary_buffer' = IF mainState' = "STOP" THEN secondary_buffer ELSE Frame'
      /\ main_buffer' = main_buffer
      /\ lag' = IF Frame' # Frame THEN 0 ELSE lag
  BY DEF Key, draw_frame, Aged
<1>2. mainState # "STOP"
  BY DEF Key, keyboard_int, KeyInMenu, KeyInGame, KeyInRules, popOutButtons, Results
<1>3. mainState' = "STOP" => lag' = 0
  BY <1>1, <1>2, FrameTellsScreen
<1>4. DrawnWhereNotRedrawn'
  BY <1>1 DEF DrawnWhereNotRedrawn, Results
<1>5. QED
  BY <1>1, <1>3, <1>4 DEF Fresh

(* A tick copies what was drawn and redraws the menu and the match.        *)
LEMMA TickFresh ==
  ASSUME DrawnWhereNotRedrawn, Fresh, timer_int, mainState \in Screens
  PROVE  DrawnWhereNotRedrawn' /\ Fresh'
<1>1. /\ mainState # "STOP" /\ main_buffer' = secondary_buffer
      /\ lag' = IF Frame' # Frame THEN 0 ELSE IF lag < 2 THEN lag + 1 ELSE lag
  BY DEF timer_int, swap_buffers, Aged
<1>2. CASE mainState \in {"MAIN_MENU", "GAME"}
  <2>1. mainState' # "STOP"
    BY <1>1, <1>2 DEF timer_int, timer_int_verdict, vars, Results
  <2>2. secondary_buffer' = Frame'
    BY <1>2, <2>1 DEF timer_int, draw_frame
  <2>3. QED
    BY <1>1, <2>1, <2>2 DEF DrawnWhereNotRedrawn, Fresh
<1>3. CASE mainState \notin {"MAIN_MENU", "GAME"}
  <2>1. UNCHANGED vars /\ secondary_buffer' = secondary_buffer
    BY <1>3 DEF timer_int, timer_int_verdict
  <2>2. Frame' = Frame /\ mainState' = mainState
    BY <2>1, FrameStays DEF vars
  <2>3. secondary_buffer = Frame
    BY <1>1, <1>3 DEF DrawnWhereNotRedrawn, Screens
  <2>4. QED
    BY <1>1, <2>1, <2>2, <2>3 DEF DrawnWhereNotRedrawn, Fresh
<1>4. QED
  BY <1>2, <1>3

(* The buffers at the start, and after every step.                         *)
LEMMA FreshNext ==
  ASSUME TypeOK, DrawnWhereNotRedrawn, Fresh, [ViewNext]_viewVars
  PROVE  DrawnWhereNotRedrawn' /\ Fresh'
<1>1. CASE Key
  BY <1>1, KeyFresh
<1>2. CASE timer_int
  BY <1>2, TickFresh DEF TypeOK
<1>3. CASE PeerStarts
  <2>1. mainState' = "GAME" /\ mainState = "MAIN_MENU"
    BY <1>3 DEF PeerStarts, sp_int_start
  <2>2. lag' = 0
    BY <1>3, <2>1, FrameTellsScreen DEF PeerStarts, Aged
  <2>3. QED
    BY <2>1, <2>2 DEF DrawnWhereNotRedrawn, Fresh, Results
<1>4. CASE PeerQuits
  <2>1. mainState' = "MAIN_MENU" /\ mainState = "GAME"
    BY <1>4 DEF PeerQuits, sp_int_quit
  <2>2. lag' = 0
    BY <1>4, <2>1, FrameTellsScreen DEF PeerQuits, Aged
  <2>3. QED
    BY <2>1, <2>2 DEF DrawnWhereNotRedrawn, Fresh, Results
<1>5. CASE UNCHANGED viewVars
  <2>1. UNCHANGED <<mainState, lag, main_buffer, secondary_buffer>> /\ Frame' = Frame
    BY <1>5, FrameStays DEF viewVars, vars
  <2>2. QED
    BY <2>1 DEF DrawnWhereNotRedrawn, Fresh
<1>6. QED
  BY <1>1, <1>2, <1>3, <1>4, <1>5 DEF ViewNext

(* The inductive invariant of the buffers, with the menu's that it needs.  *)
LEMMA ViewInvariant == ViewSpec => [](DrawnWhereNotRedrawn /\ Fresh)
<1> DEFINE Inv == TypeOK /\ SomethingSelected /\ DrawnWhereNotRedrawn /\ Fresh
<1>1. ViewInit => Inv
  <2> SUFFICES ASSUME ViewInit PROVE Inv
    OBVIOUS
  <2>1. TypeOK /\ SomethingSelected
    BY TypeInit DEF ViewInit
  <2>2. lag = 0 /\ secondary_buffer = Frame
    BY DEF ViewInit
  <2>3. QED
    BY <2>1, <2>2 DEF DrawnWhereNotRedrawn, Fresh
<1>2. Inv /\ [ViewNext]_viewVars => Inv'
  BY ViewStep, TypeNext, FreshNext
<1>3. QED
  BY <1>1, <1>2, PTL DEF ViewSpec

(* No screen that the timer leaves alone is ever shown undrawn, whichever  *)
(* handler enters or changes it.                                           *)
THEOREM OthersAreDrawn == ViewSpec => []DrawnWhereNotRedrawn
  BY ViewInvariant, PTL

(* Two ticks after the last change the player sees what is to be shown.    *)
THEOREM SeenInTwoTicks == ViewSpec => []ShownWithinTwoTicks
<1>1. Fresh => ShownWithinTwoTicks
  BY DEF Fresh, ShownWithinTwoTicks
<1>2. QED
  BY <1>1, ViewInvariant, PTL

-----------------------------------------------------------------------------
(* Pointer: the displacement made of a packet is its two's complement, for *)
(* every width of a byte and of a word, and the pointer never leaves the   *)
(* table, whatever its size and whatever the packets carry.                *)

(* What SMT needs to know of the remainder of a number near zero.          *)
LEMMA NearZero ==
  ASSUME NEW d \in Nat \ {0}, NEW n \in -d .. d - 1
  PROVE  n % d = IF n >= 0 THEN n ELSE n + d
<1> DEFINE v == n \div d
           w == n % d
<1>1. v \in Int /\ w \in 0 .. d - 1 /\ n = d * v + w
  OBVIOUS
<1> HIDE DEF v, w
<1>2. CASE v >= 1
  <2>1. d * v >= d
    <3>1. PICK j \in Nat : v = 1 + j
      <4>1. v - 1 \in Nat /\ v = 1 + (v - 1)
        BY <1>1, <1>2
      <4>2. QED
        BY <4>1
    <3>2. d * v = d + d * j /\ d * j \in Nat
      BY <3>1
    <3>3. QED
      BY <3>2
  <2>2. QED
    BY <1>1, <2>1
<1>3. CASE v = 0
  BY <1>1, <1>3 DEF w
<1>4. CASE v = -1
  <2>1. d * v = -d
    BY <1>4
  <2>2. QED
    BY <1>1, <2>1 DEF w
<1>5. CASE v <= -2
  <2>1. PICK j \in Nat : v = -2 - j
    <3>1. -2 - v \in Nat /\ v = -2 - (-2 - v)
      BY <1>1, <1>5
    <3>2. QED
      BY <3>1
  <2>2. d * v = (-2 * d) - d * j /\ d * j \in Nat
    BY <2>1
  <2>3. QED
    BY <1>1, <2>2
<1>6. QED
  BY <1>1, <1>2, <1>3, <1>4, <1>5

(* parse_mouse_data, for one axis.                                         *)
LEMMA DeltaValue ==
  ASSUME NEW msb \in BOOLEAN, NEW low \in Low
  PROVE  /\ Delta(msb, low) = IF msb THEN low - Byte ELSE low
         /\ Delta(msb, low) \in -Byte .. Byte - 1
         /\ Delta(msb, low) % (2 * Byte) = low + (IF msb THEN Byte ELSE 0)
<1>1. /\ Byte \in Nat \ {0} /\ 2 * Byte \in Nat \ {0} /\ low \in 0 .. Byte - 1
      /\ Word \in Nat /\ Word >= 4 * Byte
  BY PointerAssumption
<1>2. (Byte + low) % (2 * Byte) = Byte + low
  <2>1. Byte + low \in -(2 * Byte) .. (2 * Byte) - 1 /\ Byte + low >= 0
    BY <1>1
  <2>2. QED
    BY <1>1, <2>1, NearZero
<1>3. Delta(msb, low) = IF msb THEN low - Byte ELSE low
  BY <1>1, <1>2 DEF Delta, nine_bit_sign_extension, Signed
<1>4. Delta(msb, low) \in -Byte .. Byte - 1
  BY <1>1, <1>3
<1>5. Delta(msb, low) % (2 * Byte) = low + (IF msb THEN Byte ELSE 0)
  <2> DEFINE x == Delta(msb, low)
  <2>1. x \in -(2 * Byte) .. (2 * Byte) - 1
    BY <1>1, <1>4
  <2>2. x % (2 * Byte) = IF x >= 0 THEN x ELSE x + 2 * Byte
    <3> HIDE DEF x
    <3>1. QED
      BY <1>1, <2>1, NearZero
  <2>3. QED
    BY <1>1, <1>3, <2>2
<1>6. QED
  BY <1>3, <1>4, <1>5

-----------------------------------------------------------------------------

(* The inductive invariant: the pointer is where loader_sprite could have  *)
(* put it.                                                                 *)
InField == pointer \in [x : horizontal_start .. horizontal_end - width,
                        y : vertical_start .. vertical_end - height]

(* The pointer fits into the table.                                        *)
LEMMA Walls ==
  /\ horizontal_start \in Int /\ horizontal_end \in Int /\ width \in Nat
  /\ vertical_start \in Int /\ vertical_end \in Int /\ height \in Nat
  /\ horizontal_start + width <= horizontal_end
  /\ vertical_start + height <= vertical_end
  BY PointerAssumption

(* A packet leaves it there.                                              *)
LEMMA StaysInField ==
  ASSUME InField, [mouse_int]_pointerVars
  PROVE  InField'
<1>2. \A x \in Int, y \in Int :
        move(x, y) \in [x : horizontal_start .. horizontal_end - width,
                        y : vertical_start .. vertical_end - height]
  BY Walls DEF move, InField
<1>3. CASE mouse_int
  <2>1. PICK p \in Packet :
          pointer' = IF p.x_ov \/ p.y_ov THEN pointer
                     ELSE move(pointer.x + Delta(p.msb_x, p.x), pointer.y - Delta(p.msb_y, p.y))
    BY <1>3 DEF mouse_int
  <2>2. Delta(p.msb_x, p.x) \in Int /\ Delta(p.msb_y, p.y) \in Int
    <3>1. /\ p.msb_x \in BOOLEAN /\ p.msb_y \in BOOLEAN /\ p.x \in Low /\ p.y \in Low
          /\ Byte \in Nat
      BY PointerAssumption DEF Packet
    <3>2. Delta(p.msb_x, p.x) \in -Byte .. Byte - 1 /\ Delta(p.msb_y, p.y) \in -Byte .. Byte - 1
      BY <3>1, DeltaValue
    <3>3. QED
      BY <3>1, <3>2
  <2>3. pointer.x + Delta(p.msb_x, p.x) \in Int /\ pointer.y - Delta(p.msb_y, p.y) \in Int
    BY Walls, <2>2 DEF InField
  <2>4. QED
    BY <1>2, <2>1, <2>3 DEF InField
<1>4. CASE UNCHANGED pointerVars
  BY <1>4 DEF pointerVars, InField
<1>5. QED
  BY <1>3, <1>4

(* The pointer stays within the table.                                     *)
THEOREM PointerConfined == PointerSpec => []PointerInField
<1>1. PointerInit => InField
  BY PointerAssumption DEF PointerInit, InField
<1>2. InField => PointerInField
  BY Walls DEF InField, PointerInField
<1>3. QED
  BY <1>1, <1>2, StaysInField, PTL DEF PointerSpec

(* What the program makes of the nine bits of an axis is their two's       *)
(* complement.                                                             *)
THEOREM TwosComplement == PointerSpec => []DeltaIsTwosComplement
<1>1. PointerInit => DeltaIsTwosComplement
  BY DEF PointerInit, DeltaIsTwosComplement
<1>2. DeltaIsTwosComplement /\ [mouse_int]_pointerVars => DeltaIsTwosComplement'
  <2> SUFFICES ASSUME DeltaIsTwosComplement, [mouse_int]_pointerVars PROVE DeltaIsTwosComplement'
    OBVIOUS
  <2>1. CASE mouse_int
    <3>1. PICK p \in Packet : parsed' = <<p, Delta(p.msb_x, p.x), Delta(p.msb_y, p.y)>>
      BY <2>1 DEF mouse_int
    <3>2. p.msb_x \in BOOLEAN /\ p.msb_y \in BOOLEAN /\ p.x \in Low /\ p.y \in Low
      BY DEF Packet
    <3>3. /\ Delta(p.msb_x, p.x) \in -Byte .. Byte - 1
          /\ Delta(p.msb_x, p.x) % (2 * Byte) = p.x + (IF p.msb_x THEN Byte ELSE 0)
          /\ Delta(p.msb_y, p.y) \in -Byte .. Byte - 1
          /\ Delta(p.msb_y, p.y) % (2 * Byte) = p.y + (IF p.msb_y THEN Byte ELSE 0)
      BY <3>2, DeltaValue
    <3>4. QED
      BY <3>1, <3>3 DEF DeltaIsTwosComplement
  <2>2. CASE UNCHANGED pointerVars
    BY <2>2 DEF pointerVars, DeltaIsTwosComplement
  <2>3. QED
    BY <2>1, <2>2
<1>3. QED
  BY <1>1, <1>2, PTL DEF PointerSpec

-----------------------------------------------------------------------------
(* Rtc: the date that rtc_update_info leaves, for any sequence of seconds. *)

Field == 0 .. 99

(* One round on three bytes.                                               *)
LEMMA RoundValue ==
  ASSUME NEW v \in uint8_t, NEW c \in uint8_t, NEW b \in uint8_t
  PROVE  Round[<<v, c, b>>] = <<(v + (b % 16) * c) % 256, (c * 10) % 256, b \div 16>>
  BY DEF Round

(* A round with nothing left of the byte adds nothing.                     *)
LEMMA IdleRound ==
  ASSUME NEW v \in uint8_t, NEW c \in uint8_t
  PROVE  \E d \in uint8_t : Round[<<v, c, 0>>] = <<v, d, 0>>
<1>1. 0 \in uint8_t /\ 0 % 16 = 0 /\ 0 \div 16 = 0 /\ v % 256 = v
  BY DEF uint8_t
<1>2. (c * 10) % 256 \in uint8_t
  BY DEF uint8_t
<1>3. v + (0 % 16) * c = v
  BY <1>1 DEF uint8_t
<1>4. Round[<<v, c, 0>>] = <<v, (c * 10) % 256, 0>>
  BY <1>1, <1>3, RoundValue
<1>5. QED
  BY <1>2, <1>4

(* The eight rounds of rtc_convert_binary undo the chip's encoding.        *)
LEMMA ConversionExact ==
  ASSUME NEW n \in Field
  PROVE  rtc_convert_binary(Bcd(n)) = n
<1> DEFINE t == n \div 10
           u == n % 10
           b == 16 * t + u
<1>1. t \in 0 .. 9 /\ u \in 0 .. 9 /\ n = 10 * t + u
  BY DEF Field
<1>2. Bcd(n) = b
  BY DEF Bcd
<1> HIDE DEF t, u
<1>3. b \in uint8_t /\ b % 16 = u /\ b \div 16 = t
  BY <1>1 DEF uint8_t
<1>4. Round[<<0, 1, b>>] = <<u, 10, t>>
  <2> HIDE DEF b
  <2>0. 0 \in uint8_t /\ 1 \in uint8_t
    BY DEF uint8_t
  <2>1. Round[<<0, 1, b>>] = <<(0 + (b % 16) * 1) % 256, (1 * 10) % 256, b \div 16>>
    BY <1>3, <2>0, RoundValue
  <2>2. (0 + u * 1) % 256 = u /\ (1 * 10) % 256 = 10
    BY <1>1
  <2>3. QED
    BY <1>3, <2>1, <2>2
<1>5. Round[<<u, 10, t>>] = <<n, 100, 0>>
  <2>1. u \in uint8_t /\ 10 \in uint8_t /\ t \in uint8_t /\ n \in uint8_t
    BY <1>1 DEF uint8_t, Field
  <2>2. Round[<<u, 10, t>>] = <<(u + (t % 16) * 10) % 256, (10 * 10) % 256, t \div 16>>
    BY <2>1, RoundValue
  <2>3. t % 16 = t /\ t \div 16 = 0 /\ (10 * 10) % 256 = 100 /\ (u + t * 10) % 256 = n
    BY <1>1 DEF Field
  <2>4. QED
    BY <2>2, <2>3
<1>6. n \in uint8_t /\ 100 \in uint8_t
  BY DEF uint8_t, Field
<1>7. PICK c3 \in uint8_t : Round[<<n, 100, 0>>] = <<n, c3, 0>>
  BY <1>6, IdleRound
<1>8. PICK c4 \in uint8_t : Round[<<n, c3, 0>>] = <<n, c4, 0>>
  BY <1>6, IdleRound
<1>9. PICK c5 \in uint8_t : Round[<<n, c4, 0>>] = <<n, c5, 0>>
  BY <1>6, IdleRound
<1>10. PICK c6 \in uint8_t : Round[<<n, c5, 0>>] = <<n, c6, 0>>
  BY <1>6, IdleRound
<1>11. PICK c7 \in uint8_t : Round[<<n, c6, 0>>] = <<n, c7, 0>>
  BY <1>6, IdleRound
<1>12. PICK c8 \in uint8_t : Round[<<n, c7, 0>>] = <<n, c8, 0>>
  BY <1>6, IdleRound
<1> HIDE DEF b
<1>13. rtc_convert_binary(b) = <<n, c8, 0>>[1]
  BY <1>4, <1>5, <1>7, <1>8, <1>9, <1>10, <1>11, <1>12, Zenon DEF rtc_convert_binary
<1>14. QED
  BY <1>2, <1>13

(* What a step of the program may do to the clock and to what is read.     *)
RtcStep == Announce \/ Update \/ verify_updating \/ rtc_read_convert \/ UNCHANGED rtcVars

(* The loop and its handlers touch them in no other way.                   *)
LEMMA LifeIsRtcStep ==
  ASSUME [LifeNext]_lifeVars
  PROVE  RtcStep
<1> USE DEF RtcStep
<1>1. CASE init \/ EnterLoop \/ finalize \/ Return
  BY <1>1 DEF init, EnterLoop, finalize, Return
<1>2. CASE Notify
  BY <1>2 DEF Notify
<1>3. CASE ReadRegister \/ Chip
  BY <1>3 DEF ReadRegister, Chip
<1>4. ASSUME NEW source \in Subscriptions, Interrupt(source)
      PROVE  RtcStep
  BY <1>4 DEF Interrupt
<1>5. CASE UNCHANGED lifeVars
  BY <1>5 DEF lifeVars
<1>6. QED
  BY <1>1, <1>2, <1>3, <1>4, <1>5 DEF LifeNext, Program

(* The chip's time exists, and every field has two digits.                 *)
RtcOK ==
  /\ now \in 1 .. Len(Times) /\ uip \in BOOLEAN
  /\ uip => now < Len(Times)
  /\ reading \in 0 .. 6
  /\ day_time_info \in [1 .. 6 -> Field]

(* A field of any second is such a number.                                 *)
LEMMA TimesFields ==
  ASSUME NEW n \in 1 .. Len(Times), NEW i \in 1 .. 6
  PROVE  Times[n] \in [1 .. 6 -> Field] /\ Times[n][i] \in Field
<1>1. Times[n] \in [1 .. 6 -> Field]
  BY RtcAssumption DEF Field
<1>2. QED
  BY <1>1

(* What reading a register stores.                                         *)
LEMMA ReadStores ==
  ASSUME RtcOK, rtc_read_convert
  PROVE  /\ reading \in 1 .. 6
         /\ day_time_info' = IF Binary THEN day_time_info
                              ELSE [day_time_info EXCEPT ![reading] = Times[now][reading]]
         /\ reading' = IF reading = 6 THEN 0 ELSE reading + 1
<1>1. reading \in 1 .. 6 /\ now \in 1 .. Len(Times)
  BY DEF RtcOK, rtc_read_convert
<1>2. CASE Binary
  BY <1>1, <1>2 DEF rtc_read_convert
<1>3. CASE ~Binary
  <2>1. rtc_convert_binary(Register(reading)) = Times[now][reading]
    BY <1>1, <1>3, TimesFields, ConversionExact DEF Register
  <2>2. QED
    BY <1>1, <1>3, <2>1 DEF rtc_read_convert
<1>4. QED
  BY <1>2, <1>3

(* Every step keeps that.                                                  *)
LEMMA RtcOKNext ==
  ASSUME RtcOK, RtcStep
  PROVE  RtcOK'
<1>0. Times \in Seq([1 .. 6 -> 0 .. 99]) /\ Len(Times) \in Nat
  BY RtcAssumption
<1>1. CASE Announce
  BY <1>0, <1>1 DEF Announce, RtcOK
<1>2. CASE Update
  <2>1. uip /\ now' = now + 1 /\ uip' = FALSE /\ UNCHANGED <<reading, day_time_info>>
    BY <1>2 DEF Update
  <2>2. now' \in 1 .. Len(Times)
    BY <1>0, <2>1 DEF RtcOK
  <2>3. uip' \in BOOLEAN /\ ~uip'
    BY <2>1
  <2>4. QED
    BY <2>1, <2>2, <2>3 DEF RtcOK
<1>3. CASE verify_updating
  BY <1>3 DEF verify_updating, RtcOK, chip
<1>4. CASE rtc_read_convert
  <2>1. reading' \in 0 .. 6 /\ UNCHANGED <<now, uip>>
    BY <1>4, ReadStores DEF rtc_read_convert, chip
  <2>2. day_time_info' \in [1 .. 6 -> Field]
    <3>1. reading \in 1 .. 6 /\ Times[now][reading] \in Field
      BY <1>4, ReadStores, TimesFields DEF RtcOK
    <3>2. QED
      BY <1>4, <3>1, ReadStores DEF RtcOK
  <2>3. QED
    BY <2>1, <2>2 DEF RtcOK
<1>5. CASE UNCHANGED rtcVars
  BY <1>5 DEF rtcVars, chip, RtcOK
<1>6. QED
  BY <1>1, <1>2, <1>3, <1>4, <1>5 DEF RtcStep

(* And it holds at the start.                                              *)
LEMMA RtcOKInit == RtcInit => RtcOK
<1>1. Times \in Seq([1 .. 6 -> 0 .. 99]) /\ Times # << >>
  BY RtcAssumption
<1>2. Len(Times) \in Nat /\ Len(Times) >= 1
  BY <1>1
<1>3. QED
  <2> SUFFICES ASSUME RtcInit PROVE RtcOK
    OBVIOUS
  <2>1. now \in 1 .. Len(Times) /\ reading \in 0 .. 6 /\ day_time_info \in [1 .. 6 -> Field]
    BY <1>2 DEF RtcInit, Field
  <2>2. uip \in BOOLEAN /\ ~uip
    BY DEF RtcInit
  <2>3. QED
    BY <2>1, <2>2 DEF RtcOK

(* Every field that is drawn has its two digits, in either data mode of    *)
(* the chip and however slow the reading is.                               *)
THEOREM DigitsDrawable == LifeSpec => []DigitsExist
<1>1. LifeInit => RtcOK
  BY RtcOKInit DEF LifeInit
<1>2. RtcOK /\ [LifeNext]_lifeVars => RtcOK'
  BY RtcOKNext, LifeIsRtcStep
<1>3. RtcOK => DigitsExist
  <2> SUFFICES ASSUME RtcOK, NEW i \in 1 .. 6
               PROVE  day_time_info[i] \div 10 \in 0 .. 9
    BY DEF DigitsExist
  <2>1. day_time_info[i] \in 0 .. 99
    BY DEF RtcOK, Field
  <2>2. QED
    BY <2>1
<1>4. QED
  BY <1>1, <1>2, <1>3, PTL DEF LifeSpec

(* A reading that has begun sees one time of the chip: UIP was clear, so   *)
(* the chip waits; what it has stored so far is of that time, and what the *)
(* last one stored is of a time since it began.                            *)
OneSecond ==
  /\ began \in 1 .. now
  /\ reading # 0 => /\ unannounced /\ began = now /\ ~returned
                    /\ \A j \in 1 .. reading - 1 : day_time_info[j] = Times[now][j]
  /\ returned => day_time_info = Times[began]

(* Every step keeps that, when the chip's registers are BCD and the        *)
(* reading is as fast as the chip expects.                                 *)
LEMMA OneSecondNext ==
  ASSUME ~Slow, ~Binary, RtcOK, OneSecond, RtcStep
  PROVE  OneSecond'
<1>1. CASE Announce
  BY <1>1 DEF Announce, OneSecond
<1>2. CASE Update
  <2>1. reading = 0
    BY <1>2 DEF Update, OneSecond
  <2>2. now' = now + 1 /\ UNCHANGED <<reading, day_time_info, began, unannounced, returned>>
    BY <1>2 DEF Update
  <2>3. began' \in 1 .. now'
    BY <2>2 DEF OneSecond, RtcOK
  <2>4. QED
    BY <2>1, <2>2, <2>3 DEF OneSecond
<1>3. CASE verify_updating
  <2>1. /\ began' = now /\ now' = now /\ unannounced' = ~uip /\ returned' = FALSE
        /\ reading' = IF uip THEN 0 ELSE 1
    BY <1>3 DEF verify_updating, chip
  <2>2. began' \in 1 .. now' /\ ~returned'
    BY <2>1 DEF RtcOK
  <2>3. reading' # 0 => unannounced' /\ reading' = 1
    BY <2>1
  <2>4. QED
    BY <2>1, <2>2, <2>3 DEF OneSecond
<1>4. CASE rtc_read_convert
  <2>1. /\ reading \in 1 .. 6
        /\ day_time_info' = [day_time_info EXCEPT ![reading] = Times[now][reading]]
        /\ reading' = IF reading = 6 THEN 0 ELSE reading + 1
        /\ returned' = (reading = 6) /\ UNCHANGED <<now, began, unannounced>>
    BY <1>4, ReadStores DEF rtc_read_convert, chip
  <2>2. \A j \in 1 .. reading : day_time_info'[j] = Times[now][j]
    BY <2>1 DEF OneSecond, RtcOK
  <2>3. reading = 6 => day_time_info' = Times[now]
    <3> HAVE reading = 6
    <3>1. day_time_info' \in [1 .. 6 -> Field]
      BY RtcOKNext, <1>4 DEF RtcStep, RtcOK
    <3>2. Times[now] \in [1 .. 6 -> Field]
      BY TimesFields, <2>1 DEF RtcOK
    <3>3. QED
      BY <2>2, <3>1, <3>2
  <2>4. unannounced /\ began = now
    BY <2>1 DEF OneSecond
  <2>5. CASE reading = 6
    <3>1. reading' = 0 /\ began' \in 1 .. now' /\ day_time_info' = Times[began']
      BY <2>1, <2>3, <2>4, <2>5 DEF OneSecond
    <3>2. QED
      BY <3>1 DEF OneSecond
  <2>6. CASE reading # 6
    <3>1. reading' = reading + 1 /\ reading' - 1 = reading /\ began' \in 1 .. now'
      BY <2>1, <2>6 DEF OneSecond
    <3>2. unannounced' /\ began' = now' /\ ~returned'
      BY <2>1, <2>4, <2>6
    <3>3. \A j \in 1 .. reading' - 1 : day_time_info'[j] = Times[now'][j]
      BY <2>1, <2>2, <3>1
    <3>4. QED
      BY <3>1, <3>2, <3>3 DEF OneSecond
  <2>7. QED
    BY <2>5, <2>6
<1>5. CASE UNCHANGED rtcVars
  BY <1>5 DEF rtcVars, chip, OneSecond
<1>6. QED
  BY <1>1, <1>2, <1>3, <1>4, <1>5 DEF RtcStep

(* With a BCD chip and a driver that is fast enough, the six fields are    *)
(* those of one second, whatever the seconds and whenever the chip counts. *)
THEOREM DateIsOneSecond ==
  ASSUME ~Slow, ~Binary
  PROVE  LifeSpec => []CurrentTimeShown
<1>1. LifeInit => RtcOK /\ OneSecond
  BY RtcOKInit DEF LifeInit, RtcInit, OneSecond
<1>2. RtcOK /\ OneSecond /\ [LifeNext]_lifeVars => RtcOK' /\ OneSecond'
  BY RtcOKNext, OneSecondNext, LifeIsRtcStep
<1>3. RtcOK /\ OneSecond => CurrentTimeShown
  BY DEF RtcOK, OneSecond, CurrentTimeShown
<1>4. QED
  BY <1>1, <1>2, <1>3, PTL DEF LifeSpec

-----------------------------------------------------------------------------
(* Lifecycle: what the program has on its way in and out, whatever call is *)
(* refused and however many interrupts come meanwhile.                     *)

(* The entries of one order after another.                                 *)
LEMMA InSeqConcat ==
  ASSUME NEW S, NEW s \in Seq(S), NEW t \in Seq(S)
  PROVE  s \o t \in Seq(S) /\ InSeq(s \o t) = InSeq(s) \cup InSeq(t)
<1>1. /\ s \o t \in Seq(S) /\ Len(s \o t) = Len(s) + Len(t)
      /\ Len(s) \in Nat /\ Len(t) \in Nat
      /\ DOMAIN s = 1 .. Len(s) /\ DOMAIN t = 1 .. Len(t) /\ DOMAIN (s \o t) = 1 .. Len(s) + Len(t)
      /\ \A i \in 1 .. Len(s) + Len(t) :
           (s \o t)[i] = IF i <= Len(s) THEN s[i] ELSE t[i - Len(s)]
  OBVIOUS
<1>2. ASSUME NEW i \in DOMAIN (s \o t)
      PROVE  (s \o t)[i] \in InSeq(s) \cup InSeq(t)
  <2>1. CASE i <= Len(s)
    <3>1. i \in DOMAIN s /\ (s \o t)[i] = s[i]
      BY <1>1, <2>1
    <3>2. QED
      BY <3>1 DEF InSeq
  <2>2. CASE ~(i <= Len(s))
    <3>1. i - Len(s) \in DOMAIN t /\ (s \o t)[i] = t[i - Len(s)]
      BY <1>1, <2>2
    <3>2. QED
      BY <3>1 DEF InSeq
  <2>3. QED
    BY <2>1, <2>2
<1>3. ASSUME NEW i \in DOMAIN s
      PROVE  s[i] \in InSeq(s \o t)
  <2>1. i \in DOMAIN (s \o t) /\ (s \o t)[i] = s[i]
    BY <1>1
  <2>2. QED
    BY <2>1 DEF InSeq
<1>4. ASSUME NEW i \in DOMAIN t
      PROVE  t[i] \in InSeq(s \o t)
  <2>1. i + Len(s) \in DOMAIN (s \o t) /\ (s \o t)[i + Len(s)] = t[i]
    BY <1>1
  <2>2. QED
    BY <2>1 DEF InSeq
<1>5. QED
  BY <1>1, <1>2, <1>3, <1>4 DEF InSeq

(* The entry of an order of one.                                           *)
LEMMA InSeqOne ==
  ASSUME NEW S, NEW a \in S
  PROVE  <<a>> \in Seq(S) /\ InSeq(<<a>>) = {a}
<1> DEFINE s == <<a>>
<1>1. s \in Seq(S) /\ DOMAIN s = {1} /\ s[1] = a
  OBVIOUS
<1> HIDE DEF s
<1>2. InSeq(s) = {a}
  BY <1>1 DEF InSeq
<1>3. QED
  BY <1>1, <1>2 DEF s

(* The entries of an order of two.                                         *)
LEMMA InSeqTwo ==
  ASSUME NEW S, NEW a \in S, NEW b \in S
  PROVE  <<a, b>> \in Seq(S) /\ InSeq(<<a, b>>) = {a, b}
<1> DEFINE s == <<a, b>>
<1>1. s \in Seq(S) /\ DOMAIN s = {1, 2} /\ s[1] = a /\ s[2] = b
  OBVIOUS
<1> HIDE DEF s
<1>2. InSeq(s) = {a, b}
  BY <1>1 DEF InSeq
<1>3. QED
  BY <1>1, <1>2 DEF s

(* The entries of an order of six.                                         *)
LEMMA InSeqSix ==
  ASSUME NEW a, NEW b, NEW c, NEW d, NEW e, NEW f
  PROVE  InSeq(<<a, b, c, d, e, f>>) = {a, b, c, d, e, f}
<1> DEFINE s == <<a, b, c, d, e, f>>
<1>1. /\ DOMAIN s = {1, 2, 3, 4, 5, 6}
      /\ s[1] = a /\ s[2] = b /\ s[3] = c /\ s[4] = d /\ s[5] = e /\ s[6] = f
  OBVIOUS
<1> HIDE DEF s
<1>2. InSeq(s) = {a, b, c, d, e, f}
  BY <1>1 DEF InSeq
<1>3. QED
  BY <1>1, <1>2 DEF s

(* Everything the program may have.                                        *)
Things == {"buffers", "mode", "ier", "inQueue", "timer", "keyboard", "reporting", "mouse",
           "rtc", "sp", "sprites"}

(* What init takes.                                                        *)
LEMMA InitTakes ==
  /\ InitOrder \in Seq(Things)
  /\ InSeq(InitOrder) = Things
<1> DEFINE mid == <<"timer", "keyboard", "reporting", "mouse", "rtc", "sp">>
           a == vg_init \o serialPort_init
           b == a \o mid
           c == b \o loader_sprite
<1>1. vg_init \in Seq(Things) /\ InSeq(vg_init) = {"buffers", "mode"}
  BY InSeqTwo DEF Things, vg_init
<1>2. serialPort_init \in Seq(Things) /\ InSeq(serialPort_init) = {"ier", "inQueue"}
  BY InSeqTwo DEF Things, serialPort_init
<1>3. loader_sprite \in Seq(Things) /\ InSeq(loader_sprite) = {"sprites"}
  BY InSeqOne DEF Things, loader_sprite
<1>4. mid \in Seq(Things) /\ InSeq(mid) = {"timer", "keyboard", "reporting", "mouse", "rtc", "sp"}
  <2>1. /\ "timer" \in Things /\ "keyboard" \in Things /\ "reporting" \in Things
        /\ "mouse" \in Things /\ "rtc" \in Things /\ "sp" \in Things
    BY DEF Things
  <2>2. mid \in Seq(Things)
    BY <2>1
  <2>3. InSeq(mid) = {"timer", "keyboard", "mouse", "reporting", "rtc", "sp"}
    BY InSeqSix
  <2>4. QED
    BY <2>2, <2>3
<1>5. InitOrder = c
  BY DEF InitOrder
<1> HIDE DEF mid
<1>6. a \in Seq(Things) /\ InSeq(a) = InSeq(vg_init) \cup InSeq(serialPort_init)
  BY <1>1, <1>2, InSeqConcat
<1> HIDE DEF a
<1>7. b \in Seq(Things) /\ InSeq(b) = InSeq(a) \cup InSeq(mid)
  BY <1>4, <1>6, InSeqConcat
<1> HIDE DEF b
<1>8. c \in Seq(Things) /\ InSeq(c) = InSeq(b) \cup InSeq(loader_sprite)
  BY <1>3, <1>7, InSeqConcat
<1> HIDE DEF c
<1>9. QED
  BY <1>1, <1>2, <1>3, <1>4, <1>5, <1>6, <1>7, <1>8 DEF Things

(* What finalize gives back.                                               *)
LEMMA FinalGives ==
  /\ FinalOrder \in Seq(Things)
  /\ InSeq(FinalOrder) = {"mode", "timer", "keyboard", "mouse", "reporting", "rtc", "sp",
                          "inQueue", "sprites"}
<1> DEFINE mid == <<"timer", "keyboard", "mouse", "reporting", "rtc", "sp">>
           a == vg_exit \o mid
           b == a \o serialPort_exit
           c == b \o unloader_sprite
<1>1. vg_exit \in Seq(Things) /\ InSeq(vg_exit) = {"mode"}
  BY InSeqOne DEF Things, vg_exit
<1>2. serialPort_exit \in Seq(Things) /\ InSeq(serialPort_exit) = {"inQueue"}
  BY InSeqOne DEF Things, serialPort_exit
<1>3. unloader_sprite \in Seq(Things) /\ InSeq(unloader_sprite) = {"sprites"}
  BY InSeqOne DEF Things, unloader_sprite
<1>4. mid \in Seq(Things) /\ InSeq(mid) = {"timer", "keyboard", "mouse", "reporting", "rtc", "sp"}
  <2>1. /\ "timer" \in Things /\ "keyboard" \in Things /\ "mouse" \in Things
        /\ "reporting" \in Things /\ "rtc" \in Things /\ "sp" \in Things
    BY DEF Things
  <2>2. mid \in Seq(Things)
    BY <2>1
  <2>3. InSeq(mid) = {"timer", "keyboard", "mouse", "reporting", "rtc", "sp"}
    BY InSeqSix
  <2>4. QED
    BY <2>2, <2>3
<1>5. FinalOrder = c
  BY DEF FinalOrder
<1> HIDE DEF mid
<1>6. a \in Seq(Things) /\ InSeq(a) = InSeq(vg_exit) \cup InSeq(mid)
  BY <1>1, <1>4, InSeqConcat
<1> HIDE DEF a
<1>7. b \in Seq(Things) /\ InSeq(b) = InSeq(a) \cup InSeq(serialPort_exit)
  BY <1>2, <1>6, InSeqConcat
<1> HIDE DEF b
<1>8. c \in Seq(Things) /\ InSeq(c) = InSeq(b) \cup InSeq(unloader_sprite)
  BY <1>3, <1>7, InSeqConcat
<1> HIDE DEF c
<1>9. QED
  BY <1>1, <1>2, <1>3, <1>4, <1>5, <1>6, <1>7, <1>8

(* The first n - 1 entries of an order.                                    *)
Before(s, n) == {s[i] : i \in 1 .. n - 1}

(* The next entry is one more of them, and after the last they are all.    *)
LEMMA BeforeGrows ==
  ASSUME NEW S, NEW s \in Seq(S), NEW n \in 1 .. Len(s)
  PROVE  Before(s, n + 1) = Before(s, n) \cup {s[n]}
<1>1. n \in Nat /\ n >= 1 /\ 1 .. (n + 1) - 1 = (1 .. n - 1) \cup {n}
  OBVIOUS
<1>2. QED
  BY <1>1 DEF Before

(* What was done when everything was.                                      *)
LEMMA BeforeAll ==
  ASSUME NEW S, NEW s \in Seq(S)
  PROVE  Before(s, Len(s) + 1) = InSeq(s) /\ Before(s, 1) = {}
<1>1. 1 .. (Len(s) + 1) - 1 = DOMAIN s /\ 1 .. 1 - 1 = {}
  OBVIOUS
<1>2. QED
  BY <1>1 DEF Before, InSeq

(* How far the program is and what it has: everything before at on its way *)
(* in, everything in the loop, everything but what is before at on its way *)
(* out, and only what is never given back when no call was refused.        *)
Holds ==
  /\ pc \in {"init", "loop", "finalize", "exited"}
  /\ refused \in BOOLEAN
  /\ pc = "init" => at \in 1 .. Len(InitOrder) + 1 /\ held = Before(InitOrder, at)
  /\ pc = "loop" => held = InSeq(InitOrder)
  /\ pc = "finalize" => /\ at \in 1 .. Len(FinalOrder) + 1
                        /\ held = InSeq(InitOrder) \ Before(FinalOrder, at)
  /\ pc = "exited" /\ ~refused => held = NeverGivenBack

(* Every step keeps to that.                                               *)
LEMMA HoldsNext ==
  ASSUME Holds, [LifeNext]_lifeVars
  PROVE  Holds'
<1>0. /\ InitOrder \in Seq(Things) /\ FinalOrder \in Seq(Things)
      /\ Len(InitOrder) \in Nat /\ Len(FinalOrder) \in Nat
  BY InitTakes, FinalGives
<1>1. CASE init
  <2>1. pc = "init" /\ at \in 1 .. Len(InitOrder) /\ held = Before(InitOrder, at)
    BY <1>0, <1>1 DEF init, Holds
  <2>2. CASE held' = held \cup {InitOrder[at]} /\ at' = at + 1 /\ UNCHANGED <<pc, refused>>
    <3>1. held' = Before(InitOrder, at')
      BY <1>0, <2>1, <2>2, BeforeGrows
    <3>2. at' \in 1 .. Len(InitOrder) + 1
      BY <1>0, <2>1, <2>2
    <3>3. QED
      BY <2>1, <2>2, <3>1, <3>2 DEF Holds
  <2>3. CASE pc' = "exited" /\ refused' = TRUE
    BY <2>3 DEF Holds
  <2>4. QED
    BY <1>1, <2>2, <2>3 DEF init
<1>2. CASE EnterLoop
  <2>1. pc = "init" /\ at = Len(InitOrder) + 1 /\ held = Before(InitOrder, at)
    BY <1>0, <1>2 DEF EnterLoop, Holds
  <2>2. held = InSeq(InitOrder)
    BY <1>0, <2>1, BeforeAll
  <2>3. pc' = "loop" /\ held' = held /\ refused' = refused
    BY <1>2 DEF EnterLoop
  <2>4. QED
    BY <2>2, <2>3 DEF Holds
<1>3. CASE Notify
  <2>1. held = InSeq(InitOrder) /\ held' = held /\ refused' = refused /\ pc = "loop"
    BY <1>3 DEF Notify, Holds
  <2>2. CASE UNCHANGED <<pc, at>>
    BY <2>1, <2>2 DEF Holds
  <2>3. CASE pc' = "finalize" /\ at' = 1
    <3>1. Before(FinalOrder, 1) = {} /\ 1 \in 1 .. Len(FinalOrder) + 1
      BY <1>0, BeforeAll
    <3>2. QED
      BY <2>1, <2>3, <3>1 DEF Holds
  <2>4. QED
    BY <1>3, <2>2, <2>3 DEF Notify
<1>4. CASE finalize
  <2>1. /\ pc = "finalize" /\ at \in 1 .. Len(FinalOrder)
        /\ held = InSeq(InitOrder) \ Before(FinalOrder, at)
    BY <1>0, <1>4 DEF finalize, Holds
  <2>2. CASE held' = held \ {FinalOrder[at]} /\ at' = at + 1 /\ UNCHANGED <<pc, refused>>
    <3>1. Before(FinalOrder, at') = Before(FinalOrder, at) \cup {FinalOrder[at]}
      BY <1>0, <2>1, <2>2, BeforeGrows
    <3>2. held' = InSeq(InitOrder) \ Before(FinalOrder, at')
      BY <2>1, <2>2, <3>1
    <3>3. at' \in 1 .. Len(FinalOrder) + 1
      BY <1>0, <2>1, <2>2
    <3>4. QED
      BY <2>1, <2>2, <3>2, <3>3 DEF Holds
  <2>3. CASE pc' = "exited" /\ refused' = TRUE
    BY <2>3 DEF Holds
  <2>4. QED
    BY <1>4, <2>2, <2>3 DEF finalize
<1>5. CASE Return
  <2>1. /\ pc = "finalize" /\ at = Len(FinalOrder) + 1
        /\ held = InSeq(InitOrder) \ Before(FinalOrder, at)
    BY <1>0, <1>5 DEF Return, Holds
  <2>2. held = InSeq(InitOrder) \ InSeq(FinalOrder)
    BY <1>0, <2>1, BeforeAll
  <2>3. held = NeverGivenBack
    BY <2>2, InitTakes, FinalGives DEF NeverGivenBack, Things
  <2>4. pc' = "exited" /\ held' = held /\ refused' = refused
    BY <1>5 DEF Return
  <2>5. QED
    BY <2>3, <2>4 DEF Holds
<1>6. CASE UNCHANGED <<pc, at, held, refused>>
  BY <1>6 DEF Holds
<1>7. (ReadRegister \/ Chip \/ UNCHANGED lifeVars) => UNCHANGED <<pc, at, held, refused>>
  BY DEF ReadRegister, Chip, lifeVars
<1>8. ASSUME NEW source \in Subscriptions, Interrupt(source)
      PROVE  UNCHANGED <<pc, at, held, refused>>
  BY <1>8 DEF Interrupt
<1>9. QED
  BY <1>1, <1>2, <1>3, <1>4, <1>5, <1>6, <1>7, <1>8 DEF LifeNext, Program

(* The start of the program has nothing.                                   *)
LEMMA HoldsInvariant == LifeSpec => []Holds
<1>1. LifeInit => Holds
  <2> SUFFICES ASSUME LifeInit PROVE Holds
    OBVIOUS
  <2>1. InitOrder \in Seq(Things) /\ Len(InitOrder) \in Nat
    BY InitTakes
  <2>2. Before(InitOrder, 1) = {} /\ 1 \in 1 .. Len(InitOrder) + 1
    BY <2>1, BeforeAll
  <2>3. pc = "init" /\ at = 1 /\ held = {} /\ refused = FALSE
    BY DEF LifeInit
  <2>4. QED
    BY <2>2, <2>3 DEF Holds
<1>2. Holds /\ [LifeNext]_lifeVars => Holds'
  BY HoldsNext
<1>3. QED
  BY <1>1, <1>2, PTL DEF LifeSpec

(* No handler runs before init has everything: for every set of calls that *)
(* may be refused.                                                         *)
THEOREM HandlersHaveEverything == LifeSpec => []LoopHasEverything
<1>1. Holds => LoopHasEverything
  BY DEF Holds, LoopHasEverything
<1>2. QED
  BY <1>1, HoldsInvariant, PTL

(* A program that no call was refused ends with nothing it should have     *)
(* given back.                                                             *)
THEOREM EndsClean == LifeSpec => []ExitSafely
<1>1. Holds => ExitSafely
  BY DEF Holds, ExitSafely
<1>2. QED
  BY <1>1, HoldsInvariant, PTL
=============================================================================
