-------------------------------- MODULE View --------------------------------
(***************************************************************************)
(* What the player sees: the two frame buffers under the handlers of       *)
(* Menu.tla.  draw_frame draws the current screen in the secondary buffer; *)
(* timer_int copies that to the video memory before anything else.  Only   *)
(* some handlers draw, and the timer redraws the menu and the match only:  *)
(* on every other screen what was last drawn is what stays.                *)
(***************************************************************************)
EXTENDS Menu

VARIABLES
  main_buffer, secondary_buffer,   \* the frames in them
  lag                              \* ticks since the frame to show changed, up to 2

viewVars == <<vars, main_buffer, secondary_buffer, lag>>

(* What draw_frame draws for a screen: a frame is its screen and the       *)
(* buttons drawn as selected; the pixels, the positions of the sprites and *)
(* the digits on it are left out.                                          *)
Frame ==
  CASE mainState = "MAIN_MENU" -> <<mainState, menu>>
    [] mainState \in Results   -> <<mainState, popOut>>
    [] OTHER                   -> <<mainState, << >>>>

draw_frame == secondary_buffer' = IF mainState' = "STOP" THEN secondary_buffer ELSE Frame'

swap_buffers == main_buffer' = secondary_buffer

Aged(tick) == lag' = IF Frame' # Frame THEN 0 ELSE IF tick /\ lag < 2 THEN lag + 1 ELSE lag

-----------------------------------------------------------------------------

(* Mutated form: the frame is drawn before the key is handled.             *)
Key_draws_first ==
  /\ keyboard_int
  /\ secondary_buffer' = Frame
  /\ UNCHANGED main_buffer
  /\ Aged(FALSE)

(* keyboard_int draws at its end, whatever the key did. *)
Key ==
  /\ keyboard_int
  /\ draw_frame
  /\ UNCHANGED main_buffer
  /\ Aged(FALSE)

(* Mutated form: only the screens that change by themselves are copied.    *)
timer_int_copies_some ==
  /\ ~wild /\ mainState # "STOP"
  /\ IF mainState \in {"MAIN_MENU", "GAME"} THEN swap_buffers ELSE UNCHANGED main_buffer
  /\ timer_int_verdict \/ UNCHANGED vars
  /\ IF mainState \in {"MAIN_MENU", "GAME"} THEN draw_frame ELSE UNCHANGED secondary_buffer
  /\ Aged(TRUE)

timer_int ==
  /\ ~wild /\ mainState # "STOP"
  /\ swap_buffers
  /\ timer_int_verdict \/ UNCHANGED vars
  /\ IF mainState \in {"MAIN_MENU", "GAME"} THEN draw_frame ELSE UNCHANGED secondary_buffer
  /\ Aged(TRUE)

(* A start signal of the other PC is not drawn, a quit signal is. *)
PeerStarts ==
  /\ sp_int_start
  /\ UNCHANGED <<main_buffer, secondary_buffer>>
  /\ Aged(FALSE)

PeerQuits ==
  /\ sp_int_quit
  /\ draw_frame
  /\ UNCHANGED main_buffer
  /\ Aged(FALSE)

(* init draws the menu; the video memory holds whatever it held. *)
ViewInit ==
  /\ Init
  /\ main_buffer = <<"unset", << >>>>
  /\ secondary_buffer = Frame
  /\ lag = 0

ViewNext == Key \/ timer_int \/ PeerStarts \/ PeerQuits

ViewSpec == ViewInit /\ [][ViewNext]_viewVars

-----------------------------------------------------------------------------

(* A screen the timer does not redraw is entered, and changed, only by     *)
(* handlers that draw it: in the rules and on a result screen the          *)
(* secondary buffer already holds the frame to show.                       *)
DrawnWhereNotRedrawn ==
  mainState \in {"RULES"} \cup Results => secondary_buffer = Frame

(* Whoever changed the screen, two ticks later the player sees it: one to  *)
(* draw what a handler did not draw, one to copy it.                       *)
ShownWithinTwoTicks ==
  lag = 2 => main_buffer = Frame
=============================================================================
