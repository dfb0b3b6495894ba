# Air Hockey: a TLA+ verification project

The program (`proj/src`) is a two-player air hockey game for MINIX. Each player
runs it on a PC of their own; a serial line joins the two PCs. It is written in
C as a device driver would be: one loop (`project.c`) receives the interrupt
notifications of the timer, the keyboard, the mouse, the real time clock and the
serial port and runs one handler at a time to its end. There are no threads; what
is hard is the order in which the handlers of one PC, and the bytes of the other
one, come.

This directory holds TLA+ modules that model the game's logic, TLC
configurations that check them on small instances, and proofs that TLAPS checks
for every value of the constants.

## 1. Inventory

| Part | State it keeps | Operations | Talks to |
|---|---|---|---|
| Byte queue (`controller/serialport/queue.c`) | `front_index`, `back_index`, `size`, `characters` | `create_queue`, `enqueue`, `dequeue`, size queries | filled by `read_char`, drained by `read_next_signal` and `serialPort_resetFIFO` |
| Serial port (`serialport.c`) | the UART's FIFOs, `inQueue` | `sp_ih`, `read_char`, `send_char`, `transmit_puck_change`, `transmit_ball_speed`, `send_signal`, `read_next_signal`, `serialPort_resetFIFO` | the other PC; called by the handlers and by `physics.c` |
| Table (`model/physics.c`, parts of `model/model.c`) | `Ball`, `bluepuck`, `redpuck`, `previous_x/y`, `puck_transmit`, `is_main_pc` | `move` on three layers, collision tests, bounces, `reset_game_state` | moved by the timer, the mouse and the serial handler; transmits disk speeds from inside `move` |
| Match (`timer_int`) | `time_count`, `time_remaining`, the two scores | second tick, verdict, goals | goals come from `move(Ball)` |
| Screens (`keyboard_int`, `popOutButtons`, `option_up/down`) | `mainState`, `option`, the `selected` flags of ten button sprites | keys S, W, SPACE, ESC | starts and quits matches on both PCs through `signal1` |
| Session of two PCs | both `mainState`s, both directions of the line, `stored_x`, `is_stored_x` | start, quit, play again | the two programs share nothing but bytes |
| Mouse and keyboard drivers | `packet`, `count`, `byte`, `scancode`, error flags | `mouse_ih`, `kbc_ih`, `write_mouse_cmd` | the 8042 controller |
| Timer, RTC, graphics drivers, view, sprites | counters, registers, frame buffers, images | port and memory I/O | the view only reads the game's state |
| Life cycle (`project.c`) | subscriptions, video mode | `init`, `finalize`, the loop | everything |

Correctness, part by part: the queue is a bounded FIFO through every wrap of its
indices. The pucks stay in their halves and the disk in the field and under its
speed limit whatever sequence of handlers moves them. No displacement looks like
a signal on the wire. The clock follows the ticks, every match ends, and scores
stay drawable. The selected button is the one `option` names, and the player
sees it. Messages are taken whole and in order however their bytes are cut over
interrupts. Both players go into a match and out of it together, and each one's
puck stands on the other's table where it should. Keys and mouse packets, which
share a buffer, are not mixed. The date shown is one the clock had. The program
takes and gives back what it needs in an order in which no handler misses any.

What is hard to test: interleavings of ticks, packets and messages; the global
`option`, shared by screens of different sizes, with a start signal arriving at
any moment; words of a message spread over interrupts; coalesced notifications;
one signal with two meanings that crosses another, or meets a reset; bytes that
are lost or late; the bound on the score, which nothing in the code states; a
goal in the tick that ends the match; a clock that moves on while it is read.
`PROJECT.json` lists these hazards at their lines, with the properties that
cover each one or a note on why none does.

## 2. Modules

| Module | Models | Notes |
|---|---|---|
| `Fifo` | what the queue promises | abstract; also used by `SerialLink` |
| `Queue` | `queue.c` | implements `Fifo` |
| `Physics` | the pure operators of `physics.c` | no state; the table's geometry is constants |
| `Goals` | what the table promises the scoreboard | abstract: at most one goal per tick, at least `MinFlight` ticks apart |
| `Table` | the sprites under the timer, mouse and serial handlers of one PC | extends `Physics`, implements `Goals` |
| `MatchClock` | clock, scores and verdict | composed with `Goals` (its actions conjoin those of `Goals`) |
| `Menu` | screens and buttons | |
| `Words` | bytes, words and `inQueue` | operators; used by `SerialLink` and `Session` |
| `SerialLink` | one direction of the line in a match, byte by byte | uses `Fifo` for `inQueue` |
| `Rendezvous` | what the start and quit signals promise | abstract |
| `Session` | both PCs, both directions, all screens, resets, the transmitter | implements `Rendezvous` for patient players |
| `Mirror` | one puck on its owner's table and on the other's | extends `Physics` |
| `Kbc` | keyboard and mouse drivers, the exchange with the mouse, its packets | checked as it is, without an MC module |
| `Pointer` | the nine-bit displacements and the pointer | |
| `View` | the two frame buffers under the handlers | extends `Menu` |
| `Rtc` | `rtc.c` against the running chip | actions, used by `Lifecycle` |
| `Lifecycle` | `init`, the dispatch of the loop, `rtc_int`, `finalize` | extends `Rtc` |
| `MCxxx` | instances for TLC | `MCMatch` has the clock and the copy, `MCProgram` screens, pointer and life cycle |
| `QueueProofs`, `TableProofs`, `KbcProofs` | theorems about those modules | |
| `MatchProofs` | theorems about `MatchClock` and `Mirror` | what one PC shows of a match |
| `ProgramProofs` | theorems about `Menu`, `View`, `Pointer`, `Rtc` and `Lifecycle` | the program around the match |
| `WordsProofs` | lemmas about words, messages and streams of bytes | for the next two |
| `SerialLinkProofs`, `SessionProofs` | theorems about those modules | |

Because the loop runs every handler to its end, a handler is one action; where a
handler's cases differ enough, it is split into one action per case
(`mouse_int_drag` and `mouse_int_release`, `sp_int_puck` and `sp_int_ball`). Names are the
code's where the thing is the code's. A definition named `xxx_something` and
introduced as a *mutated form* is a plausible bug of `xxx`; no specification uses
it, it is there to see that the properties can fail.

**Queue.** The struct's four fields are the variables; `ret` is what the last
`dequeue` answered (1 for an empty queue). `malloc` leaves any bytes in the
cells, so `Init` allows all of them.

**Physics and Table.** A sprite is `[x, y, xspeed, yspeed]`. Images are squares with sets
of opaque pixels. `move(Ball, ..., 1)` is three actions in the order of the
code's tests (goal, walls, red puck, blue puck); `move(puck, ..., 2)` is
`MovedPuck` and `PushBall`. Messages of the other PC are received whole, with
displacements and speeds from constant sets. `sent` holds what the last step put
on the line, in order, `flight` and `goals` are history for `Goals`. The clock
may end the match in any tick. `MAIN_MENU` stands for `RULES` too, and `OVER` for the three results.
The pointer sprite and the drawing are left out: nothing on the table reads
them.

**MatchClock.** `OnTheSecond` is `time_count % sys_hz() == 0` after the handler's
increment. Goals of a tick count after its verdict, as in the code. `skipped` remembers that a look
at the scores before the last second found one above three, which the test `== 3` then never
sees. `idle_game` and `start_time` are written and never read.

**Menu.** The two sprites of a button always get the same flag, so a button is one
Boolean. `wild` records an index outside the arrays of a result screen; what the
program does after that is undefined, so the model stops there. The other PC's
start signal may arrive at any value of `option`; `strayed` remembers that one
came while another button than start was selected, the case the code does not
seem to have in mind.

**SerialLink.** A byte has `B` values; words are two bytes, low byte first, as
`send_signal` and `transmit_puck_change` send them. The UART is external: a FIFO
of `FifoDepth` bytes whose interrupt line rises when a byte enters it empty.
`irq` is a pending notification; several interrupts coalesce into one. `sp_int`
is `sp_ih` followed by at most one message, in the order of the code: no word,
quit, keep the first word in `stored_x`, or apply. One byte of a behaviour may
arrive damaged; `hurt` remembers it. A sender that has quit is in the menu and may still
send disk speeds from there; what `send_char` and the reset of a quit drop is `Session`'s.

**Session.** What a PC sends during a match is decided on its table; here any
message may be sent whenever the code may send one. `Accepted` is `send_char`: a
byte is dropped when LSR shows an error of the receiver, whose flag that read
clears, and, on a slow line (`lossy`), whenever the ten polls run out.
`AfterClear` is FCR_CLEAR_XMIT: `send_char` writes to an empty transmitter only,
so one byte can be in it. The buttons are `Menu`'s: `start` is the start button alone or with the
rules selected too, which sends the signal and then shows the rules. `Habits` says what may happen besides patient play:
`hasty` players press keys and move without waiting, look at the `rules`, let
the `clock` end a match; the line is `lossy`. With no habits the players wait
until the line is quiet, and that is when the signals do what they are for.

**Mirror.** A report is kept as the position it leads to, so `reported` holds
what the receiver has been told, what is under way and, last, `previous_x/y`. The
receiver's disk may be at any place of `Disks` when a report comes, or out of its way; `refused`
remembers that it was not. The spots are not assumed to face each other: `reset_game_state`'s (535, 730)
and (535, 55) do not, the cell across from the first being (537, 54) for pucks of 80 by 80. `Shown(p)` is where
whole reports alone would put the copy of a puck at `p`, `HasRoom(p)` says that it is within the receiver's
walls and line, in the program off the line and two pixels away from the right wall, and `cramped` remembers a report to where it is not.

**Kbc.** A byte is a record that says whose it is, which one and whether its bit
3 is set; the controller (external) holds one at a time and notifies once per byte. `torn`
counts packets put together from different ones since the last disturbance. `Faults`
are late answers to a command and keys pressed during the exchange;
`MaxDamage` bytes arrive with an error; `seen` remembers the first of any of these. `DataSync`
says which values bit 3 of a data byte takes, both in a real mouse, and `seen` remembers that one
had it.

**Pointer.** A byte has `Byte` values and a word `Word`; the `|` with the
complement is arithmetic on them. `move` is layer 0 of the code's, where a
pointer that hits a wall does not move along it.

**Rtc.** The chip announces an update (UIP) before it makes one. Without `Slow` a
driver that began before the announcement ends before the update, which the
chip's 244 microseconds are for; with `Slow` it may be delayed. The conversion is the code's
loop, eight applications of `Round` to eight-bit values.

**View.** A frame is a screen and the buttons drawn as selected. `lag` counts
the ticks since the frame to show changed. Digits, positions and pixels are not part of a frame.

**Lifecycle.** `held` is what the program has; each function called from `init`
and `finalize` is the sequence of what it takes or gives back. `MayFail` and `MayStay` are the
tested calls that may be refused, and `refused` remembers that one was. Interrupts may come as
soon as they are subscribed. `rtc_int` is not one step, because the chip goes on while it reads;
the loop waits for its end.

## 3. Runs

All runs finish within three minutes with two workers, `table` being the longest; the others take under a minute.
Components that share no variable and read nothing of each other are checked side by side in one run: in `MCMatch` and
`MCProgram`, `part` says which of them moves while the others rest in their initial states, so that the states of a run
are the sum of theirs and each component reaches all it reaches alone.
A run has its properties hold without a condition, or up to the first event that the code
does not survive, which the model then records in a history variable and goes on from.

| Run | Instance | Result |
|---|---|---|
| `queue` | 4 cells, 3 byte values, all initial contents | `TypeOK`, `EndsAgree` and the refinement of `Fifo` hold |
| `table` | 4 by 8 cells, disk 1, round pucks 2 by 2, displacements up to 3, speed limit 1 | all six properties hold, the refinement of `Goals` among them |
| `match` | 5 ticks a second, matches of 7 seconds, flights of 4 ticks; for the copy a table of 5 by 8 cells, spots that do not face each other, 3 drags, a report under way, the disk beside the line | clock, goal bound and termination hold, the verdict until a score has skipped three; the copy goes where the puck goes until it has no room or the disk refuses a report |
| `match_winner` | the same clock | **violated**: WIN is shown at 3 goals to 4 |
| `serial_link` | 3 messages of all kinds, up to 12 bytes, one of them damaged | order and collection up to the damage; the damaged byte is the only one lost |
| `session` | patient players, bytes of 3 values, 3 sends each | `ReadWasSent`, the refinement of `Rendezvous` and `NobodyAlone` hold |
| `session_any` | all habits, a FIFO of 2 bytes, 1 send each, two kinds of message | a silent port stays so until a reset |
| `session_hasty` | impatient players, 2 sends each | **violated**: one player alone in a match |
| `session_clock` | as `session`, with matches that end by their clocks | **violated**: a message is read that was not sent |
| `mirror_walls` | the copy's table of `match` | **violated**: stopped at the line, the copy is farther off than on its spot |
| `kbc` | 2 keys, 3 packets, 1 damaged byte, late answers, keys during the exchange | packets whole and keys handled once until a fault; one packet torn by it at most, while bit 3 of data is clear; the exchange ends |
| `program` | start signals at any time; bytes of 2 bits and a table of 6 by 7; any tested call refused, six seconds around a new year | a selected button always, `option` is the selection until a start finds another button than the first, every change is seen within two ticks; two's complement, pointer on the table; the loop has everything, all is given back without a refusal; the date shown is one the chip had, and catches up with it |

Why the bounds are enough. Four cells let the ring wrap with every combination of
front, back and size, full and empty included; the proof removes the bound. The
small table keeps the real one's proportions: a puck reaches the line and the
walls in one displacement, crosses no half in one, is faster than the disk's
limit, and a goal takes several ticks from the centre; both pucks reach the
line. With 5 ticks a second and flights of 4, two goals may fall within one
second and three may not, as with the real 60 and 48; seven seconds have room for four goals of one player and three
of the other, with three passed over between two looks. `CountBound` stops
`time_count` past the last tick of any match (an assumption the module states),
so it only cuts off counting between matches. The menu needs no bound. Three messages of
two or four bytes give every split of a message over interrupts, with one
complete message behind another; `FifoDepth` and `Capacity` hold them all, so
`serial_link` is about a line and a queue that lose nothing.

Three byte values keep what matters of the real words: `signal1` and `ball_signal`
share their low byte, and a displacement's bytes recombine into other words. Three
sends allow a start, a quit and another start, or a message in each of two matches; the session runs
use one message kind where two only multiply states. A FIFO of two bytes overruns with
one message, and a disk speed sent from the menu overruns a PC that then starts: its `send_char` meets the error. Three packets and two keys give every position of a key between the
bytes of a packet, and let a torn packet be followed by one that should be whole.
On the small table of the copy every wall and the line stop the puck, and others the copy; one report
under way while the puck moves on separates where it is from where it is shown, and the proof removes the bound. In the packets of `program` all sign bits and the lowest and highest low bytes occur.

Deadlock is checked in `queue`, `table`, `match` and the violated variants of `match`. In `program` the
screens end at `STOP`, where the program exits, and the life cycle at its end, the serial and session runs when all messages are sent and
read, and `kbc` when its keys and packets are used up.

### Fairness

`MatchClock` assumes weak fairness of `timer_int`: the hardware timer interrupts
whatever the players do, and the loop receives its notifications until `STOP`.
`MatchEnds` needs nothing else; in particular nobody has to score or quit.
`SerialLink` assumes that a byte on the line arrives and that a pending
notification is handled; nobody has to send. `Session` assumes the same of both
PCs, which is what the hardware and the loop do: no player has to press a key,
so `NobodyAlone` follows from the signals alone. `Kbc` assumes that the driver's code runs
and that the mouse sends what it has; `TurnsOnAndOff` needs that because the loops
of `mouse_enable_reporting` have no other way out. `Lifecycle` assumes that the program's
code runs on, that the chip counts and that the timer interrupts: `DateCatchesUp` needs the last, because
`RTC_MASK` makes the timer's bit call `rtc_int` and nothing enables an interrupt of the chip. The other specifications have none, as their properties are safety
properties.

### Where the code does not do what is said of it

Four runs are violated; `PROJECT.json` quotes for each what the report or a header says.

- `session_hasty`: a start and a quit of one player arrive together; the handler of the other PC reads the
  start, enters the match and resets FIFO and queue (`model.c:158`), and the quit is gone: one player is in a
  match, the other in the menu, and nothing is left under way.
- `session_clock`: words are found by counting bytes. The reset of play again in the middle of a message of the PC
  that is still playing shifts the later words of the match, and so does a word left in `stored_x` by the end of a match.
- `match_winner`: the winning test is `== 3`, made once a second. Two goals within a second take a
  score from 2 to 4 unseen, and the other player wins with his third. The report's limit is nine.
  If nobody has three at a look, only the clock ends the match, `GoalRate` is the only
  bound on the scores, and in a long match they are past the ten digit pictures.
- `mirror_walls`: the puck is sent as differences from spots that do not face each other. At the line, or two pixels
  from the right wall, the copy is stopped before the puck is, `move` drops the other component of that report too, and
  nothing makes up for it; nor for one that the disk refuses.

The history variables and the constants of the runs mark other such places. Each can be seen by dropping the
condition from the property named, or by giving the constant its other value.

- `strayed` (`OptionIsTheSelection`): `option` is not reset when a match starts.
  A start signal may find rules (1) or exit (2) selected. The result screen then moves the
  menu's index, and two buttons of the menu end up selected; or it indexes its own two buttons with 2.
- `hurt` (`CollectedEventually`): `read_char` answers the same for an error as for an empty FIFO, which ends the loop of
  `sp_ih` with bytes behind it, and no interrupt announces them.
- With `"lossy"` in `Habits` (`ReadWasSent`): a byte that `send_char` gives up on shifts the later words of the match.
- With `Slow` or `Binary` (`CurrentTimeShown`): UIP is looked at once, so that a reading held up longer than it announces mixes
  two seconds; a register that is already binary is read and not stored.
- One message is taken per interrupt. When two are collected at once, the second
  waits in `inQueue` for a byte that may not come.
- With `"rules"` in `Habits`, the handler leaves the UART unread;
  `DeafUntilReset` says what it takes to be heard again.
- `"bit 3"` in `seen` (`Synchronises`): the bit marks a first byte, but data bytes may have
  it; packets then stay torn after one damaged byte.
- `refused` in `Lifecycle` (`ExitSafely`): `finalize` returns at the first failure and gives
  back nothing after it, `init` undoes nothing.
- `VerdictWithinAGoal` allows a result that is off by a goal: `timer_int` gives its verdict and then moves
  the disk.

## 4. Proofs

`QueueProofs` (any `Capacity` at least 1, any `Byte` that contains 1):
`TypeOK /\ EndsAgree` is inductive. `EndsAgree` is needed because the refinement
maps the ring to `[i \in 1 .. size |-> characters[(front_index + i - 1) % Capacity]]`,
while `enqueue` writes at `back_index + 1`: the invariant says it is the cell after the last
one. `QueueImplementsFifo` then shows that each operation is a `Fifo` step. Lemma `Wrap`
reduces the remainder to a comparison, as no index passes `2 * Capacity`.

`TableProofs` (assumptions `GeometryAssumption`, `SpotAssumption`,
`MovesAssumption`, `FlightAssumption`, `SignalAssumption`, all true of the numbers in
`physics.h`, `serialport.h` and `reset_game_state`): the inductive invariant adds
to the five properties that the disk can have travelled at most `max_velocity *
flight` from its spot, which bounds the earliest goal (`TableImplementsGoals`), and that
`previous_x` is in the field during a match, which bounds the displacement sent
(`PuckWordIsNoSignal`). The first of these is why a goal needs `MinFlight` ticks: 48 on the
real table. `MovesAssumption` is where the order of the tests in
`detect_collision_in_layer` matters: a puck that could move further than a half
of the table in one call would be put on the far wall, past the line.

`MatchProofs`, the clock (any `Hz`, `GameTime`, `MinFlight`): `TypeOK`,
`ClockTracksTicks` and `GoalRate` are inductive together. `VerdictFitsBoard` (`Hz < 2 * MinFlight`, as 60 and 48 are) adds
`ThirdGoalsAreNew`: until a score has skipped three, a score of three or more that no look has found was made since the last look, and
goals since then are at least `MinFlight` ticks apart, so there are two at most; a player with three at a look therefore faces
three at most, and the tick's own goal makes no difference to who is ahead. Lemma `SecondEnds` says that
`(n + 1) % Hz = 0` picks out exactly the tick that completes a second, from
lemma `Remainder` on division. With the theorems of `TableProofs`, a match of 200 seconds at 60 Hz
has at most 60 * 201 / 48 = 251 goals.

`MatchProofs`, the opponent's puck (any table, spots and drags, from `GeometryAssumption` and `SpotAssumption`): `CopyMirrors`. The
invariant `Follows` says that until `refused` or `cramped` the copy is at `Shown` of what it was told and has room there;
lemma `ReportIsApplied` that a report between two positions with room passes the walls and the line whole.

`KbcProofs` (any number of keys and packets, any faults): until the first fault a
pending notification of the keyboard has its scancode in the output buffer, a pending one of the
mouse has some byte there, and never are both pending (`Apart`); so the handler that does not look whose byte it
reads never reads the other's. `InStep` adds to it for `PacketsWhole` that what the mouse has sent
and the handler has not taken follows on what is in `packet`, byte by byte. `Synchronises` has no use
for that once something was disturbed: its invariant `Resync` says that as long as no data byte has bit 3, at most one torn
packet is counted, and after it only the first byte of a packet is collected as one (`Aligned`).
Lemma `FaultsStay` says that a fault is never forgotten.

`ProgramProofs`, the screens: `TypeOK /\ SomethingSelected` is inductive.
`OptionShared` adds `Shared`, which relates `option` to the flags on every screen, also on
those that do not show it: in a match it is 0, and the screen that is not shown waits with
its first button selected. `~strayed => Shared` is inductive. The view: each handler with its
buffers is a step of `Menu` or none (`ViewImplementsMenu`), so all this holds of `View` too;
its invariant `Fresh` says which of the two buffers has the frame to show at each value of `lag`,
which is what bounds `lag` by two ticks.

`ProgramProofs`, the pointer (any widths with `Word >= 4 * Byte`, any table the pointer fits
into): lemma `NearZero` gives the remainder of a number between `-d` and `d - 1`, `DeltaValue` the
displacement, and the pointer's place is inductive whatever the packets carry.

`ProgramProofs`, clock and life cycle: for any sequence of seconds, `OneSecond` says that the registers read so
far in a reading all belong to the second the chip had when it began, because without
`Slow` no update falls into a reading, and `ConversionExact` that eight rounds turn every BCD byte into its
number; this is for a chip in BCD mode. `DigitsExist` needs `ConversionExact` but no speed and no mode:
every field stored is a two-digit number, and in binary mode none is stored. `Holds` says
what the program has at each point of `init`, of the loop and of `finalize`.

`WordsProofs` (any `B` at least 2): a word is put together from the bytes it was cut into, and
`Coded(w, log, n)` says that the bytes `w` are those of the messages of `log` after the first `n`.
`TakesNext` and `SendsNext` say what a message taken and a message sent make of it: since `signal1`
is two bytes, any other message four, and a message's first word is not `signal1`, a stream
can be read in one way only. `EndIgnoresMore`: what is sent after `signal1` changes nothing of what the match said.

`SerialLinkProofs` (any alphabet, FIFO, queue and number of messages): what is under way is one
stream, from `stored_x` over the queue and the FIFO to the line, and no step but sending and taking changes it. Until
a byte is damaged it is `Coded` by what was sent up to a quit and not yet applied (`InOrder`), hence `TakenAsSent`.
`ByteConservation` says that what was applied and the stream are together the bytes sent, or those with one byte removed
after a damage. Both assume `RoomLeft`: no overrun, and room in the queue for the next interrupt's bytes. The code
sees to neither, so it is a condition of the theorems; `RoomForFew` shows that it holds when the
FIFO can hold what is sent. `NothingLost` is about the concatenation of a log of any length; the
induction it needs is made with a set of numbers and its least element (lemmas `Least`,
`Induction`), which the provers can follow.

`SessionProofs` (any messages, FIFO, habits): `PortsOK` says of each PC that the
FIFO, the queue and the pending notification are of their types and that an
overrun leaves bytes behind; from it every action is a step of `DeafUntilReset`.
For `Patient` players (no habits) the pair is in one of four phases (`InPhase`): apart with nothing under way;
joining or leaving, with nothing under way to the one who pressed the key and the
two bytes of `signal1`, in whatever place, to the other; or in a match, where the streams of both directions
are `Coded` by messages. In each phase only some actions are possible and each leads into one
of the phases that `Rendezvous` allows; that is the refinement `PatientPlayTogether`, and `PatientReadWhatWasSent`
follows because a stream of messages cannot be read as anything else. Both assume `RoomLeft` of both PCs,
which `FewPlayTogether` discharges for as many messages as FIFO and queue hold, the instance of
the run `session` among them. Patience is needed: `session_hasty` shows what happens without.

Only model-checked: `MatchEnds`, `CollectedEventually`, `NobodyAlone`, `TurnsOnAndOff` and
`DateCatchesUp`, which are liveness properties under fairness and outside the prover's reach. `BothOrNeither`,
`WinnerNotBehind` and `RedShowsOpponent` are refuted. Every other property of the runs is a theorem,
`ReadWasSent` for patient players and `CurrentTimeShown` for a fast driver and a chip in BCD mode.

## 5. Not modelled

- `.minix-src` and the pictures under `model/xpm`: headers of the operating
  system and of other software, and data. They are most of the repository's lines and hold no
  code of this program.
- Pixels: `vg_draw_xpm`, `vg_draw_sprite`, `vg_draw_hline` and the loops that place digits
  write memory and read no state but what `View` names.
- `timer_set_frequency` and `timer_get_conf` are never called: the timer runs at its
  default frequency.
- A port access that the kernel refuses, and `malloc` that returns nothing: the
  code tests the first nearly everywhere by returning, and never the second.
- The input buffer of the keyboard controller is taken to empty within the polls of
  `kbc_write_cmd`; when it does not, `write_mouse_cmd` is repeated from its start.
- A queue that overflows is in the model (`Enqueued`) but outside the bounds of
  the runs: 100 bytes are 25 messages behind.
- Whether a disk held by a puck against a wall gets free again
  (`physics.c:58`): it depends on what the players do.

## 6. Plan

Done: every part of the inventory above, in the order queue, table, match, menu,
line, session, mirror, controllers, clock, view, life cycle; proofs of every safety
property, action property and refinement that the runs check.

Left:

1. Both disks: `Mirror` with the tables of both PCs and `transmit_ball_speed`, to state when
   the two scores agree.
2. A resynchronising receiver, to see what of `ReadWasSent` a lossy line would leave.
3. `RoomLeft` from the pace of the sender: how many ticks a receiver may be late before its FIFO
   of 16 bytes overruns.
