-------------------------------- MODULE Mirror ------------------------------
(***************************************************************************)
(* One player's puck on the two PCs of a match: blue on its owner's table, *)
(* red on the other's.  The owner reports every second tick by how much it *)
(* has moved (transmit_puck_change); the other PC applies each report to   *)
(* its red puck with the collision tests of move (sp_int).  Nothing ever   *)
(* says where the puck is, and the spots of the two pucks do not face each *)
(* other: the cell across from blue's (535, 730) is (537, 54), and red is  *)
(* put at (535, 55).                                                       *)
(*                                                                         *)
(* A report is the difference of two positions: those are kept, so that    *)
(* the first one is where the receiver has been told that the puck is and  *)
(* the last one is previous_x, previous_y.                                 *)
(***************************************************************************)
EXTENDS Physics, Sequences, SequencesExt

CONSTANTS
  MouseMoves,   \* [x, y] displacements a mouse packet may carry
  Disks,        \* where the receiver's disk may be, if it is the main PC
  MaxWire       \* bound of the model on reports under way

ASSUME MirrorAssumption ==
  /\ MouseMoves \subseteq [x : Int, y : Int]
  /\ Disks \subseteq [x : Int, y : Int]
  /\ MaxWire \in Nat

VARIABLES
  blue, red, reported,
  refused,         \* history: the receiver's disk was in the way of a report
  cramped          \* history: a report took the puck where its copy has no room

mirrorVars == <<blue, red, reported, refused, cramped>>

At(puck) == [x |-> puck.x, y |-> puck.y]

(* mouse_int on the owner's PC.  Its disk may refuse the move: a stutter. *)
Drag(d) ==
  /\ blue' = move_puck(blue, d.x, d.y, FALSE)
  /\ UNCHANGED <<red, reported, refused, cramped>>

transmit_puck_change ==
  /\ At(blue) # Last(reported)
  /\ Len(reported) <= MaxWire
  /\ reported' = Append(reported, At(blue))
  /\ UNCHANGED <<blue, red, refused, cramped>>

(* Where the copy of a puck at p stands after nothing but whole reports,   *)
(* and whether that is within the walls and the line of the receiver.      *)
Shown(p) == [x |-> RedSpot.x + BlueSpot.x - p.x, y |-> RedSpot.y + BlueSpot.y - p.y]

HasRoom(p) ==
  /\ Shown(p).x >= horizontal_start /\ Shown(p).x + puck_size <= horizontal_end
  /\ Shown(p).y >= vertical_start /\ Shown(p).y + puck_size <= middle_field

(* Mutated form: move's y grows upwards, and the report's sign is changed  *)
(* in both coordinates.                                                    *)
sp_int_puck_upside_down ==
  /\ Len(reported) > 1
  /\ LET dx == reported[2].x - reported[1].x
         dy == reported[2].y - reported[1].y
     IN  \E hit \in {FALSE} \cup {detect_collision(b.x, b.y, red.x - dx, red.y + dy) : b \in Disks} :
           /\ red' = move_puck(red, -dx, -dy, hit)
           /\ refused' = (refused \/ hit)
  /\ cramped' = (cramped \/ ~HasRoom(reported[2]))
  /\ reported' = Tail(reported)
  /\ UNCHANGED blue

(* sp_int with a whole report: the players face each other, and move's y   *)
(* grows upwards.                                                          *)
sp_int_puck ==
  /\ Len(reported) > 1
  /\ LET dx == reported[2].x - reported[1].x
         dy == reported[2].y - reported[1].y
     IN  \E hit \in {FALSE} \cup {detect_collision(b.x, b.y, red.x - dx, red.y - dy) : b \in Disks} :
           /\ red' = move_puck(red, -dx, dy, hit)
           /\ refused' = (refused \/ hit)
  /\ cramped' = (cramped \/ ~HasRoom(reported[2]))
  /\ reported' = Tail(reported)
  /\ UNCHANGED blue

(* reset_game_state on both. *)
MirrorInit ==
  /\ blue = AtRest(BlueSpot)
  /\ red = AtRest(RedSpot)
  /\ reported = <<BlueSpot>>
  /\ refused = FALSE /\ cramped = FALSE

MirrorNext ==
  \/ \E d \in MouseMoves : Drag(d)
  \/ transmit_puck_change
  \/ sp_int_puck

MirrorSpec == MirrorInit /\ [][MirrorNext]_mirrorVars

-----------------------------------------------------------------------------

(* The copy goes where the puck goes: as long as its owner keeps the puck  *)
(* where the copy has room (in the program off the line and two pixels     *)
(* away from the right wall) and the receiver's disk refuses no report,    *)
(* the copy mirrors the position it was told of, off by what it was off on *)
(* its spot: no wall, no line and no pace of the reports adds to that.     *)
CopyKeepsOffset == ~refused /\ ~cramped => At(red) = Shown(Head(reported))

(* The cell of the table across from a puck's. *)
Across(p) == [x |-> horizontal_start + horizontal_end - puck_size - p.x,
              y |-> vertical_start + vertical_end - puck_size - p.y]

Distance(m, n) == IF m < n THEN n - m ELSE m - n

(* The report, page 15: "the virtual machines sends their puck position to *)
(* each other. In each interrupt, the virtual machine receives the         *)
(* information and displays it as its opponent in the game board": with no *)
(* disk in the way, the copy is no farther from the cell across from where *)
(* it was told the puck is than on its spot.                               *)
RedShowsOpponent ==
  ~refused =>
    LET there == Across(Head(reported))
    IN  /\ Distance(red.x, there.x) <= Distance(RedSpot.x, Across(BlueSpot).x)
        /\ Distance(red.y, there.y) <= Distance(RedSpot.y, Across(BlueSpot).y)
=============================================================================
