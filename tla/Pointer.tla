------------------------------ MODULE Pointer -------------------------------
(***************************************************************************)
(* What mouse_int does with a whole packet, up to the puck (Table.tla):    *)
(* parse_mouse_data makes a signed displacement of the sign bit in the     *)
(* first byte and the eight bits of another, mouse_update moves the        *)
(* pointer by it unless the packet says that it overflowed.                *)
(***************************************************************************)
EXTENDS Integers

CONSTANTS
  Byte,                               \* 256: BIT(8)
  Word,                               \* 65536: values of a uint16_t
  horizontal_start, horizontal_end, vertical_start, vertical_end,
  width, height,                      \* of the pointer's image
  Spot,                               \* where loader_sprite puts it
  Low                                 \* low bytes that packets carry

ASSUME PointerAssumption ==
  /\ Byte \in Nat \ {0} /\ Word \in Nat /\ Word >= 4 * Byte
  /\ \A n \in {horizontal_start, horizontal_end, vertical_start, vertical_end} : n \in Int
  /\ width \in Nat /\ height \in Nat
  /\ horizontal_start + width <= horizontal_end
  /\ vertical_start + height <= vertical_end
  /\ Spot \in [x : horizontal_start .. horizontal_end - width,
               y : vertical_start .. vertical_end - height]
  /\ Low \subseteq 0 .. Byte - 1

(* The bits of the first byte that the program uses, and the other two. *)
Packet == [lb : BOOLEAN, msb_x : BOOLEAN, msb_y : BOOLEAN,
           x_ov : BOOLEAN, y_ov : BOOLEAN, x : Low, y : Low]

VARIABLES
  pointer,      \* [x, y]
  visibility,
  parsed        \* history: the last packet and what was made of it

pointerVars == <<pointer, visibility, parsed>>

-----------------------------------------------------------------------------

(* An int16_t from sixteen bits. *)
Signed(w) == IF 2 * w < Word THEN w ELSE w - Word

(* Mutated form: the mask leaves seven bits.                               *)
nine_bit_sign_extension_seven(number) ==
  Signed((number % (Byte \div 2)) + Word - (Byte \div 2))

(* number | ~(BIT(9) - 1): the low nine bits, ones above them. *)
nine_bit_sign_extension(number) == Signed((number % (2 * Byte)) + Word - 2 * Byte)

(* parse_mouse_data, for one axis. *)
Delta(msb, low) == IF msb THEN nine_bit_sign_extension(Byte + low) ELSE low

(* Mutated form: the pointer's height is not taken off the lower wall.     *)
move_top_edge(x, y) ==
  IF x < horizontal_start \/ x + width > horizontal_end \/ y < vertical_start \/ y > vertical_end
    THEN [x |-> IF x < horizontal_start THEN horizontal_start
                ELSE IF x + width > horizontal_end THEN horizontal_end - width ELSE pointer.x,
          y |-> IF y > vertical_end THEN vertical_end
                ELSE IF y < vertical_start THEN vertical_start ELSE pointer.y]
    ELSE [x |-> x, y |-> y]

(* move(mouse, ., ., 0) to (x, y): a pointer that would cross a wall is    *)
(* put against it, and does not move along it.                             *)
move(x, y) ==
  LET left == x < horizontal_start
      right == x + width > horizontal_end
      top == y < vertical_start
      bottom == y + height > vertical_end
  IN  IF left \/ right \/ top \/ bottom
        THEN [x |-> IF left THEN horizontal_start
                    ELSE IF right THEN horizontal_end - width ELSE pointer.x,
              y |-> IF bottom THEN vertical_end - height
                    ELSE IF top THEN vertical_start ELSE pointer.y]
        ELSE [x |-> x, y |-> y]

mouse_int ==
  \E p \in Packet :
    LET dx == Delta(p.msb_x, p.x)
        dy == Delta(p.msb_y, p.y)
    IN  /\ pointer' = IF p.x_ov \/ p.y_ov THEN pointer
                      ELSE move(pointer.x + dx, pointer.y - dy)
        /\ visibility' = ~p.lb
        /\ parsed' = <<p, dx, dy>>

PointerInit ==
  /\ pointer = Spot
  /\ visibility = TRUE
  /\ parsed = << >>

PointerSpec == PointerInit /\ [][mouse_int]_pointerVars

-----------------------------------------------------------------------------

(* A displacement is the two's complement of its nine bits, and as such    *)
(* within what Table.tla assumes of one.                                   *)
DeltaIsTwosComplement ==
  parsed # << >> =>
    LET p == parsed[1]
        bits(msb, low) == low + (IF msb THEN Byte ELSE 0)
    IN  /\ parsed[2] \in -Byte .. Byte - 1 /\ parsed[2] % (2 * Byte) = bits(p.msb_x, p.x)
        /\ parsed[3] \in -Byte .. Byte - 1 /\ parsed[3] % (2 * Byte) = bits(p.msb_y, p.y)

(* The pointer stays within the table, over any sequence of packets,       *)
(* torn ones (Kbc.tla) included.                                           *)
PointerInField ==
  /\ pointer.x >= horizontal_start /\ pointer.x + width <= horizontal_end
  /\ pointer.y >= vertical_start /\ pointer.y + height <= vertical_end
=============================================================================
