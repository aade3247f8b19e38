------------------------------ MODULE QrImage -------------------------------
(***************************************************************************)
(* The drawing loop of pairing_qr_image (qr.rs 21-51): one RGBA pixel is   *)
(* pushed per turn, and the bytes are then declared an image of dim x dim. *)
(***************************************************************************)
EXTENDS Integers, Sequences

CONSTANTS QUIET, SCALE,   \* 2 modules and 6 pixels in the code
          Widths          \* the widths of code, in modules, to draw

ASSUME QrAssumption ==
    /\ QUIET \in Nat \ {0} /\ SCALE \in Nat \ {0}
    /\ Widths \subseteq Nat \ {0}

VARIABLES
    modules,   \* width of the code, in modules
    colors,    \* colors[i]: is module i dark?  row-major, from 0
    y, x,      \* the loop
    bytes      \* the pixels pushed: TRUE for a dark one

drawVars == << modules, colors, y, x, bytes >>

dim_i == modules + QUIET * 2
dim == dim_i * SCALE

DrawInit ==
    /\ modules \in Widths
    /\ colors \in [0 .. modules * modules - 1 -> BOOLEAN]
    /\ y = 0 /\ x = 0
    /\ bytes = << >>

\* The module a coordinate falls on; negative in the quiet zone.
ModuleOf(p) == p \div SCALE - QUIET

InBounds(mx, my) == mx >= 0 /\ my >= 0 /\ mx < modules /\ my < modules

Index(mx, my) == my * modules + mx

Dark(mx, my) == InBounds(mx, my) /\ colors[Index(mx, my)]

\* One turn of the inner loop, and of the outer one at the end of a row.
Push ==
    /\ y < dim_i
    /\ bytes' = Append(bytes, Dark(ModuleOf(x), ModuleOf(y)))
    /\ \/ x + 1 < dim_i /\ x' = x + 1 /\ y' = y
       \/ x + 1 = dim_i /\ x' = 0 /\ y' = y + 1
    /\ UNCHANGED << modules, colors >>

Done == y = dim_i

DrawNext == Push

DrawSpec == DrawInit /\ [][DrawNext]_drawVars
-----------------------------------------------------------------------------
\* The pixels that belong to module (mx, my) of an image that scales every
\* module to SCALE x SCALE pixels and leaves QUIET modules free all round.
Block(m) == (m + QUIET) * SCALE .. (m + QUIET + 1) * SCALE - 1

\* SAFETY.  No turn reads outside the module matrix (qr.rs 40-43).
IndexIsInRange ==
    y < dim_i => (InBounds(ModuleOf(x), ModuleOf(y)) =>
                    Index(ModuleOf(x), ModuleOf(y)) \in DOMAIN colors)

\* The inductive invariant: as many pixels as the loop has made turns.
DrawInv ==
    /\ modules \in Nat \ {0}
    /\ DOMAIN colors = 0 .. modules * modules - 1
    /\ y \in 0 .. dim_i /\ x \in 0 .. dim_i - 1 /\ (Done => x = 0)
    /\ Len(bytes) = y * dim_i + x /\ bytes \in Seq(BOOLEAN)

\* SAFETY.  The bytes of a finished drawing are an image of dim x dim pixels
\* (qr.rs 31-34), as clone_from_slice is told.
BytesFillTheImage == Done => Len(bytes) = dim * dim

\* SAFETY.  In the image of width dim that qr.rs 48 makes of the bytes, a pixel
\* is dark exactly if the block of a dark module covers it (qr.rs 28, "6 px per
\* module").
PixelsAreInTheirPlace ==
    \A k \in 1 .. Len(bytes) :
        LET px == (k - 1) % dim
            py == (k - 1) \div dim
        IN  bytes[k] <=>
              \E mx, my \in 0 .. modules - 1 :
                 /\ px \in Block(mx) /\ py \in Block(my)
                 /\ colors[my * modules + mx]
=============================================================================
