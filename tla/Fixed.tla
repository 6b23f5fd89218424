------------------------------- MODULE Fixed --------------------------------
(***************************************************************************)
(* Fixed-point arithmetic (src/src/fixed.rs): the rounding of products and *)
(* quotients and the snapping of coordinates to the pixel grid.  Every     *)
(* other numeric module computes with these.  One is the 16.16 unit and    *)
(* Grid the pixel in 26.6 units; both are parameters, so that TLC's        *)
(* 32-bit integers hold the products.  Wrapping of results that exceed the *)
(* machine's width is left out: callers stay within it.                    *)
(***************************************************************************)
EXTENDS Integers

CONSTANTS One,   \* 0x10000, the unit of 16.16 numbers
          Grid   \* 64, one pixel in 26.6 units

ASSUME FixedAssumption == /\ One \in Nat \ {0} /\ One % 2 = 0
                          /\ Grid \in Nat \ {0} /\ Grid % 2 = 0

Sentinel == 2147483647   \* what a division by zero returns

Abs(a) == IF a < 0 THEN -a ELSE a
Sign(a) == IF a < 0 THEN -1 ELSE 1

\* Rust's integer division: towards zero.
Quot(a, b) == Sign(a) * Sign(b) * (Abs(a) \div Abs(b))

MulDiv(a, b, c) ==
  LET s == Sign(a) * Sign(b) * Sign(c)
  IN IF c = 0 THEN s * Sentinel
     ELSE s * ((Abs(a) * Abs(b) + Abs(c) \div 2) \div Abs(c))

MulDivNoRound(a, b, c) ==
  LET s == Sign(a) * Sign(b) * Sign(c)
  IN IF c = 0 THEN s * Sentinel ELSE s * ((Abs(a) * Abs(b)) \div Abs(c))

MulFix(a, b) ==
  (a * b + One \div 2 - (IF a * b < 0 THEN 1 ELSE 0)) \div One

DivFix(a, b) ==
  LET s == Sign(a) * Sign(b)
  IN IF b = 0 THEN s * Sentinel
     ELSE s * ((Abs(a) * One + Abs(b) \div 2) \div Abs(b))

PixFloor(a) == Grid * (a \div Grid)
PixCeil(a) == PixFloor(a + Grid - 1)
PixRound(a) == PixFloor(a + Grid \div 2)

-----------------------------------------------------------------------------
(* What callers rely on, for a range of arguments.                         *)

\* Products are rounded to nearest, and the sign of an operand does not
\* change their magnitude: mirrored outlines stay mirrored.
MulFixNearest(a, b) ==
  /\ 2 * Abs(MulFix(a, b) * One - a * b) <= One
  /\ MulFix(-a, b) = -MulFix(a, b)
  /\ MulFix(a, -b) = -MulFix(a, b)

\* MulDiv and DivFix agree where both apply, and round the magnitude.
QuotientsNearest(a, b, c) ==
  c # 0 => /\ 2 * Abs(MulDiv(a, b, c) * c - a * b) <= Abs(c)
           /\ MulDiv(-a, b, c) = -MulDiv(a, b, c)
           /\ Abs(MulDivNoRound(a, b, c)) <= Abs(MulDiv(a, b, c))
           /\ DivFix(a, c) = MulDiv(a, One, c)

\* Snapping moves a coordinate less than a pixel, to a pixel, and keeps order.
SnapsToGrid(a) ==
  /\ PixFloor(a) % Grid = 0 /\ PixFloor(a) <= a /\ a < PixFloor(a) + Grid
  /\ PixCeil(a) % Grid = 0 /\ a <= PixCeil(a) /\ PixCeil(a) < a + Grid
  /\ Abs(PixRound(a) - a) <= Grid \div 2
=============================================================================
