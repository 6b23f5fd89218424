------------------------- MODULE Arithmetic_proofs --------------------------
(***************************************************************************)
(* What callers of the fixed-point arithmetic of src/src/fixed.rs rely on, *)
(* for all arguments and all units: products and quotients are rounded to  *)
(* nearest and symmetrically, coordinates are snapped to the nearest pixel *)
(* and keep their order.                                                   *)
(*                                                                         *)
(* And what the smooth rasterizer (src/src/grays.rs) relies on when it     *)
(* follows a path in subpixels, for all outlines, clip boxes and widths: a *)
(* line comes nearer to its end with every pixel, the pieces of a curve    *)
(* end where the curve does, and what is written lies in the clip box,     *)
(* each pixel at most once.                                                *)
(***************************************************************************)
EXTENDS Fixed, GrayRaster, SeqLemmas, SequenceTheorems, FiniteSetTheorems, TLAPS

-----------------------------------------------------------------------------
(* Products and quotients                                                  *)

LEMMA Division ==
  ASSUME NEW x \in Int, NEW n \in Nat \ {0}
  PROVE  /\ x \div n \in Int
         /\ n * (x \div n) <= x
         /\ x < n * (x \div n) + n
  BY SMT

LEMMA DivisionUnique ==
  ASSUME NEW x \in Int, NEW n \in Nat \ {0}, NEW q \in Int,
         n * q <= x, x < n * q + n
  PROVE  x \div n = q
  BY SMT

LEMMA Even ==
  ASSUME NEW n \in Nat \ {0}, n % 2 = 0
  PROVE  /\ n \div 2 \in Nat
         /\ n = 2 * (n \div 2)
  BY SMT

\* The rounding in FT_MulFix, of a product p.
Rounded(p) == (p + One \div 2 - (IF p < 0 THEN 1 ELSE 0)) \div One

LEMMA RoundedNearest ==
  ASSUME NEW p \in Int
  PROVE  /\ Rounded(p) \in Int
         /\ 2 * Abs(Rounded(p) * One - p) <= One
         /\ Rounded(-p) = -Rounded(p)
<1> DEFINE h == One \div 2
           s(x) == IF x < 0 THEN 1 ELSE 0
           q == Rounded(p)
<1>1. One \in Nat \ {0} /\ h \in Nat /\ One = 2 * h
  BY FixedAssumption, Even
<1>2. p + h - s(p) \in Int /\ -p + h - s(-p) \in Int
  BY <1>1
<1>3. q \in Int /\ One * q <= p + h - s(p) /\ p + h - s(p) < One * q + One
  BY <1>1, <1>2, Division DEF Rounded
<1> HIDE DEF h, q
<1>4. 2 * Abs(q * One - p) <= One
  BY <1>1, <1>3 DEF Abs
<1>5. One * (-q) <= -p + h - s(-p) /\ -p + h - s(-p) < One * (-q) + One
  BY <1>1, <1>3
<1>6. (-p + h - s(-p)) \div One = -q
  BY <1>1, <1>2, <1>3, <1>5, DivisionUnique
<1>7. Rounded(-p) = -q
  BY <1>6 DEF Rounded, h
<1> QED
  BY <1>3, <1>4, <1>7 DEF q

\* A product is the nearest one, and the sign of an operand does not change
\* its magnitude (FT_MulFix).
THEOREM ProductsNearest ==
  ASSUME NEW a \in Int, NEW b \in Int
  PROVE  MulFixNearest(a, b)
<1>1. a * b \in Int /\ (-a) * b = -(a * b) /\ a * (-b) = -(a * b)
  BY SMT
<1>2. MulFix(a, b) = Rounded(a * b)
  BY DEF MulFix, Rounded
<1>3. MulFix(-a, b) = Rounded(-(a * b))
  BY <1>1 DEF MulFix, Rounded
<1>4. MulFix(a, -b) = Rounded(-(a * b))
  BY <1>1 DEF MulFix, Rounded
<1> QED
  BY <1>1, <1>2, <1>3, <1>4, RoundedNearest DEF MulFixNearest

-----------------------------------------------------------------------------

LEMMA SignAbs ==
  ASSUME NEW x \in Int
  PROVE  /\ Abs(x) \in Nat /\ (x # 0 => Abs(x) \in Nat \ {0})
         /\ Sign(x) \in {-1, 1}
         /\ x = Sign(x) * Abs(x)
         /\ Abs(-x) = Abs(x)
         /\ x # 0 => Sign(-x) = -Sign(x)
  BY DEF Abs, Sign

\* The nearest quotient of natural numbers.
Nearest(n, d) == (n + d \div 2) \div d

LEMMA NearestQuotient ==
  ASSUME NEW n \in Nat, NEW d \in Nat \ {0}
  PROVE  /\ Nearest(n, d) \in Nat
         /\ 2 * Abs(Nearest(n, d) * d - n) <= d
         /\ n \div d \in Nat
         /\ n \div d <= Nearest(n, d)
         /\ n = 0 => Nearest(n, d) = 0
<1> DEFINE h == d \div 2
           q == Nearest(n, d)
           f == n \div d
<1>1. h \in Nat /\ 2 * h <= d /\ d <= 2 * h + 1
  BY SMT
<1>2. q \in Int /\ d * q <= n + h /\ n + h < d * q + d
  BY <1>1, Division DEF Nearest
<1>3. f \in Int /\ d * f <= n /\ n < d * f + d
  BY Division
<1>4. n = 0 => q = 0
  BY <1>1, DivisionUnique DEF Nearest
<1> HIDE DEF h, q, f
<1>5. q >= 0 /\ f >= 0
  BY <1>1, <1>2, <1>3
<1>6. 2 * Abs(q * d - n) <= d
  BY <1>1, <1>2 DEF Abs
<1>7. d * f < d * (q + 1)
  BY <1>1, <1>2, <1>3
<1>8. f <= q
  BY <1>2, <1>3, <1>7
<1> QED
  BY <1>2, <1>3, <1>4, <1>5, <1>6, <1>8 DEF q, f

\* What MulDiv computes: the nearest quotient of the magnitudes, with the
\* product of the signs.
LEMMA MulDivSplit ==
  ASSUME NEW a \in Int, NEW b \in Int, NEW c \in Int, c # 0
  PROVE  /\ Abs(a) * Abs(b) \in Nat
         /\ Abs(c) \in Nat \ {0}
         /\ MulDiv(a, b, c) = Sign(a) * Sign(b) * Sign(c) * Nearest(Abs(a) * Abs(b), Abs(c))
         /\ MulDivNoRound(a, b, c) = Sign(a) * Sign(b) * Sign(c) * ((Abs(a) * Abs(b)) \div Abs(c))
  BY SignAbs DEF MulDiv, MulDivNoRound, Nearest

\* The sign of the first operand is the sign of the quotient.
LEMMA MulDivOdd ==
  ASSUME NEW a \in Int, NEW b \in Int, NEW c \in Int, c # 0
  PROVE  MulDiv(-a, b, c) = -MulDiv(a, b, c)
<1> DEFINE m == Nearest(Abs(a) * Abs(b), Abs(c))
<1>1. m \in Nat /\ (Abs(a) * Abs(b) = 0 => m = 0)
  BY MulDivSplit, NearestQuotient
<1>2. /\ MulDiv(a, b, c) = Sign(a) * Sign(b) * Sign(c) * m
      /\ MulDiv(-a, b, c) = Sign(-a) * Sign(b) * Sign(c) * m
  BY MulDivSplit, SignAbs, -a \in Int
<1> HIDE DEF m
<1>3. CASE a = 0
  <2>1. m = 0
    BY <1>1, <1>3, SignAbs DEF Abs
  <2>2. Sign(-a) \in {-1, 1}
    BY SignAbs, -a \in Int
  <2>3. Sign(a) \in {-1, 1} /\ Sign(b) \in {-1, 1} /\ Sign(c) \in {-1, 1}
    BY SignAbs
  <2> QED
    BY <1>2, <2>1, <2>2, <2>3
<1>4. CASE a # 0
  BY <1>1, <1>2, <1>4, SignAbs
<1> QED
  BY <1>3, <1>4

\* Quotients are rounded to the nearest, symmetrically; FT_MulDiv and
\* FT_DivFix agree where both apply, and leaving the rounding out never makes
\* a quotient larger (FT_MulDiv, FT_DivFix, FT_MulDiv_No_Round).
THEOREM QuotientsRound ==
  ASSUME NEW a \in Int, NEW b \in Int, NEW c \in Int
  PROVE  QuotientsNearest(a, b, c)
<1> SUFFICES ASSUME c # 0
             PROVE  /\ 2 * Abs(MulDiv(a, b, c) * c - a * b) <= Abs(c)
                    /\ MulDiv(-a, b, c) = -MulDiv(a, b, c)
                    /\ Abs(MulDivNoRound(a, b, c)) <= Abs(MulDiv(a, b, c))
                    /\ DivFix(a, c) = MulDiv(a, One, c)
  BY DEF QuotientsNearest
<1> DEFINE n == Abs(a) * Abs(b)
           d == Abs(c)
           m == Nearest(n, d)
           f == n \div d
<1>1. n \in Nat /\ d \in Nat \ {0} /\ m \in Nat /\ f \in Nat /\ f <= m /\ 2 * Abs(m * d - n) <= d
  BY MulDivSplit, NearestQuotient
<1>2. /\ MulDiv(a, b, c) = Sign(a) * Sign(b) * Sign(c) * m
      /\ MulDivNoRound(a, b, c) = Sign(a) * Sign(b) * Sign(c) * f
  BY MulDivSplit
<1>3. a * b = Sign(a) * Sign(b) * n /\ c = Sign(c) * d
  <2>1. a = Sign(a) * Abs(a) /\ b = Sign(b) * Abs(b) /\ c = Sign(c) * Abs(c)
    BY SignAbs
  <2>2. Sign(a) \in {-1, 1} /\ Sign(b) \in {-1, 1} /\ Abs(a) \in Nat /\ Abs(b) \in Nat
    BY SignAbs
  <2> QED
    BY <2>1, <2>2
<1>4. Sign(a) \in {-1, 1} /\ Sign(b) \in {-1, 1} /\ Sign(c) \in {-1, 1}
  BY SignAbs
<1> HIDE DEF n, d, m, f
<1>5. 2 * Abs(MulDiv(a, b, c) * c - a * b) <= d
  <2>1. m * d \in Nat
    BY <1>1
  <2>2. MulDiv(a, b, c) * c = Sign(a) * Sign(b) * (m * d)
    BY <1>1, <1>2, <1>3, <1>4
  <2>3. MulDiv(a, b, c) * c - a * b \in {m * d - n, n - m * d}
    BY <1>1, <1>3, <1>4, <2>1, <2>2
  <2> QED
    BY <1>1, <2>1, <2>3 DEF Abs
<1>6. Abs(MulDivNoRound(a, b, c)) <= Abs(MulDiv(a, b, c))
  BY <1>1, <1>2, <1>4 DEF Abs
<1>7. DivFix(a, c) = MulDiv(a, One, c)
  BY FixedAssumption DEF DivFix, MulDiv, Abs, Sign
<1> QED
  BY <1>5, <1>6, <1>7, MulDivOdd DEF d

-----------------------------------------------------------------------------

LEMMA Floor ==
  ASSUME NEW a \in Int
  PROVE  /\ PixFloor(a) \in Int
         /\ PixFloor(a) % Grid = 0
         /\ PixFloor(a) <= a /\ a < PixFloor(a) + Grid
<1>1. Grid \in Nat \ {0}
  BY FixedAssumption
<1>2. /\ a \div Grid \in Int
      /\ Grid * (a \div Grid) <= a
      /\ a < Grid * (a \div Grid) + Grid
  BY <1>1, Division
<1>3. (Grid * (a \div Grid)) % Grid = 0
  BY <1>1, <1>2, SMT
<1> QED
  BY <1>1, <1>2, <1>3 DEF PixFloor

\* Rounding to pixels moves a coordinate by less than a pixel, to a pixel;
\* to the nearest by half a pixel at most (FT_PIX_FLOOR, FT_PIX_CEIL,
\* FT_PIX_ROUND).
THEOREM PixelsSnap ==
  ASSUME NEW a \in Int
  PROVE  SnapsToGrid(a)
<1>1. Grid \in Nat \ {0} /\ Grid \div 2 \in Nat /\ Grid = 2 * (Grid \div 2)
  BY FixedAssumption, Even
<1>2. a + Grid - 1 \in Int /\ a + Grid \div 2 \in Int
  BY <1>1
<1>3. /\ PixFloor(a) % Grid = 0
      /\ PixFloor(a) <= a
      /\ a < PixFloor(a) + Grid
  BY Floor
<1>4. /\ PixCeil(a) % Grid = 0
      /\ a <= PixCeil(a)
      /\ PixCeil(a) < a + Grid
  BY <1>1, <1>2, Floor DEF PixCeil
<1>5. Abs(PixRound(a) - a) <= Grid \div 2
  BY <1>1, <1>2, Floor DEF PixRound, Abs
<1> QED
  BY <1>3, <1>4, <1>5 DEF SnapsToGrid

\* Rounding keeps coordinates in order, and a coordinate on a pixel in place:
\* the sides of a stem may fall together, but never change places.
THEOREM RoundingKeepsOrder ==
  ASSUME NEW a \in Int, NEW b \in Int, a <= b
  PROVE  /\ PixRound(a) <= PixRound(b)
         /\ PixRound(PixRound(a)) = PixRound(a)
<1> DEFINE h == Grid \div 2
           k(x) == (x + h) \div Grid
<1>1. Grid \in Nat \ {0} /\ h \in Nat /\ Grid = 2 * h
  BY FixedAssumption, Even
<1>2. ASSUME NEW x \in Int
      PROVE  /\ k(x) \in Int /\ PixRound(x) = Grid * k(x)
             /\ Grid * k(x) <= x + h /\ x + h < Grid * k(x) + Grid
  <2>1. x + h \in Int
    BY <1>1
  <2> QED
    BY <1>1, <2>1, Division DEF PixRound, PixFloor
<1>3. k(a) <= k(b)
  <2>1. k(a) \in Int /\ k(b) \in Int
    BY <1>2
  <2>2. Grid * k(a) < Grid * (k(b) + 1)
    BY <1>1, <1>2, <2>1
  <2> HIDE DEF k
  <2> QED
    BY <1>1, <2>1, <2>2
<1>4. Grid * k(a) + h \in Int /\ (Grid * k(a) + h) \div Grid = k(a)
  <2>1. k(a) \in Int
    BY <1>2
  <2> HIDE DEF k, h
  <2>2. /\ Grid * k(a) + h \in Int
        /\ Grid * k(a) <= Grid * k(a) + h
        /\ Grid * k(a) + h < Grid * k(a) + Grid
    BY <1>1, <2>1
  <2> QED
    BY <1>1, <2>1, <2>2, DivisionUnique
<1>5. PixRound(PixRound(a)) = Grid * k(a)
  BY <1>2, <1>4 DEF PixRound, PixFloor
<1> QED
  <2>1. k(a) \in Int /\ k(b) \in Int /\ PixRound(a) = Grid * k(a) /\ PixRound(b) = Grid * k(b)
    BY <1>2
  <2> HIDE DEF k, h
  <2> QED
    BY <1>1, <1>3, <1>5, <2>1

-----------------------------------------------------------------------------
(* Subpixels and pixels                                                    *)

\* The sign of a product.
LEMMA SignOfProduct ==
  ASSUME NEW x \in Int, NEW y \in Int
  PROVE  /\ (x >= 0 /\ y >= 0) \/ (x <= 0 /\ y <= 0) => x * y >= 0
         /\ (x >= 0 /\ y <= 0) \/ (x <= 0 /\ y >= 0) => x * y <= 0
         /\ (x > 0 /\ y > 0) \/ (x < 0 /\ y < 0) => x * y > 0
         /\ (x > 0 /\ y < 0) \/ (x < 0 /\ y > 0) => x * y < 0
<1>1. (x >= 0 /\ y >= 0) \/ (x <= 0 /\ y <= 0) => x * y >= 0
  BY SMT
<1>2. (x >= 0 /\ y <= 0) \/ (x <= 0 /\ y >= 0) => x * y <= 0
  BY SMT
<1>3. (x > 0 /\ y > 0) \/ (x < 0 /\ y < 0) => x * y > 0
  BY SMT
<1>4. (x > 0 /\ y < 0) \/ (x < 0 /\ y > 0) => x * y < 0
  BY SMT
<1> QED BY <1>1, <1>2, <1>3, <1>4

\* A pixel has subpixels.
LEMMA PixelWidth == ONE_PIXEL \in Nat \ {0}
BY PowersAssumption DEF ONE_PIXEL

\* A coordinate t lies in pixel e or beyond, in one direction and in the other.
LEMMA InPixel ==
  ASSUME NEW t \in Int, NEW e \in Int
  PROVE  /\ trunc(t) \in Int /\ fract(t) \in Int
         /\ t = ONE_PIXEL * trunc(t) + fract(t)
         /\ fract(t) >= 0 /\ fract(t) < ONE_PIXEL
         /\ t - ONE_PIXEL * e >= 0 <=> e <= trunc(t)
         /\ t - ONE_PIXEL * e < ONE_PIXEL <=> trunc(t) <= e
<1> DEFINE q == trunc(t)
           p == ONE_PIXEL
<1>1. p \in Nat \ {0}
  BY PixelWidth
<1>2. q \in Int /\ p * q <= t /\ t < p * q + p
  BY <1>1, Division DEF trunc
<1>3. fract(t) = t - p * q
  BY <1>1, <1>2 DEF fract, trunc
<1>4. p * e \in Int /\ p * q \in Int /\ fract(t) \in Int
  BY <1>1, <1>2, <1>3
<1>5. p * (q - e) = p * q - p * e /\ p * (e - q - 1) = p * e - p * q - p /\ p * (q - e - 1) = p * q - p * e - p
  BY <1>1, <1>2
<1>6. /\ e <= q => p * (q - e) >= 0
      /\ e > q => p * (e - q - 1) >= 0
      /\ e < q => p * (q - e - 1) >= 0
      /\ e >= q => p * (q - e) <= 0
  BY <1>1, <1>2, SignOfProduct
<1> HIDE DEF q, p
<1>7. t - p * e >= 0 <=> e <= q
  BY <1>1, <1>2, <1>4, <1>5, <1>6
<1>8. t - p * e < p <=> q <= e
  BY <1>1, <1>2, <1>4, <1>5, <1>6
<1>9. t = p * q + fract(t) /\ fract(t) >= 0 /\ fract(t) < p
  BY <1>1, <1>2, <1>3, <1>4
<1> USE DEF q, p
<1>10. /\ trunc(t) \in Int /\ fract(t) \in Int
       /\ t = ONE_PIXEL * trunc(t) + fract(t)
       /\ fract(t) >= 0 /\ fract(t) < ONE_PIXEL
  BY <1>2, <1>4, <1>9, Zenon
<1>11. (t - ONE_PIXEL * e >= 0 <=> e <= trunc(t)) /\ (t - ONE_PIXEL * e < ONE_PIXEL <=> trunc(t) <= e)
  BY <1>7, <1>8, Zenon
<1> QED BY <1>10, <1>11, Zenon

-----------------------------------------------------------------------------
(* A line and the sides of a pixel                                         *)

\* On one axis: the line goes by d, and has b from here to its end in pixels of p.
Before(d, b, p) == (d >= 0 => b >= 0) /\ (d <= 0 => b < p)
Within(b, p) == 0 <= b /\ b < p

\* A line that leaves by a side has its end beyond that side.
LEMMA BeyondLeft ==
  ASSUME NEW p \in Nat \ {0}, NEW dx \in Int, NEW dy \in Int, NEW bx \in Int, NEW by \in Int,
         NEW o \in Int, o = dx * by - dy * bx,
         Before(dx, bx, p), Before(dy, by, p), ~(Within(bx, p) /\ Within(by, p)),
         o - dx * p > 0, o <= 0
  PROVE  dx < 0 /\ bx < 0
<1>1. dx * p \in Int /\ dx * by \in Int /\ dy * bx \in Int
  OBVIOUS
<1>2. dx < 0
  BY <1>1, SignOfProduct
<1>3. ASSUME bx >= 0 PROVE FALSE
  <2>1. by >= p \/ by < 0
    BY <1>2, <1>3 DEF Before, Within
  <2>2. CASE by >= p
    <3>1. dy > 0
      BY <2>2 DEF Before
    <3>2. dx * (by - p) <= 0 /\ dx * (by - p) = dx * by - dx * p
      BY <1>2, <2>2, SignOfProduct
    <3>3. dy * bx >= 0
      BY <1>3, <3>1, SignOfProduct
    <3> QED BY <1>1, <3>2, <3>3
  <2>3. CASE by < 0
    <3>1. dy < 0
      BY <2>3 DEF Before
    <3>2. dx * by > 0
      BY <1>2, <2>3, SignOfProduct
    <3>3. dy * bx <= 0
      BY <1>3, <3>1, SignOfProduct
    <3> QED BY <1>1, <3>2, <3>3
  <2> QED BY <2>1, <2>2, <2>3
<1> QED BY <1>2, <1>3

\* The same of the upper side.
LEMMA BeyondUp ==
  ASSUME NEW p \in Nat \ {0}, NEW dx \in Int, NEW dy \in Int, NEW bx \in Int, NEW by \in Int,
         NEW o \in Int, o = dx * by - dy * bx,
         Before(dx, bx, p), Before(dy, by, p), ~(Within(bx, p) /\ Within(by, p)),
         o - dx * p + dy * p > 0, o - dx * p <= 0
  PROVE  dy > 0 /\ by >= p
<1>1. dx * p \in Int /\ dx * by \in Int /\ dy * bx \in Int /\ dy * p \in Int
  OBVIOUS
<1>2. dy > 0
  BY <1>1, SignOfProduct
<1>3. ASSUME by < p PROVE FALSE
  <2>1. bx >= p \/ bx < 0
    BY <1>2, <1>3 DEF Before, Within
  <2>2. dx * (by - p) = dx * by - dx * p /\ dy * (bx - p) = dy * bx - dy * p
    OBVIOUS
  <2>3. CASE bx >= p
    <3>1. dx > 0
      BY <2>3 DEF Before
    <3>2. dx * (by - p) < 0
      BY <1>3, <3>1, SignOfProduct
    <3>3. dy * (bx - p) >= 0
      BY <1>2, <2>3, SignOfProduct
    <3> QED BY <1>1, <2>2, <3>2, <3>3
  <2>4. CASE bx < 0
    <3>1. dx < 0
      BY <2>4 DEF Before
    <3>2. dx * (by - p) > 0
      BY <1>3, <3>1, SignOfProduct
    <3>3. dy * bx < 0
      BY <1>2, <2>4, SignOfProduct
    <3> QED BY <1>1, <2>2, <3>2, <3>3
  <2> QED BY <2>1, <2>3, <2>4
<1> QED BY <1>2, <1>3

\* The same of the right side.
LEMMA BeyondRight ==
  ASSUME NEW p \in Nat \ {0}, NEW dx \in Int, NEW dy \in Int, NEW bx \in Int, NEW by \in Int,
         NEW o \in Int, o = dx * by - dy * bx, dx # 0,
         Before(dx, bx, p), Before(dy, by, p), ~(Within(bx, p) /\ Within(by, p)),
         o + dy * p >= 0, o - dx * p + dy * p <= 0
  PROVE  dx > 0 /\ bx >= p
<1>1. dx * p \in Int /\ dx * by \in Int /\ dy * bx \in Int /\ dy * p \in Int
  OBVIOUS
<1>2. dx > 0
  BY <1>1, SignOfProduct
<1>3. ASSUME bx < p PROVE FALSE
  <2>1. by >= p \/ by < 0
    BY <1>2, <1>3 DEF Before, Within
  <2>2. dx * (by - p) = dx * by - dx * p /\ dy * (bx - p) = dy * bx - dy * p
    OBVIOUS
  <2>3. CASE by >= p
    <3>1. dy > 0
      BY <2>3 DEF Before
    <3>2. dx * (by - p) >= 0
      BY <1>2, <2>3, SignOfProduct
    <3>3. dy * (bx - p) < 0
      BY <1>3, <3>1, SignOfProduct
    <3> QED BY <1>1, <2>2, <3>2, <3>3
  <2>4. CASE by < 0
    <3>1. dy < 0
      BY <2>4 DEF Before
    <3>2. dx * by < 0
      BY <1>2, <2>4, SignOfProduct
    <3>3. dy * (bx - p) > 0
      BY <1>3, <3>1, SignOfProduct
    <3> QED BY <1>1, <2>2, <3>2, <3>3
  <2> QED BY <2>1, <2>3, <2>4
<1> QED BY <1>2, <1>3

\* The remaining side; a line through the lower right corner was on the right.
LEMMA BeyondDown ==
  ASSUME NEW p \in Nat \ {0}, NEW dx \in Int, NEW dy \in Int, NEW bx \in Int, NEW by \in Int,
         NEW o \in Int, o = dx * by - dy * bx,
         Before(dx, bx, p), Before(dy, by, p), ~(Within(bx, p) /\ Within(by, p)),
         dy < 0, o >= 0, o + dy * p <= 0, o + dy * p < 0 \/ o - dx * p + dy * p > 0
  PROVE  by < 0
<1>1. dx * p \in Int /\ dx * by \in Int /\ dy * bx \in Int /\ dy * p \in Int
  OBVIOUS
<1>2. ASSUME by >= 0 PROVE FALSE
  <2>1. bx >= p \/ bx < 0
    BY <1>2 DEF Before, Within
  <2>2. dx * (by - p) = dx * by - dx * p /\ dy * (bx - p) = dy * bx - dy * p
    OBVIOUS
  <2>3. CASE bx >= p
    <3>1. dx > 0
      BY <2>3 DEF Before
    <3>2. dx * by >= 0 /\ dx * p > 0
      BY <1>2, <3>1, SignOfProduct
    <3>3. dy * (bx - p) <= 0
      BY <2>3, SignOfProduct
    <3> QED BY <1>1, <2>2, <3>2, <3>3
  <2>4. CASE bx < 0
    <3>1. dx < 0
      BY <2>4 DEF Before
    <3>2. dx * by <= 0
      BY <1>2, <3>1, SignOfProduct
    <3>3. dy * bx > 0
      BY <2>4, SignOfProduct
    <3> QED BY <1>1, <3>2, <3>3
  <2> QED BY <2>1, <2>3, <2>4
<1> QED BY <1>2

Corner(a, dx, dy) == {a, a - dx * ONE_PIXEL, a - dx * ONE_PIXEL + dy * ONE_PIXEL, a + dy * ONE_PIXEL}

\* The corners of a pixel do not all lie on one side of the line; or the line
\* goes to the right from the corner at the lower left, and not upwards.
Cut(a, dx, dy) ==
  \/ (\E c \in Corner(a, dx, dy) : c > 0) /\ (\E c \in Corner(a, dx, dy) : c <= 0)
  \/ a = 0 /\ dx > 0 /\ dy <= 0

\* The pixel in which a line starts.
LEMMA StartIsCut ==
  ASSUME NEW dx \in Int, NEW dy \in Int, NEW fx \in Int, NEW fy \in Int, dx # 0,
         Within(fx, ONE_PIXEL), Within(fy, ONE_PIXEL)
  PROVE  Cut(dx * fy - dy * fx, dx, dy)
<1> DEFINE p == ONE_PIXEL
           a == dx * fy - dy * fx
<1>1. p \in Nat \ {0} /\ 0 <= fx /\ fx < p /\ 0 <= fy /\ fy < p
  BY PixelWidth DEF Within
<1> HIDE DEF p
<1>2. /\ dx * fy \in Int /\ dy * fx \in Int /\ dx * p \in Int /\ dy * p \in Int
      /\ dx * (p - fy) = dx * p - dx * fy /\ dy * (p - fx) = dy * p - dy * fx
  BY <1>1
<1>3. /\ dx > 0 => dx * fy >= 0 /\ dx * (p - fy) > 0
      /\ dx < 0 => dx * fy <= 0 /\ dx * (p - fy) < 0
      /\ dy >= 0 => dy * fx >= 0 /\ dy * (p - fx) >= 0
      /\ dy > 0 => dy * (p - fx) > 0
      /\ dy < 0 => dy * fx <= 0 /\ dy * (p - fx) < 0
  BY <1>1, SignOfProduct
<1>4. /\ dx > 0 /\ dy >= 0 => a - dx * p <= 0 /\ (a + dy * p > 0 \/ (a = 0 /\ dy <= 0))
      /\ dx > 0 /\ dy < 0 => a - dx * p + dy * p <= 0 /\ (a > 0 \/ a = 0)
      /\ dx < 0 /\ dy >= 0 => a - dx * p + dy * p > 0 /\ a <= 0
      /\ dx < 0 /\ dy < 0 => a - dx * p > 0 /\ a + dy * p <= 0
  <2>1. CASE dx > 0 /\ dy >= 0
    BY <1>2, <1>3, <2>1
  <2>2. CASE dx > 0 /\ dy < 0
    BY <1>2, <1>3, <2>2
  <2>3. CASE dx < 0 /\ dy >= 0
    BY <1>2, <1>3, <2>3
  <2>4. CASE dx < 0 /\ dy < 0
    BY <1>2, <1>3, <2>4
  <2> QED BY <2>1, <2>2, <2>3, <2>4
<1>5. a \in Int
  BY <1>2
<1> HIDE DEF a
<1>6. Corner(a, dx, dy) = {a, a - dx * p, a - dx * p + dy * p, a + dy * p}
  BY DEF Corner, p
<1>7. Cut(a, dx, dy)
  BY <1>1, <1>2, <1>4, <1>5, <1>6 DEF Cut
<1> QED BY <1>7 DEF a

\* The pixels behind the four sides.
LEMMA CutLeft ==
  ASSUME NEW a \in Int, NEW dx \in Int, NEW dy \in Int, a - dx * ONE_PIXEL > 0, a <= 0
  PROVE  Cut(a - dy * ONE_PIXEL, dx, dy)
<1> DEFINE p == ONE_PIXEL
<1>1. p \in Nat \ {0}
  BY PixelWidth
<1>2. dx * p \in Int /\ dy * p \in Int
  BY <1>1
<1> QED BY <1>2 DEF Cut, Corner

\* The same above.
LEMMA CutUp ==
  ASSUME NEW a \in Int, NEW dx \in Int, NEW dy \in Int,
         a - dx * ONE_PIXEL + dy * ONE_PIXEL > 0, a - dx * ONE_PIXEL <= 0
  PROVE  Cut(a - dx * ONE_PIXEL, dx, dy)
<1> DEFINE p == ONE_PIXEL
<1>1. p \in Nat \ {0}
  BY PixelWidth
<1>2. dx * p \in Int /\ dy * p \in Int
  BY <1>1
<1> QED BY <1>2 DEF Cut, Corner

\* The same on the right, where the lower corner may lie on the line.
LEMMA CutRight ==
  ASSUME NEW a \in Int, NEW dx \in Int, NEW dy \in Int, dx > 0,
         a + dy * ONE_PIXEL >= 0, a - dx * ONE_PIXEL + dy * ONE_PIXEL <= 0
  PROVE  Cut(a + dy * ONE_PIXEL, dx, dy)
<1> DEFINE p == ONE_PIXEL
<1>1. p \in Nat \ {0}
  BY PixelWidth
<1>2. dx * p \in Int /\ dy * p \in Int
  BY <1>1
<1>3. dy > 0 => dy * p > 0
  BY <1>1, SignOfProduct
<1> HIDE DEF p
<1> QED BY <1>2, <1>3 DEF Cut, Corner, p

\* A line that leaves by none of the others goes down, and is in the pixel below.
LEMMA CutDown ==
  ASSUME NEW a \in Int, NEW dx \in Int, NEW dy \in Int, Cut(a, dx, dy),
         ~(a - dx * ONE_PIXEL > 0 /\ a <= 0),
         ~(a - dx * ONE_PIXEL + dy * ONE_PIXEL > 0 /\ a - dx * ONE_PIXEL <= 0),
         ~(a + dy * ONE_PIXEL >= 0 /\ a - dx * ONE_PIXEL + dy * ONE_PIXEL <= 0)
  PROVE  /\ dy < 0 /\ a >= 0 /\ a + dy * ONE_PIXEL <= 0
         /\ a + dy * ONE_PIXEL < 0 \/ a - dx * ONE_PIXEL + dy * ONE_PIXEL > 0
         /\ Cut(a + dx * ONE_PIXEL, dx, dy)
<1> DEFINE p == ONE_PIXEL
<1>1. p \in Nat \ {0}
  BY PixelWidth
<1>2. dx * p \in Int /\ dy * p \in Int
  BY <1>1
<1>3. (dx > 0 => dx * p > 0) /\ (dy >= 0 => dy * p >= 0)
  BY <1>1, SignOfProduct
<1> HIDE DEF p
<1>4. /\ dy < 0 /\ a >= 0 /\ a + dy * p <= 0
      /\ a + dy * p < 0 \/ a - dx * p + dy * p > 0
      /\ a > 0 \/ (a = 0 /\ dx > 0)
  BY <1>2, <1>3 DEF Cut, Corner, p
<1>5. Cut(a + dx * p, dx, dy)
  <2>1. /\ a \in Corner(a + dx * p, dx, dy) /\ a + dx * p \in Corner(a + dx * p, dx, dy)
        /\ a + dy * p \in Corner(a + dx * p, dx, dy)
    BY <1>2 DEF Corner, p
  <2>2. CASE a > 0
    BY <1>4, <2>1, <2>2 DEF Cut
  <2>3. CASE a = 0 /\ dx > 0
    <3>1. a + dx * p > 0 /\ a <= 0
      BY <1>2, <1>3, <2>3
    <3> QED BY <2>1, <3>1 DEF Cut
  <2> QED BY <1>4, <2>2, <2>3
<1> USE DEF p
<1> QED BY <1>4, <1>5, Zenon

-----------------------------------------------------------------------------
(* The state of a pass                                                     *)

\* What curves become.
Pieces == Called("sub", 1) \union Called("arc", 4)

Pass == [number : Nat, running : BOOLEAN,
         mode : [box : [minX : Int, maxX : Int, minY : Int, maxY : Int],
                 offset : Point, evenOdd : BOOLEAN]]
Line == [to : Point, ex : Int, ey : Int, fx : Int, fy : Int, prod : Int, on : BOOLEAN]

RasterTypes ==
  /\ pass \in Pass
  /\ at \in Point /\ due \in Point
  /\ line \in Line
  /\ todo \in Seq(Calls \union Pieces)

\* ft_udivprep and ft_udiv return integers.
LEMMA Reciprocals ==
  /\ \A used \in BOOLEAN, b \in Int : (used => b # 0) => ft_udivprep(used, b) \in Int
  /\ \A a, r \in Int : ft_udiv(a, r) \in Int
<1> DEFINE u == 2^UdivBits
<1>1. u \in Nat \ {0}
  BY PowersAssumption
<1> HIDE DEF u
<1>2. ASSUME NEW used \in BOOLEAN, NEW b \in Int, used => b # 0
      PROVE  ft_udivprep(used, b) \in Int
  <2>1. b > 0 => (u - 1) \div b \in Int
    BY <1>1, Division
  <2>2. b < 0 => -((u - 1) \div (-b)) \in Int
    BY <1>1, Division
  <2>3. ft_udivprep(used, b)
          = IF ~used THEN 0 ELSE IF b > 0 THEN (u - 1) \div b ELSE -((u - 1) \div (-b))
    BY DEF ft_udivprep, u
  <2> QED BY <1>2, <2>1, <2>2, <2>3
<1>3. ASSUME NEW a \in Int, NEW r \in Int
      PROVE  ft_udiv(a, r) \in Int
  <2>1. ft_udiv(a, r) = (a * r) \div u
    BY DEF ft_udiv, u
  <2> QED BY <1>1, <2>1, Division
<1> QED BY <1>2, <1>3

\* Both ends of a line, in pixels.
LEMMA LineTyped ==
  ASSUME RasterTypes
  PROVE  /\ at[1] \in Int /\ at[2] \in Int /\ line.to[1] \in Int /\ line.to[2] \in Int
         /\ Dx \in Int /\ Dy \in Int /\ ToX \in Int /\ ToY \in Int
         /\ line.ex \in Int /\ line.ey \in Int /\ line.fx \in Int /\ line.fy \in Int /\ line.prod \in Int
         /\ line.on \in BOOLEAN
<1>1. at \in Int \X Int /\ line.to \in Int \X Int
  BY DEF RasterTypes, Line, Point
<1>2. at[1] \in Int /\ at[2] \in Int /\ line.to[1] \in Int /\ line.to[2] \in Int
  BY <1>1
<1>3. Dx \in Int /\ Dy \in Int
  BY <1>2 DEF Dx, Dy
<1>4. ToX \in Int /\ ToY \in Int
  BY <1>2, InPixel DEF ToX, ToY
<1>5. line \in Line
  BY DEF RasterTypes
<1> QED BY <1>2, <1>3, <1>4, <1>5 DEF Line

\* UPSCALE
LEMMA Upscaled ==
  ASSUME pass \in Pass, NEW p \in Point
  PROVE  UPSCALE(p) \in Point
<1>1. p[1] \in Int /\ p[2] \in Int
  BY DEF Point
<1>2. pass.mode.offset \in Int \X Int
  BY DEF Pass, Point
<1>3. pass.mode.offset[1] \in Int /\ pass.mode.offset[2] \in Int /\ Upscale \in Int
  BY <1>2, RasterAssumption
<1>4. /\ Upscale * (p[1] + pass.mode.offset[1]) \in Int
      /\ Upscale * (p[2] + pass.mode.offset[2]) \in Int
  BY <1>1, <1>3
<1> QED BY <1>4 DEF UPSCALE, Point

Tasked == Calls \union Pieces
PieceOps == {"sub", "arc"}

\* The points a task has, by its kind.
LEMMA TaskPoints ==
  ASSUME NEW t \in Tasked
  PROVE  /\ t.op \in PieceOps <=> t \in Pieces
         /\ t.op \in {"move", "line", "sub"} => t.points[1] \in Point
         /\ t.op = "arc" => \A k \in 1..4 : t.points[k] \in Point
         /\ t.op = "curve" => Len(t.points) \in {2, 3}
                              /\ \A k \in 1..Len(t.points) : t.points[k] \in Point
<1>1. CASE t \in Called("move", 1) \/ t \in Called("line", 1) \/ t \in Called("sub", 1)
  BY <1>1 DEF Called, Pieces, PieceOps
<1>2. CASE t \in Called("arc", 4)
  BY <1>2 DEF Called, Pieces, PieceOps
<1>3. CASE t \in Called("curve", 2)
  <2>1. t.op = "curve" /\ t.points \in [1..2 -> Point]
    BY <1>3 DEF Called
  <2>2. Len(t.points) = 2
    BY <2>1
  <2> QED BY <2>1, <2>2 DEF Called, Pieces, PieceOps
<1>4. CASE t \in Called("curve", 3)
  <2>1. t.op = "curve" /\ t.points \in [1..3 -> Point]
    BY <1>4 DEF Called
  <2>2. Len(t.points) = 3
    BY <2>1
  <2> QED BY <2>1, <2>2 DEF Called, Pieces, PieceOps
<1>5. CASE t \in Called("bad", 0)
  BY <1>5 DEF Called, Pieces, PieceOps
<1> QED BY <1>1, <1>2, <1>3, <1>4, <1>5 DEF Tasked, Calls, Pieces

\* What a task of the outline or of a curve is.
LEMMA TaskTyped ==
  ASSUME NEW p \in Point
  PROVE  Task("sub", <<p>>) \in Pieces
BY DEF Task, Pieces, Called

\* A cubic's task is a piece.
LEMMA ArcTyped ==
  ASSUME NEW arc \in [1..4 -> Point]
  PROVE  Task("arc", arc) \in Pieces
BY DEF Task, Pieces, Called

\* The task at hand.
LEMMA HeadTyped ==
  ASSUME RasterTypes, todo # <<>>
  PROVE  Head(todo) \in Tasked /\ Tail(todo) \in Seq(Tasked) /\ todo = <<Head(todo)>> \o Tail(todo)
BY DEF RasterTypes, Tasked

\* Pieces before other tasks.
LEMMA PiecesBefore ==
  ASSUME NEW s \in Seq(Tasked), NEW new \in Seq(Pieces)
  PROVE  new \o s \in Seq(Tasked)
<1>1. new \in Seq(Tasked)
  BY DEF Tasked
<1> QED BY <1>1

-----------------------------------------------------------------------------
(* Curves                                                                  *)

\* A fraction of a power of two.
LEMMA Halving ==
  ASSUME NEW d
  PROVE  Halvings(d) \in 0..CurveBits
<1> DEFINE all == 0..(CurveBits - 1)
           some == {k \in all : d \div 4^k > ONE_PIXEL \div 4}
<1>1. CurveBits \in Nat
  BY RasterAssumption
<1>2. IsFiniteSet(all) /\ Cardinality(all) = CurveBits
  BY <1>1, FS_Interval
<1>3. some \subseteq all
  OBVIOUS
<1>4. IsFiniteSet(some) /\ Cardinality(some) <= Cardinality(all)
  BY <1>2, <1>3, FS_Subset
<1>5. Cardinality(some) \in Nat
  BY <1>4, FS_CardinalityType
<1>6. Halvings(d) = Cardinality(some)
  BY DEF Halvings
<1> QED BY <1>1, <1>2, <1>4, <1>5, <1>6

\* On one axis, a conic after k of its 2^n steps.
Followed(b, c, e, n, k) ==
  b * 2^(2 * CurveBits)
  + k * ((c - b) * 2^(CurveBits - n + CurveBits + 1) + (e - c - (c - b)) * 2^(2 * (CurveBits - n)))
  + k * (k - 1) * ((e - c - (c - b)) * 2^(2 * (CurveBits - n)))

\* After all of its steps a conic is at its end, whatever their number.
LEMMA FollowedToEnd ==
  ASSUME NEW b \in Int, NEW c \in Int, NEW e \in Int, NEW n \in 0..CurveBits
  PROVE  /\ 2^(2 * CurveBits) \in Nat \ {0} /\ 2^n \in Nat \ {0}
         /\ \A k \in Int : Followed(b, c, e, n, k) \in Int
         /\ Followed(b, c, e, n, 2^n) = e * 2^(2 * CurveBits)
<1> DEFINE m == CurveBits - n
           w == 2^(2 * CurveBits)
           q == 2^(m + CurveBits + 1)
           r == 2^(2 * m)
           t == 2^n
<1>1. CurveBits \in Nat /\ m \in 0..CurveBits /\ n \in 0..CurveBits
  BY RasterAssumption
<1>2. /\ 2 * CurveBits \in 0..(2 * CurveBits + 1) /\ m + CurveBits + 1 \in 0..(2 * CurveBits + 1)
      /\ 2 * m \in 0..(2 * CurveBits + 1) /\ n \in 0..(2 * CurveBits + 1)
      /\ 2 * n \in 0..(2 * CurveBits + 1)
  BY <1>1
<1>3. w \in Nat \ {0} /\ q \in Nat \ {0} /\ r \in Nat \ {0} /\ t \in Nat \ {0}
  BY <1>2, PowersAssumption
<1>4. t * q = 2 * w
  <2>1. n + (m + CurveBits + 1) = 2 * CurveBits + 1
    BY <1>1
  <2>2. 2^(n + (m + CurveBits + 1)) = t * q
    BY <1>2, PowersAssumption
  <2>3. 2^(2 * CurveBits + 1) = 2 * w
    BY <1>2, PowersAssumption
  <2> QED BY <2>1, <2>2, <2>3
<1>5. t * t * r = w
  <2>1. n + n = 2 * n /\ 2 * n + 2 * m = 2 * CurveBits
    BY <1>1
  <2>2. 2^(n + n) = t * t
    BY <1>2, PowersAssumption
  <2>3. 2^(2 * n + 2 * m) = 2^(2 * n) * r
    BY <1>2, PowersAssumption
  <2> QED BY <2>1, <2>2, <2>3
<1> DEFINE a == e - c - (c - b)
           P(k) == b * w + k * ((c - b) * q + a * r) + k * (k - 1) * (a * r)
<1> HIDE DEF w, q, r, t
<1>6. \A k \in Int : P(k) \in Int
  BY <1>3
<1>7. P(t) = e * w
  <2>1. P(t) = b * w + (c - b) * (t * q) + a * (t * t * r)
    BY <1>3
  <2>2. P(t) = b * w + (c - b) * (2 * w) + a * w
    BY <1>4, <1>5, <2>1
  <2> QED BY <1>3, <2>2
<1>8. \A k : Followed(b, c, e, n, k) = P(k)
  BY DEF Followed, w, q, r
<1> QED BY <1>3, <1>6, <1>7, <1>8 DEF w, t

\* The lines that a conic is drawn with end where it ends.
LEMMA ConicLines ==
  ASSUME NEW p0 \in Point, NEW p1 \in Point, NEW p2 \in Point
  PROVE  /\ conic_lines(p0, p1, p2) \in Seq(Point) /\ Len(conic_lines(p0, p1, p2)) > 0
         /\ conic_lines(p0, p1, p2)[Len(conic_lines(p0, p1, p2))] = p2
<1> DEFINE B(i) == p1[i] - p0[i]
           A(i) == p2[i] - p1[i] - B(i)
           d == Further(A(1), A(2))
           n == Halvings(d)
           F(i, k) == Followed(p0[i], p1[i], p2[i], n, k)
           w == 2^(2 * CurveBits)
           K == 2^n
           lines == [k \in 1..K |-> <<F(1, k) \div w, F(2, k) \div w>>]
<1>1. n \in 0..CurveBits
  BY Halving
<1>2. conic_lines(p0, p1, p2) = IF d <= ONE_PIXEL \div 4 THEN <<p2>> ELSE lines
  BY DEF conic_lines, Followed
<1>3. \A i \in 1..2 : p0[i] \in Int /\ p1[i] \in Int /\ p2[i] \in Int
  BY DEF Point
<1> HIDE DEF n, d
<1>4. /\ w \in Nat \ {0} /\ K \in Nat \ {0}
      /\ \A i \in 1..2 : \A k \in Int : F(i, k) \in Int
      /\ \A i \in 1..2 : F(i, K) = p2[i] * w
  <2>1. w \in Nat \ {0} /\ K \in Nat \ {0}
    BY <1>1, <1>3, FollowedToEnd
  <2>2. ASSUME NEW i \in 1..2 PROVE (\A k \in Int : F(i, k) \in Int) /\ F(i, K) = p2[i] * w
    <3>1. p0[i] \in Int /\ p1[i] \in Int /\ p2[i] \in Int
      BY <1>3
    <3>2. /\ \A k \in Int : Followed(p0[i], p1[i], p2[i], n, k) \in Int
          /\ Followed(p0[i], p1[i], p2[i], n, 2^n) = p2[i] * 2^(2 * CurveBits)
      <4> DEFINE b == p0[i]
                 c == p1[i]
                 e == p2[i]
      <4>1. b \in Int /\ c \in Int /\ e \in Int
        BY <3>1
      <4> HIDE DEF b, c, e
      <4>2. /\ \A k \in Int : Followed(b, c, e, n, k) \in Int
            /\ Followed(b, c, e, n, 2^n) = e * 2^(2 * CurveBits)
        BY <1>1, <4>1, FollowedToEnd
      <4> USE DEF b, c, e
      <4> QED BY <4>2, Zenon
    <3> QED BY <3>2, Zenon
  <2> QED BY <2>1, <2>2, Zenon
<1> HIDE DEF w, K, F
<1>5. \A k \in 1..K : <<F(1, k) \div w, F(2, k) \div w>> \in Point
  <2> SUFFICES ASSUME NEW k \in 1..K PROVE F(1, k) \div w \in Int /\ F(2, k) \div w \in Int
    BY DEF Point
  <2>1. F(1, k) \in Int /\ F(2, k) \in Int
    BY <1>4
  <2> QED BY <1>4, <2>1, Division
<1>6. lines \in Seq(Point) /\ Len(lines) = K
  BY <1>4, <1>5
<1>7. lines[K] = p2
  <2>1. lines[K] = <<F(1, K) \div w, F(2, K) \div w>>
    <3>1. K \in 1..K
      BY <1>4
    <3> QED BY <3>1, Zenon
  <2>2. \A i \in 1..2 : F(i, K) \div w = p2[i]
    <3> SUFFICES ASSUME NEW i \in 1..2 PROVE F(i, K) \div w = p2[i]
      OBVIOUS
    <3>1. F(i, K) \in Int /\ p2[i] \in Int /\ F(i, K) = p2[i] * w
      BY <1>3, <1>4
    <3>2. w * p2[i] <= F(i, K) /\ F(i, K) < w * p2[i] + w
      BY <1>4, <3>1
    <3> QED BY <1>4, <3>1, <3>2, DivisionUnique
  <2>3. p2 = <<p2[1], p2[2]>>
    <3>1. p2 \in Int \X Int
      BY DEF Point
    <3> QED BY <3>1
  <2> QED BY <2>1, <2>2, <2>3
<1> QED BY <1>2, <1>4, <1>6, <1>7

\* The arcs into which an arc is split, and that the later one ends where it ended.
LEMMA SplitAxis ==
  ASSUME NEW a, \A k \in 1..4 : a[k] \in Int
  PROVE  /\ \A k \in 1..4 : split_cubic_axis(a).left[k] \in Int /\ split_cubic_axis(a).right[k] \in Int
         /\ split_cubic_axis(a).right[1] = a[1]
<1> DEFINE high == a[1] + a[2]
           mid == a[2] + a[3]
           low == a[3] + a[4]
           middle == (high + 2 * mid + low) \div 8
           right == <<a[1], high \div 2, (high + mid) \div 4, middle>>
           left == <<middle, (low + mid) \div 4, low \div 2, a[4]>>
<1>1. a[1] \in Int /\ a[2] \in Int /\ a[3] \in Int /\ a[4] \in Int
  OBVIOUS
<1>2. /\ high \in Int /\ mid \in Int /\ low \in Int /\ high + 2 * mid + low \in Int
      /\ high + mid \in Int /\ low + mid \in Int
  BY <1>1
<1>3. /\ middle \in Int /\ high \div 2 \in Int /\ low \div 2 \in Int
      /\ (high + mid) \div 4 \in Int /\ (low + mid) \div 4 \in Int
  BY <1>2, Division
<1>4. split_cubic_axis(a) = [right |-> right, left |-> left]
  BY DEF split_cubic_axis
<1> HIDE DEF middle, high, mid, low
<1>5. \A k \in 1..4 : left[k] \in Int /\ right[k] \in Int
  BY <1>1, <1>3
<1> HIDE DEF left
<1>6. right[1] = a[1]
  OBVIOUS
<1> HIDE DEF right
<1> QED BY <1>4, <1>5, <1>6

\* The halves of a cubic have integer points, and the second ends where the whole did.
LEMMA HalvesTyped ==
  ASSUME NEW arc, \A k \in 1..4 : arc[k] \in Point
  PROVE  /\ Halves(arc).left \in [1..4 -> Point] /\ Halves(arc).right \in [1..4 -> Point]
         /\ Halves(arc).right[1] = arc[1]
<1> DEFINE x == split_cubic_axis([k \in 1..4 |-> arc[k][1]])
           y == split_cubic_axis([k \in 1..4 |-> arc[k][2]])
<1>1. \A k \in 1..4 : arc[k][1] \in Int /\ arc[k][2] \in Int /\ arc[k] = <<arc[k][1], arc[k][2]>>
  BY DEF Point
<1>2. /\ \A k \in 1..4 : x.left[k] \in Int /\ x.right[k] \in Int
      /\ x.right[1] = arc[1][1]
  <2> DEFINE a == [k \in 1..4 |-> arc[k][1]]
  <2>1. \A k \in 1..4 : a[k] \in Int /\ a[k] = arc[k][1]
    BY <1>1
  <2> HIDE DEF a
  <2>2. /\ \A k \in 1..4 : split_cubic_axis(a).left[k] \in Int /\ split_cubic_axis(a).right[k] \in Int
        /\ split_cubic_axis(a).right[1] = a[1]
    BY <2>1, SplitAxis
  <2>3. a[1] = arc[1][1]
    BY <2>1
  <2> QED BY <2>2, <2>3 DEF a
<1>3. /\ \A k \in 1..4 : y.left[k] \in Int /\ y.right[k] \in Int
      /\ y.right[1] = arc[1][2]
  <2> DEFINE a == [k \in 1..4 |-> arc[k][2]]
  <2>1. \A k \in 1..4 : a[k] \in Int /\ a[k] = arc[k][2]
    BY <1>1
  <2> HIDE DEF a
  <2>2. /\ \A k \in 1..4 : split_cubic_axis(a).left[k] \in Int /\ split_cubic_axis(a).right[k] \in Int
        /\ split_cubic_axis(a).right[1] = a[1]
    BY <2>1, SplitAxis
  <2>3. a[1] = arc[1][2]
    BY <2>1
  <2> QED BY <2>2, <2>3 DEF a
<1>4. Halves(arc) = [left |-> [k \in 1..4 |-> <<x.left[k], y.left[k]>>],
                     right |-> [k \in 1..4 |-> <<x.right[k], y.right[k]>>]]
  BY DEF Halves
<1> HIDE DEF x, y
<1> QED BY <1>1, <1>2, <1>3, <1>4 DEF Point

-----------------------------------------------------------------------------
(* The invariant                                                           *)

\* The end of a line, from the pixel that it has reached.
RestX == line.to[1] - ONE_PIXEL * line.ex
RestY == line.to[2] - ONE_PIXEL * line.ey

OnTheWay ==
  line.on =>
    /\ line.prod = Dx * RestY - Dy * RestX
    /\ Before(Dx, RestX, ONE_PIXEL) /\ Before(Dy, RestY, ONE_PIXEL)
    /\ Dx # 0 => Cut(line.prod, Dx, Dy)

\* Pieces of curves come first, n of them.
PiecesFirst(n, tasks) ==
  /\ n \in 0..Len(tasks)
  /\ \A i \in 1..Len(tasks) : i <= n <=> tasks[i].op \in PieceOps

\* The path leads where the outline says: what is being drawn, or else the last
\* piece that waits, ends there.
Leads(n, tasks) ==
  IF n > 0 THEN tasks[n].points[1] = due ELSE IF line.on THEN line.to = due ELSE at = due

Meeting ==
  /\ \E n \in Nat : PiecesFirst(n, todo) /\ Leads(n, todo)
  /\ ~pass.running => todo = <<>>

\* What the state of a pass always is.
PathInv == RasterTypes /\ OnTheWay /\ Meeting

-----------------------------------------------------------------------------
(* Tasks are done                                                          *)

\* Pieces in place of the first task, which lead where it led or to the new end.
LEMMA PiecesMeet ==
  ASSUME RasterTypes, Meeting, todo # <<>>, ~line.on, pass'.running,
         NEW new \in Seq(Pieces), todo' = new \o Tail(todo),
         NEW to, due' = IF Head(todo).op \in PieceOps THEN due ELSE to,
         Head(todo).op \in PieceOps => to = Head(todo).points[1],
         IF Len(new) > 0 THEN new[Len(new)].points[1] = to
                         ELSE IF line'.on THEN line'.to = to ELSE at' = to
  PROVE  Meeting'
<1>1. todo \in Seq(Tasked) /\ Len(new) \in Nat
  BY DEF RasterTypes, Tasked
<1>2. PICK n \in Nat : PiecesFirst(n, todo) /\ Leads(n, todo)
  BY DEF Meeting
<1>3. 1 \in 1..Len(todo) /\ Head(todo) = todo[1]
  BY <1>1
<1>4. n > 0 <=> Head(todo).op \in PieceOps
  BY <1>2, <1>3 DEF PiecesFirst
<1>5. \E k \in Nat :
        /\ PiecesFirst(k, todo')
        /\ n > 1 => k > 0 /\ todo'[k] = todo[n]
        /\ n <= 1 /\ Len(new) > 0 => k > 0 /\ todo'[k] = new[Len(new)]
        /\ n <= 1 /\ ~(Len(new) > 0) => k = 0
  <2> DEFINE s == todo
             r == todo'
             t == Tail(todo)
             l == Len(new)
             m == IF n = 0 THEN 0 ELSE n - 1
  <2>0. m \in Nat /\ (n = 0 => m = 0) /\ (n > 0 => m = n - 1)
    OBVIOUS
  <2> HIDE DEF m
  <2>1. /\ t \in Seq(Tasked) /\ Len(t) = Len(s) - 1 /\ Len(s) \in Nat /\ Len(s) > 0
        /\ \A i \in 1..Len(t) : t[i] = s[i + 1]
    BY <1>1, HeadTailProperties, SeqDef
  <2>2. new \in Seq(Tasked) /\ l \in Nat /\ \A i \in 1..l : new[i] \in Pieces
    BY DEF Tasked
  <2>3. r = new \o t /\ PiecesFirst(n, s)
    BY <1>2
  <2> HIDE DEF t, s, r
  <2>4. /\ r \in Seq(Tasked) /\ Len(r) = l + Len(t)
        /\ \A j \in 1..(l + Len(t)) : r[j] = IF j <= l THEN new[j] ELSE t[j - l]
    <3>1. /\ new \o t \in Seq(Tasked) /\ Len(new \o t) = l + Len(t)
          /\ \A j \in 1..(l + Len(t)) : (new \o t)[j] = IF j <= l THEN new[j] ELSE t[j - l]
      BY <2>1, <2>2, Concatenation, Zenon
    <3> QED BY <3>1, <2>3, Zenon
  <2> HIDE DEF l
  <2>5. ASSUME NEW j \in 1..Len(r) PROVE j <= l + m <=> r[j].op \in PieceOps
    <3>1. CASE j <= l
      <4>1. r[j] = new[j] /\ new[j] \in Pieces /\ new[j] \in Tasked
        BY <2>1, <2>2, <2>4, <3>1 DEF Tasked
      <4>2. r[j].op \in PieceOps
        BY <4>1, TaskPoints
      <4> QED BY <2>0, <2>2, <3>1, <4>2
    <3>2. CASE ~(j <= l)
      <4>1. j - l \in 1..Len(t) /\ j - l + 1 \in 1..Len(s)
        BY <2>1, <2>2, <2>4, <3>2
      <4>2. r[j] = s[j - l + 1]
        BY <2>1, <2>4, <3>2, <4>1
      <4>3. j - l + 1 <= n <=> r[j].op \in PieceOps
        BY <2>3, <4>1, <4>2 DEF PiecesFirst
      <4> QED BY <2>0, <2>2, <3>2, <4>1, <4>3
    <3> QED BY <3>1, <3>2
  <2>6. PiecesFirst(l + m, r)
    <3>1. l + m \in 0..Len(r)
      BY <2>0, <2>1, <2>2, <2>3, <2>4 DEF PiecesFirst
    <3> QED BY <2>5, <3>1 DEF PiecesFirst
  <2> DEFINE k == l + m
  <2>7. k \in Nat /\ (n > 1 => k > 0) /\ (n <= 1 => k = l)
    BY <2>0, <2>2
  <2>8. n > 1 => r[k] = s[n]
    <3> SUFFICES ASSUME n > 1 PROVE r[k] = s[n]
      OBVIOUS
    <3>1. m \in 1..Len(t) /\ m + 1 = n
      BY <2>0, <2>1, <2>3 DEF PiecesFirst
    <3>2. k \in 1..(l + Len(t)) /\ ~(k <= l) /\ k - l = m
      BY <2>1, <2>2, <3>1
    <3> HIDE DEF k
    <3>3. r[k] = IF k <= l THEN new[k] ELSE t[k - l]
      BY <2>4, <3>2, Zenon
    <3>4. r[k] = t[m]
      BY <3>2, <3>3, Zenon
    <3>5. t[m] = s[m + 1]
      BY <2>1, <3>1
    <3> QED BY <3>1, <3>4, <3>5
  <2>9. l > 0 => r[l] = new[l]
    BY <2>1, <2>2, <2>4
  <2>10. PiecesFirst(k, r)
    BY <2>6
  <2> HIDE DEF k
  <2>11. /\ n <= 1 /\ l > 0 => k > 0 /\ r[k] = new[l]
         /\ n <= 1 /\ ~(l > 0) => k = 0
    BY <2>2, <2>7, <2>9
  <2> USE DEF l, s, r
  <2> QED BY <2>7, <2>8, <2>10, <2>11, Zenon
<1>6. PICK k \in Nat :
        /\ PiecesFirst(k, todo')
        /\ n > 1 => k > 0 /\ todo'[k] = todo[n]
        /\ n <= 1 /\ Len(new) > 0 => k > 0 /\ todo'[k] = new[Len(new)]
        /\ n <= 1 /\ ~(Len(new) > 0) => k = 0
  BY <1>5, Zenon
<1>7. Leads(k, todo)'
  <2>1. CASE n > 1
    <3>1. todo[n].points[1] = due /\ due' = due
      BY <1>2, <1>4, <2>1 DEF Leads
    <3> QED BY <1>6, <2>1, <3>1 DEF Leads
  <2>2. CASE n <= 1
    <3>1. due' = to
      <4>1. CASE n = 0
        BY <1>4, <4>1
      <4>2. CASE n = 1
        <5>1. todo[1].points[1] = due
          BY <1>2, <4>2 DEF Leads
        <5> QED BY <1>3, <1>4, <4>2, <5>1
      <4> QED BY <2>2, <4>1, <4>2
    <3>2. CASE Len(new) > 0
      <4>1. k > 0 /\ todo'[k].points[1] = due'
        BY <1>6, <2>2, <3>1, <3>2
      <4> QED BY <4>1 DEF Leads
    <3>3. CASE ~(Len(new) > 0)
      <4>1. ~(k > 0)
        BY <1>6, <2>2, <3>3
      <4> QED BY <3>1, <3>3, <4>1 DEF Leads
    <3> QED BY <3>2, <3>3
  <2> QED BY <2>1, <2>2
<1> QED BY <1>6, <1>7 DEF Meeting

\* Types, when the first task is done.
LEMMA TaskDone ==
  ASSUME RasterTypes, todo # <<>>, pass' = pass,
         NEW new \in Seq(Pieces), todo' = new \o Tail(todo),
         at' \in Point, due' \in Point, line' \in Line
  PROVE  RasterTypes'
<1>1. Tail(todo) \in Seq(Tasked)
  BY HeadTyped
<1>2. todo' \in Seq(Tasked)
  BY <1>1, PiecesBefore
<1> QED BY <1>2 DEF RasterTypes, Tasked

-----------------------------------------------------------------------------
(* Lines                                                                   *)

\* A line is skipped, or begun in the pixel of its start.
LEMMA LineBegun ==
  ASSUME RasterTypes, ~line.on, NEW to \in Point, render_line(to)
  PROVE  /\ \/ at' = to /\ line' = line
            \/ /\ at' = at
               /\ line' = [to |-> to, ex |-> trunc(at[1]), ey |-> trunc(at[2]),
                           fx |-> fract(at[1]), fy |-> fract(at[2]),
                           prod |-> (to[1] - at[1]) * fract(at[2]) - (to[2] - at[2]) * fract(at[1]),
                           on |-> TRUE]
         /\ at' \in Point /\ line' \in Line
<1>1. at \in Point /\ line \in Line
  BY DEF RasterTypes
<1>2. CASE at' = to /\ line' = line
  BY <1>1, <1>2
<1>3. CASE ~(at' = to /\ line' = line)
  <2> DEFINE p == (to[1] - at[1]) * fract(at[2]) - (to[2] - at[2]) * fract(at[1])
             new == [to |-> to, ex |-> trunc(at[1]), ey |-> trunc(at[2]),
                     fx |-> fract(at[1]), fy |-> fract(at[2]), prod |-> p, on |-> TRUE]
  <2>1. at' = at /\ line' = new
    BY <1>3 DEF render_line, Reached
  <2>2. at[1] \in Int /\ at[2] \in Int /\ to[1] \in Int /\ to[2] \in Int
    BY <1>1 DEF Point
  <2>3. trunc(at[1]) \in Int /\ trunc(at[2]) \in Int /\ fract(at[1]) \in Int /\ fract(at[2]) \in Int
    BY <2>2, InPixel
  <2>4. p \in Int
    BY <2>2, <2>3
  <2> HIDE DEF p
  <2>5. new \in Line
    BY <2>3, <2>4 DEF Line
  <2> USE DEF p
  <2> QED BY <1>1, <2>1, <2>5, Zenon
<1> QED BY <1>2, <1>3

\* How a line leaves a pixel: what is new, and what stays.
Crossing(ex, ey, prod) ==
  /\ line' \in Line
  /\ line'.to = line.to /\ line'.on = line.on
  /\ line'.ex = ex /\ line'.ey = ey /\ line'.prod = prod
  /\ \E a, b \in Int : ras' = set_cell(integrate(ras, a, b), ex, ey)
  /\ UNCHANGED <<pass, at, todo, spans, due, edges>>

\* A step that crosses a side does this.
LEMMA Crossed ==
  ASSUME RasterTypes, NEW fx2 \in Int, NEW fy2 \in Int, NEW ex \in Int, NEW ey \in Int,
         NEW fx \in Int, NEW fy \in Int, NEW prod \in Int, Cross(fx2, fy2, ex, ey, fx, fy, prod)
  PROVE  Crossing(ex, ey, prod)
<1>1. line \in Line /\ line' = [line EXCEPT !.ex = ex, !.ey = ey, !.fx = fx, !.fy = fy, !.prod = prod]
  BY DEF RasterTypes, Cross
<1>2. line' \in Line /\ line'.to = line.to /\ line'.on = line.on
      /\ line'.ex = ex /\ line'.ey = ey /\ line'.prod = prod
  BY <1>1 DEF Line
<1>3. fy2 - line.fy \in Int /\ line.fx + fx2 \in Int
  BY LineTyped
<1>4. \E a, b \in Int : ras' = set_cell(integrate(ras, a, b), ex, ey)
  BY <1>3, Zenon DEF Cross
<1> QED BY <1>2, <1>4 DEF Cross, Crossing

\* Each of the steps leaves a pixel.
LEMMA Sides ==
  ASSUME RasterTypes
  PROVE  /\ Left => Crossing(line.ex - 1, line.ey, line.prod - Dy * ONE_PIXEL)
         /\ Up => Crossing(line.ex, line.ey + 1, line.prod - Dx * ONE_PIXEL)
         /\ Right => Crossing(line.ex + 1, line.ey, line.prod + Dy * ONE_PIXEL)
         /\ Down => Crossing(line.ex, line.ey - 1, line.prod + Dx * ONE_PIXEL)
         /\ Vertical => \/ Dy > 0 /\ Crossing(line.ex, line.ey + 1, line.prod)
                        \/ ~(Dy > 0) /\ Crossing(line.ex, line.ey - 1, line.prod)
<1>1. /\ Dx \in Int /\ Dy \in Int /\ ToX \in Int /\ ToY \in Int
      /\ line.ex \in Int /\ line.ey \in Int /\ line.fx \in Int /\ line.fy \in Int /\ line.prod \in Int
      /\ ONE_PIXEL \in Int /\ 0 \in Int
  BY LineTyped, PixelWidth
<1>2. dx_r \in Int /\ dy_r \in Int
  <2>1. (trunc(at[1]) # ToX => Dx # 0) /\ (trunc(at[2]) # ToY => Dy # 0)
    BY LineTyped DEF ToX, ToY, Dx, Dy
  <2> QED BY <1>1, <2>1, Reciprocals DEF dx_r, dy_r
<1>3. /\ line.ex - 1 \in Int /\ line.ex + 1 \in Int /\ line.ey - 1 \in Int /\ line.ey + 1 \in Int
      /\ line.prod - Dy * ONE_PIXEL \in Int /\ line.prod + Dy * ONE_PIXEL \in Int
      /\ line.prod - Dx * ONE_PIXEL \in Int /\ line.prod + Dx * ONE_PIXEL \in Int
      /\ -line.prod \in Int /\ -dx_r \in Int /\ -dy_r \in Int
      /\ -(line.prod - Dx * ONE_PIXEL) \in Int
  BY <1>1, <1>2
<1>4. /\ ft_udiv(-line.prod, -dx_r) \in Int /\ ft_udiv(-(line.prod - Dx * ONE_PIXEL), dy_r) \in Int
      /\ ft_udiv(line.prod + Dy * ONE_PIXEL, dx_r) \in Int /\ ft_udiv(line.prod, -dy_r) \in Int
  BY <1>1, <1>2, <1>3, Reciprocals
<1>5. ASSUME NEW fx2 \in Int, NEW fy2 \in Int, NEW ex \in Int, NEW ey \in Int,
             NEW fx \in Int, NEW fy \in Int, NEW prod \in Int, Cross(fx2, fy2, ex, ey, fx, fy, prod)
      PROVE  Crossing(ex, ey, prod)
  BY <1>5, Crossed
<1>6. ASSUME Left PROVE Crossing(line.ex - 1, line.ey, line.prod - Dy * ONE_PIXEL)
  BY <1>1, <1>3, <1>4, <1>5, <1>6, Zenon DEF Left
<1>7. ASSUME Up PROVE Crossing(line.ex, line.ey + 1, line.prod - Dx * ONE_PIXEL)
  BY <1>1, <1>3, <1>4, <1>5, <1>7, Zenon DEF Up
<1>8. ASSUME Right PROVE Crossing(line.ex + 1, line.ey, line.prod + Dy * ONE_PIXEL)
  BY <1>1, <1>3, <1>4, <1>5, <1>8, Zenon DEF Right
<1>9. ASSUME Down PROVE Crossing(line.ex, line.ey - 1, line.prod + Dx * ONE_PIXEL)
  BY <1>1, <1>3, <1>4, <1>5, <1>9, Zenon DEF Down
<1>10. ASSUME Vertical
       PROVE  \/ Dy > 0 /\ Crossing(line.ex, line.ey + 1, line.prod)
              \/ ~(Dy > 0) /\ Crossing(line.ex, line.ey - 1, line.prod)
  <2>1. CASE Dy > 0
    <3>1. Cross(line.fx, ONE_PIXEL, line.ex, line.ey + 1, line.fx, 0, line.prod)
      BY <1>10, <2>1 DEF Vertical
    <3> QED BY <1>1, <1>3, <1>5, <2>1, <3>1, Zenon
  <2>2. CASE ~(Dy > 0)
    <3>1. Cross(line.fx, 0, line.ex, line.ey - 1, line.fx, ONE_PIXEL, line.prod)
      BY <1>10, <2>2 DEF Vertical
    <3> QED BY <1>1, <1>3, <1>5, <2>2, <3>1, Zenon
  <2> QED BY <2>1, <2>2
<1> QED BY <1>6, <1>7, <1>8, <1>9, <1>10

\* A line that begins is on its way.
LEMMA BegunOnTheWay ==
  ASSUME RasterTypes, OnTheWay, ~line.on, NEW to \in Point, render_line(to)
  PROVE  OnTheWay'
<1>1. CASE at' = to /\ line' = line
  BY <1>1 DEF OnTheWay
<1>2. CASE /\ at' = at
           /\ line' = [to |-> to, ex |-> trunc(at[1]), ey |-> trunc(at[2]),
                       fx |-> fract(at[1]), fy |-> fract(at[2]),
                       prod |-> (to[1] - at[1]) * fract(at[2]) - (to[2] - at[2]) * fract(at[1]),
                       on |-> TRUE]
  <2> DEFINE dx == to[1] - at[1]
             dy == to[2] - at[2]
             fx == fract(at[1])
             fy == fract(at[2])
             p == ONE_PIXEL
  <2>1. at[1] \in Int /\ at[2] \in Int /\ to[1] \in Int /\ to[2] \in Int
    BY LineTyped DEF Point
  <2>2. /\ fx \in Int /\ fy \in Int /\ Within(fx, p) /\ Within(fy, p)
        /\ at[1] - p * trunc(at[1]) = fx /\ at[2] - p * trunc(at[2]) = fy
        /\ trunc(at[1]) \in Int /\ trunc(at[2]) \in Int /\ p \in Nat \ {0}
        /\ p * trunc(at[1]) \in Int /\ p * trunc(at[2]) \in Int
    <3>1. /\ trunc(at[1]) \in Int /\ fract(at[1]) \in Int
          /\ at[1] = ONE_PIXEL * trunc(at[1]) + fract(at[1])
          /\ fract(at[1]) >= 0 /\ fract(at[1]) < ONE_PIXEL
      BY <2>1, InPixel
    <3>2. /\ trunc(at[2]) \in Int /\ fract(at[2]) \in Int
          /\ at[2] = ONE_PIXEL * trunc(at[2]) + fract(at[2])
          /\ fract(at[2]) >= 0 /\ fract(at[2]) < ONE_PIXEL
      BY <2>1, InPixel
    <3>3. p * trunc(at[1]) \in Int /\ p * trunc(at[2]) \in Int /\ p \in Nat \ {0}
      BY <3>1, <3>2, PixelWidth
    <3> QED BY <2>1, <3>1, <3>2, <3>3 DEF Within
  <2>3. /\ line'.on /\ Dx' = dx /\ Dy' = dy /\ line'.prod = dx * fy - dy * fx
        /\ RestX' = to[1] - p * trunc(at[1]) /\ RestY' = to[2] - p * trunc(at[2])
    BY <1>2 DEF Dx, Dy, RestX, RestY, ONE_PIXEL
  <2>4. RestX' = dx + fx /\ RestY' = dy + fy /\ dx \in Int /\ dy \in Int
    BY <2>1, <2>2, <2>3
  <2>5. Dx' # 0 => Cut(line'.prod, Dx', Dy')
    <3> HIDE DEF dx, dy, fx, fy, p
    <3>1. dx # 0 => Cut(dx * fy - dy * fx, dx, dy)
      BY <2>2, <2>4, StartIsCut DEF p
    <3> QED BY <2>3, <3>1, Zenon
  <2> HIDE DEF dx, dy, fx, fy, p
  <2>6. dx * fy - dy * fx = dx * (dy + fy) - dy * (dx + fx)
    BY <2>2, <2>4
  <2>7. Before(dx, dx + fx, p) /\ Before(dy, dy + fy, p)
    BY <2>2, <2>4 DEF Before, Within
  <2>8. /\ line'.prod = Dx' * RestY' - Dy' * RestX'
        /\ Before(Dx', RestX', p) /\ Before(Dy', RestY', p)
    BY <2>3, <2>4, <2>6, <2>7
  <2>9. ONE_PIXEL' = p
    BY DEF p, ONE_PIXEL
  <2> QED BY <2>5, <2>8, <2>9 DEF OnTheWay, Cut, Corner, Before
<1> QED BY <1>1, <1>2, LineBegun

\* Where the end of the line lies, seen from a pixel.
LEMMA RestOfLine ==
  ASSUME RasterTypes
  PROVE  /\ RestX \in Int /\ RestY \in Int
         /\ RestX >= 0 <=> line.ex <= ToX
         /\ RestX < ONE_PIXEL <=> ToX <= line.ex
         /\ RestY >= 0 <=> line.ey <= ToY
         /\ RestY < ONE_PIXEL <=> ToY <= line.ey
         /\ Ends <=> Within(RestX, ONE_PIXEL) /\ Within(RestY, ONE_PIXEL)
<1>1. /\ line.to[1] \in Int /\ line.to[2] \in Int /\ line.ex \in Int /\ line.ey \in Int
      /\ ToX \in Int /\ ToY \in Int
  BY LineTyped
<1>2. RestX \in Int /\ RestY \in Int
  BY <1>1, PixelWidth DEF RestX, RestY
<1>3. (RestX >= 0 <=> line.ex <= ToX) /\ (RestX < ONE_PIXEL <=> ToX <= line.ex)
  BY <1>1, InPixel DEF RestX, ToX
<1>4. (RestY >= 0 <=> line.ey <= ToY) /\ (RestY < ONE_PIXEL <=> ToY <= line.ey)
  BY <1>1, InPixel DEF RestY, ToY
<1>5. Ends <=> Within(RestX, ONE_PIXEL) /\ Within(RestY, ONE_PIXEL)
  BY <1>1, <1>2, <1>3, <1>4, PixelWidth DEF Ends, Within
<1> QED BY <1>2, <1>3, <1>4, <1>5

\* What a crossing changes of the line.
LEMMA AfterCrossing ==
  ASSUME RasterTypes, NEW ex \in Int, NEW ey \in Int, NEW prod \in Int, Crossing(ex, ey, prod)
  PROVE  /\ RasterTypes'
         /\ Dx' = Dx /\ Dy' = Dy /\ ToX' = ToX /\ ToY' = ToY
         /\ line'.ex = ex /\ line'.ey = ey /\ line'.prod = prod
         /\ RestX' = RestX - ONE_PIXEL * (ex - line.ex)
         /\ RestY' = RestY - ONE_PIXEL * (ey - line.ey)
<1>1. line' \in Line /\ line'.to = line.to /\ line'.ex = ex /\ line'.ey = ey /\ line'.prod = prod
      /\ UNCHANGED <<pass, at, todo, due>>
  BY DEF Crossing
<1>2. RasterTypes'
  BY <1>1 DEF RasterTypes
<1>3. Dx' = Dx /\ Dy' = Dy /\ ToX' = ToX /\ ToY' = ToY
  BY <1>1 DEF Dx, Dy, ToX, ToY, trunc, ONE_PIXEL
<1>4. RestX' = line.to[1] - ONE_PIXEL * ex /\ RestY' = line.to[2] - ONE_PIXEL * ey
  BY <1>1 DEF RestX, RestY, ONE_PIXEL
<1> DEFINE p == ONE_PIXEL
<1>5. p \in Int /\ line.to[1] \in Int /\ line.to[2] \in Int /\ line.ex \in Int /\ line.ey \in Int
  BY LineTyped, PixelWidth
<1> HIDE DEF p
<1>6. /\ p * (ex - line.ex) = p * ex - p * line.ex /\ p * (ey - line.ey) = p * ey - p * line.ey
      /\ p * ex \in Int /\ p * ey \in Int /\ p * line.ex \in Int /\ p * line.ey \in Int
  BY <1>5
<1>7. RestX = line.to[1] - p * line.ex /\ RestY = line.to[2] - p * line.ey
  BY DEF RestX, RestY, p
<1>8. RestX' = RestX - p * (ex - line.ex) /\ RestY' = RestY - p * (ey - line.ey)
  BY <1>4, <1>5, <1>6, <1>7 DEF p
<1> QED BY <1>1, <1>2, <1>3, <1>8 DEF p

\* A step towards the end of the line, in one of the four directions.
LEMMA OneLess ==
  ASSUME RasterTypes, ToX' = ToX, ToY' = ToY,
         \/ /\ line'.ey = line.ey
            /\ \/ line.ex > ToX /\ line'.ex = line.ex - 1
               \/ line.ex < ToX /\ line'.ex = line.ex + 1
         \/ /\ line'.ex = line.ex
            /\ \/ line.ey > ToY /\ line'.ey = line.ey - 1
               \/ line.ey < ToY /\ line'.ey = line.ey + 1
  PROVE  Remaining' < Remaining
<1> DEFINE A(n) == IF n < 0 THEN -n ELSE n
<1>1. line.ex \in Int /\ line.ey \in Int /\ ToX \in Int /\ ToY \in Int
  BY LineTyped
<1>2. /\ Remaining = A(line.ex - ToX) + A(line.ey - ToY)
      /\ Remaining' = A(line'.ex - ToX') + A(line'.ey - ToY')
  BY DEF Remaining, Absolute
<1>3. A(line'.ex - ToX) + A(line'.ey - ToY) < A(line.ex - ToX) + A(line.ey - ToY)
  BY <1>1
<1> QED BY <1>2, <1>3

Nearer == OnTheWay' /\ Remaining' < Remaining

\* A line goes on in the next pixel to the left, ...
LEMMA GoesLeft ==
  ASSUME RasterTypes, OnTheWay, Left
  PROVE  RasterTypes' /\ Nearer
<1> DEFINE p == ONE_PIXEL
           o == line.prod
<1>1. /\ Dx \in Int /\ Dy \in Int /\ RestX \in Int /\ RestY \in Int /\ o \in Int /\ p \in Nat \ {0}
      /\ line.ex \in Int /\ line.ey \in Int /\ ToX \in Int /\ ToY \in Int
      /\ Dx * p \in Int /\ Dy * p \in Int
  BY LineTyped, RestOfLine, PixelWidth
<1>2. /\ line.on /\ Dx # 0 /\ o = Dx * RestY - Dy * RestX
      /\ Before(Dx, RestX, p) /\ Before(Dy, RestY, p) /\ Cut(o, Dx, Dy)
      /\ ~(Within(RestX, p) /\ Within(RestY, p))
  BY RestOfLine DEF Left, Slanted, OnTheWay
<1>3. o - Dx * p > 0 /\ o <= 0
  BY DEF Left, LeavesLeft, p_left
<1>4. Dx < 0 /\ RestX < 0
  BY <1>1, <1>2, <1>3, BeyondLeft
<1>5. Crossing(line.ex - 1, line.ey, o - Dy * p)
  BY Sides
<1>6. o - Dy * p \in Int /\ line.ex - 1 \in Int
  BY <1>1
<1>7. /\ RasterTypes' /\ Dx' = Dx /\ Dy' = Dy /\ ToX' = ToX /\ ToY' = ToY
      /\ line'.ex = line.ex - 1 /\ line'.ey = line.ey /\ line'.prod = o - Dy * p
      /\ RestX' = RestX - p * (line.ex - 1 - line.ex) /\ RestY' = RestY - p * (line.ey - line.ey)
  BY <1>1, <1>5, <1>6, AfterCrossing
<1>8. RestX' = RestX + p /\ RestY' = RestY
  BY <1>1, <1>7
<1>9. Before(Dx', RestX', p) /\ Before(Dy', RestY', p)
  BY <1>1, <1>2, <1>4, <1>7, <1>8 DEF Before
<1>10. line'.prod = Dx' * RestY' - Dy' * RestX'
  <2>1. Dy * (RestX + p) = Dy * RestX + Dy * p
    BY <1>1
  <2> QED BY <1>1, <1>2, <1>7, <1>8, <2>1
<1>11. Cut(o - Dy * p, Dx, Dy)
  BY <1>1, <1>3, CutLeft
<1>12. OnTheWay'
  BY <1>7, <1>9, <1>10, <1>11 DEF OnTheWay, Before, Cut, Corner, ONE_PIXEL
<1>13. line.ex > ToX
  BY <1>1, <1>4, RestOfLine
<1>14. Remaining' < Remaining
  BY <1>7, <1>13, OneLess
<1> QED BY <1>7, <1>12, <1>14 DEF Nearer

\* ... above, ...
LEMMA GoesUp ==
  ASSUME RasterTypes, OnTheWay, Up
  PROVE  RasterTypes' /\ Nearer
<1> DEFINE p == ONE_PIXEL
           o == line.prod
<1>1. /\ Dx \in Int /\ Dy \in Int /\ RestX \in Int /\ RestY \in Int /\ o \in Int /\ p \in Nat \ {0}
      /\ line.ex \in Int /\ line.ey \in Int /\ ToX \in Int /\ ToY \in Int
      /\ Dx * p \in Int /\ Dy * p \in Int
  BY LineTyped, RestOfLine, PixelWidth
<1>2. /\ line.on /\ Dx # 0 /\ o = Dx * RestY - Dy * RestX
      /\ Before(Dx, RestX, p) /\ Before(Dy, RestY, p) /\ Cut(o, Dx, Dy)
      /\ ~(Within(RestX, p) /\ Within(RestY, p))
  BY RestOfLine DEF Up, Slanted, OnTheWay
<1>3. o - Dx * p + Dy * p > 0 /\ o - Dx * p <= 0
  BY DEF Up, LeavesUp, p_up, p_left
<1>4. Dy > 0 /\ RestY >= p
  BY <1>1, <1>2, <1>3, BeyondUp
<1>5. Crossing(line.ex, line.ey + 1, o - Dx * p)
  BY Sides
<1>6. o - Dx * p \in Int /\ line.ey + 1 \in Int
  BY <1>1
<1>7. /\ RasterTypes' /\ Dx' = Dx /\ Dy' = Dy /\ ToX' = ToX /\ ToY' = ToY
      /\ line'.ex = line.ex /\ line'.ey = line.ey + 1 /\ line'.prod = o - Dx * p
      /\ RestX' = RestX - p * (line.ex - line.ex) /\ RestY' = RestY - p * (line.ey + 1 - line.ey)
  BY <1>1, <1>5, <1>6, AfterCrossing
<1>8. RestX' = RestX /\ RestY' = RestY - p
  BY <1>1, <1>7
<1>9. Before(Dx', RestX', p) /\ Before(Dy', RestY', p)
  BY <1>1, <1>2, <1>4, <1>7, <1>8 DEF Before
<1>10. line'.prod = Dx' * RestY' - Dy' * RestX'
  <2>1. Dx * (RestY - p) = Dx * RestY - Dx * p
    BY <1>1
  <2> QED BY <1>1, <1>2, <1>7, <1>8, <2>1
<1>11. Cut(o - Dx * p, Dx, Dy)
  BY <1>1, <1>3, CutUp
<1>12. OnTheWay'
  BY <1>7, <1>9, <1>10, <1>11 DEF OnTheWay, Before, Cut, Corner, ONE_PIXEL
<1>13. line.ey < ToY
  BY <1>1, <1>4, RestOfLine
<1>14. Remaining' < Remaining
  BY <1>7, <1>13, OneLess
<1> QED BY <1>7, <1>12, <1>14 DEF Nearer

\* ... to the right ...
LEMMA GoesRight ==
  ASSUME RasterTypes, OnTheWay, Right
  PROVE  RasterTypes' /\ Nearer
<1> DEFINE p == ONE_PIXEL
           o == line.prod
<1>1. /\ Dx \in Int /\ Dy \in Int /\ RestX \in Int /\ RestY \in Int /\ o \in Int /\ p \in Nat \ {0}
      /\ line.ex \in Int /\ line.ey \in Int /\ ToX \in Int /\ ToY \in Int
      /\ Dx * p \in Int /\ Dy * p \in Int
  BY LineTyped, RestOfLine, PixelWidth
<1>2. /\ line.on /\ Dx # 0 /\ o = Dx * RestY - Dy * RestX
      /\ Before(Dx, RestX, p) /\ Before(Dy, RestY, p) /\ Cut(o, Dx, Dy)
      /\ ~(Within(RestX, p) /\ Within(RestY, p))
  BY RestOfLine DEF Right, Slanted, OnTheWay
<1>3. o + Dy * p >= 0 /\ o - Dx * p + Dy * p <= 0
  BY DEF Right, LeavesRight, p_up, p_left, p_right
<1>4. Dx > 0 /\ RestX >= p
  BY <1>1, <1>2, <1>3, BeyondRight
<1>5. Crossing(line.ex + 1, line.ey, o + Dy * p)
  BY Sides
<1>6. o + Dy * p \in Int /\ line.ex + 1 \in Int
  BY <1>1
<1>7. /\ RasterTypes' /\ Dx' = Dx /\ Dy' = Dy /\ ToX' = ToX /\ ToY' = ToY
      /\ line'.ex = line.ex + 1 /\ line'.ey = line.ey /\ line'.prod = o + Dy * p
      /\ RestX' = RestX - p * (line.ex + 1 - line.ex) /\ RestY' = RestY - p * (line.ey - line.ey)
  BY <1>1, <1>5, <1>6, AfterCrossing
<1>8. RestX' = RestX - p /\ RestY' = RestY
  BY <1>1, <1>7
<1>9. Before(Dx', RestX', p) /\ Before(Dy', RestY', p)
  BY <1>1, <1>2, <1>4, <1>7, <1>8 DEF Before
<1>10. line'.prod = Dx' * RestY' - Dy' * RestX'
  <2>1. Dy * (RestX - p) = Dy * RestX - Dy * p
    BY <1>1
  <2> QED BY <1>1, <1>2, <1>7, <1>8, <2>1
<1>11. Cut(o + Dy * p, Dx, Dy)
  BY <1>1, <1>3, <1>4, CutRight
<1>12. OnTheWay'
  BY <1>7, <1>9, <1>10, <1>11 DEF OnTheWay, Before, Cut, Corner, ONE_PIXEL
<1>13. line.ex < ToX
  BY <1>1, <1>4, RestOfLine
<1>14. Remaining' < Remaining
  BY <1>7, <1>13, OneLess
<1> QED BY <1>7, <1>12, <1>14 DEF Nearer

\* ... or below.
LEMMA GoesDown ==
  ASSUME RasterTypes, OnTheWay, Down
  PROVE  RasterTypes' /\ Nearer
<1> DEFINE p == ONE_PIXEL
           o == line.prod
<1>1. /\ Dx \in Int /\ Dy \in Int /\ RestX \in Int /\ RestY \in Int /\ o \in Int /\ p \in Nat \ {0}
      /\ line.ex \in Int /\ line.ey \in Int /\ ToX \in Int /\ ToY \in Int
      /\ Dx * p \in Int /\ Dy * p \in Int
  BY LineTyped, RestOfLine, PixelWidth
<1>2. /\ line.on /\ Dx # 0 /\ o = Dx * RestY - Dy * RestX
      /\ Before(Dx, RestX, p) /\ Before(Dy, RestY, p) /\ Cut(o, Dx, Dy)
      /\ ~(Within(RestX, p) /\ Within(RestY, p))
  BY RestOfLine DEF Down, Slanted, OnTheWay
<1>3. /\ ~(o - Dx * p > 0 /\ o <= 0)
      /\ ~(o - Dx * p + Dy * p > 0 /\ o - Dx * p <= 0)
      /\ ~(o + Dy * p >= 0 /\ o - Dx * p + Dy * p <= 0)
  BY DEF Down, LeavesLeft, LeavesUp, LeavesRight, p_up, p_left, p_right
<1>4. Dy < 0 /\ RestY < 0
  <2>1. Dy < 0 /\ o >= 0 /\ o + Dy * p <= 0 /\ (o + Dy * p < 0 \/ o - Dx * p + Dy * p > 0)
    BY <1>1, <1>2, <1>3, CutDown
  <2> QED BY <1>1, <1>2, <2>1, BeyondDown
<1>5. Crossing(line.ex, line.ey - 1, o + Dx * p)
  BY Sides
<1>6. o + Dx * p \in Int /\ line.ey - 1 \in Int
  BY <1>1
<1>7. /\ RasterTypes' /\ Dx' = Dx /\ Dy' = Dy /\ ToX' = ToX /\ ToY' = ToY
      /\ line'.ex = line.ex /\ line'.ey = line.ey - 1 /\ line'.prod = o + Dx * p
      /\ RestX' = RestX - p * (line.ex - line.ex) /\ RestY' = RestY - p * (line.ey - 1 - line.ey)
  BY <1>1, <1>5, <1>6, AfterCrossing
<1>8. RestX' = RestX /\ RestY' = RestY + p
  BY <1>1, <1>7
<1>9. Before(Dx', RestX', p) /\ Before(Dy', RestY', p)
  BY <1>1, <1>2, <1>4, <1>7, <1>8 DEF Before
<1>10. line'.prod = Dx' * RestY' - Dy' * RestX'
  <2>1. Dx * (RestY + p) = Dx * RestY + Dx * p
    BY <1>1
  <2> QED BY <1>1, <1>2, <1>7, <1>8, <2>1
<1>11. Cut(o + Dx * p, Dx, Dy)
  BY <1>1, <1>2, <1>3, CutDown
<1>12. OnTheWay'
  BY <1>7, <1>9, <1>10, <1>11 DEF OnTheWay, Before, Cut, Corner, ONE_PIXEL
<1>13. line.ey > ToY
  BY <1>1, <1>4, RestOfLine
<1>14. Remaining' < Remaining
  BY <1>7, <1>13, OneLess
<1> QED BY <1>7, <1>12, <1>14 DEF Nearer

\* A vertical line goes up or down.
LEMMA GoesVertically ==
  ASSUME RasterTypes, OnTheWay, Vertical
  PROVE  RasterTypes' /\ Nearer
<1> DEFINE p == ONE_PIXEL
           o == line.prod
           s == IF Dy > 0 THEN 1 ELSE -1
<1>1. /\ Dx \in Int /\ Dy \in Int /\ RestX \in Int /\ RestY \in Int /\ o \in Int /\ p \in Nat \ {0}
      /\ line.ex \in Int /\ line.ey \in Int /\ ToX \in Int /\ ToY \in Int
      /\ s \in Int /\ line.ey + s \in Int
  BY LineTyped, RestOfLine, PixelWidth
<1>2. /\ line.on /\ Dx = 0 /\ o = Dx * RestY - Dy * RestX
      /\ Before(Dx, RestX, p) /\ Before(Dy, RestY, p)
      /\ ~(Within(RestX, p) /\ Within(RestY, p))
  BY RestOfLine DEF Vertical, OnTheWay
<1>3. Within(RestX, p) /\ ~Within(RestY, p)
  BY <1>1, <1>2 DEF Before, Within
<1>4. (Dy > 0 => RestY >= p) /\ (~(Dy > 0) => RestY < 0)
  BY <1>1, <1>2, <1>3 DEF Before, Within
<1>5. Crossing(line.ex, line.ey + s, o)
  <2>1. CASE Dy > 0
    BY <2>1, Sides
  <2>2. CASE ~(Dy > 0)
    <3>1. line.ey + s = line.ey - 1
      BY <1>1, <2>2
    <3> QED BY <2>2, <3>1, Sides, Zenon
  <2> QED BY <2>1, <2>2
<1>6. /\ RasterTypes' /\ Dx' = Dx /\ Dy' = Dy /\ ToX' = ToX /\ ToY' = ToY
      /\ line'.ex = line.ex /\ line'.ey = line.ey + s /\ line'.prod = o
      /\ RestX' = RestX - p * (line.ex - line.ex) /\ RestY' = RestY - p * (line.ey + s - line.ey)
  BY <1>1, <1>5, AfterCrossing
<1>7. RestX' = RestX /\ RestY' = RestY - p * s
  BY <1>1, <1>6
<1>8. Before(Dx', RestX', p) /\ Before(Dy', RestY', p)
  BY <1>1, <1>2, <1>4, <1>6, <1>7 DEF Before
<1>9. line'.prod = Dx' * RestY' - Dy' * RestX'
  BY <1>1, <1>2, <1>6, <1>7
<1>10. OnTheWay'
  BY <1>2, <1>6, <1>8, <1>9 DEF OnTheWay, Before, ONE_PIXEL
<1>11. (Dy > 0 => line.ey < ToY) /\ (~(Dy > 0) => line.ey > ToY)
  BY <1>1, <1>4, RestOfLine
<1>12. Remaining' < Remaining
  BY <1>1, <1>6, <1>11, OneLess
<1> QED BY <1>6, <1>10, <1>12 DEF Nearer

-----------------------------------------------------------------------------
(* Actions                                                                 *)

\* The task at hand is done or replaced by pieces.
LEMMA PathGoesOn ==
  ASSUME PathInv, NEW op, Doing(op), pass' = pass,
         NEW new \in Seq(Pieces), todo' = new \o Tail(todo),
         NEW to \in Point, due' = IF op \in PieceOps THEN due ELSE to,
         op \in PieceOps => to = Head(todo).points[1],
         IF Len(new) > 0 THEN new[Len(new)].points[1] = to
                         ELSE IF line'.on THEN line'.to = to ELSE at' = to,
         at' \in Point, line' \in Line, OnTheWay'
  PROVE  PathInv'
<1>1. RasterTypes /\ Meeting
  BY DEF PathInv
<1>2. pass.running /\ ~line.on /\ todo # <<>> /\ Head(todo).op = op
  BY DEF Doing
<1>3. due' \in Point
  BY <1>1 DEF RasterTypes
<1>4. RasterTypes'
  BY <1>1, <1>2, <1>3, TaskDone
<1>5. pass'.running
  BY <1>2
<1>6. Meeting'
  BY <1>1, <1>2, <1>5, PiecesMeet
<1> QED BY <1>4, <1>6 DEF PathInv

\* A line is drawn for the task at hand.
LEMMA LineGoesOn ==
  ASSUME PathInv, NEW op, Doing(op), pass' = pass, Instead(<<>>),
         NEW to \in Point, render_line(to), due' = IF op \in PieceOps THEN due ELSE to,
         op \in PieceOps => to = Head(todo).points[1]
  PROVE  PathInv'
<1> DEFINE none == <<>>
<1>1. RasterTypes /\ OnTheWay /\ ~line.on
  BY DEF PathInv, Doing
<1>2. /\ (at' = to /\ line' = line) \/ (line'.on /\ line'.to = to)
      /\ at' \in Point /\ line' \in Line
  BY <1>1, LineBegun
<1>3. OnTheWay'
  BY <1>1, BegunOnTheWay
<1>4. none \in Seq(Pieces) /\ Len(none) = 0 /\ todo' = none \o Tail(todo)
  BY DEF Instead
<1> HIDE DEF none
<1>5. IF Len(none) > 0 THEN none[Len(none)].points[1] = to
                       ELSE IF line'.on THEN line'.to = to ELSE at' = to
  BY <1>1, <1>2, <1>4
<1> QED BY <1>2, <1>3, <1>4, <1>5, PathGoesOn

\* The operand of a task.
LEMMA Operands ==
  ASSUME RasterTypes, NEW op, Doing(op)
  PROVE  /\ op \in {"move", "line"} => Argument(1) \in Point
         /\ op = "curve" => \A k \in 1..Len(Head(todo).points) : Argument(k) \in Point
         /\ op = "sub" => Head(todo).points[1] \in Point
         /\ op = "arc" => \A k \in 1..4 : Head(todo).points[k] \in Point
<1>1. Head(todo) \in Tasked /\ Head(todo).op = op /\ pass \in Pass
  BY HeadTyped DEF Doing, RasterTypes
<1> QED BY <1>1, TaskPoints, Upscaled DEF Argument

\* Each action of decompose.
LEMMA MoveKeeps == PathInv /\ move_to => PathInv'
<1> SUFFICES ASSUME PathInv, move_to PROVE PathInv'
  OBVIOUS
<1> DEFINE none == <<>>
           to == Argument(1)
<1>1. RasterTypes /\ OnTheWay /\ Doing("move") /\ line \in Line /\ ~line.on
  BY DEF PathInv, move_to, RasterTypes, Doing
<1>2. to \in Point
  BY <1>1, Operands
<1>3. pass' = pass /\ line' = line /\ at' = to /\ due' = to /\ "move" \notin PieceOps
  BY DEF move_to, PieceOps
<1>4. none \in Seq(Pieces) /\ Len(none) = 0 /\ todo' = none \o Tail(todo)
  BY DEF move_to, Instead
<1>5. OnTheWay'
  BY <1>1, <1>3 DEF OnTheWay
<1> HIDE DEF none, to
<1>6. IF Len(none) > 0 THEN none[Len(none)].points[1] = to
                       ELSE IF line'.on THEN line'.to = to ELSE at' = to
  BY <1>1, <1>3, <1>4
<1> QED BY <1>1, <1>2, <1>3, <1>4, <1>5, <1>6, PathGoesOn

LEMMA LineKeeps == PathInv /\ line_to => PathInv'
<1> SUFFICES ASSUME PathInv, line_to PROVE PathInv'
  OBVIOUS
<1> DEFINE to == Argument(1)
<1>1. RasterTypes /\ Doing("line") /\ "line" \notin PieceOps
  BY DEF PathInv, line_to, PieceOps
<1>2. to \in Point
  BY <1>1, Operands
<1>3. pass' = pass /\ Instead(<<>>) /\ render_line(to) /\ due' = to
  BY DEF line_to
<1> HIDE DEF to
<1> QED BY <1>1, <1>2, <1>3, LineGoesOn

LEMMA SubKeeps == PathInv /\ sub_line => PathInv'
<1> SUFFICES ASSUME PathInv, sub_line PROVE PathInv'
  OBVIOUS
<1> DEFINE to == Head(todo).points[1]
<1>1. RasterTypes /\ Doing("sub") /\ "sub" \in PieceOps
  BY DEF PathInv, sub_line, PieceOps
<1>2. to \in Point
  BY <1>1, Operands
<1>3. pass' = pass /\ Instead(<<>>) /\ render_line(to) /\ due' = due
  BY DEF sub_line
<1> QED BY <1>1, <1>2, <1>3, LineGoesOn

LEMMA ConicKeeps == PathInv /\ render_conic => PathInv'
<1> SUFFICES ASSUME PathInv, render_conic PROVE PathInv'
  OBVIOUS
<1> DEFINE to == Argument(2)
           lines == conic_lines(at, Argument(1), to)
           subs == [k \in DOMAIN lines |-> Task("sub", <<lines[k]>>)]
           none == <<>>
<1>1. /\ RasterTypes /\ OnTheWay /\ at \in Point /\ line \in Line /\ ~line.on
      /\ Doing("curve") /\ "curve" \notin PieceOps /\ Len(Head(todo).points) = 2
  BY DEF PathInv, render_conic, RasterTypes, Doing, PieceOps
<1>2. Argument(1) \in Point /\ to \in Point
  BY <1>1, Operands
<1>3. pass' = pass /\ line' = line /\ due' = to
  BY DEF render_conic
<1>4. OnTheWay'
  BY <1>1, <1>3 DEF OnTheWay
<1>5. \/ todo' = none \o Tail(todo) /\ at' = to
      \/ todo' = subs \o Tail(todo) /\ at' = at
  BY DEF render_conic, Instead, Reached
<1>6. CASE todo' = none \o Tail(todo) /\ at' = to
  <2>1. none \in Seq(Pieces) /\ Len(none) = 0
    OBVIOUS
  <2> HIDE DEF none, to
  <2>2. IF Len(none) > 0 THEN none[Len(none)].points[1] = to
                         ELSE IF line'.on THEN line'.to = to ELSE at' = to
    BY <1>1, <1>3, <1>6, <2>1
  <2> QED BY <1>1, <1>2, <1>3, <1>4, <1>6, <2>1, <2>2, PathGoesOn
<1>7. CASE todo' = subs \o Tail(todo) /\ at' = at
  <2>1. lines \in Seq(Point) /\ Len(lines) > 0 /\ lines[Len(lines)] = to
    BY <1>1, <1>2, ConicLines
  <2> HIDE DEF lines
  <2>2. DOMAIN lines = 1..Len(lines) /\ Len(lines) \in Nat /\ \A k \in 1..Len(lines) : lines[k] \in Point
    BY <2>1
  <2>3. \A k \in 1..Len(lines) : Task("sub", <<lines[k]>>) \in Pieces
    BY <2>2, TaskTyped
  <2>4. subs \in Seq(Pieces) /\ Len(subs) = Len(lines)
    BY <2>2, <2>3
  <2>5. subs[Len(subs)].points[1] = to
    <3>1. Len(lines) \in DOMAIN lines
      BY <2>1, <2>2
    <3>2. subs[Len(lines)] = Task("sub", <<lines[Len(lines)]>>)
      BY <3>1
    <3> QED BY <2>1, <2>4, <3>2 DEF Task
  <2> HIDE DEF subs, to
  <2>6. IF Len(subs) > 0 THEN subs[Len(subs)].points[1] = to
                         ELSE IF line'.on THEN line'.to = to ELSE at' = to
    BY <2>1, <2>4, <2>5
  <2> QED BY <1>1, <1>2, <1>3, <1>4, <1>7, <2>4, <2>6, PathGoesOn
<1> QED BY <1>5, <1>6, <1>7

LEMMA CubicKeeps == PathInv /\ render_cubic => PathInv'
<1> SUFFICES ASSUME PathInv, render_cubic PROVE PathInv'
  OBVIOUS
<1> DEFINE to == Argument(3)
           arc == <<to, Argument(2), Argument(1), at>>
           arcs == <<Task("arc", arc)>>
<1>1. /\ RasterTypes /\ OnTheWay /\ at \in Point /\ line \in Line /\ ~line.on
      /\ Doing("curve") /\ "curve" \notin PieceOps /\ Len(Head(todo).points) = 3
  BY DEF PathInv, render_cubic, RasterTypes, Doing, PieceOps
<1>2. Argument(1) \in Point /\ Argument(2) \in Point /\ to \in Point
  <2>1. \A k \in 1..3 : Argument(k) \in Point
    BY <1>1, Operands
  <2> QED BY <2>1
<1>3. pass' = pass /\ line' = line /\ due' = to /\ at' = at /\ todo' = arcs \o Tail(todo)
  BY DEF render_cubic, Instead
<1>4. OnTheWay'
  BY <1>1, <1>3 DEF OnTheWay
<1>5. arc \in [1..4 -> Point] /\ arc[1] = to
  BY <1>1, <1>2
<1> HIDE DEF arc
<1>6. Task("arc", arc) \in Pieces /\ Task("arc", arc).points = arc
  BY <1>5, ArcTyped DEF Task
<1>7. arcs \in Seq(Pieces) /\ Len(arcs) = 1 /\ arcs[1].points[1] = to
  BY <1>5, <1>6
<1> HIDE DEF arcs, to
<1>8. IF Len(arcs) > 0 THEN arcs[Len(arcs)].points[1] = to
                       ELSE IF line'.on THEN line'.to = to ELSE at' = to
  BY <1>7
<1> QED BY <1>1, <1>2, <1>3, <1>4, <1>7, <1>8, PathGoesOn

LEMMA ArcKeeps == PathInv /\ pop_arc => PathInv'
<1> SUFFICES ASSUME PathInv, pop_arc PROVE PathInv'
  OBVIOUS
<1> DEFINE arc == Head(todo).points
           to == arc[1]
           none == <<>>
           both == <<Task("arc", Halves(arc).left), Task("arc", Halves(arc).right)>>
<1>1. /\ RasterTypes /\ OnTheWay /\ at \in Point /\ line \in Line /\ ~line.on
      /\ Doing("arc") /\ "arc" \in PieceOps
  BY DEF PathInv, pop_arc, RasterTypes, Doing, PieceOps
<1>2. to \in Point /\ \A k \in 1..4 : arc[k] \in Point
  BY <1>1, Operands
<1>3. pass' = pass /\ due' = due
  BY DEF pop_arc
<1>4. \/ todo' = none \o Tail(todo) /\ at' = to /\ line' = line
      \/ Instead(<<>>) /\ render_line(to)
      \/ todo' = both \o Tail(todo) /\ at' = at /\ line' = line
  BY DEF pop_arc, Instead, Reached
<1>5. CASE todo' = none \o Tail(todo) /\ at' = to /\ line' = line
  <2>1. none \in Seq(Pieces) /\ Len(none) = 0
    OBVIOUS
  <2>2. OnTheWay'
    BY <1>1, <1>5 DEF OnTheWay
  <2> HIDE DEF none
  <2>3. IF Len(none) > 0 THEN none[Len(none)].points[1] = to
                         ELSE IF line'.on THEN line'.to = to ELSE at' = to
    BY <1>1, <1>5, <2>1
  <2> QED BY <1>1, <1>2, <1>3, <1>5, <2>1, <2>2, <2>3, PathGoesOn
<1>6. CASE Instead(<<>>) /\ render_line(to)
  BY <1>1, <1>2, <1>3, <1>6, LineGoesOn
<1>7. CASE todo' = both \o Tail(todo) /\ at' = at /\ line' = line
  <2>1. /\ Halves(arc).left \in [1..4 -> Point] /\ Halves(arc).right \in [1..4 -> Point]
        /\ Halves(arc).right[1] = to
    BY <1>2, HalvesTyped
  <2>2. /\ Task("arc", Halves(arc).left) \in Pieces /\ Task("arc", Halves(arc).right) \in Pieces
        /\ Task("arc", Halves(arc).right).points = Halves(arc).right
    BY <2>1, ArcTyped DEF Task
  <2>3. both \in Seq(Pieces) /\ Len(both) = 2 /\ both[2].points[1] = to
    BY <2>1, <2>2
  <2>4. OnTheWay'
    BY <1>1, <1>7 DEF OnTheWay
  <2> HIDE DEF both
  <2>5. IF Len(both) > 0 THEN both[Len(both)].points[1] = to
                         ELSE IF line'.on THEN line'.to = to ELSE at' = to
    BY <2>3
  <2> QED BY <1>1, <1>2, <1>3, <1>7, <2>3, <2>4, <2>5, PathGoesOn
<1> QED BY <1>4, <1>5, <1>6, <1>7

\* A pass begins and ends.
LEMMA PassKeeps == PathInv /\ (convert_glyph \/ Refuse \/ sweep) => PathInv'
<1> SUFFICES ASSUME PathInv, convert_glyph \/ Refuse \/ sweep PROVE PathInv'
  OBVIOUS
<1>1. RasterTypes /\ OnTheWay /\ Meeting
  BY DEF PathInv
<1>2. line' = line /\ at' = at /\ due' = due
  BY DEF convert_glyph, Refuse, sweep
<1>3. OnTheWay'
  BY <1>1, <1>2 DEF OnTheWay, Before, Cut, Corner, Dx, Dy, RestX, RestY, ONE_PIXEL
<1>4. PICK n \in Nat : PiecesFirst(n, todo) /\ Leads(n, todo)
  BY <1>1 DEF Meeting
<1>5. todo \in Seq(Tasked) /\ pass \in Pass /\ line \in Line /\ at \in Point /\ due \in Point
  BY <1>1 DEF RasterTypes, Tasked
<1>6. ASSUME NEW tasks \in Seq(Calls) PROVE PiecesFirst(0, tasks)
  <2>1. \A i \in 1..Len(tasks) : tasks[i] \in Calls /\ tasks[i] \in Tasked
    BY DEF Tasked
  <2>2. \A t \in Calls : t.op \notin PieceOps
    BY DEF Calls, Called, PieceOps
  <2>3. \A i \in 1..Len(tasks) : tasks[i].op \notin PieceOps
    BY <2>1, <2>2
  <2> QED BY <2>3 DEF PiecesFirst
<1>7. CASE convert_glyph
  <2>1. PICK mode \in Modes, outline \in (IF pass.number = 0 THEN Outlines ELSE Again) :
          /\ pass' = [number |-> pass.number + 1, running |-> TRUE, mode |-> mode]
          /\ todo' = Tasks(outline)
    BY <1>7 DEF convert_glyph
  <2>2. todo' \in Seq(Calls)
    BY <2>1, OutlinesAssumption
  <2>3. pass' \in Pass /\ pass'.running
    <3>1. pass.number + 1 \in Nat
      BY <1>5 DEF Pass
    <3>2. mode \in [box : [minX : Int, maxX : Int, minY : Int, maxY : Int],
                    offset : Point, evenOdd : BOOLEAN]
      BY <2>1, RasterAssumption DEF Point
    <3> QED BY <2>1, <3>1, <3>2, Zenon DEF Pass
  <2>4. RasterTypes'
    BY <1>2, <1>5, <2>2, <2>3 DEF RasterTypes
  <2>5. n = 0
    <3>1. todo = <<>>
      BY <1>1, <1>7 DEF Meeting, convert_glyph
    <3> QED BY <1>4, <3>1 DEF PiecesFirst
  <2>6. PiecesFirst(0, todo') /\ Leads(0, todo)'
    BY <1>2, <1>4, <1>6, <2>2, <2>5 DEF Leads
  <2> QED BY <1>3, <2>3, <2>4, <2>6 DEF PathInv, Meeting
<1>8. CASE Refuse
  <2>1. pass' = [pass EXCEPT !.running = FALSE] /\ todo' = <<>>
        /\ todo # <<>> /\ Head(todo).op = "bad" /\ ~line.on
    BY <1>8 DEF Refuse, Doing
  <2>2. RasterTypes' /\ todo' \in Seq(Calls)
    <3>1. pass' \in Pass
      BY <1>5, <2>1 DEF Pass
    <3>2. todo' \in Seq(Calls) /\ todo' \in Seq(Tasked)
      BY <2>1
    <3> QED BY <1>2, <1>5, <3>1, <3>2 DEF RasterTypes, Tasked
  <2>3. n = 0
    <3>1. 1 \in 1..Len(todo) /\ Head(todo) = todo[1]
      BY <1>5, <2>1
    <3>2. ~(1 <= n)
      BY <1>4, <2>1, <3>1 DEF PiecesFirst, PieceOps
    <3> QED BY <3>2
  <2>4. PiecesFirst(0, todo') /\ Leads(0, todo)'
    BY <1>2, <1>4, <1>6, <2>2, <2>3 DEF Leads
  <2> QED BY <1>3, <2>1, <2>2, <2>4 DEF PathInv, Meeting
<1>9. CASE sweep
  <2>1. pass' = [pass EXCEPT !.running = FALSE] /\ todo' = todo /\ todo = <<>>
    BY <1>9 DEF sweep
  <2>2. RasterTypes'
    BY <1>2, <1>5, <2>1 DEF RasterTypes, Pass, Tasked
  <2>3. PiecesFirst(n, todo') /\ Leads(n, todo)'
    BY <1>2, <1>4, <2>1 DEF Leads
  <2> QED BY <1>3, <2>1, <2>2, <2>3 DEF PathInv, Meeting
<1> QED BY <1>7, <1>8, <1>9

\* A step of a line comes nearer to its end and leads where the line led; the
\* last one arrives.
LEMMA StepKeeps ==
  ASSUME PathInv, Step
  PROVE  PathInv' /\ (line'.on => Remaining' < Remaining)
<1>1. RasterTypes /\ OnTheWay /\ Meeting
  BY DEF PathInv
<1>2. PICK n \in Nat : PiecesFirst(n, todo) /\ Leads(n, todo)
  BY <1>1 DEF Meeting
<1>3. CASE EndLine
  <2>1. /\ line' = NoLine /\ at' = line.to /\ line.on
        /\ pass' = pass /\ todo' = todo /\ due' = due
    BY <1>3 DEF EndLine, Reached
  <2>2. line' \in Line /\ ~line'.on
    BY <2>1 DEF NoLine, Line, Point
  <2>3. at' \in Point
    BY <1>1, <2>1 DEF RasterTypes, Line
  <2>4. RasterTypes' /\ OnTheWay'
    BY <1>1, <2>1, <2>2, <2>3 DEF RasterTypes, OnTheWay
  <2>5. Leads(n, todo)'
    BY <1>2, <2>1, <2>2 DEF Leads
  <2>6. Meeting'
    BY <1>1, <1>2, <2>1, <2>5 DEF Meeting
  <2> QED BY <2>2, <2>4, <2>6 DEF PathInv
<1>4. CASE Left \/ Up \/ Right \/ Down \/ Vertical
  <2>1. RasterTypes' /\ Nearer
    BY <1>1, <1>4, GoesLeft, GoesUp, GoesRight, GoesDown, GoesVertically
  <2>2. line'.to = line.to /\ line'.on = line.on /\ UNCHANGED <<pass, at, todo, due>>
    BY <1>1, <1>4, Sides DEF Crossing
  <2>3. Leads(n, todo)'
    BY <1>2, <2>2 DEF Leads
  <2>4. Meeting'
    BY <1>1, <1>2, <2>2, <2>3 DEF Meeting
  <2> QED BY <2>1, <2>4 DEF PathInv, Nearer
<1> QED BY <1>3, <1>4 DEF Step

-----------------------------------------------------------------------------
(* Theorems                                                                *)

LEMMA RasterInit == Init => PathInv
<1> SUFFICES ASSUME Init PROVE PathInv
  OBVIOUS
<1>1. /\ pass = Idle /\ at = <<0, 0>> /\ line = NoLine /\ todo = <<>> /\ due = <<0, 0>>
  BY DEF Init
<1>2. RasterTypes
  BY <1>1 DEF RasterTypes, Idle, NoLine, Pass, Line, Point
<1>3. OnTheWay
  BY <1>1 DEF OnTheWay, NoLine
<1>4. PiecesFirst(0, todo) /\ Leads(0, todo)
  BY <1>1 DEF PiecesFirst, Leads, NoLine
<1>5. Meeting
  BY <1>1, <1>4 DEF Meeting
<1> QED BY <1>2, <1>3, <1>5 DEF PathInv

LEMMA RasterNext == PathInv /\ [Next]_vars => PathInv'
<1> SUFFICES ASSUME PathInv, [Next]_vars PROVE PathInv'
  OBVIOUS
<1>1. CASE UNCHANGED vars
  BY <1>1 DEF vars, PathInv, RasterTypes, OnTheWay, Meeting, Leads, Before, Cut, Corner, Dx, Dy, RestX, RestY, ONE_PIXEL
<1>2. CASE Next
  BY <1>2, PassKeeps, MoveKeeps, LineKeeps, ConicKeeps, CubicKeeps, ArcKeeps, SubKeeps, StepKeeps
     DEF Next
<1> QED BY <1>1, <1>2

LEMMA RasterInvariance == Spec => []PathInv
<1> QED BY RasterInit, RasterNext, PTL DEF Spec

\* The state of a pass has its types: points, lines, and tasks of the outline or of
\* a curve.
THEOREM RasterTypesHold == Spec => []RasterTypes
BY RasterInvariance, PTL DEF PathInv

\* When the pieces of a curve are rendered the path is where the outline says,
\* however the curve was split, whatever was skipped (render_conic, render_cubic).
THEOREM CurvesAlwaysMeet == Spec => []CurvesMeet
<1>1. PathInv => CurvesMeet
  <2> SUFFICES ASSUME PathInv, pass.running, ~line.on,
                      todo # <<>> => Head(todo).op \notin {"sub", "arc"}
               PROVE  at = due
    BY DEF CurvesMeet
  <2>1. PICK n \in Nat : PiecesFirst(n, todo) /\ Leads(n, todo)
    BY DEF PathInv, Meeting
  <2>2. todo \in Seq(Tasked)
    BY DEF PathInv, RasterTypes, Tasked
  <2>3. ASSUME n > 0 PROVE FALSE
    <3>1. 1 \in 1..Len(todo) /\ todo # <<>> /\ Head(todo) = todo[1]
      BY <2>1, <2>2, <2>3 DEF PiecesFirst
    <3> QED BY <2>1, <2>3, <3>1 DEF PiecesFirst, PieceOps
  <2> QED BY <2>1, <2>3 DEF Leads
<1> QED BY <1>1, RasterInvariance, PTL

\* render_line comes nearer to the end of the line with every pixel, also through
\* corners, so that its loop ends and in the right pixel.
THEOREM LinesArrive == Spec => EachStepNearer
<1>1. PathInv /\ [Next]_vars => [line.on /\ line'.on => Remaining' < Remaining]_line
  <2> SUFFICES ASSUME PathInv, [Next]_vars, line.on, line'.on, line' # line
               PROVE  Remaining' < Remaining
    OBVIOUS
  <2>1. Step
    BY DEF vars, Next, Doing, convert_glyph, move_to, line_to, render_conic, render_cubic,
           pop_arc, sub_line, Refuse, sweep
  <2> QED BY <2>1, StepKeeps
<1> QED BY <1>1, RasterInvariance, PTL DEF Spec, EachStepNearer

-----------------------------------------------------------------------------
(* Cells                                                                   *)

Cell == [x : Int, cover : Int, area : Int]
Scanline == Seq(Cell)

\* A row of cells: from left to right, from one pixel left of the box on, each pixel once.
InOrderFrom(cells, left, right) ==
  /\ \A i \in DOMAIN cells : left <= cells[i].x /\ cells[i].x < right
  /\ \A i, j \in DOMAIN cells : i < j => cells[i].x < cells[j].x

Height == Box.maxY - Box.minY

\* The cells r of a pass with clip box Box.
Cells(r) ==
  /\ r \in [scanlines : Seq(Scanline), row : Nat, idx : Nat]
  /\ r.row # Dumpster => r.row \in DOMAIN r.scanlines /\ r.idx \in DOMAIN r.scanlines[r.row]
  /\ pass.running =>
       /\ Box.minX < Box.maxX /\ Box.minY < Box.maxY /\ Height <= Len(r.scanlines)
       /\ \A y \in 1..Height : InOrderFrom(r.scanlines[y], Box.minX - 1, Box.maxX)

\* The numbers that are smaller than others come first.
LEMMA SmallerFirst ==
  ASSUME NEW n \in Nat, NEW P \in SUBSET (1..n),
         \A i \in P, j \in 1..n : j < i => j \in P
  PROVE  Cardinality(P) \in 0..n /\ P = 1..Cardinality(P)
<1> DEFINE Q == (1..(n + 1)) \ P
<1>1. Q # {} /\ Q \subseteq Nat
  <2>1. n + 1 \in Q
    OBVIOUS
  <2> QED BY <2>1
<1>2. PICK m \in Q : \A j \in Q : <<j, m>> \notin OpToRel(<, Nat)
  <2> HIDE DEF Q
  <2> QED BY <1>1, NatLessThanWellFounded, WFMin
<1>3. \A j \in Q : ~(j < m)
  <2>1. \A j \in Q : j \in Nat /\ m \in Nat
    BY <1>1
  <2> QED BY <1>2, <2>1 DEF OpToRel
<1>4. P = 1..(m - 1)
  <2>1. \A j \in 1..(m - 1) : j \in P
    BY <1>3
  <2>2. \A j \in P : j \in 1..(m - 1)
    <3> SUFFICES ASSUME NEW j \in P, ~(j < m) PROVE FALSE
      OBVIOUS
    <3>1. j # m
      OBVIOUS
    <3>2. m < j /\ m \in 1..n
      BY <3>1
    <3> QED BY <3>2
  <2> QED BY <2>1, <2>2
<1>5. m - 1 \in 0..n
  OBVIOUS
<1>6. Cardinality(1..(m - 1)) = m - 1
  BY <1>5, FS_Interval
<1> QED BY <1>4, <1>5, <1>6

\* Vec::insert: the entries behind the new one move down by one.
IsInserted(t, S, es, i, e) ==
  /\ t \in Seq(S) /\ Len(t) = Len(es) + 1 /\ DOMAIN t = 1..(Len(es) + 1)
  /\ \A j \in 1..(Len(es) + 1) :
       t[j] = IF j < i THEN es[j] ELSE IF j = i THEN e ELSE es[j - 1]

LEMMA Inserted ==
  ASSUME NEW S, NEW es \in Seq(S), NEW i \in 1..(Len(es) + 1), NEW e \in S,
         NEW t, t = InsertAt(es, i, e)
  PROVE  IsInserted(t, S, es, i, e)
<1> DEFINE l == SubSeq(es, 1, i - 1)
           r == SubSeq(es, i, Len(es))
           m == l \o <<e>>
<1>1. l \in Seq(S) /\ Len(l) = i - 1 /\ \A j \in 1..(i - 1) : l[j] = es[j]
  OBVIOUS
<1>2. r \in Seq(S) /\ Len(r) = Len(es) - i + 1 /\ \A j \in 1..(Len(es) - i + 1) : r[j] = es[i + j - 1]
  OBVIOUS
<1>3. t = m \o r
  BY DEF InsertAt
<1> HIDE DEF l, r
<1>4. m \in Seq(S) /\ Len(m) = i /\ m[i] = e /\ \A j \in 1..(i - 1) : m[j] = es[j]
  <2>1. <<e>> \in Seq(S) /\ Len(<<e>>) = 1 /\ <<e>>[1] = e
    OBVIOUS
  <2>2. /\ m \in Seq(S) /\ Len(m) = Len(l) + 1
        /\ \A j \in 1..(Len(l) + 1) : m[j] = IF j <= Len(l) THEN l[j] ELSE <<e>>[j - Len(l)]
    BY <1>1, <2>1, Concatenation
  <2>3. Len(m) = i /\ i - Len(l) = 1 /\ ~(i <= Len(l)) /\ i \in 1..(Len(l) + 1)
    BY <1>1, <2>2
  <2> HIDE DEF m
  <2>4. m[i] = <<e>>[1]
    BY <2>2, <2>3
  <2>5. \A j \in 1..(i - 1) : m[j] = es[j]
    BY <1>1, <2>2
  <2> QED BY <2>1, <2>2, <2>3, <2>4, <2>5
<1> HIDE DEF m
<1>5. /\ t \in Seq(S) /\ Len(t) = Len(m) + Len(r)
      /\ \A j \in 1..(Len(m) + Len(r)) : t[j] = IF j <= Len(m) THEN m[j] ELSE r[j - Len(m)]
  BY <1>2, <1>3, <1>4, Concatenation
<1>6. Len(t) = Len(es) + 1 /\ DOMAIN t = 1..(Len(es) + 1)
  BY <1>2, <1>4, <1>5
<1>7. ASSUME NEW j \in 1..(Len(es) + 1)
      PROVE  t[j] = IF j < i THEN es[j] ELSE IF j = i THEN e ELSE es[j - 1]
  <2>1. CASE j <= i
    BY <1>2, <1>4, <1>5, <2>1
  <2>2. CASE j > i
    <3>1. j - i \in 1..(Len(es) - i + 1) /\ i + (j - i) - 1 = j - 1
      BY <2>2
    <3>2. t[j] = r[j - i]
      BY <1>2, <1>4, <1>5, <2>2
    <3>3. r[j - i] = es[i + (j - i) - 1]
      BY <1>2, <3>1
    <3> QED BY <2>2, <3>1, <3>2, <3>3
  <2> QED BY <2>1, <2>2
<1> QED BY <1>5, <1>6, <1>7 DEF IsInserted

\* set_cell finds the place of a pixel in its row: the cells before it are to the
\* left of it, ...
LEMMA CellPlace ==
  ASSUME NEW cells \in Scanline, NEW x \in Int, NEW left \in Int, NEW right \in Int,
         InOrderFrom(cells, left, right)
  PROVE  LET before == Cardinality({i \in DOMAIN cells : cells[i].x < x})
         IN /\ before \in 0..Len(cells)
            /\ \A i \in 1..before : cells[i].x < x
            /\ ~(before < Len(cells) /\ cells[before + 1].x = x)
                 => \A i \in (before + 1)..Len(cells) : cells[i].x > x
<1> DEFINE P == {i \in DOMAIN cells : cells[i].x < x}
           before == Cardinality(P)
           n == Len(cells)
<1>1. DOMAIN cells = 1..n /\ n \in Nat /\ \A i \in 1..n : cells[i] \in Cell /\ cells[i].x \in Int
  <2>1. DOMAIN cells = 1..n /\ n \in Nat /\ \A i \in 1..n : cells[i] \in Cell
    BY DEF Scanline
  <2>2. \A c \in Cell : c.x \in Int
    BY DEF Cell
  <2> QED BY <2>1, <2>2
<1>2. before \in 0..n /\ P = 1..before
  <2>1. P \in SUBSET (1..n)
    BY <1>1
  <2>2. \A i \in P, j \in 1..n : j < i => j \in P
    BY <1>1 DEF InOrderFrom
  <2> HIDE DEF P
  <2> QED BY <1>1, <2>1, <2>2, SmallerFirst
<1> HIDE DEF before
<1>3. \A i \in 1..before : cells[i].x < x
  BY <1>2
<1>4. ASSUME ~(before < n /\ cells[before + 1].x = x), NEW i \in (before + 1)..n
      PROVE  cells[i].x > x
  <2>1. before + 1 \in 1..n /\ i \in 1..n
    BY <1>2
  <2>2. i \notin P /\ before + 1 \notin P
    <3> HIDE DEF P
    <3> QED BY <1>2, <2>1
  <2>3. cells[before + 1].x >= x /\ cells[i].x >= x
    BY <1>1, <2>1, <2>2
  <2>4. cells[before + 1].x > x
    BY <1>1, <1>2, <1>4, <2>1, <2>3
  <2>5. i = before + 1 \/ cells[before + 1].x < cells[i].x
    BY <1>1, <1>2, <2>1 DEF InOrderFrom
  <2> QED BY <1>1, <2>1, <2>4, <2>5
<1> QED BY <1>2, <1>3, <1>4 DEF before

\* ... and a cell that is new there keeps the row in order.
LEMMA CellInserted ==
  ASSUME NEW cells \in Scanline, NEW x \in Int, NEW left \in Int, NEW right \in Int,
         InOrderFrom(cells, left, right), left <= x, x < right,
         NEW before \in 0..Len(cells),
         \A i \in 1..before : cells[i].x < x,
         \A i \in (before + 1)..Len(cells) : cells[i].x > x
  PROVE  LET new == InsertAt(cells, before + 1, [x |-> x, cover |-> 0, area |-> 0])
         IN new \in Scanline /\ InOrderFrom(new, left, right) /\ before + 1 \in DOMAIN new
<1> DEFINE cell == [x |-> x, cover |-> 0, area |-> 0]
           new == InsertAt(cells, before + 1, cell)
           n == Len(cells)
<1>1. DOMAIN cells = 1..n /\ n \in Nat /\ \A i \in 1..n : cells[i] \in Cell /\ cells[i].x \in Int
  <2>1. DOMAIN cells = 1..n /\ n \in Nat /\ \A i \in 1..n : cells[i] \in Cell
    BY DEF Scanline
  <2>2. \A c \in Cell : c.x \in Int
    BY DEF Cell
  <2> QED BY <2>1, <2>2
<1>3. cell \in Cell /\ cell.x = x
  BY DEF Cell
<1> HIDE DEF cell
<1>4. before + 1 \in 1..(Len(cells) + 1) /\ cells \in Seq(Cell)
  BY DEF Scanline
<1>5. /\ new \in Seq(Cell) /\ Len(new) = n + 1 /\ DOMAIN new = 1..(n + 1)
      /\ \A j \in 1..(n + 1) :
           new[j] = IF j < before + 1 THEN cells[j] ELSE IF j = before + 1 THEN cell ELSE cells[j - 1]
  <2>1. \A t : t = InsertAt(cells, before + 1, cell) => IsInserted(t, Cell, cells, before + 1, cell)
    BY <1>3, <1>4, Inserted, Zenon
  <2>2. IsInserted(new, Cell, cells, before + 1, cell)
    BY <2>1, Zenon
  <2> HIDE DEF new
  <2> QED BY <2>2 DEF IsInserted
<1> HIDE DEF new
<1>6. ASSUME NEW j \in 1..before PROVE j \in 1..n /\ new[j] = cells[j]
  <2>1. j \in 1..n /\ j \in 1..(n + 1) /\ j < before + 1
    OBVIOUS
  <2> QED BY <1>5, <2>1
<1>7. new[before + 1].x = x
  BY <1>1, <1>3, <1>5
<1>8. \A j \in (before + 2)..(n + 1) : j - 1 \in (before + 1)..n /\ j - 1 \in 1..n /\ new[j] = cells[j - 1]
  BY <1>1, <1>5
<1>9. ASSUME NEW j \in 1..(n + 1)
      PROVE  left <= new[j].x /\ new[j].x < right
  <2>1. \A i \in 1..n : left <= cells[i].x /\ cells[i].x < right
    BY <1>1 DEF InOrderFrom
  <2>2. j \in 1..before \/ j = before + 1 \/ j \in (before + 2)..(n + 1)
    BY <1>1
  <2> QED BY <1>6, <1>7, <1>8, <2>1, <2>2
<1>10. ASSUME NEW i \in 1..(n + 1), NEW j \in 1..(n + 1), i < j
       PROVE  new[i].x < new[j].x
  <2>1. \A k, l \in 1..n : k < l => cells[k].x < cells[l].x
    BY <1>1 DEF InOrderFrom
  <2>2. CASE j \in 1..before
    <3>1. i \in 1..before
      BY <1>10, <2>2
    <3> QED BY <1>6, <1>10, <2>1, <2>2, <3>1
  <2>3. CASE j = before + 1
    <3>1. i \in 1..before
      BY <1>10, <2>3
    <3> QED BY <1>1, <1>6, <1>7, <2>3, <3>1
  <2>4. CASE j \in (before + 2)..(n + 1)
    <3>1. cells[j - 1].x > x /\ new[j] = cells[j - 1] /\ j - 1 \in 1..n
      BY <1>1, <1>8, <2>4
    <3>2. CASE i \in 1..before
      <4>1. new[i] = cells[i] /\ cells[i].x < x /\ i \in 1..n
        BY <1>1, <1>6, <3>2
      <4> QED BY <1>1, <3>1, <4>1
    <3>3. CASE i = before + 1
      BY <1>7, <3>1, <3>3
    <3>4. CASE i \in (before + 2)..(n + 1)
      <4>1. new[i] = cells[i - 1] /\ i - 1 \in 1..n /\ i - 1 < j - 1
        BY <1>1, <1>8, <1>10, <3>4
      <4> QED BY <2>1, <3>1, <4>1
    <3> QED BY <1>1, <3>2, <3>3, <3>4
  <2> QED BY <1>1, <2>2, <2>3, <2>4
<1> QED BY <1>4, <1>5, <1>9, <1>10 DEF InOrderFrom, Scanline, new, cell

\* What Cells says of a pass that runs.
LEMMA CellsRunning ==
  ASSUME RasterTypes, NEW r, Cells(r), pass.running
  PROVE  /\ Box.minX \in Int /\ Box.maxX \in Int /\ Box.minY \in Int /\ Box.maxY \in Int
         /\ Box.minX < Box.maxX /\ Box.minY < Box.maxY
         /\ Height \in Nat \ {0} /\ Height <= Len(r.scanlines)
         /\ \A y \in 1..Height : y \in DOMAIN r.scanlines /\ r.scanlines[y] \in Scanline
                                 /\ InOrderFrom(r.scanlines[y], Box.minX - 1, Box.maxX)
<1>1. Box \in [minX : Int, maxX : Int, minY : Int, maxY : Int]
  BY DEF RasterTypes, Pass, Box
<1>2. Box.minX \in Int /\ Box.maxX \in Int /\ Box.minY \in Int /\ Box.maxY \in Int
  BY <1>1
<1>3. Box.minX < Box.maxX /\ Box.minY < Box.maxY /\ Height <= Len(r.scanlines)
      /\ \A y \in 1..Height : InOrderFrom(r.scanlines[y], Box.minX - 1, Box.maxX)
  BY DEF Cells
<1>4. Height \in Nat \ {0}
  BY <1>2, <1>3 DEF Height
<1>5. r.scanlines \in Seq(Scanline)
  BY DEF Cells
<1>6. DOMAIN r.scanlines = 1..Len(r.scanlines) /\ Len(r.scanlines) \in Nat
      /\ \A y \in 1..Len(r.scanlines) : r.scanlines[y] \in Scanline
  BY <1>5
<1> QED BY <1>2, <1>3, <1>4, <1>6

\* set_cell
LEMMA CellSet ==
  ASSUME RasterTypes, pass.running, NEW r, Cells(r), NEW ex \in Int, NEW ey \in Int
  PROVE  Cells(set_cell(r, ex, ey))
<1> DEFINE new == set_cell(r, ex, ey)
           row == ey - Box.minY + 1
           x == IF ex < Box.minX THEN Box.minX - 1 ELSE ex
           cells == r.scanlines[row]
           before == Cardinality({i \in DOMAIN cells : cells[i].x < x})
           known == before < Len(cells) /\ cells[before + 1].x = x
           longer == InsertAt(cells, before + 1, [x |-> x, cover |-> 0, area |-> 0])
           lines == [r.scanlines EXCEPT ![row] = longer]
           out == ey < Box.minY \/ ey >= Box.maxY \/ ex >= Box.maxX
<1>1. /\ Box.minX \in Int /\ Box.maxX \in Int /\ Box.minY \in Int /\ Box.maxY \in Int
      /\ Box.minX < Box.maxX /\ Box.minY < Box.maxY
      /\ Height \in Nat \ {0} /\ Height <= Len(r.scanlines)
      /\ \A y \in 1..Height : y \in DOMAIN r.scanlines /\ r.scanlines[y] \in Scanline
                              /\ InOrderFrom(r.scanlines[y], Box.minX - 1, Box.maxX)
  BY CellsRunning
<1>2. r \in [scanlines : Seq(Scanline), row : Nat, idx : Nat]
  BY DEF Cells
<1>3. r.scanlines \in Seq(Scanline) /\ DOMAIN r.scanlines = 1..Len(r.scanlines) /\ Len(r.scanlines) \in Nat
  BY <1>2
<1>4. new = IF out THEN [r EXCEPT !.row = Dumpster]
            ELSE [scanlines |-> IF known THEN r.scanlines ELSE lines, row |-> row, idx |-> before + 1]
  BY DEF set_cell
<1>5. CASE out
  <2>1. /\ new \in [scanlines : Seq(Scanline), row : Nat, idx : Nat]
        /\ new.row = Dumpster /\ new.scanlines = r.scanlines
    <3> HIDE DEF out
    <3>1. new = [r EXCEPT !.row = 0]
      BY <1>4, <1>5 DEF Dumpster
    <3> HIDE DEF new
    <3> QED BY <1>2, <3>1 DEF Dumpster
  <2> HIDE DEF new
  <2>2. Cells(new)
    BY <1>1, <1>2, <2>1 DEF Cells
  <2> QED BY <2>2 DEF new
<1>6. CASE ~out
  <2>1. row \in 1..Height /\ Box.minX - 1 <= x /\ x < Box.maxX /\ x \in Int
    <3> DEFINE l == Box.minX
               t == Box.maxX
    <3>1. /\ l \in Int /\ t \in Int /\ l < t /\ ~(ex >= t) /\ ~(ey < Box.minY) /\ ~(ey >= Box.maxY)
          /\ x = IF ex < l THEN l - 1 ELSE ex
      BY <1>1, <1>6
    <3> HIDE DEF l, t, x
    <3>2. l - 1 <= x /\ x < t /\ x \in Int
      BY <3>1
    <3>3. row \in 1..Height
      BY <1>1, <3>1 DEF Height
    <3> QED BY <3>2, <3>3 DEF l, t
  <2>2. cells \in Scanline /\ InOrderFrom(cells, Box.minX - 1, Box.maxX) /\ row \in DOMAIN r.scanlines
    BY <1>1, <2>1
  <2> HIDE DEF row, x, out
  <2>3. /\ before \in 0..Len(cells)
        /\ ~known => longer \in Scanline /\ InOrderFrom(longer, Box.minX - 1, Box.maxX)
                     /\ before + 1 \in DOMAIN longer
    <3> HIDE DEF cells
    <3>1. Box.minX - 1 \in Int
      BY <1>1
    <3>2. /\ before \in 0..Len(cells)
          /\ \A i \in 1..before : cells[i].x < x
          /\ ~known => \A i \in (before + 1)..Len(cells) : cells[i].x > x
      BY <1>1, <2>1, <2>2, <3>1, CellPlace
    <3> HIDE DEF before
    <3>3. ASSUME ~known
          PROVE  longer \in Scanline /\ InOrderFrom(longer, Box.minX - 1, Box.maxX) /\ before + 1 \in DOMAIN longer
      <4> HIDE DEF known
      <4> QED BY <1>1, <2>1, <2>2, <3>1, <3>2, <3>3, CellInserted
    <3> QED BY <3>2, <3>3
  <2>4. DOMAIN cells = 1..Len(cells) /\ Len(cells) \in Nat
    BY <2>2 DEF Scanline
  <2>5. CASE known
    <3>1. new = [scanlines |-> r.scanlines, row |-> row, idx |-> before + 1]
      BY <1>4, <1>6, <2>5
    <3>2. before + 1 \in DOMAIN cells
      BY <2>3, <2>4, <2>5
    <3>3. row \in Nat /\ before + 1 \in Nat
      BY <1>1, <2>1, <2>3
    <3> HIDE DEF before, known
    <3>4. new.scanlines = r.scanlines /\ new.row = row /\ new.idx = before + 1
          /\ new \in [scanlines : Seq(Scanline), row : Nat, idx : Nat]
      BY <1>3, <3>1, <3>3
    <3> HIDE DEF new
    <3>7. Cells(new)
      BY <1>1, <1>2, <2>2, <3>2, <3>4 DEF Cells
    <3> QED BY <3>7 DEF new
  <2>6. CASE ~known
    <3>1. new = [scanlines |-> lines, row |-> row, idx |-> before + 1]
      BY <1>4, <1>6, <2>6
    <3>2. longer \in Scanline /\ InOrderFrom(longer, Box.minX - 1, Box.maxX) /\ before + 1 \in DOMAIN longer
      BY <2>3, <2>6
    <3>3. row \in Nat /\ before + 1 \in Nat
      BY <1>1, <2>1, <2>3
    <3> HIDE DEF before, known, longer, cells
    <3>4. lines \in Seq(Scanline) /\ Len(lines) = Len(r.scanlines) /\ DOMAIN lines = DOMAIN r.scanlines
          /\ lines[row] = longer /\ \A y \in DOMAIN r.scanlines \ {row} : lines[y] = r.scanlines[y]
      BY <1>3, <2>2, <3>2, Replaced
    <3> HIDE DEF lines
    <3>5. new.scanlines = lines /\ new.row = row /\ new.idx = before + 1
          /\ new \in [scanlines : Seq(Scanline), row : Nat, idx : Nat]
      BY <3>1, <3>3, <3>4
    <3>6. \A y \in 1..Height : InOrderFrom(lines[y], Box.minX - 1, Box.maxX)
      BY <1>1, <3>2, <3>4
    <3> HIDE DEF new
    <3>7. Cells(new)
      BY <1>1, <1>2, <2>2, <3>2, <3>4, <3>5, <3>6 DEF Cells
    <3> QED BY <3>7 DEF new
  <2> QED BY <2>5, <2>6
<1> QED BY <1>5, <1>6

\* integrate
LEMMA CellsIntegrated ==
  ASSUME RasterTypes, pass.running, NEW r, Cells(r), NEW a \in Int, NEW b \in Int
  PROVE  Cells(integrate(r, a, b))
<1> DEFINE old == r.scanlines[r.row]
           cell == Added(old[r.idx], a, b)
           cells == [old EXCEPT ![r.idx] = cell]
           lines == [r.scanlines EXCEPT ![r.row] = cells]
           new == [r EXCEPT !.scanlines = lines]
<1>1. CASE r.row = Dumpster
  BY <1>1 DEF integrate
<1>2. CASE r.row # Dumpster
  <2>1. r \in [scanlines : Seq(Scanline), row : Nat, idx : Nat]
        /\ r.row \in DOMAIN r.scanlines /\ r.idx \in DOMAIN old
    BY <1>2 DEF Cells
  <2>2. integrate(r, a, b) = new
    BY <1>2, Zenon DEF integrate
  <2>3. old \in Seq(Cell) /\ r.scanlines \in Seq(Scanline)
    BY <2>1 DEF Scanline
  <2>4. old[r.idx] \in Cell
    BY <2>1, <2>3
  <2>5. a * b \in Int
    OBVIOUS
  <2>6. cell \in Cell /\ cell.x = old[r.idx].x
    <3> DEFINE one == old[r.idx]
               ab == a * b
    <3>1. one \in Cell /\ ab \in Int
      BY <2>4, <2>5
    <3> HIDE DEF one, ab
    <3>2. one \in [x : Int, cover : Int, area : Int] /\ one.cover + a \in Int /\ one.area + ab \in Int
      BY <3>1 DEF Cell
    <3>3. [one EXCEPT !.cover = @ + a, !.area = @ + ab] \in [x : Int, cover : Int, area : Int]
          /\ [one EXCEPT !.cover = @ + a, !.area = @ + ab].x = one.x
      BY <3>2
    <3> QED BY <3>3 DEF one, ab, Cell, Added
  <2> HIDE DEF cell
  <2>7. cells \in Seq(Cell) /\ Len(cells) = Len(old) /\ DOMAIN cells = DOMAIN old /\ cells[r.idx] = cell
        /\ \A i \in DOMAIN old \ {r.idx} : cells[i] = old[i]
    <3> HIDE DEF old
    <3> QED BY <2>1, <2>3, <2>6, Replaced
  <2> HIDE DEF cells
  <2>8. \A i \in DOMAIN old : cells[i].x = old[i].x
    BY <2>6, <2>7
  <2>9. InOrderFrom(old, Box.minX - 1, Box.maxX) => InOrderFrom(cells, Box.minX - 1, Box.maxX)
    <3> HIDE DEF old
    <3> QED BY <2>7, <2>8 DEF InOrderFrom
  <2>10. lines \in Seq(Scanline) /\ Len(lines) = Len(r.scanlines) /\ DOMAIN lines = DOMAIN r.scanlines
         /\ lines[r.row] = cells /\ \A y \in DOMAIN r.scanlines \ {r.row} : lines[y] = r.scanlines[y]
    BY <2>1, <2>3, <2>7, Replaced DEF Scanline
  <2> HIDE DEF lines
  <2>11. new \in [scanlines : Seq(Scanline), row : Nat, idx : Nat]
         /\ new.scanlines = lines /\ new.row = r.row /\ new.idx = r.idx
    BY <2>1, <2>10
  <2> HIDE DEF new
  <2>12. \A y \in 1..Height : InOrderFrom(lines[y], Box.minX - 1, Box.maxX)
    <3>1. \A y \in 1..Height : y \in DOMAIN r.scanlines /\ InOrderFrom(r.scanlines[y], Box.minX - 1, Box.maxX)
      BY CellsRunning
    <3> QED BY <2>9, <2>10, <3>1
  <2>13. Cells(new)
    <3>1. Box.minX < Box.maxX /\ Box.minY < Box.maxY /\ Height <= Len(lines)
      BY <2>10 DEF Cells
    <3> QED BY <2>1, <2>7, <2>10, <2>11, <2>12, <3>1 DEF Cells
  <2> QED BY <2>2, <2>13
<1> QED BY <1>1, <1>2

\* The cells stay those of the pass.
LEMMA CellsGoOn ==
  ASSUME NEW r, Cells(r), ras' = r, pass' = pass
  PROVE  Cells(ras)'
BY DEF Cells, Height, Box, Dumpster, InOrderFrom

\* A pass begins with empty rows, ...
LEMMA CellsCleared ==
  ASSUME Cells(ras), convert_glyph
  PROVE  Cells(ras)'
<1>1. PICK mode \in Modes :
        /\ pass' = [number |-> pass.number + 1, running |-> TRUE, mode |-> mode]
        /\ ras' = [scanlines |-> Cleared(ras.scanlines, mode.box.maxY - mode.box.minY),
                   row |-> Dumpster, idx |-> 0]
  BY DEF convert_glyph
<1> DEFINE h == mode.box.maxY - mode.box.minY
           n == Len(ras.scanlines)
           m == IF n < h THEN h ELSE n
           new == Cleared(ras.scanlines, h)
<1>2. Box' = mode.box
  BY <1>1 DEF Box
<1>3. /\ mode.box \in [minX : Int, maxX : Int, minY : Int, maxY : Int]
      /\ mode.box.minX < mode.box.maxX /\ mode.box.minY < mode.box.maxY
  BY RasterAssumption
<1>4. h \in Nat \ {0} /\ Height' = h
  BY <1>2, <1>3 DEF Height
<1>5. ras.scanlines \in Seq(Scanline) /\ n \in Nat
  BY DEF Cells
<1>6. m \in Nat /\ h <= m /\ n <= m /\ (m > h => m = n)
  BY <1>4, <1>5
<1>7. new = [row \in 1..m |-> IF row <= h THEN <<>> ELSE ras.scanlines[row]]
  BY DEF Cleared
<1> HIDE DEF h, m
<1>8. \A row \in 1..m : (IF row <= h THEN <<>> ELSE ras.scanlines[row]) \in Scanline
  <2>1. \A row \in 1..n : ras.scanlines[row] \in Scanline
    BY <1>5
  <2>2. \A row \in 1..m : row <= h \/ row \in 1..n
    BY <1>4, <1>5, <1>6
  <2> QED BY <2>1, <2>2 DEF Scanline
<1>9. new \in Seq(Scanline) /\ Len(new) = m /\ \A y \in 1..h : new[y] = <<>>
  <2>1. new \in [1..m -> Scanline]
    BY <1>7, <1>8
  <2>2. \A y \in 1..h : y \in 1..m /\ y <= h
    BY <1>4, <1>6
  <2>3. \A y \in 1..h : new[y] = <<>>
    BY <1>7, <2>2
  <2> HIDE DEF new
  <2> QED BY <1>6, <2>1, <2>3
<1>10. ras' = [scanlines |-> new, row |-> Dumpster, idx |-> 0]
  BY <1>1 DEF h
<1> HIDE DEF new
<1>11. /\ ras' \in [scanlines : Seq(Scanline), row : Nat, idx : Nat]
       /\ ras'.row = Dumpster /\ ras'.scanlines = new
  BY <1>9, <1>10 DEF Dumpster
<1>12. \A l, t : InOrderFrom(<<>>, l, t)
  BY DEF InOrderFrom
<1>13. \A y \in 1..Height' : InOrderFrom(new[y], Box'.minX - 1, Box'.maxX)
  BY <1>4, <1>9, <1>12
<1>14. Box'.minX < Box'.maxX /\ Box'.minY < Box'.maxY /\ Height' <= Len(new)
  BY <1>2, <1>3, <1>4, <1>6, <1>9
<1> QED BY <1>11, <1>13, <1>14 DEF Cells, Dumpster, InOrderFrom

\* ... a line that begins makes a cell or nothing, ...
LEMMA CellsBegun ==
  ASSUME RasterTypes, Cells(ras), pass.running, NEW to \in Point, render_line(to), pass' = pass
  PROVE  Cells(ras)'
<1>1. trunc(to[1]) \in Int /\ trunc(to[2]) \in Int
  BY InPixel DEF Point
<1>2. ras' = ras \/ ras' = set_cell(ras, trunc(to[1]), trunc(to[2]))
  BY DEF render_line
<1>3. Cells(set_cell(ras, trunc(to[1]), trunc(to[2])))
  BY <1>1, CellSet
<1> QED BY <1>2, <1>3, CellsGoOn

\* ... and its steps add to cells and make others.
LEMMA CellsStepped ==
  ASSUME RasterTypes, Cells(ras), Step, line.on => pass.running
  PROVE  Cells(ras)'
<1>1. line.on /\ pass.running
  BY DEF Step, Left, Up, Right, Down, Slanted, Vertical, EndLine
<1>2. CASE EndLine
  <2>1. /\ ras' = integrate(ras, fract(line.to[2]) - line.fy, line.fx + fract(line.to[1]))
        /\ pass' = pass
    BY <1>2 DEF EndLine
  <2>2. fract(line.to[2]) - line.fy \in Int /\ line.fx + fract(line.to[1]) \in Int
    <3>1. /\ line.to[1] \in Int /\ line.to[2] \in Int /\ line.fx \in Int /\ line.fy \in Int
      BY LineTyped
    <3>2. fract(line.to[2]) \in Int /\ fract(line.to[1]) \in Int
      BY <3>1, InPixel
    <3> QED BY <3>1, <3>2
  <2>3. Cells(ras')
    BY <1>1, <2>1, <2>2, CellsIntegrated
  <2> QED BY <2>1, <2>3, CellsGoOn
<1>3. CASE Left \/ Up \/ Right \/ Down \/ Vertical
  <2>1. \E ex, ey, prod \in Int : Crossing(ex, ey, prod)
    <3>1. /\ Dx * ONE_PIXEL \in Int /\ Dy * ONE_PIXEL \in Int
          /\ line.ex \in Int /\ line.ey \in Int /\ line.prod \in Int
      BY LineTyped, PixelWidth
    <3>2. /\ line.ex - 1 \in Int /\ line.ex + 1 \in Int /\ line.ey - 1 \in Int /\ line.ey + 1 \in Int
          /\ line.prod - Dy * ONE_PIXEL \in Int /\ line.prod + Dy * ONE_PIXEL \in Int
          /\ line.prod - Dx * ONE_PIXEL \in Int /\ line.prod + Dx * ONE_PIXEL \in Int
      BY <3>1
    <3> QED BY <1>3, <3>1, <3>2, Sides, Zenon
  <2>2. PICK ex \in Int, ey \in Int, a \in Int, b \in Int :
          ras' = set_cell(integrate(ras, a, b), ex, ey) /\ pass' = pass
    BY <2>1 DEF Crossing
  <2>3. Cells(integrate(ras, a, b))
    BY <1>1, CellsIntegrated
  <2>4. Cells(set_cell(integrate(ras, a, b), ex, ey))
    BY <1>1, <2>3, CellSet
  <2> QED BY <2>2, <2>4, CellsGoOn
<1> QED BY <1>2, <1>3 DEF Step

-----------------------------------------------------------------------------
(* Spans                                                                   *)

SpanIn == [y : Int, x : Int, len : Nat \ {0}, coverage : {fill_rule(area) : area \in Int}]

Follows(s, t) == s.y < t.y \/ (s.y = t.y /\ s.x + s.len <= t.x)

\* Spans in the box, from left to right and from row to row, before (x, y).
Orderly(s, y, x) ==
  /\ s \in Seq(SpanIn)
  /\ \A i \in 1..Len(s) :
       /\ Box.minX <= s[i].x /\ s[i].x + s[i].len <= Box.maxX
       /\ Box.minY <= s[i].y /\ s[i].y < Box.maxY
       /\ s[i].y < y \/ (s[i].y = y /\ s[i].x + s[i].len <= x)
  /\ \A i, j \in 1..Len(s) : i < j => Follows(s[i], s[j])

\* Nothing is added.
LEMMA NothingAdded ==
  ASSUME NEW S, NEW s \in Seq(S), NEW t, t = <<>>
  PROVE  s \o t = s
OBVIOUS

\* The span that Span writes, if any.
LEMMA SpanWritten ==
  ASSUME NEW y \in Int, NEW x \in Int, NEW len \in Int, NEW area \in Int
  PROVE  \/ Span(y, x, len, area) = <<>>
         \/ \E e \in SpanIn : /\ Span(y, x, len, area) = <<e>>
                              /\ e.y = y /\ e.x = x /\ e.len = len
<1> DEFINE e == [y |-> y, x |-> x, len |-> len, coverage |-> fill_rule(area)]
<1>1. CASE len <= 0
  BY <1>1 DEF Span
<1>2. CASE ~(len <= 0)
  <2>1. len \in Nat \ {0}
    BY <1>2
  <2>2. e \in SpanIn
    BY <2>1 DEF SpanIn
  <2>3. Span(y, x, len, area) = <<e>>
    BY <1>2 DEF Span
  <2>4. e.y = y /\ e.x = x /\ e.len = len
    OBVIOUS
  <2> HIDE DEF e
  <2> QED BY <2>2, <2>3, <2>4
<1> QED BY <1>1, <1>2

\* A span is written behind the others.
LEMMA SpanAdded ==
  ASSUME RasterTypes, NEW s, NEW y \in Int, NEW x \in Int, Orderly(s, y, x),
         Box.minY <= y, y < Box.maxY,
         NEW left \in Int, NEW len \in Int, NEW area \in Int, NEW end \in Int,
         Box.minX <= left, x <= left, x <= end, left + len <= end, end <= Box.maxX
  PROVE  Orderly(s \o Span(y, left, len, area), y, end)
<1> DEFINE n == Len(s)
<1>1. s \in Seq(SpanIn) /\ n \in Nat /\ \A i \in 1..n : s[i] \in SpanIn
  BY DEF Orderly
<1>2. \A e \in SpanIn : e.y \in Int /\ e.x \in Int /\ e.len \in Int
  BY DEF SpanIn
<1>3. \A i \in 1..n : /\ Box.minX <= s[i].x /\ s[i].x + s[i].len <= Box.maxX
                      /\ Box.minY <= s[i].y /\ s[i].y < Box.maxY
                      /\ s[i].y < y \/ (s[i].y = y /\ s[i].x + s[i].len <= x)
  BY DEF Orderly
<1>4. \A i \in 1..n : s[i].y < y \/ (s[i].y = y /\ s[i].x + s[i].len <= end)
  BY <1>1, <1>2, <1>3
<1>5. CASE Span(y, left, len, area) = <<>>
  <2>1. s \o <<>> = s
    BY <1>1
  <2> QED BY <1>1, <1>3, <1>4, <1>5, <2>1 DEF Orderly
<1>6. ASSUME NEW e \in SpanIn, Span(y, left, len, area) = <<e>>, e.y = y, e.x = left, e.len = len
      PROVE  Orderly(s \o Span(y, left, len, area), y, end)
  <2> DEFINE t == s \o <<e>>
  <2>1. t = Append(s, e)
    BY <1>1
  <2>2. /\ t \in Seq(SpanIn) /\ Len(t) = n + 1
        /\ t[n + 1] = e /\ \A i \in 1..n : t[i] = s[i]
    BY <1>1, <2>1
  <2> HIDE DEF t
  <2>3. /\ Box.minX <= e.x /\ e.x + e.len <= Box.maxX /\ Box.minY <= e.y /\ e.y < Box.maxY
        /\ e.y = y /\ e.x + e.len <= end
    <3>1. Box.maxX \in Int
      BY DEF RasterTypes, Pass, Box
    <3> QED BY <1>6, <3>1
  <2>4. ASSUME NEW i \in 1..n
        PROVE  Follows(s[i], e)
    <3>1. s[i].y < y \/ (s[i].y = y /\ s[i].x + s[i].len <= x)
      BY <1>3
    <3>2. s[i].x \in Int /\ s[i].len \in Int
      BY <1>1, <1>2
    <3>3. s[i].x + s[i].len <= x => s[i].x + s[i].len <= e.x
      BY <1>6, <3>2
    <3> QED BY <1>6, <3>1, <3>3 DEF Follows
  <2>5. ASSUME NEW i \in 1..(n + 1)
        PROVE  /\ Box.minX <= t[i].x /\ t[i].x + t[i].len <= Box.maxX
               /\ Box.minY <= t[i].y /\ t[i].y < Box.maxY
               /\ t[i].y < y \/ (t[i].y = y /\ t[i].x + t[i].len <= end)
    <3>1. CASE i \in 1..n
      BY <1>3, <1>4, <2>2, <3>1
    <3>2. CASE i = n + 1
      BY <2>2, <2>3, <3>2
    <3> QED BY <1>1, <3>1, <3>2
  <2>6. ASSUME NEW i \in 1..(n + 1), NEW j \in 1..(n + 1), i < j
        PROVE  Follows(t[i], t[j])
    <3>1. i \in 1..n /\ t[i] = s[i]
      BY <1>1, <2>2, <2>6
    <3>2. CASE j \in 1..n
      BY <2>2, <2>6, <3>1, <3>2 DEF Orderly
    <3>3. CASE j = n + 1
      BY <2>2, <2>4, <3>1, <3>3
    <3> QED BY <1>1, <3>2, <3>3
  <2>7. Orderly(t, y, end)
    BY <2>2, <2>5, <2>6 DEF Orderly
  <2> QED BY <1>6, <2>7 DEF t
<1> QED BY <1>5, <1>6, SpanWritten

\* The sweep of a row, between two cells.
Sweeping == [x : Int, cover : Int, out : Seq(SpanIn)]

\* A concatenation with what Span writes has spans.
LEMMA SpansTyped ==
  ASSUME NEW s \in Seq(SpanIn), NEW y \in Int, NEW x \in Int, NEW len \in Int, NEW area \in Int
  PROVE  s \o Span(y, x, len, area) \in Seq(SpanIn)
<1>1. Span(y, x, len, area) \in Seq(SpanIn)
  <2>1. CASE Span(y, x, len, area) = <<>>
    BY <2>1
  <2>2. ASSUME NEW e \in SpanIn, Span(y, x, len, area) = <<e>>
        PROVE  Span(y, x, len, area) \in Seq(SpanIn)
    BY <2>2
  <2> QED BY <2>1, <2>2, SpanWritten
<1> QED BY <1>1, Concatenation

\* What a cell makes of the sweep.
LEMMA CellSwept ==
  ASSUME RasterTypes, NEW y \in Int, NEW acc \in Sweeping, NEW cell \in Cell
  PROVE  LET gap == IF acc.cover # 0 /\ cell.x > acc.x
                    THEN Span(y, acc.x, cell.x - acc.x, acc.cover) ELSE <<>>
             cover == acc.cover + cell.cover * 2 * ONE_PIXEL
             area == cover - cell.area
             own == IF area # 0 /\ cell.x >= Box.minX THEN Span(y, cell.x, 1, area) ELSE <<>>
             new == SweptCell(y, acc, cell)
         IN /\ new \in Sweeping /\ new.x = cell.x + 1 /\ new.out = acc.out \o gap \o own
            /\ area \in Int
<1> DEFINE gap == IF acc.cover # 0 /\ cell.x > acc.x
                  THEN Span(y, acc.x, cell.x - acc.x, acc.cover) ELSE <<>>
           cover == acc.cover + cell.cover * 2 * ONE_PIXEL
           area == cover - cell.area
           own == IF area # 0 /\ cell.x >= Box.minX THEN Span(y, cell.x, 1, area) ELSE <<>>
           new == SweptCell(y, acc, cell)
<1>1. acc.x \in Int /\ acc.cover \in Int /\ acc.out \in Seq(SpanIn)
      /\ cell.x \in Int /\ cell.cover \in Int /\ cell.area \in Int
  BY DEF Sweeping, Cell
<1>2. cover \in Int
  <2> DEFINE p == ONE_PIXEL
  <2>1. p \in Int
    BY PixelWidth
  <2> HIDE DEF p
  <2>2. cell.cover * 2 * p \in Int
    BY <1>1, <2>1
  <2> QED BY <1>1, <2>2 DEF p
<1>3. area \in Int
  BY <1>1, <1>2
<1>4. new = [x |-> cell.x + 1, cover |-> cover, out |-> acc.out \o gap \o own]
  BY DEF SweptCell
<1> HIDE DEF area, cover, new
<1>8. acc.out \o <<>> \in Seq(SpanIn)
  BY <1>1
<1>5. acc.out \o gap \in Seq(SpanIn)
  <2>1. acc.out \o Span(y, acc.x, cell.x - acc.x, acc.cover) \in Seq(SpanIn)
    <3>1. cell.x - acc.x \in Int
      BY <1>1
    <3> QED BY <1>1, <3>1, SpansTyped
  <2> QED BY <1>8, <2>1, Zenon
<1> HIDE DEF gap
<1>6. acc.out \o gap \o own \in Seq(SpanIn)
  <2> DEFINE t == acc.out \o gap
  <2>3. t \in Seq(SpanIn)
    BY <1>5
  <2> HIDE DEF t
  <2>1. t \o Span(y, cell.x, 1, area) \in Seq(SpanIn)
    <3>1. 1 \in Int /\ cell.x \in Int
      BY <1>1
    <3> QED BY <1>3, <2>3, <3>1, SpansTyped
  <2>2. t \o <<>> \in Seq(SpanIn)
    BY <2>3
  <2> QED BY <2>1, <2>2, Zenon DEF t
<1> HIDE DEF own
<1>7. new \in Sweeping /\ new.x = cell.x + 1 /\ new.out = acc.out \o gap \o own
  BY <1>1, <1>2, <1>4, <1>6 DEF Sweeping
<1> QED BY <1>3, <1>7 DEF area, cover, new, gap, own

\* The loop over the cells of a row.
LEMMA CellsSweptLoop ==
  ASSUME RasterTypes, NEW y \in Int, NEW cells \in Scanline
  PROVE  LET n == Len(cells)
             swept[k \in 0..n] ==
               IF k = 0 THEN [x |-> Box.minX, cover |-> 0, out |-> <<>>]
                        ELSE SweptCell(y, swept[k - 1], cells[k])
         IN /\ swept \in [0..n -> Sweeping]
            /\ swept[0] = [x |-> Box.minX, cover |-> 0, out |-> <<>>]
            /\ \A k \in 1..n : swept[k] = SweptCell(y, swept[k - 1], cells[k])
<1> DEFINE n == Len(cells)
           start == [x |-> Box.minX, cover |-> 0, out |-> <<>>]
           swept[k \in 0..n] == IF k = 0 THEN start ELSE SweptCell(y, swept[k - 1], cells[k])
           round == [k \in 1..n |-> [acc \in Sweeping |-> SweptCell(y, acc, cells[k])]]
<1>1. n \in Nat /\ \A k \in 1..n : cells[k] \in Cell
  BY DEF Scanline
<1>2. start \in Sweeping
  <2>1. Box.minX \in Int
    BY DEF RasterTypes, Pass, Box
  <2> QED BY <2>1 DEF Sweeping
<1>3. round \in [1..n -> [Sweeping -> Sweeping]]
  BY <1>1, CellSwept
<1> HIDE DEF start
<1>4. PICK g \in [0..n -> Sweeping] : g[0] = start /\ \A k \in 1..n : g[k] = round[k][g[k - 1]]
  <2>1. AreRounds(round, n, Sweeping)
    BY <1>3 DEF AreRounds
  <2> HIDE DEF n, round, swept
  <2>2. \E g : IsLoop(g, n, Sweeping, start, round)
    BY <1>1, <1>2, <2>1, Rounds, Zenon
  <2> QED BY <2>2 DEF IsLoop
<1>5. \A k \in 1..n : g[k] = SweptCell(y, g[k - 1], cells[k])
  <2>1. \A k \in 1..n : k - 1 \in 0..n /\ g[k - 1] \in Sweeping
    BY <1>1
  <2> QED BY <1>4, <2>1
<1>6. g = [k \in 0..n |-> IF k = 0 THEN start ELSE SweptCell(y, g[k - 1], cells[k])]
  <2>1. \A k \in 0..n : g[k] = IF k = 0 THEN start ELSE SweptCell(y, g[k - 1], cells[k])
    <3>1. \A k \in 0..n : k = 0 \/ k \in 1..n
      BY <1>1
    <3> QED BY <1>4, <1>5, <3>1
  <2> QED BY <2>1
<1>7. swept = [k \in 0..n |-> IF k = 0 THEN start ELSE SweptCell(y, swept[k - 1], cells[k])]
  BY <1>6, Zenon
<1> HIDE DEF swept
<1>8. DOMAIN swept = 0..n /\ swept[0] = start
  BY <1>1, <1>7
<1>9. \A k \in 1..n : swept[k] = SweptCell(y, swept[k - 1], cells[k])
  <2>1. \A k \in 1..n : k \in 0..n /\ k # 0
    BY <1>1
  <2> QED BY <1>7, <2>1
<1>10. \A k \in 0..n : swept[k] \in Sweeping
  <2> DEFINE P == {k \in 0..n : swept[k] \in Sweeping}
  <2>1. 0 \in P
    BY <1>1, <1>2, <1>8
  <2>2. ASSUME NEW k \in 1..n, k - 1 \in P PROVE k \in P
    <3>1. k \in 0..n
      BY <1>1
    <3>2. SweptCell(y, swept[k - 1], cells[k]) \in Sweeping
      BY <1>1, <2>2, CellSwept
    <3> QED BY <1>9, <3>1, <3>2
  <2> HIDE DEF P
  <2>3. 0..n \subseteq P
    BY <1>1, <2>1, <2>2, UpTo
  <2> QED BY <2>3 DEF P
<1>11. swept \in [0..n -> Sweeping]
  BY <1>7, <1>10
<1> QED BY <1>8, <1>9, <1>11 DEF swept, start

\* Spans of one row of the box, from left to right, before x.
RowOrderly(s, y, x) == Orderly(s, y, x) /\ \A i \in 1..Len(s) : s[i].y = y

\* A span of the same row.
LEMMA RowSpanAdded ==
  ASSUME RasterTypes, NEW s, NEW y \in Int, NEW x \in Int, RowOrderly(s, y, x),
         Box.minY <= y, y < Box.maxY,
         NEW left \in Int, NEW len \in Int, NEW area \in Int, NEW end \in Int,
         Box.minX <= left, x <= left, x <= end, left + len <= end, end <= Box.maxX
  PROVE  RowOrderly(s \o Span(y, left, len, area), y, end)
<1>1. Orderly(s \o Span(y, left, len, area), y, end)
  BY SpanAdded DEF RowOrderly
<1>2. s \in Seq(SpanIn) /\ \A i \in 1..Len(s) : s[i].y = y
  BY DEF RowOrderly, Orderly
<1>3. CASE Span(y, left, len, area) = <<>>
  <2>1. s \o <<>> = s
    BY <1>2
  <2> QED BY <1>1, <1>2, <1>3, <2>1 DEF RowOrderly
<1>4. ASSUME NEW e \in SpanIn, Span(y, left, len, area) = <<e>>, e.y = y
      PROVE  \A i \in 1..Len(s \o <<e>>) : (s \o <<e>>)[i].y = y
  <2> DEFINE t == s \o <<e>>
  <2>1. t = Append(s, e)
    BY <1>2
  <2>2. Len(t) = Len(s) + 1 /\ Len(s) \in Nat /\ t[Len(s) + 1] = e /\ \A i \in 1..Len(s) : t[i] = s[i]
    BY <1>2, <2>1
  <2> HIDE DEF t
  <2>3. \A i \in 1..Len(t) : i \in 1..Len(s) \/ i = Len(s) + 1
    BY <2>2
  <2>4. \A i \in 1..Len(t) : t[i].y = y
    BY <1>2, <1>4, <2>2, <2>3
  <2> QED BY <2>4 DEF t
<1>5. CASE \E e \in SpanIn : /\ Span(y, left, len, area) = <<e>>
                              /\ e.y = y /\ e.x = left /\ e.len = len
  <2>1. \A i \in 1..Len(s \o Span(y, left, len, area)) : (s \o Span(y, left, len, area))[i].y = y
    BY <1>4, <1>5, Zenon
  <2> QED BY <1>1, <2>1, Zenon DEF RowOrderly
<1> QED BY <1>3, <1>5, SpanWritten
\* Nothing added: spans before x are before what is right of x.
LEMMA RowEndLater ==
  ASSUME RasterTypes, NEW s, NEW y \in Int, NEW x \in Int, RowOrderly(s, y, x), NEW end \in Int, x <= end
  PROVE  RowOrderly(s, y, end)
<1>1. s \in Seq(SpanIn)
  BY DEF RowOrderly, Orderly
<1>2. \A i \in 1..Len(s) : s[i] \in SpanIn /\ s[i].x \in Int /\ s[i].len \in Int
  <2>1. \A e \in SpanIn : e.x \in Int /\ e.len \in Int
    BY DEF SpanIn
  <2> QED BY <1>1, <2>1
<1> QED BY <1>2 DEF RowOrderly, Orderly

\* What is written for the cells so far lies before the next pixel, and in the box.
SweptTo(acc, y) ==
  /\ acc \in Sweeping
  /\ Box.minX <= acc.x /\ acc.x <= Box.maxX
  /\ RowOrderly(acc.out, y, acc.x)

LEMMA CellSweptInOrder ==
  ASSUME RasterTypes, NEW y \in Int, Box.minY <= y, y < Box.maxY,
         NEW acc, SweptTo(acc, y), NEW cell \in Cell,
         Box.minX - 1 <= cell.x, cell.x < Box.maxX,
         cell.x >= acc.x \/ (cell.x = Box.minX - 1 /\ acc.x = Box.minX)
  PROVE  SweptTo(SweptCell(y, acc, cell), y)
<1> DEFINE gap == IF acc.cover # 0 /\ cell.x > acc.x
                  THEN Span(y, acc.x, cell.x - acc.x, acc.cover) ELSE <<>>
           cover == acc.cover + cell.cover * 2 * ONE_PIXEL
           area == cover - cell.area
           own == IF area # 0 /\ cell.x >= Box.minX THEN Span(y, cell.x, 1, area) ELSE <<>>
           new == SweptCell(y, acc, cell)
           before == IF cell.x < acc.x THEN acc.x ELSE cell.x
           t == acc.out \o gap
<1>1. acc \in Sweeping /\ Box.minX <= acc.x /\ acc.x <= Box.maxX /\ RowOrderly(acc.out, y, acc.x)
  BY DEF SweptTo
<1>2. /\ acc.x \in Int /\ acc.cover \in Int /\ cell.x \in Int /\ acc.out \in Seq(SpanIn)
      /\ Box.minX \in Int /\ Box.maxX \in Int
  BY <1>1 DEF Sweeping, Cell, RasterTypes, Pass, Box
<1>3. new \in Sweeping /\ new.x = cell.x + 1 /\ new.out = t \o own /\ area \in Int
  BY <1>1, CellSwept
<1> HIDE DEF area, cover, new
<1>4. before \in Int /\ acc.x <= before /\ before <= Box.maxX /\ before <= cell.x + 1
      /\ (cell.x >= acc.x => before = cell.x)
  BY <1>1, <1>2
<1> HIDE DEF before
<1>5. RowOrderly(t, y, before)
  <2>1. CASE acc.cover # 0 /\ cell.x > acc.x
    <3>1. gap = Span(y, acc.x, cell.x - acc.x, acc.cover)
      BY <2>1
    <3>2. cell.x - acc.x \in Int /\ acc.x + (cell.x - acc.x) <= before /\ acc.x <= acc.x
      BY <1>2, <1>4, <2>1
    <3> HIDE DEF gap
    <3>3. RowOrderly(acc.out \o Span(y, acc.x, cell.x - acc.x, acc.cover), y, before)
      BY <1>1, <1>2, <1>4, <3>2, RowSpanAdded
    <3> QED BY <3>1, <3>3
  <2>2. CASE ~(acc.cover # 0 /\ cell.x > acc.x)
    <3>1. gap = <<>>
      BY <2>2
    <3> HIDE DEF gap
    <3>2. t = acc.out
      BY <1>2, <3>1, NothingAdded
    <3> HIDE DEF t
    <3> QED BY <1>1, <1>2, <1>4, <3>2, RowEndLater
  <2> QED BY <2>1, <2>2
<1> HIDE DEF t
<1>6. RowOrderly(t \o own, y, cell.x + 1)
  <2>1. cell.x + 1 \in Int /\ cell.x + 1 <= Box.maxX
    BY <1>2
  <2>2. CASE area # 0 /\ cell.x >= Box.minX
    <3>1. own = Span(y, cell.x, 1, area)
      BY <2>2
    <3>2. before <= cell.x /\ 1 \in Int
      BY <1>2, <1>4, <2>2
    <3> HIDE DEF own
    <3> DEFINE end == cell.x + 1
               c == cell.x
               len == 1
    <3>4. /\ c \in Int /\ len \in Int /\ end \in Int /\ Box.minX <= c /\ before <= c
          /\ before <= end /\ c + len <= end /\ end <= Box.maxX /\ before \in Int /\ area \in Int
      BY <1>2, <1>3, <1>4, <2>1, <2>2, <3>2
    <3> HIDE DEF end, c, len
    <3>5. RowOrderly(t \o Span(y, c, len, area), y, end)
      BY <1>5, <3>4, RowSpanAdded
    <3>3. RowOrderly(t \o Span(y, cell.x, 1, area), y, cell.x + 1)
      BY <3>5 DEF end, c, len
    <3> QED BY <3>1, <3>3
  <2>3. CASE ~(area # 0 /\ cell.x >= Box.minX)
    <3>1. own = <<>>
      BY <2>3
    <3>2. t \o own = t
      <4>1. t \in Seq(SpanIn)
        BY <1>5 DEF RowOrderly, Orderly
      <4> QED BY <3>1, <4>1
    <3> HIDE DEF own
    <3> QED BY <1>4, <1>5, <2>1, <3>2, RowEndLater
  <2> QED BY <2>2, <2>3
<1> HIDE DEF own
<1>7. SweptTo(new, y)
  <2>1. Box.minX <= cell.x + 1 /\ cell.x + 1 <= Box.maxX
    BY <1>2
  <2> QED BY <1>3, <1>6, <2>1 DEF SweptTo
<1> QED BY <1>7 DEF new

\* One row is swept in order.
LEMMA RowSwept ==
  ASSUME RasterTypes, Cells(ras), pass.running, NEW y \in Int, Box.minY <= y, y < Box.maxY
  PROVE  RowOrderly(SweptRow(y), y, Box.maxX)
<1> DEFINE cells == ras.scanlines[y - Box.minY + 1]
           n == Len(cells)
           start == [x |-> Box.minX, cover |-> 0, out |-> <<>>]
           swept[k \in 0..n] == IF k = 0 THEN start ELSE SweptCell(y, swept[k - 1], cells[k])
           all == SweptCells(y)
           rest == IF all.cover # 0 THEN Span(y, all.x, Box.maxX - all.x, all.cover) ELSE <<>>
<1>1. /\ Box.minX \in Int /\ Box.maxX \in Int /\ Box.minY \in Int /\ Box.maxY \in Int
      /\ Box.minX < Box.maxX
      /\ \A k \in 1..Height : ras.scanlines[k] \in Scanline
                              /\ InOrderFrom(ras.scanlines[k], Box.minX - 1, Box.maxX)
  BY CellsRunning
<1>2. cells \in Scanline /\ InOrderFrom(cells, Box.minX - 1, Box.maxX)
  <2>1. y - Box.minY + 1 \in 1..Height
    BY <1>1 DEF Height
  <2> QED BY <1>1, <2>1
<1>3. all = swept[n]
  BY DEF SweptCells
<1>4. /\ swept \in [0..n -> Sweeping] /\ swept[0] = start
      /\ \A k \in 1..n : swept[k] = SweptCell(y, swept[k - 1], cells[k])
  <2> HIDE DEF cells
  <2> QED BY <1>2, CellsSweptLoop
<1> HIDE DEF cells, all, swept
<1>5. n \in Nat /\ DOMAIN cells = 1..n /\ \A k \in 1..n : cells[k] \in Cell /\ cells[k].x \in Int
  <2>1. \A c \in Cell : c.x \in Int
    BY DEF Cell
  <2> QED BY <1>2, <2>1 DEF Scanline
<1> HIDE DEF n
<1> DEFINE Done(k) == SweptTo(swept[k], y) /\ swept[k].x = IF k = 0 THEN Box.minX ELSE cells[k].x + 1
           P == {k \in 0..n : Done(k)}
<1>6. 0 \in P
  <2>1. swept[0] \in Sweeping /\ swept[0].x = Box.minX /\ swept[0].out = <<>>
    BY <1>4, <1>5
  <2>2. RowOrderly(<<>>, y, Box.minX)
    BY DEF RowOrderly, Orderly
  <2>3. SweptTo(swept[0], y)
    BY <1>1, <2>1, <2>2 DEF SweptTo
  <2> QED BY <1>5, <2>1, <2>3
<1>7. ASSUME NEW k \in 1..n, k - 1 \in P PROVE k \in P
  <2>1. Done(k - 1) /\ k - 1 \in 0..n /\ k \in 0..n
    BY <1>5, <1>7
  <2>2. cells[k] \in Cell /\ cells[k].x \in Int /\ Box.minX - 1 <= cells[k].x /\ cells[k].x < Box.maxX
    BY <1>2, <1>5 DEF InOrderFrom
  <2>3. cells[k].x >= swept[k - 1].x \/ (cells[k].x = Box.minX - 1 /\ swept[k - 1].x = Box.minX)
    <3>1. CASE k = 1
      <4>1. swept[k - 1].x = Box.minX
        BY <2>1, <3>1
      <4> QED BY <1>1, <2>2, <4>1
    <3>2. CASE k # 1
      <4>1. k - 1 \in 1..n /\ k - 1 # 0 /\ k - 1 < k
        BY <1>5, <3>2
      <4>2. swept[k - 1].x = cells[k - 1].x + 1 /\ cells[k - 1].x < cells[k].x
        BY <1>2, <1>5, <2>1, <4>1 DEF InOrderFrom
      <4> QED BY <1>5, <2>2, <4>1, <4>2
    <3> QED BY <3>1, <3>2
  <2>4. SweptTo(SweptCell(y, swept[k - 1], cells[k]), y)
    BY <2>1, <2>2, <2>3, CellSweptInOrder
  <2>5. SweptTo(swept[k], y)
    BY <1>4, <2>4
  <2>6. swept[k].x = cells[k].x + 1
    <3>1. swept[k - 1] \in Sweeping
      BY <1>4, <2>1
    <3>2. SweptCell(y, swept[k - 1], cells[k]).x = cells[k].x + 1
      <4>1. \A acc \in Sweeping, cell \in Cell : SweptCell(y, acc, cell).x = cell.x + 1
        BY CellSwept
      <4> QED BY <2>2, <3>1, <4>1
    <3> QED BY <1>4, <3>2
  <2>7. k # 0
    BY <1>5
  <2> QED BY <2>1, <2>5, <2>6, <2>7
<1> HIDE DEF P
<1>8. 0..n \subseteq P
  BY <1>5, <1>6, <1>7, UpTo
<1>9. SweptTo(all, y)
  <2>1. n \in P
    BY <1>5, <1>8
  <2> QED BY <1>3, <2>1 DEF P
<1>10. /\ all.x \in Int /\ all.cover \in Int /\ Box.minX <= all.x /\ all.x <= Box.maxX
       /\ RowOrderly(all.out, y, all.x) /\ all.out \in Seq(SpanIn)
  BY <1>9 DEF SweptTo, Sweeping
<1>11. RowOrderly(all.out \o rest, y, Box.maxX)
  <2>1. CASE all.cover # 0
    <3>1. rest = Span(y, all.x, Box.maxX - all.x, all.cover)
      BY <2>1
    <3>2. Box.maxX - all.x \in Int /\ all.x + (Box.maxX - all.x) <= Box.maxX /\ all.x <= all.x
          /\ Box.maxX <= Box.maxX
      BY <1>1, <1>10
    <3> HIDE DEF rest
    <3>3. RowOrderly(all.out \o Span(y, all.x, Box.maxX - all.x, all.cover), y, Box.maxX)
      BY <1>1, <1>10, <3>2, RowSpanAdded
    <3> QED BY <3>1, <3>3
  <2>2. CASE ~(all.cover # 0)
    <3>1. rest = <<>>
      BY <2>2
    <3> HIDE DEF rest
    <3>2. all.out \o rest = all.out
      BY <1>10, <3>1, NothingAdded
    <3> QED BY <1>1, <1>10, <3>2, RowEndLater
  <2> QED BY <2>1, <2>2
<1>12. SweptRow(y) = all.out \o rest
  BY DEF SweptRow, all
<1> QED BY <1>11, <1>12

\* A row is written behind the rows below it.
LEMMA RowAdded ==
  ASSUME RasterTypes, NEW s, NEW t, NEW y \in Int, Orderly(s, y, Box.minX), RowOrderly(t, y, Box.maxX)
  PROVE  Orderly(s \o t, y + 1, Box.minX)
<1> DEFINE n == Len(s)
           m == Len(t)
           u == s \o t
           In(e) == /\ Box.minX <= e.x /\ e.x + e.len <= Box.maxX
                    /\ Box.minY <= e.y /\ e.y < Box.maxY
<1>1. /\ s \in Seq(SpanIn) /\ t \in Seq(SpanIn) /\ n \in Nat /\ m \in Nat
      /\ \A i \in 1..n : s[i] \in SpanIn /\ In(s[i])
      /\ \A i \in 1..m : t[i] \in SpanIn /\ In(t[i]) /\ t[i].y = y
      /\ \A i, j \in 1..n : i < j => Follows(s[i], s[j])
      /\ \A i, j \in 1..m : i < j => Follows(t[i], t[j])
  BY DEF RowOrderly, Orderly
<1>2. \A e \in SpanIn : e.y \in Int /\ e.x \in Int /\ e.len \in Nat \ {0}
  BY DEF SpanIn
<1>3. \A i \in 1..n : s[i].y < y
  <2>1. Box.minX \in Int
    BY DEF RasterTypes, Pass, Box
  <2> SUFFICES ASSUME NEW i \in 1..n, ~(s[i].y < y) PROVE FALSE
    OBVIOUS
  <2>2. s[i].x + s[i].len <= Box.minX
    BY DEF Orderly
  <2> QED BY <1>1, <1>2, <2>1, <2>2
<1>4. /\ u \in Seq(SpanIn) /\ Len(u) = n + m
      /\ \A j \in 1..(n + m) : u[j] = IF j <= n THEN s[j] ELSE t[j - n]
  BY <1>1, Concatenation
<1> HIDE DEF u, n, m
<1>5. \A j \in 1..(n + m) : j \in 1..n \/ (~(j <= n) /\ j - n \in 1..m)
  BY <1>1
<1>6. ASSUME NEW j \in 1..(n + m)
      PROVE  In(u[j]) /\ u[j].y < y + 1
  <2>1. CASE j \in 1..n
    <3>1. u[j] = s[j] /\ s[j] \in SpanIn
      BY <1>1, <1>4, <2>1
    <3>2. In(s[j]) /\ s[j].y < y /\ s[j].y \in Int
      BY <1>1, <1>2, <1>3, <2>1
    <3> HIDE DEF In
    <3> QED BY <3>1, <3>2
  <2>2. CASE ~(j <= n) /\ j - n \in 1..m
    <3>1. u[j] = t[j - n]
      BY <1>4, <2>2
    <3>2. In(t[j - n]) /\ t[j - n].y = y
      BY <1>1, <2>2
    <3> HIDE DEF In
    <3> QED BY <3>1, <3>2
  <2> QED BY <1>5, <2>1, <2>2
<1>7. ASSUME NEW i \in 1..(n + m), NEW j \in 1..(n + m), i < j
      PROVE  Follows(u[i], u[j])
  <2>1. CASE j \in 1..n
    <3>1. i \in 1..n /\ i <= n /\ j <= n
      BY <1>1, <1>7, <2>1
    <3>2. u[i] = s[i] /\ u[j] = s[j]
      BY <1>4, <3>1
    <3> QED BY <1>1, <1>7, <2>1, <3>1, <3>2
  <2>2. CASE ~(j <= n) /\ j - n \in 1..m
    <3>1. u[j] = t[j - n]
      BY <1>4, <2>2
    <3>2. CASE i \in 1..n
      <4>1. u[i] = s[i] /\ s[i].y < y
        BY <1>1, <1>3, <1>4, <3>2
      <4>2. t[j - n].y = y
        BY <1>1, <2>2
      <4> QED BY <3>1, <4>1, <4>2 DEF Follows
    <3>3. CASE ~(i <= n) /\ i - n \in 1..m
      <4>1. u[i] = t[i - n] /\ i - n < j - n
        BY <1>1, <1>4, <1>7, <3>3
      <4> QED BY <1>1, <2>2, <3>1, <3>3, <4>1
    <3> QED BY <1>5, <3>2, <3>3
  <2> QED BY <1>5, <2>1, <2>2
<1>8. Orderly(u, y + 1, Box.minX)
  BY <1>4, <1>6, <1>7 DEF Orderly
<1> QED BY <1>8 DEF u

\* The rows of the box are swept in order, each once.
LEMMA RowsSwept ==
  ASSUME RasterTypes, Cells(ras), pass.running
  PROVE  Orderly(SweptRows, Box.maxY, Box.minX)
<1> DEFINE n == Box.maxY - Box.minY
           All == Seq(SpanIn)
           none == <<>>
           rows[k \in 0..n] == IF k = 0 THEN none ELSE rows[k - 1] \o SweptRow(Box.minY + k - 1)
           round == [k \in 1..n |-> [s \in All |-> s \o SweptRow(Box.minY + k - 1)]]
<1>1. Box.minX \in Int /\ Box.minY \in Int /\ Box.maxY \in Int /\ n \in Nat /\ Box.minY + n = Box.maxY
  BY CellsRunning
<1>2. none \in All
  OBVIOUS
<1>3. \A k \in 1..n : /\ Box.minY + k - 1 \in Int /\ Box.minY <= Box.minY + k - 1
                      /\ Box.minY + k - 1 < Box.maxY /\ (Box.minY + k - 1) + 1 = Box.minY + k
  BY <1>1
<1> HIDE DEF n
<1>4. \A k \in 1..n : RowOrderly(SweptRow(Box.minY + k - 1), Box.minY + k - 1, Box.maxX)
  BY <1>3, RowSwept
<1>5. \A k \in 1..n : SweptRow(Box.minY + k - 1) \in All
  BY <1>4 DEF RowOrderly, Orderly
<1>6. AreRounds(round, n, All)
  <2>1. \A k \in 1..n, s \in All : s \o SweptRow(Box.minY + k - 1) \in All
    BY <1>5, Concatenation
  <2> HIDE DEF All
  <2> QED BY <2>1 DEF AreRounds
<1>7. PICK g : IsLoop(g, n, All, none, round)
  <2> HIDE DEF All, none, rows, round
  <2> QED BY <1>1, <1>2, <1>6, Rounds, Zenon
<1>8. g = [k \in 0..n |-> IF k = 0 THEN none ELSE g[k - 1] \o SweptRow(Box.minY + k - 1)]
  <2>1. g \in [0..n -> All] /\ g[0] = none /\ \A k \in 1..n : g[k] = round[k][g[k - 1]]
    BY <1>7 DEF IsLoop
  <2> HIDE DEF All, none
  <2>2. \A k \in 1..n : k - 1 \in 0..n /\ g[k - 1] \in All
    BY <1>1, <2>1
  <2>3. \A k \in 1..n : g[k] = g[k - 1] \o SweptRow(Box.minY + k - 1)
    BY <2>1, <2>2
  <2>4. \A k \in 0..n : k = 0 \/ (k \in 1..n /\ k # 0)
    BY <1>1
  <2>5. \A k \in 0..n : g[k] = IF k = 0 THEN none ELSE g[k - 1] \o SweptRow(Box.minY + k - 1)
    BY <2>1, <2>3, <2>4
  <2> QED BY <2>1, <2>5
<1>9. rows = [k \in 0..n |-> IF k = 0 THEN none ELSE rows[k - 1] \o SweptRow(Box.minY + k - 1)]
  BY <1>8, Zenon
<1> HIDE DEF rows, round, All
<1> DEFINE P == {k \in 0..n : Orderly(rows[k], Box.minY + k, Box.minX)}
<1>10. 0 \in P
  <2>1. rows[0] = <<>>
    BY <1>1, <1>9
  <2>2. Orderly(<<>>, Box.minY + 0, Box.minX)
    BY DEF Orderly
  <2> QED BY <1>1, <2>1, <2>2
<1>11. ASSUME NEW k \in 1..n, k - 1 \in P PROVE k \in P
  <2>1. k \in 0..n /\ k # 0 /\ Box.minY + (k - 1) = Box.minY + k - 1
    BY <1>1
  <2>2. Orderly(rows[k - 1], Box.minY + k - 1, Box.minX)
    BY <1>11, <2>1
  <2>3. Orderly(rows[k - 1] \o SweptRow(Box.minY + k - 1), (Box.minY + k - 1) + 1, Box.minX)
    BY <1>3, <1>4, <2>2, RowAdded
  <2>4. rows[k] = rows[k - 1] \o SweptRow(Box.minY + k - 1)
    BY <1>9, <2>1
  <2>5. Orderly(rows[k], Box.minY + k, Box.minX)
    BY <1>3, <2>3, <2>4
  <2> QED BY <2>1, <2>5
<1> HIDE DEF P
<1>12. n \in P
  <2>1. 0..n \subseteq P
    BY <1>1, <1>10, <1>11, UpTo
  <2> QED BY <1>1, <2>1
<1>13. SweptRows = rows[n]
  BY DEF SweptRows, rows, n
<1> QED BY <1>1, <1>12, <1>13 DEF P

-----------------------------------------------------------------------------
(* Every step keeps the cells and the spans                                *)

\* The state of a pass with its cells and spans.
RowsInv ==
  /\ Cells(ras)
  /\ line.on => pass.running
  /\ SpansInBox

LEMMA RowsInit == Init => RowsInv
<1> SUFFICES ASSUME Init PROVE RowsInv
  OBVIOUS
<1>1. /\ pass = Idle /\ line = NoLine /\ spans = <<>>
      /\ ras = [scanlines |-> <<>>, row |-> Dumpster, idx |-> 0]
  BY DEF Init
<1>2. ~pass.running /\ ~line.on
  BY <1>1 DEF Idle, NoLine
<1>3. Cells(ras)
  BY <1>1, <1>2 DEF Cells, Dumpster
<1>4. SpansInBox
  BY <1>1 DEF SpansInBox
<1> QED BY <1>2, <1>3, <1>4 DEF RowsInv

LEMMA RowsNext == PathInv /\ RowsInv /\ [Next]_vars => RowsInv'
<1> SUFFICES ASSUME PathInv, RowsInv, [Next]_vars PROVE RowsInv'
  OBVIOUS
<1>1. RasterTypes /\ Cells(ras) /\ (line.on => pass.running) /\ SpansInBox
  BY DEF PathInv, RowsInv
<1>2. ASSUME pass' = pass, spans' = spans PROVE SpansInBox'
  BY <1>1, <1>2 DEF SpansInBox, Box
<1>3. CASE UNCHANGED vars
  BY <1>1, <1>2, <1>3, CellsGoOn DEF vars, RowsInv
<1>4. CASE convert_glyph
  <2>1. Cells(ras)'
    BY <1>1, <1>4, CellsCleared
  <2>2. spans' = <<>> /\ pass'.running
    BY <1>4 DEF convert_glyph
  <2>3. SpansInBox'
    BY <2>2 DEF SpansInBox
  <2> QED BY <2>1, <2>2, <2>3 DEF RowsInv
<1>5. CASE move_to \/ line_to \/ render_conic \/ render_cubic \/ pop_arc \/ sub_line
  <2>1. pass' = pass /\ spans' = spans /\ pass.running
    BY <1>5 DEF move_to, line_to, render_conic, render_cubic, pop_arc, sub_line, Doing
  <2>2. Cells(ras)'
    <3>1. CASE move_to
      <4> DEFINE to == Argument(1)
      <4>1. to \in Point /\ ras' = set_cell(ras, trunc(to[1]), trunc(to[2]))
        BY <1>1, <3>1, Operands DEF move_to
      <4> HIDE DEF to
      <4>2. trunc(to[1]) \in Int /\ trunc(to[2]) \in Int
        BY <4>1, InPixel DEF Point
      <4> QED BY <1>1, <2>1, <4>1, <4>2, CellSet, CellsGoOn
    <3>2. CASE line_to
      <4>1. Argument(1) \in Point /\ render_line(Argument(1))
        BY <1>1, <3>2, Operands DEF line_to
      <4> QED BY <1>1, <2>1, <4>1, CellsBegun
    <3>3. CASE sub_line
      <4>1. Head(todo).points[1] \in Point /\ render_line(Head(todo).points[1])
        BY <1>1, <3>3, Operands DEF sub_line
      <4> QED BY <1>1, <2>1, <4>1, CellsBegun
    <3>4. CASE pop_arc
      <4>1. Head(todo).points[1] \in Point
        BY <1>1, <3>4, Operands DEF pop_arc
      <4>2. ras' = ras \/ render_line(Head(todo).points[1])
        BY <3>4 DEF pop_arc
      <4> QED BY <1>1, <2>1, <4>1, <4>2, CellsBegun, CellsGoOn
    <3>5. CASE render_conic \/ render_cubic
      <4>1. ras' = ras
        BY <3>5 DEF render_conic, render_cubic
      <4> QED BY <1>1, <2>1, <4>1, CellsGoOn
    <3> QED BY <1>5, <3>1, <3>2, <3>3, <3>4, <3>5
  <2> QED BY <1>2, <2>1, <2>2 DEF RowsInv
<1>6. CASE Step
  <2>1. pass' = pass /\ spans' = spans /\ line.on
    BY <1>6 DEF Step, Left, Up, Right, Down, Slanted, Vertical, Cross, EndLine
  <2>2. Cells(ras)'
    BY <1>1, <1>6, CellsStepped
  <2> QED BY <1>1, <1>2, <2>1, <2>2 DEF RowsInv
<1>7. CASE Refuse \/ sweep
  <2>1. pass' = [pass EXCEPT !.running = FALSE] /\ ras' = ras /\ line' = line /\ ~line.on
    BY <1>7 DEF Refuse, Doing, sweep
  <2>2. ~pass'.running /\ Box' = Box
    <3>1. pass \in Pass
      BY <1>1 DEF RasterTypes
    <3> QED BY <2>1, <3>1 DEF Pass, Box
  <2>3. Cells(ras)'
    BY <1>1, <2>1, <2>2 DEF Cells, Dumpster
  <2>4. CASE Refuse
    <3>1. spans' = spans
      BY <2>4 DEF Refuse
    <3>2. SpansInBox'
      BY <1>1, <2>2, <3>1 DEF SpansInBox
    <3> QED BY <2>1, <2>3, <3>2 DEF RowsInv
  <2>5. CASE sweep
    <3>1. spans' = SweptRows /\ pass.running
      BY <2>5 DEF sweep
    <3>2. Orderly(SweptRows, Box.maxY, Box.minX)
      BY <1>1, <3>1, RowsSwept
    <3>3. /\ DOMAIN spans' = 1..Len(spans')
          /\ \A i \in 1..Len(spans') :
               /\ Box.minX <= spans'[i].x /\ spans'[i].x + spans'[i].len <= Box.maxX
               /\ Box.minY <= spans'[i].y /\ spans'[i].y < Box.maxY
          /\ \A i, j \in 1..Len(spans') : i < j => Follows(spans'[i], spans'[j])
      BY <3>1, <3>2 DEF Orderly
    <3>4. SpansInBox'
      BY <2>2, <3>3 DEF SpansInBox, Follows
    <3> QED BY <2>1, <2>3, <3>4 DEF RowsInv
  <2> QED BY <1>7, <2>4, <2>5
<1> QED BY <1>3, <1>4, <1>5, <1>6, <1>7 DEF Next

\* What a pass writes lies in its clip box, from left to right and row by row, and no
\* pixel is written twice, whatever the outline, the box, the widths and what an earlier
\* pass left in the cells (set_cell, gray_sweep).
THEOREM SpansStayInBox == Spec => []SpansInBox
<1>1. Init => PathInv /\ RowsInv
  BY RasterInit, RowsInit
<1>2. PathInv /\ RowsInv /\ [Next]_vars => (PathInv /\ RowsInv)'
  BY RasterNext, RowsNext
<1>3. RowsInv => SpansInBox
  BY DEF RowsInv
<1> QED BY <1>1, <1>2, <1>3, PTL DEF Spec
=============================================================================
