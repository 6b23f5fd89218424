----------------------------- MODULE GrayRaster -----------------------------
(***************************************************************************)
(* The smooth rasterizer (src/src/grays.rs).  A pass renders the contours  *)
(* of an outline, line by line and pixel by pixel, into cells that hold    *)
(* the height and the area to the left of what crossed a pixel, and then   *)
(* sweeps the rows of cells into spans of coverage.  The cells of one pass *)
(* are reused by the next.                                                 *)
(*                                                                         *)
(* Widths of fixed-point numbers are constants, so that the same           *)
(* definitions run with few bits: the code has PixelBits = 8, Upscale = 4, *)
(* UdivBits = 32 and CurveBits = 16.  Wrapping additions are left out.     *)
(***************************************************************************)
EXTENDS Outline, Integers, SequencesExt, FiniteSetsExt

CONSTANTS
  PixelBits,   \* bits of a coordinate below the pixel
  Upscale,     \* subpixels per unit of an outline
  UdivBits,    \* bits of a reciprocal
  CurveBits,   \* half the bits below the subpixel while a conic is followed
  Modes,       \* what a pass is given: a clip box in pixels, a shift (the colours of
               \* an LCD are passes with different shifts) and a fill rule
  Outlines,    \* sequences of contours
  Again,       \* outlines for the passes that find used cells
  MaxPasses,   \* bound: passes with the same cells
  Samples      \* slices of a subpixel row in the exact area

ASSUME RasterAssumption ==
  /\ PixelBits \in Nat /\ Upscale \in Nat \ {0} /\ UdivBits \in Nat /\ CurveBits \in Nat
  /\ MaxPasses \in Nat
  /\ Modes \subseteq [box : [minX : Int, maxX : Int, minY : Int, maxY : Int],
                      offset : Int \X Int, evenOdd : BOOLEAN]
  /\ \A mode \in Modes : mode.box.minX < mode.box.maxX /\ mode.box.minY < mode.box.maxY

\* The laws of powers, for those that occur as shifts.
ASSUME PowersAssumption ==
  /\ 2^PixelBits \in Nat \ {0} /\ 2^UdivBits \in Nat \ {0}
  /\ \A a, b \in 0..(2 * CurveBits + 1) :
       2^a \in Nat \ {0} /\ 2^(a + b) = 2^a * 2^b /\ 2^(a + 1) = 2 * 2^a

VARIABLES
  pass,    \* the pass: its number, its mode, and whether it runs
  ras,     \* rows of cells, and the current cell
  at,      \* the last point, in subpixels
  line,    \* the line that is being rendered
  todo,    \* what the outline still says
  spans,   \* what the sweep wrote
  due,     \* ghost: where the outline says the path is
  edges    \* ghost: the lines rendered in this pass

vars == <<pass, ras, at, line, todo, spans, due, edges>>

-----------------------------------------------------------------------------
(* Subpixels.                                                              *)

ONE_PIXEL == 2^PixelBits
trunc(n) == n \div ONE_PIXEL
fract(n) == n % ONE_PIXEL
Box == pass.mode.box
UPSCALE(p) == <<Upscale * (p[1] + pass.mode.offset[1]), Upscale * (p[2] + pass.mode.offset[2])>>

\* A division is a multiplication by a reciprocal, cut towards zero.
ft_udivprep(used, b) ==
  IF ~used THEN 0 ELSE IF b > 0 THEN (2^UdivBits - 1) \div b ELSE -((2^UdivBits - 1) \div (-b))
ft_udiv(a, r) == (a * r) \div 2^UdivBits

\* All of the points lie above the box, or all below it.
OutOfBand(points) ==
  \/ \A i \in DOMAIN points : trunc(points[i][2]) >= Box.maxY
  \/ \A i \in DOMAIN points : trunc(points[i][2]) < Box.minY

-----------------------------------------------------------------------------
(* Cells.                                                                  *)

Dumpster == 0

Added(cell, a, b) == [cell EXCEPT !.cover = @ + a, !.area = @ + a * b]

integrate(r, a, b) ==
  IF r.row = Dumpster THEN r
  ELSE [r EXCEPT !.scanlines[r.row][r.idx] = Added(@, a, b)]

\* Mutant: cells to the left of the box stay where they are.
set_cell_unclamped(r, ex, ey) ==
  LET row == ey - Box.minY + 1
      cells == r.scanlines[row]
      before == Cardinality({i \in DOMAIN cells : cells[i].x < ex})
      known == before < Len(cells) /\ cells[before + 1].x = ex
  IN IF ey < Box.minY \/ ey >= Box.maxY \/ ex >= Box.maxX
     THEN [r EXCEPT !.row = Dumpster]
     ELSE [scanlines |-> IF known THEN r.scanlines
                         ELSE [r.scanlines EXCEPT ![row] =
                                 InsertAt(@, before + 1, [x |-> ex, cover |-> 0, area |-> 0])],
           row |-> row, idx |-> before + 1]

\* The cell at ex, which is made in its place among the cells of the row when
\* there is none.  All cells to the left of the box are one.
set_cell(r, ex, ey) ==
  LET row == ey - Box.minY + 1
      x == IF ex < Box.minX THEN Box.minX - 1 ELSE ex
      cells == r.scanlines[row]
      before == Cardinality({i \in DOMAIN cells : cells[i].x < x})
      known == before < Len(cells) /\ cells[before + 1].x = x
  IN IF ey < Box.minY \/ ey >= Box.maxY \/ ex >= Box.maxX
     THEN [r EXCEPT !.row = Dumpster]
     ELSE [scanlines |-> IF known THEN r.scanlines
                         ELSE [r.scanlines EXCEPT ![row] =
                                 InsertAt(@, before + 1, [x |-> x, cover |-> 0, area |-> 0])],
           row |-> row, idx |-> before + 1]

-----------------------------------------------------------------------------
(* Lines, pixel by pixel.                                                  *)

NoLine == [to |-> <<0, 0>>, ex |-> 0, ey |-> 0, fx |-> 0, fy |-> 0, prod |-> 0, on |-> FALSE]

Reached(to) == at' = to /\ edges' = Append(edges, <<at, to>>)

\* render_line up to its loops.
render_line(to) ==
  LET dx == to[1] - at[1]
      dy == to[2] - at[2]
      ex == trunc(at[1])
      ey == trunc(at[2])
      fx == fract(at[1])
      fy == fract(at[2])
  IN \/ /\ OutOfBand(<<at, to>>)
        /\ Reached(to) /\ UNCHANGED <<ras, line>>
     \/ /\ ~OutOfBand(<<at, to>>) /\ dy = 0 /\ ex # trunc(to[1])
        /\ ras' = set_cell(ras, trunc(to[1]), trunc(to[2]))
        /\ Reached(to) /\ UNCHANGED line
     \/ /\ ~OutOfBand(<<at, to>>) /\ ~(dy = 0 /\ ex # trunc(to[1]))
        /\ line' = [to |-> to, ex |-> ex, ey |-> ey, fx |-> fx, fy |-> fy,
                    prod |-> dx * fy - dy * fx, on |-> TRUE]
        /\ UNCHANGED <<ras, at, edges>>

Dx == line.to[1] - at[1]
Dy == line.to[2] - at[2]
ToX == trunc(line.to[1])
ToY == trunc(line.to[2])
dx_r == ft_udivprep(trunc(at[1]) # ToX, Dx)
dy_r == ft_udivprep(trunc(at[2]) # ToY, Dy)

Ends == line.ex = ToX /\ line.ey = ToY

\* Which side of the pixel the line leaves by.
p_left == line.prod - Dx * ONE_PIXEL
p_up == p_left + Dy * ONE_PIXEL
p_right == line.prod + Dy * ONE_PIXEL
LeavesLeft == p_left > 0 /\ line.prod <= 0
LeavesUp == ~LeavesLeft /\ p_up > 0 /\ p_left <= 0
\* Mutant: a line through the lower right corner leaves below.
LeavesRight_strict == ~LeavesLeft /\ ~LeavesUp /\ p_right > 0 /\ p_up <= 0
LeavesRight == ~LeavesLeft /\ ~LeavesUp /\ p_right >= 0 /\ p_up <= 0

\* The line leaves at (fx2, fy2) and goes on in the pixel (ex, ey) at (fx, fy).
Cross(fx2, fy2, ex, ey, fx, fy, prod) ==
  /\ ras' = set_cell(integrate(ras, fy2 - line.fy, line.fx + fx2), ex, ey)
  /\ line' = [line EXCEPT !.ex = ex, !.ey = ey, !.fx = fx, !.fy = fy, !.prod = prod]
  /\ UNCHANGED <<pass, at, todo, spans, due, edges>>

Slanted == line.on /\ ~Ends /\ Dx # 0

Left ==
  LET fy2 == ft_udiv(-line.prod, -dx_r)
  IN Slanted /\ LeavesLeft
     /\ Cross(0, fy2, line.ex - 1, line.ey, ONE_PIXEL, fy2, line.prod - Dy * ONE_PIXEL)
Up ==
  LET prod == line.prod - Dx * ONE_PIXEL
      fx2 == ft_udiv(-prod, dy_r)
  IN Slanted /\ LeavesUp /\ Cross(fx2, ONE_PIXEL, line.ex, line.ey + 1, fx2, 0, prod)
Right ==
  LET prod == line.prod + Dy * ONE_PIXEL
      fy2 == ft_udiv(prod, dx_r)
  IN Slanted /\ LeavesRight /\ Cross(ONE_PIXEL, fy2, line.ex + 1, line.ey, 0, fy2, prod)
Down ==
  LET fx2 == ft_udiv(line.prod, -dy_r)
  IN Slanted /\ ~LeavesLeft /\ ~LeavesUp /\ ~LeavesRight
     /\ Cross(fx2, 0, line.ex, line.ey - 1, fx2, ONE_PIXEL, line.prod + Dx * ONE_PIXEL)
Vertical ==
  /\ line.on /\ ~Ends /\ Dx = 0
  /\ IF Dy > 0 THEN Cross(line.fx, ONE_PIXEL, line.ex, line.ey + 1, line.fx, 0, line.prod)
               ELSE Cross(line.fx, 0, line.ex, line.ey - 1, line.fx, ONE_PIXEL, line.prod)

\* The rest of the line lies in the last pixel.
EndLine ==
  /\ line.on /\ Ends
  /\ ras' = integrate(ras, fract(line.to[2]) - line.fy, line.fx + fract(line.to[1]))
  /\ Reached(line.to)
  /\ line' = NoLine
  /\ UNCHANGED <<pass, todo, spans, due>>

-----------------------------------------------------------------------------
(* Curves become lines.                                                    *)

Absolute(n) == IF n < 0 THEN -n ELSE n
Further(a, b) == IF Absolute(a) > Absolute(b) THEN Absolute(a) ELSE Absolute(b)

\* How often a curve that bends by d is halved before it is flat.
Halvings(d) == Cardinality({k \in 0..(CurveBits - 1) : d \div 4^k > ONE_PIXEL \div 4})

\* Mutant: the first difference lacks the second one.
conic_lines_late(p0, p1, p2) ==
  LET B(i) == p1[i] - p0[i]
      A(i) == p2[i] - p1[i] - B(i)
      d == Further(A(1), A(2))
      n == Halvings(d)
      shift == CurveBits - n
      R(i) == A(i) * 2^(2 * shift)
      Q(i) == B(i) * 2^(shift + CurveBits + 1)
      P(i, k) == p0[i] * 2^(2 * CurveBits) + k * Q(i) + k * (k - 1) * R(i)
  IN IF d <= ONE_PIXEL \div 4 THEN <<p2>>
     ELSE [k \in 1..2^n |-> <<P(1, k) \div 2^(2 * CurveBits), P(2, k) \div 2^(2 * CurveBits)>>]

\* A conic is followed in 2^n steps; differences are added up with 2 * CurveBits
\* bits below the subpixel.
conic_lines(p0, p1, p2) ==
  LET B(i) == p1[i] - p0[i]
      A(i) == p2[i] - p1[i] - B(i)
      d == Further(A(1), A(2))
      n == Halvings(d)
      shift == CurveBits - n
      R(i) == A(i) * 2^(2 * shift)
      Q(i) == B(i) * 2^(shift + CurveBits + 1) + R(i)
      \* the sum of the first k values of q, which grows by 2 r
      P(i, k) == p0[i] * 2^(2 * CurveBits) + k * Q(i) + k * (k - 1) * R(i)
  IN IF d <= ONE_PIXEL \div 4 THEN <<p2>>
     ELSE [k \in 1..2^n |-> <<P(1, k) \div 2^(2 * CurveBits), P(2, k) \div 2^(2 * CurveBits)>>]

\* Both halves of a cubic <<to, control2, control1, from>> on one axis.
split_cubic_axis(a) ==
  LET high == a[1] + a[2]
      mid == a[2] + a[3]
      low == a[3] + a[4]
      middle == (high + 2 * mid + low) \div 8
  IN [right |-> <<a[1], high \div 2, (high + mid) \div 4, middle>>,
      left |-> <<middle, (low + mid) \div 4, low \div 2, a[4]>>]

Flat(arc) ==
  \A i \in 1..2 :
    LET a == arc[1][i]  b == arc[2][i]  c == arc[3][i]  d == arc[4][i]
    IN /\ Absolute(2 * a - 3 * b + d) <= ONE_PIXEL \div 2
       /\ Absolute(a - 3 * c + 2 * d) <= ONE_PIXEL \div 2

Halves(arc) ==
  LET x == split_cubic_axis([k \in 1..4 |-> arc[k][1]])
      y == split_cubic_axis([k \in 1..4 |-> arc[k][2]])
  IN [left |-> [k \in 1..4 |-> <<x.left[k], y.left[k]>>],
      right |-> [k \in 1..4 |-> <<x.right[k], y.right[k]>>]]

-----------------------------------------------------------------------------
(* A pass.                                                                 *)

Idle == [number |-> 0, running |-> FALSE,
         mode |-> [evenOdd |-> FALSE, offset |-> <<0, 0>>,
                   box |-> [minX |-> 0, maxX |-> 1, minY |-> 0, maxY |-> 1]]]

Task(op, points) == [op |-> op, points |-> points]

\* decompose: a contour is begun, followed and, if it is open, closed by a line.
\* A contour that is no contour ends the outline.
Tasks(outline) ==
  LET Add(acc, contour) ==
        LET s == Segments(contour)
            closing == IF s.open THEN <<Task("line", <<s.start>>)>> ELSE <<>>
        IN acc \o <<Task("move", <<s.start>>)>> \o s.calls \o closing
  IN FoldLeft(Add, <<>>, outline)

\* What decompose makes of an outline are calls on integer points.
Point == Int \X Int
Called(op, n) == [op : {op}, points : [1..n -> Point]]
Calls == Called("move", 1) \union Called("line", 1) \union Called("curve", 2)
           \union Called("curve", 3) \union Called("bad", 0)
ASSUME OutlinesAssumption == \A outline \in Outlines \union Again : Tasks(outline) \in Seq(Calls)

\* Mutant: only rows that are new are empty.
Grown(scanlines, height) ==
  [row \in 1..(IF Len(scanlines) < height THEN height ELSE Len(scanlines)) |->
     IF row <= Len(scanlines) THEN scanlines[row] ELSE <<>>]

Cleared(scanlines, height) ==
  [row \in 1..(IF Len(scanlines) < height THEN height ELSE Len(scanlines)) |->
     IF row <= height THEN <<>> ELSE scanlines[row]]

Init ==
  /\ pass = Idle
  /\ ras = [scanlines |-> <<>>, row |-> Dumpster, idx |-> 0]
  /\ at = <<0, 0>>
  /\ line = NoLine
  /\ todo = <<>>
  /\ spans = <<>>
  /\ due = <<0, 0>>
  /\ edges = <<>>

convert_glyph ==
  /\ ~pass.running /\ pass.number < MaxPasses
  /\ \E mode \in Modes, outline \in (IF pass.number = 0 THEN Outlines ELSE Again) :
       /\ pass' = [number |-> pass.number + 1, running |-> TRUE, mode |-> mode]
       /\ ras' = [scanlines |-> Cleared(ras.scanlines, mode.box.maxY - mode.box.minY),
                  row |-> Dumpster, idx |-> 0]
       /\ todo' = Tasks(outline)
  /\ spans' = <<>> /\ edges' = <<>>
  /\ UNCHANGED <<at, line, due>>

Doing(op) == pass.running /\ ~line.on /\ todo # <<>> /\ Head(todo).op = op
Argument(i) == UPSCALE(Head(todo).points[i])
Instead(tasks) == todo' = tasks \o Tail(todo)

move_to ==
  /\ Doing("move")
  /\ ras' = set_cell(ras, trunc(Argument(1)[1]), trunc(Argument(1)[2]))
  /\ at' = Argument(1) /\ due' = Argument(1)
  /\ Instead(<<>>)
  /\ UNCHANGED <<pass, line, spans, edges>>

line_to ==
  /\ Doing("line")
  /\ render_line(Argument(1)) /\ due' = Argument(1)
  /\ Instead(<<>>)
  /\ UNCHANGED <<pass, spans>>

\* A conic outside of the band is skipped as a whole.
render_conic ==
  /\ Doing("curve") /\ Len(Head(todo).points) = 2
  /\ due' = Argument(2)
  /\ LET lines == conic_lines(at, Argument(1), Argument(2))
     IN IF OutOfBand(<<at, Argument(1), Argument(2)>>)
        THEN Instead(<<>>) /\ Reached(Argument(2))
        ELSE /\ Instead([k \in DOMAIN lines |-> Task("sub", <<lines[k]>>)])
             /\ UNCHANGED <<at, edges>>
  /\ UNCHANGED <<pass, ras, line, spans>>

render_cubic ==
  /\ Doing("curve") /\ Len(Head(todo).points) = 3
  /\ due' = Argument(3)
  /\ Instead(<<Task("arc", <<Argument(3), Argument(2), Argument(1), at>>)>>)
  /\ UNCHANGED <<pass, ras, at, line, spans, edges>>

\* The top of the stack of arcs: skipped, drawn or split.
pop_arc ==
  /\ Doing("arc")
  /\ LET arc == Head(todo).points
         halves == Halves(arc)
     IN \/ /\ OutOfBand(arc)
           /\ Reached(arc[1]) /\ Instead(<<>>) /\ UNCHANGED <<ras, line>>
        \/ /\ ~OutOfBand(arc) /\ Flat(arc)
           /\ render_line(arc[1]) /\ Instead(<<>>)
        \/ /\ ~OutOfBand(arc) /\ ~Flat(arc)
           /\ Instead(<<Task("arc", halves.left), Task("arc", halves.right)>>)
           /\ UNCHANGED <<ras, at, line, edges>>
  /\ UNCHANGED <<pass, spans, due>>

sub_line ==
  /\ Doing("sub")
  /\ render_line(Head(todo).points[1])
  /\ Instead(<<>>)
  /\ UNCHANGED <<pass, spans, due>>

\* An invalid contour: the pass ends, and nothing is swept.
Refuse ==
  /\ Doing("bad")
  /\ pass' = [pass EXCEPT !.running = FALSE]
  /\ todo' = <<>> /\ edges' = <<>>
  /\ UNCHANGED <<ras, at, line, spans, due>>

-----------------------------------------------------------------------------
(* The sweep.                                                              *)

\* Areas have 2 * PixelBits + 1 bits, coverages eight.
fill_rule(area) ==
  LET raw == IF 2 * PixelBits + 1 >= 8 THEN area \div 2^(2 * PixelBits + 1 - 8)
                                       ELSE area * 2^(8 - 2 * PixelBits - 1)
      odd == (raw \div 256) % 2 = 1
  IN IF pass.mode.evenOdd THEN (IF odd THEN -raw - 1 ELSE raw) % 256
     ELSE LET c == IF raw < 0 THEN -raw - 1 ELSE raw IN IF c > 255 THEN 255 ELSE c

Span(y, x, len, area) ==
  IF len <= 0 THEN <<>> ELSE <<[y |-> y, x |-> x, len |-> len, coverage |-> fill_rule(area)]>>

\* One cell: the run of the height so far up to it, and the pixel itself.
SweptCell(y, swept, cell) ==
  LET gap == IF swept.cover # 0 /\ cell.x > swept.x
             THEN Span(y, swept.x, cell.x - swept.x, swept.cover) ELSE <<>>
      cover == swept.cover + cell.cover * 2 * ONE_PIXEL
      area == cover - cell.area
      own == IF area # 0 /\ cell.x >= Box.minX THEN Span(y, cell.x, 1, area) ELSE <<>>
  IN [x |-> cell.x + 1, cover |-> cover, out |-> swept.out \o gap \o own]

SweptCells(y) ==
  LET cells == ras.scanlines[y - Box.minY + 1]
      swept[k \in 0..Len(cells)] ==
        IF k = 0 THEN [x |-> Box.minX, cover |-> 0, out |-> <<>>]
                 ELSE SweptCell(y, swept[k - 1], cells[k])
  IN swept[Len(cells)]

\* One row: the cells, and the rest up to the right side of the box.
SweptRow(y) ==
  LET all == SweptCells(y)
  IN all.out \o IF all.cover # 0 THEN Span(y, all.x, Box.maxX - all.x, all.cover) ELSE <<>>

SweptRows ==
  LET rows[k \in 0..(Box.maxY - Box.minY)] ==
        IF k = 0 THEN <<>> ELSE rows[k - 1] \o SweptRow(Box.minY + k - 1)
  IN rows[Box.maxY - Box.minY]

sweep ==
  /\ pass.running /\ ~line.on /\ todo = <<>>
  /\ spans' = SweptRows
  /\ pass' = [pass EXCEPT !.running = FALSE]
  /\ UNCHANGED <<ras, at, line, todo, due, edges>>

Step == Left \/ Up \/ Right \/ Down \/ Vertical \/ EndLine
Next == \/ convert_glyph \/ move_to \/ line_to \/ render_conic \/ render_cubic
        \/ pop_arc \/ sub_line \/ Refuse \/ sweep \/ Step

Spec == Init /\ [][Next]_vars

-----------------------------------------------------------------------------
(* Properties.                                                             *)

\* The exact area, doubled, that an edge leaves between itself and the right
\* side of a pixel, in one of Samples slices of a row of subpixels.
Slice(edge, px, y) ==
  LET a == edge[1]
      b == edge[2]
      dy == b[2] - a[2]
      low == Samples * (IF dy > 0 THEN a[2] ELSE b[2])
      high == Samples * (IF dy > 0 THEN b[2] ELSE a[2])
      doubled == 2 * a[1] + ((b[1] - a[1]) * (2 * (y - Samples * a[2]) + 1)) \div (Samples * dy)
      rest == 2 * (px + 1) * ONE_PIXEL - doubled
      area == IF rest < 0 THEN 0 ELSE IF rest > 2 * ONE_PIXEL THEN 2 * ONE_PIXEL ELSE rest
  IN IF y < low \/ y >= high THEN 0 ELSE IF dy > 0 THEN area ELSE -area

ExactArea(px, py) ==
  LET slices == {py * ONE_PIXEL * Samples + s : s \in 0..(ONE_PIXEL * Samples - 1)}
      Edge(acc, edge) == acc + MapThenSumSet(LAMBDA y : Slice(edge, px, y), slices)
  IN FoldLeft(Edge, 0, edges) \div Samples

Written(px, py) ==
  LET here == SelectSeq(spans, LAMBDA s : s.y = py /\ s.x <= px /\ px < s.x + s.len)
  IN IF here = <<>> THEN 0 ELSE here[1].coverage

Swept == pass.number > 0 /\ ~pass.running /\ edges # <<>>

\* Where a line enters and where it leaves a pixel is each cut by less than a subpixel.
Tolerance(px, py) ==
  LET Between(n, a, b) == (a <= n + ONE_PIXEL \/ b <= n + ONE_PIXEL) /\ (a >= n \/ b >= n)
      near == {i \in DOMAIN edges : \A k \in 1..2 :
                 Between((IF k = 1 THEN px ELSE py) * ONE_PIXEL, edges[i][1][k], edges[i][2][k])}
  IN 2 * ONE_PIXEL * Cardinality(near)

\* Every pixel of the clip box gets the coverage of the exact area of the lines,
\* up to what the lines through it lose by cutting, however they cross the
\* pixels and the box, and whatever an earlier pass left in the cells.
CoverageNearExact ==
  Swept => \A px \in Box.minX..(Box.maxX - 1), py \in Box.minY..(Box.maxY - 1) :
    LET exact == ExactArea(px, py)
        off == Tolerance(px, py)
    IN \E area \in (exact - off)..(exact + off) : Written(px, py) = fill_rule(area)

\* What is written lies in the clip box, from left to right, and nothing twice,
\* also when an outline crosses the box on any side.
SpansInBox ==
  \A i \in DOMAIN spans :
    /\ Box.minX <= spans[i].x /\ spans[i].x + spans[i].len <= Box.maxX
    /\ Box.minY <= spans[i].y /\ spans[i].y < Box.maxY
    /\ \A j \in DOMAIN spans :
         i < j => \/ spans[i].y < spans[j].y
                  \/ spans[i].y = spans[j].y /\ spans[i].x + spans[i].len <= spans[j].x

\* From pixel to pixel a line comes nearer to its end, so it neither misses the
\* last pixel nor goes round a corner for ever.
Remaining == Absolute(line.ex - ToX) + Absolute(line.ey - ToY)
EachStepNearer == [][line.on /\ line'.on => Remaining' < Remaining]_line

\* When the pieces of a curve are rendered the path is where the outline says,
\* so contours close, whatever was cut off or skipped on the way.
CurvesMeet ==
  pass.running /\ ~line.on /\ (todo # <<>> => Head(todo).op \notin {"sub", "arc"})
    => at = due
=============================================================================
