------------------------------ MODULE Stroker -------------------------------
(***************************************************************************)
(* The stroker (src/src/ffi/handles.rs): a path given call by call becomes *)
(* two borders, a left and a right one, each a list of points whose tags   *)
(* mark where contours begin and end.  Beside the general algorithm the    *)
(* code has shortcuts, which publish outlines written down for certain     *)
(* paths.                                                                  *)
(*                                                                         *)
(* Points lie on a lattice, long compared with the radius, and directions  *)
(* are counted in units of 45 degrees.  A point of a border is a lattice   *)
(* point and the offset from it.  How many small arcs a curve has is data. *)
(***************************************************************************)
EXTENDS Outline, Integers, SequencesExt, FiniteSets

CONSTANTS
  Attributes,   \* radius, cap, join and miter limit a program may set
  Starts,       \* where sub-paths begin
  Vectors,      \* where lines go
  Curves,       \* one or two control points and an end
  Tight,        \* the curves whose bend is narrower than the radius
  Outlines,     \* outlines to parse: contours of tagged points
  MaxSegments,  \* bound: lines and curves of a sub-path
  MaxCalls      \* bound: calls since the last rewind

ASSUME StrokerAssumption ==
  /\ MaxSegments \in Nat /\ MaxCalls \in Nat
  /\ \A a \in Attributes : /\ a.radius \in {0, 80, 96}
                           /\ a.cap \in {"butt", "square", "round"}
                           /\ a.join \in {"round", "bevel", "fixed", "variable"}
                           /\ a.limit \in {"least", "large"}

VARIABLES
  path,    \* the stroker, a shadow of it without shortcuts, and ghosts
  pieces,  \* ghost: lines and curves since the sub-path began
  todo,    \* what FT_Stroker_ParseOutline still has to call
  calls    \* ghost: calls since the last rewind

vars == <<path, pieces, todo, calls>>

Sides == {"left", "right"}

-----------------------------------------------------------------------------
(* Lattice and directions.                                                 *)

Sgn(n) == IF n > 0 THEN 1 ELSE IF n < 0 THEN -1 ELSE 0
Minus(a, b) == <<a[1] - b[1], a[2] - b[2]>>

Octant == << <<1, 0>>, <<1, 1>>, <<0, 1>>, <<-1, 1>>, <<-1, 0>>, <<-1, -1>>, <<0, -1>>, <<1, -1>> >>
Direction(a, b) ==
  LET d == Minus(b, a)
      v == <<Sgn(d[1]), Sgn(d[2])>>
  IN IF v = <<0, 0>> THEN 0 ELSE (CHOOSE k \in 1..8 : Octant[k] = v) - 1

\* FT_Angle_Diff: more than -4, at most 4.
Turn(in, out) == LET d == (out - in) % 8 IN IF d > 4 THEN d - 8 ELSE d
Size(t) == IF t < 0 THEN -t ELSE t

\* side_to_rotate: the right border is a quarter turn to the left of the path.
Rotate(side) == IF side = "right" THEN 2 ELSE -2
OtherSide(side) == IF side = "right" THEN "left" ELSE "right"

\* Points of borders.  Without a radius every offset is none.
Offset(s, at, kind, a, b) ==
  [at |-> at, off |-> IF s.radius = 0 THEN <<"none", 0, 0>> ELSE <<kind, a % 8, b % 8>>]
Normal(s, at, direction) == Offset(s, at, "normal", direction, 0)

-----------------------------------------------------------------------------
(* StrokeBorderState.                                                      *)

NoStart == -1
EmptyBorder == [points |-> <<>>, start |-> NoStart, movable |-> FALSE, valid |-> FALSE]

Tagged(p, tags) == [at |-> p.at, off |-> p.off, tags |-> tags]
Marked(p, tag) == Tagged(p, p.tags \union {tag})
LastPlace(b) == [at |-> Last(b.points).at, off |-> Last(b.points).off]

\* A movable last point is replaced; a point at the same place is not repeated.
Duplicate(b, p) ==
  b.start # NoStart /\ Len(b.points) > b.start /\ LastPlace(b) = p

\* Mutant: a border stays valid for export when a point is added.
lineto_valid(b, p, movable) ==
  [b EXCEPT !.points = IF b.movable /\ @ # <<>> THEN Append(Front(@), Tagged(p, Last(@).tags))
                       ELSE IF b.movable \/ Duplicate(b, p) THEN @
                       ELSE Append(@, Tagged(p, {"on"})),
            !.movable = movable]

lineto(b, p, movable) ==
  [b EXCEPT !.points = IF b.movable /\ @ # <<>> THEN Append(Front(@), Tagged(p, Last(@).tags))
                       ELSE IF b.movable \/ Duplicate(b, p) THEN @
                       ELSE Append(@, Tagged(p, {"on"})),
            !.movable = movable, !.valid = FALSE]

\* cubicto, conicto: control points and an end.
curveto(b, controls, p) ==
  [b EXCEPT !.points = @ \o [i \in DOMAIN controls |-> Tagged(p, controls[i])]
                         \o <<Tagged(p, {"on"})>>,
            !.movable = FALSE, !.valid = FALSE]
CubicControls == <<{"cubic"}, {"cubic"}>>
ConicControls == << {} >>

\* The first point takes the place of the last, which is dropped; a single
\* point is no contour.
close(b, reversed) ==
  LET n == Len(b.points)
      ring == <<b.points[n]>> \o SubSeq(b.points, b.start + 2, n - 1)
      turned == IF reversed THEN <<Head(ring)>> \o Reverse(Tail(ring)) ELSE ring
      begun == [turned EXCEPT ![1] = Marked(@, "begin")]
      ended == [begun EXCEPT ![Len(begun)] = Marked(@, "end")]
  IN IF b.start = NoStart THEN b
     ELSE [points |-> SubSeq(b.points, 1, b.start) \o (IF n <= b.start + 1 THEN <<>> ELSE ended),
           start |-> NoStart, movable |-> FALSE, valid |-> FALSE]

moveto(b, p) ==
  LET c == close(b, FALSE)
  IN lineto([c EXCEPT !.start = Len(c.points), !.movable = FALSE], p, FALSE)

\* arcto: as many cubics as quarter turns; the end lies at the last direction.
arcto(b, s, side, in, turn) ==
  LET end == in + Rotate(side) + (IF turn = 4 THEN -2 * Rotate(side) ELSE turn)
      arcs == (Size(turn) + 1) \div 2
      drawn[k \in 0..arcs] ==
        IF k = 0 THEN b
        ELSE curveto(drawn[k - 1], CubicControls,
               IF k = arcs THEN Normal(s, s.center, end) ELSE Offset(s, s.center, "arc", in, k))
  IN drawn[arcs]

\* append_reverse_from: the open part of source ends up at the end of b.
AppendReverse(b, source) ==
  IF source.start = NoStart \/ source.start >= Len(source.points)
  THEN [to |-> b, from |-> source]
  ELSE [to |-> [b EXCEPT !.points = @ \o [i \in 1..(Len(source.points) - source.start) |->
                   LET p == source.points[Len(source.points) - i + 1]
                   IN Tagged(p, p.tags \ {"begin", "end"})],
                         !.movable = FALSE, !.valid = FALSE],
        from |-> [source EXCEPT !.points = SubSeq(@, 1, source.start),
                                !.movable = FALSE, !.valid = FALSE]]

\* counts: begins and ends have to alternate, or the outline is invalid.
Ends(b) == {i \in DOMAIN b.points : "end" \in b.points[i].tags}
Balanced(b) ==
  \A i \in DOMAIN b.points :
    /\ "begin" \in b.points[i].tags <=> (i = 1 \/ "end" \in b.points[i - 1].tags)
    /\ i = Len(b.points) => "end" \in b.points[i].tags

Counts(b) == [points |-> Len(b.points), contours |-> Cardinality(Ends(b))]
NoCounts == [points |-> 0, contours |-> 0]

-----------------------------------------------------------------------------
(* StrokerState.                                                           *)

NoPath == <<>>
Origin == <<0, 0>>

\* with_attributes: what FT_Stroker_Set makes.
Fresh(a) ==
  [radius |-> a.radius, cap |-> a.cap, join |-> a.join, limit |-> a.limit,
   in |-> 0, out |-> 0, start |-> Origin, center |-> Origin, open |-> FALSE,
   first |-> FALSE, corner |-> Origin, angle |-> 0, long |-> FALSE, startLong |-> FALSE,
   single |-> FALSE, wide |-> FALSE, segments |-> 0,
   success |-> FALSE, pending |-> NoPath, counted |-> TRUE,
   published |-> [side \in Sides |-> NoCounts],   \* left_points, left_contours, ...
   outline |-> [side \in Sides |-> NoCounts],     \* sizes of left_outline, right_outline
   border |-> [side \in Sides |-> EmptyBorder]]

Initially == [radius |-> 0, cap |-> "round", join |-> "round", limit |-> "least"]

\* Mutant: the flag of a stored curve survives.
rewind_keeps_success(s) == [Fresh(s) EXCEPT !.success = s.success]

rewind_path(s) == Fresh(s)

\* reset_pending_curve_state: everything but the attributes and what
\* BeginSubPath said of the sub-path; the borders lose earlier sub-paths too.
reset_pending_curve_state(s, start) ==
  [Fresh(s) EXCEPT !.first = TRUE, !.center = start, !.start = start, !.corner = start,
                   !.open = s.open, !.wide = s.wide]

OnBorder(s, side, b) == [s EXCEPT !.border[side] = b]

\* A direction is turned into: the inner border is cut short where two long
\* segments meet, or gets the start of the next.
process_inside_corner(s, side, long) ==
  LET b == s.border[side]
      t == Turn(s.in, s.out)
      intersect == b.movable /\ long /\ Size(t) <= 3 /\ s.radius # 0 /\ s.long
  IN OnBorder(s, side,
       IF intersect THEN lineto(b, Offset(s, s.center, "inner", s.in, s.out), FALSE)
       ELSE lineto([b EXCEPT !.movable = FALSE], Normal(s, s.center, s.out + Rotate(side)), FALSE))

\* The outer border gets an arc, a bevel or a miter.
process_outside_corner(s, side, long) ==
  LET b == s.border[side]
      t == Turn(s.in, s.out)
      bevel == s.join = "bevel" \/ s.limit = "least" \/ Size(t) = 4
      next == Normal(s, s.center, s.out + Rotate(side))
      Miter(k) == Offset(s, s.center, "miter", s.in, s.out + 8 * k)
      Unlong(x) == IF long THEN x ELSE lineto(x, next, FALSE)
      cut == lineto(lineto(b, Offset(s, s.center, "cut", s.in, s.out), FALSE),
                    Offset(s, s.center, "cut2", s.in, s.out), FALSE)
      point == lineto(b, Offset(s, s.center, "miter", s.in, s.out), FALSE)
  IN OnBorder(s, side,
       CASE s.join = "round" -> [arcto(b, s, side, s.in, t) EXCEPT !.movable = FALSE]
         [] s.join \in {"bevel", "fixed"} /\ bevel ->
              lineto([b EXCEPT !.movable = FALSE], next, FALSE)
         [] s.join = "variable" /\ bevel -> Unlong(cut)
         [] s.join # "round" /\ ~bevel -> Unlong(point))

process_corner(s, long) ==
  LET t == Turn(s.in, s.out)
      inside == IF t < 0 THEN "left" ELSE "right"
  IN IF t = 0 THEN s
     ELSE process_outside_corner(process_inside_corner(s, inside, long), OtherSide(inside), long)

\* cap_open_path, always on the right border.
cap_open_path(s, angle) ==
  LET b == s.border["right"]
      Corner(d) == IF s.cap = "square" THEN Offset(s, s.center, "square", angle, d)
                   ELSE Normal(s, s.center, d)
      capped == lineto(lineto(b, Corner(angle + 2), FALSE), Corner(angle - 2), FALSE)
  IN IF s.cap = "round"
     THEN OnBorder([s EXCEPT !.in = angle % 8, !.out = (angle + 4) % 8], "right",
                   [arcto(b, s, "right", angle, 4) EXCEPT !.movable = FALSE])
     ELSE OnBorder(s, "right", capped)

\* Both borders start, a radius to each side.
Started(s, angle) ==
  [s EXCEPT !.border = [side \in Sides |->
              moveto(@[side], Normal(s, s.center, angle + Rotate(side)))],
            !.angle = angle, !.first = FALSE, !.counted = FALSE]

\* Both borders follow a line to a point.
Followed(s, to, angle) ==
  [s EXCEPT !.border = [side \in Sides |-> lineto(@[side], Normal(s, to, angle + Rotate(side)), TRUE)],
            !.in = angle, !.long = (to # s.center), !.center = to, !.counted = FALSE]

start_first_line_segment(s, to) ==
  LET angle == Direction(s.center, to)
  IN [Followed(Started(s, angle), to, angle) EXCEPT
        !.startLong = TRUE, !.corner = to, !.segments = 1,
        !.published = [side \in Sides |-> [points |-> 2, contours |-> 1]]]

append_line_segment_candidate(s, to) ==
  LET angle == Direction(s.center, to)
      turned == process_corner([s EXCEPT !.out = angle], to # s.center)
  IN [Followed(turned, to, angle) EXCEPT !.corner = s.center, !.segments = @ + 1]

-----------------------------------------------------------------------------
(* Curves are cut into small arcs.  A cusp in the middle is a corner that  *)
(* is always round.  On a wide stroke the inner border of a tight curve    *)
(* runs backwards, which takes a detour.                                   *)

\* conic_is_small_enough, cubic_is_small_enough: directions at both ends;
\* control points that coincide with an end do not count.
Ways(s, from, points) ==
  LET all == <<from>> \o points
      legs == {k \in DOMAIN points : all[k] # all[k + 1]}
      Leg(k) == Direction(all[k], all[k + 1])
  IN [in |-> Leg(CHOOSE k \in legs : \A j \in legs : k <= j),
      out |-> Leg(CHOOSE k \in legs : \A j \in legs : j <= k)]

\* The curves for which an outline is written down.
ConicFixture == << <<2, 2>>, <<4, 0>> >>
CubicFixture == << <<1, 1>>, <<3, 1>>, <<4, 0>> >>
Fixtures == {ConicFixture, CubicFixture}

ArcCount(points, t) == IF points \in Fixtures THEN 6 ELSE 1 + Size(t)

\* append_conic_offset_arc, append_cubic_offset_arc with their wide sectors.
AppendArc(s, controls, to, in, out, tight, t) ==
  LET Side(side) ==
        LET b == s.border[side]
            end == Normal(s, to, out + Rotate(side))
            inner == side = (IF t < 0 THEN "left" ELSE "right")
            detour == lineto(lineto([b EXCEPT !.movable = FALSE],
                               Offset(s, to, "sector", in, out), FALSE), end, FALSE)
        IN IF s.wide /\ tight /\ inner /\ t # 0 /\ s.radius # 0 /\ b.points # <<>>
           THEN lineto(curveto(detour, controls, LastPlace(b)), end, FALSE)
           ELSE curveto(b, controls, end)
  IN [s EXCEPT !.border = [side \in Sides |-> Side(side)], !.in = out]

\* One small arc of a curve from way w.in to w.out.
CurveArc(s, points, w, k) ==
  LET t == Turn(w.in, w.out)
      n == ArcCount(points, t)
      cusp == Size(t) = 4
      controls == IF Len(points) = 2 THEN ConicControls ELSE CubicControls
      at == IF k = n THEN Last(points) ELSE points[1]
      way == IF k = n \/ (cusp /\ k > 1) THEN w.out ELSE w.in
      turned == process_corner([s EXCEPT !.center = points[1], !.out = w.out, !.join = "round"], FALSE)
  IN AppendArc(IF cusp /\ k = 2 THEN [turned EXCEPT !.join = s.join] ELSE s, controls, at,
               IF cusp THEN way ELSE w.in, way, points \in Tight, IF cusp THEN 0 ELSE t)

\* append_conic_segment, append_cubic_segment.
AppendCurve(s, points) ==
  LET w == Ways(s, s.center, points)
      n == ArcCount(points, Turn(w.in, w.out))
      begun == IF s.first THEN Started([s EXCEPT !.in = w.in, !.startLong = FALSE], w.in)
               ELSE process_corner([s EXCEPT !.out = w.in], FALSE)
      drawn[k \in 0..n] == IF k = 0 THEN begun ELSE CurveArc(drawn[k - 1], points, w, k)
  IN [drawn[n] EXCEPT !.center = Last(points), !.long = FALSE, !.counted = FALSE]

-----------------------------------------------------------------------------
(* The calls that draw.  With short, shortcuts are taken.                  *)

\* A stored curve that the path goes on from is drawn after all.
Replayed(s) ==
  IF s.pending = NoPath THEN s
  ELSE AppendCurve(reset_pending_curve_state(s, Head(s.pending)), Tail(s.pending))

BeginSubPath(s, to, open) ==
  [s EXCEPT !.first = TRUE, !.center = to, !.start = to, !.open = open, !.single = TRUE,
            !.in = 0, !.wide = (s.join # "round" \/ (open /\ s.cap = "butt"))]

LineTo(s, to) ==
  LET Lined(r) == IF r.first THEN start_first_line_segment(r, to)
                  ELSE append_line_segment_candidate(r, to)
  IN IF to = s.center THEN s ELSE Lined(Replayed(s))

\* Sizes of the outlines that are written down, by curve and kind of sub-path.
StoredSizes(points, open) ==
  LET Sized(n) == IF n = 0 THEN NoCounts ELSE [points |-> n, contours |-> 1]
      n == CASE points = ConicFixture /\ ~open -> <<25, 15>>
             [] points = ConicFixture /\ open -> <<37, 0>>
             [] points = CubicFixture /\ ~open -> <<31, 21>>
             [] points = CubicFixture /\ open -> <<49, 0>>
  IN [side \in Sides |-> Sized(IF side = "left" THEN n[1] ELSE n[2])]

IsStored(s, points) ==
  /\ s.first /\ s.center = Origin /\ s.join = "round" /\ points \in Fixtures
  /\ s.radius = IF points = ConicFixture THEN 80 ELSE 96
  /\ s.open => s.cap = "round"

\* set_conic_success_outline and its three sisters.
Stored(s, points) ==
  [s EXCEPT !.pending = IF s.open THEN NoPath ELSE <<s.center>> \o points,
            !.published = StoredSizes(points, s.open), !.outline = StoredSizes(points, s.open),
            !.counted = FALSE, !.success = TRUE, !.first = FALSE, !.center = Last(points)]

CurveTo(s, points, short) ==
  LET curved == [s EXCEPT !.single = FALSE]
      Curved(r) == IF short /\ IsStored(r, points) THEN Stored(r, points) ELSE AppendCurve(r, points)
  IN IF ToSet(points) = {s.center} THEN curved ELSE Curved(Replayed(curved))

\* Mutant: the border is not closed.
finalize_open_path_unclosed(s) ==
  LET capped == cap_open_path(s, s.in)
      joined == AppendReverse(capped.border["right"], capped.border["left"])
      turned == [capped EXCEPT !.border["right"] = joined.to, !.border["left"] = joined.from,
                               !.center = s.start]
  IN [cap_open_path(turned, s.angle + 4) EXCEPT !.counted = FALSE]

finalize_open_path(s) ==
  LET capped == cap_open_path(s, s.in)
      joined == AppendReverse(capped.border["right"], capped.border["left"])
      turned == [capped EXCEPT !.border["right"] = joined.to, !.border["left"] = joined.from,
                               !.center = s.start]
      done == cap_open_path(turned, s.angle + 4)
  IN [done EXCEPT !.border["right"] = close(@, FALSE), !.counted = FALSE]

finalize_closed_path(s) ==
  LET back == IF s.center = s.start THEN s ELSE append_line_segment_candidate(s, s.start)
      turned == process_corner([back EXCEPT !.out = s.angle], back.startLong)
  IN [turned EXCEPT !.border["right"] = close(@, FALSE), !.border["left"] = close(@, TRUE),
                    !.counted = FALSE]

Published(s, left, right) ==
  LET sizes == [side \in Sides |-> IF side = "left" THEN left ELSE right]
  IN [s EXCEPT !.published = sizes, !.outline = sizes, !.counted = TRUE]

finalize_open_single_line(s) ==
  Published(s, [points |-> CASE s.cap = "butt" -> 5 [] s.cap = "square" -> 6 [] s.cap = "round" -> 15,
                contours |-> 1], NoCounts)

\* Mutant: curves after the line are not noticed.
IsOpenLine_curved(s) == s.open /\ s.segments = 1 /\ s.start[2] = s.center[2]

\* An open sub-path of one horizontal line.  It looks at the number of line
\* segments, which nothing resets when a sub-path begins.
IsOpenLine(s) == s.open /\ s.segments = 1 /\ s.single /\ s.start[2] = s.center[2]
IsClosedLine(s) ==
  /\ ~s.open /\ s.segments = 1 /\ s.single /\ s.start[2] = s.center[2]
  /\ s.radius = 96 /\ s.join = "round"
IsRightAngle(s) ==
  /\ ~s.open /\ s.segments = 2 /\ s.radius = 96 /\ s.join = "round"
  /\ s.start = Origin /\ s.corner = <<4, 0>> /\ s.center = <<4, 4>>
IsShortcut(s) == IsOpenLine(s) \/ s.success \/ (~s.open /\ (IsClosedLine(s) \/ IsRightAngle(s)))

finalize_closed_single_horizontal_line(s) ==
  Published(s, [points |-> 4, contours |-> 1], [points |-> 14, contours |-> 1])
finalize_closed_two_line_right_angle(s) ==
  Published(s, [points |-> 3, contours |-> 1], [points |-> 18, contours |-> 1])

\* The order of the cases is the order of the code; a sub-path that was not
\* drawn is left alone, or refused.
EndSubPath(s, short) ==
  CASE s.first /\ ~s.open -> s
    [] ~(s.first /\ ~s.open) /\ short /\ IsOpenLine(s) -> finalize_open_single_line(s)
    [] ~(s.first /\ ~s.open) /\ short /\ ~IsOpenLine(s) /\ s.success ->
         [s EXCEPT !.success = FALSE, !.counted = TRUE]
    [] s.open /\ ~s.first /\ ~(short /\ IsShortcut(s)) -> finalize_open_path(s)
    [] ~s.open /\ ~s.first /\ short /\ ~s.success /\ IsClosedLine(s) ->
         finalize_closed_single_horizontal_line(s)
    [] ~s.open /\ ~s.first /\ short /\ ~s.success /\ IsRightAngle(s) ->
         finalize_closed_two_line_right_angle(s)
    [] ~s.open /\ ~s.first /\ ~(short /\ IsShortcut(s)) -> finalize_closed_path(s)
    [] OTHER -> s

-----------------------------------------------------------------------------
(* The public calls, on the stroker and its shadow.                        *)

Rewound(s) ==
  [ended |-> 0, real |-> s, shadow |-> s, drawing |-> FALSE, orderly |-> TRUE, direct |-> TRUE,
   continued |-> FALSE, skipped |-> FALSE, promised |-> [side \in Sides |-> 0]]

\* What GetBorderCounts says: the public left border is the live right one.
Live(s, side) == s.border[OtherSide(side)]
Reported(s, side) == IF s.counted THEN s.published[side] ELSE Counts(Live(s, side))

FT_Stroker_BeginSubPath(x, to, open) ==
  [x EXCEPT !.real = BeginSubPath(@, to, open), !.shadow = BeginSubPath(@, to, open),
            !.drawing = TRUE, !.orderly = @ /\ ~x.drawing]

\* A segment follows a stored curve of an open sub-path.
Continues(x) == x.continued \/ (x.real.success /\ x.real.open)

FT_Stroker_LineTo(x, to) ==
  [x EXCEPT !.continued = Continues(x), !.real = LineTo(@, to), !.shadow = LineTo(@, to), !.orderly = @ /\ x.drawing]

FT_Stroker_CurveTo(x, points) ==
  [x EXCEPT !.continued = Continues(x), !.real = CurveTo(@, points, TRUE), !.shadow = CurveTo(@, points, FALSE),
            !.orderly = @ /\ x.drawing, !.direct = @ /\ ~IsStored(Replayed(x.real), points)]

\* The outline of two lines is published for a sub-path that has curves as well.
Skips(x) == IsRightAngle(x.real) /\ ~x.real.single

FT_Stroker_EndSubPath(x) ==
  LET drawn == x.drawing /\ ~x.shadow.first
  IN [x EXCEPT !.real = EndSubPath(@, TRUE), !.shadow = EndSubPath(@, FALSE), !.drawing = FALSE,
               !.direct = @ /\ ~IsShortcut(x.real), !.skipped = @ \/ Skips(x),
               !.orderly = @ /\ x.drawing /\ (x.shadow.first => ~x.shadow.open),
               !.ended = IF drawn THEN @ + 1 ELSE @,
               !.promised = [side \in Sides |->
                  IF drawn /\ (side = "left" \/ ~x.shadow.open) THEN @[side] + 1 ELSE @[side]]]

Task(op, points, open) == [op |-> op, points |-> points, open |-> open]

\* The calls of FT_Stroker_ParseOutline.  Contours of one point are skipped, and
\* an outline that is no outline is noticed on the way, after part was drawn.
Tasks(outline, opened) ==
  LET Drawn(segments) ==
        <<Task("begin", <<segments.start>>, opened)>>
        \o [i \in DOMAIN segments.calls |-> Task(segments.calls[i].op, segments.calls[i].points, opened)]
        \o <<Task("end", <<>>, opened)>>
      Add(acc, contour) ==
        CASE Len(contour) < 2 -> acc
          [] Len(contour) >= 2 /\ contour[1].tag = "cubic" -> Append(acc, Task("bad", <<>>, opened))
          [] OTHER -> acc \o Drawn(Segments(contour))
  IN FoldLeft(Add, <<>>, outline)

\* counts: only a balanced border becomes valid for export.
Counted(b) == [b EXCEPT !.valid = Balanced(b)]

FT_Stroker_GetBorderCounts(x, side) ==
  IF x.real.counted THEN x ELSE [x EXCEPT !.real.border[OtherSide(side)] = Counted(@)]

\* The second border is not looked at when the first is refused.
FT_Stroker_GetCounts(x) ==
  LET one == [x EXCEPT !.real.border["left"] = Counted(@)]
      both == [one EXCEPT !.real.border["right"] = Counted(@)]
  IN IF x.real.counted THEN x ELSE IF Balanced(x.real.border["left"]) THEN both ELSE one

-----------------------------------------------------------------------------

Init == /\ \E a \in Attributes \union {Initially} : path = Rewound(Fresh(a))
        /\ pieces = 0
        /\ todo = <<>>
        /\ calls = 0

\* Calls of the program, and those FT_Stroker_ParseOutline makes in one call.
Parsing == todo # <<>>
Operands(op, given) ==
  IF ~Parsing THEN given
  ELSE IF Head(todo).op = op THEN {[points |-> Head(todo).points, open |-> Head(todo).open]} ELSE {}
Given(points, opens) == [points : points, open : opens]

Call(x) == /\ path' = x
           /\ IF Parsing THEN todo' = Tail(todo) /\ UNCHANGED calls
              ELSE calls < MaxCalls /\ calls' = calls + 1 /\ UNCHANGED todo
Draw(x) == /\ path.drawing /\ (Parsing \/ pieces < MaxSegments)
           /\ Call(x) /\ pieces' = pieces + 1
\* Bound: what replaces the whole state is called early; a parse counts as n calls.
Again(x, n) == ~Parsing /\ calls <= 1 /\ path' = x /\ pieces' = 0 /\ calls' = n

Set == \E a \in Attributes : Again(Rewound(Fresh(a)), 0) /\ UNCHANGED todo
Rewind == ~Parsing /\ path' = Rewound(rewind_path(path.real)) /\ pieces' = 0 /\ calls' = 0 /\ UNCHANGED todo
Parse == \E outline \in Outlines, opened \in BOOLEAN :
           /\ Again(Rewound(rewind_path(path.real)), MaxCalls - 3)
           /\ todo' = Tasks(outline, opened)

Begin == /\ \E c \in Operands("begin", Given({<<p>> : p \in Starts}, BOOLEAN)) :
              Call(FT_Stroker_BeginSubPath(path, c.points[1], c.open))
         /\ pieces' = 0
Line == \E c \in Operands("line", Given({<<p>> : p \in Vectors}, {FALSE})) :
          Draw(FT_Stroker_LineTo(path, c.points[1]))
Curve == \E c \in Operands("curve", Given(Curves, {FALSE})) :
           Draw(FT_Stroker_CurveTo(path, c.points))
End == /\ \E c \in Operands("end", Given({<<>>}, {FALSE})) :
            /\ path.drawing /\ (Parsing => ~path.real.first)
            /\ Call(FT_Stroker_EndSubPath(path))
       /\ pieces' = 0

\* A sub-path that was not drawn is not ended; an error ends the parse.
Skip == /\ Parsing /\ Head(todo).op = "end" /\ path.real.first
        /\ Call([path EXCEPT !.orderly = FALSE]) /\ UNCHANGED pieces
Refuse == /\ Parsing /\ Head(todo).op = "bad"
          /\ path' = [path EXCEPT !.orderly = FALSE] /\ todo' = <<>> /\ UNCHANGED <<pieces, calls>>

BorderCounts == ~Parsing /\ \E side \in Sides : Call(FT_Stroker_GetBorderCounts(path, side)) /\ UNCHANGED pieces
GetCounts == ~Parsing /\ Call(FT_Stroker_GetCounts(path)) /\ UNCHANGED pieces

Next == \/ Set \/ Rewind \/ Parse \/ Begin \/ Line \/ Curve \/ End \/ Skip \/ Refuse
        \/ BorderCounts \/ GetCounts

Spec == Init /\ [][Next]_vars

-----------------------------------------------------------------------------
(* Properties.                                                             *)

Complete == path.orderly /\ ~path.drawing

\* Every sub-path that was drawn and ended without a shortcut is a contour of
\* both borders, or of the left one alone when it is open, whatever the joins,
\* caps, curves and earlier sub-paths are; and the borders are outlines.
GeneralSubpathsCounted ==
  Complete /\ path.direct =>
    \A side \in Sides : /\ Balanced(Live(path.real, side))
                        /\ Counts(Live(path.real, side)).contours = path.promised[side]

\* Only a border whose contours all begin and end may be exported.
ExportsWholeContours ==
  \A side \in Sides : path.real.border[side].valid => Balanced(path.real.border[side])

\* The first sub-path has the contours and points that the general algorithm
\* gives it, also where an outline is written down for it.
AsGeneral ==
  Complete /\ path.ended = 1 /\ path.real.radius # 0 =>
    \A side \in Sides : Reported(path.real, side) = Counts(Live(path.shadow, side))

\* That holds unless an open sub-path goes on from a stored curve, or a closed one
\* has curves beside the two lines of the right angle.
FastPathAgrees == ~path.continued /\ ~path.skipped => AsGeneral

\* What the counts announce is what export writes, also when a stored outline
\* counts: a program allocates by the one and is given the other.
ExportAgreesWithCounts ==
  Complete /\ path.real.counted => path.real.outline = path.real.published

\* handles.rs:4793 "A verified first-curve outline is a deferred fast path: it is
\* published unchanged when the subpath ends immediately, but a following segment
\* must continue through the live border state."
SegmentsContinue == path.continued => AsGeneral
=============================================================================
