----------------------------- MODULE GlyphHints -----------------------------
(***************************************************************************)
(* The points of a glyph while the auto-hinter works on them (reload in    *)
(* src/src/autohint/loader.rs, the alignment of points in latin.rs):       *)
(* neighbours and directions on a contour, which points may wait for       *)
(* interpolation, and how points follow the edges that were placed.        *)
(*                                                                         *)
(* A point has its place in font units (f), scaled (o) and hinted (p), one *)
(* coordinate for each dimension.  u and v are scratch fields, as in the   *)
(* code: neighbours while the outline is loaded, coordinates afterwards.   *)
(***************************************************************************)
EXTENDS Fixed, SequencesExt, FiniteSetsExt

CONSTANT UnitsPerEm

Horz == 1
Vert == 2
Dims == {Horz, Vert}

\* Directions: opposite ones add up to zero.
None == 0
Right == 1
Left == -1
Up == 2
Down == -2

direction_compute(d) ==
  IF 14 * Abs(d[1]) < Abs(d[2]) THEN (IF d[2] > 0 THEN Up ELSE Down)
  ELSE IF 14 * Abs(d[2]) < Abs(d[1]) THEN (IF d[1] > 0 THEN Right ELSE Left)
  ELSE None

Delta(pts, i, j) == <<pts[j].f[1] - pts[i].f[1], pts[j].f[2] - pts[i].f[2]>>
Taxicab(d) == Abs(d[1]) + Abs(d[2])

ft_hypot(d) ==
  LET a == Abs(d[1])
      b == Abs(d[2])
  IN IF a > b THEN a + (3 * b) \div 8 ELSE b + (3 * a) \div 8

corner_is_flat(in, out) ==
  LET whole == ft_hypot(<<in[1] + out[1], in[2] + out[2]>>)
  IN ft_hypot(in) + ft_hypot(out) - whole < whole \div 16

\* The same sequence.  TLC evaluates an element of a function each time it is
\* used; one that is used often is written out.
Written(seq) == SubSeq(seq, 1, Len(seq))

-----------------------------------------------------------------------------
(* Loading an outline.                                                     *)

\* An outline is a sequence of contours, a contour a sequence of points
\* [at, ctl].
Linked(outline, scale) ==
  LET Add(acc, contour) ==
        LET n == Len(contour)
            s == Len(acc)
            Scaled(at) == <<MulFix(at[Horz], scale[Horz]), MulFix(at[Vert], scale[Vert])>>
        IN acc \o [k \in 1..n |->
             [f |-> contour[k].at, ctl |-> contour[k].ctl,
              o |-> Scaled(contour[k].at), p |-> Scaled(contour[k].at),
              next |-> s + 1 + (k % n), prev |-> IF k = 1 THEN s + n ELSE s + k - 1, start |-> s + 1,
              in |-> None, out |-> None, weak |-> FALSE, touched |-> {}, u |-> 0, v |-> 0]]
  IN FoldLeft(Add, <<>>, outline)

Begins(pts, i) == pts[i].start = i   \* a contour
OfContour(pts, s) == {i \in DOMAIN pts : pts[i].start = s}

\* The point k steps after i on a contour of n points.
After(pts, i, k) ==
  LET s == pts[i].start IN s + ((i - s + k) % Cardinality(OfContour(pts, s)))

\* The points met on the way from a to b.
Between(pts, a, b) ==
  {i \in OfContour(pts, pts[a].start) : IF a <= b THEN a <= i /\ i <= b ELSE a <= i \/ i <= b}

Clockwise(pts) ==
  MapThenSumSet(LAMBDA i : pts[i].f[1] * pts[pts[i].next].f[2] - pts[pts[i].next].f[1] * pts[i].f[2],
                DOMAIN pts) < 0

NearLimit == (20 * UnitsPerEm) \div 2048

\* The chain starts at the point that follows the last long way before s.
ChainStart(pts, s) ==
  LET n == Cardinality(OfContour(pts, s))
      Back(k) == After(pts, s, n - k)
      Stops(k) == \/ pts[Back(k)].prev = s
                  \/ Taxicab(Delta(pts, pts[Back(k)].prev, Back(k))) >= 2 * NearLimit - 1
  IN Back(CHOOSE k \in 0..(n - 1) : Stops(k) /\ \A j \in 0..(k - 1) : ~Stops(j))

\* Points closer than the limit are weak, and take the direction of the way
\* from the point before them to the first one further off.  u and v lead to
\* the far neighbours.
build_direction_chain(pts, s) ==
  LET first == ChainStart(pts, s)
      n == Cardinality(OfContour(pts, s))
      Step(acc, k) ==
        LET curr == After(pts, first, acc.from)
            next == After(pts, first, k)
            out == Delta(pts, After(pts, first, k - 1), next)
            sum == <<acc.sum[1] + out[1], acc.sum[2] + out[2]>>
            dir == direction_compute(sum)
            mids == {After(pts, first, j) : j \in (acc.from + 1)..(k - 1)}
            turned == Written([i \in DOMAIN pts |->
                         [acc.pts[i] EXCEPT !.in = IF i \in mids \union {next} THEN dir ELSE @,
                                            !.out = IF i \in mids \union {curr} THEN dir ELSE @]])
        IN IF Taxicab(sum) < NearLimit
           THEN [acc EXCEPT !.pts[next].weak = TRUE, !.sum = sum]
           ELSE [pts |-> [turned EXCEPT ![curr].u = next, ![next].v = curr,
                                        ![next].u = first, ![first].v = next],
                 from |-> k, sum |-> <<0, 0>>]
  IN FoldLeft(Step, [pts |-> pts, from |-> 0, sum |-> <<0, 0>>], [k \in 1..n |-> k]).pts

SameSign(a, b) == (a < 0) = (b < 0)

\* A point that is passed over: its far neighbours become each other's.
Skipped(pts, i) ==
  [pts EXCEPT ![i].weak = TRUE, ![pts[i].v].u = pts[i].u, ![pts[i].u].v = pts[i].v]

NoDirection(pt) == pt.in = None /\ pt.out = None

\* First the points without a direction that go on in the same quadrant.
Simplified(pts) ==
  LET Visit(acc, i) ==
        LET in == Delta(acc, acc[i].v, i)
            out == Delta(acc, i, acc[i].u)
        IN IF ~acc[i].weak /\ NoDirection(acc[i])
              /\ SameSign(in[1], out[1]) /\ SameSign(in[2], out[2])
           THEN Skipped(acc, i) ELSE acc
  IN FoldLeft(Visit, pts, [i \in DOMAIN pts |-> i])

\* Then control points, points on a straight line, spikes and flat corners.
Classified(pts) ==
  LET Visit(acc, i) ==
        LET pt == acc[i]
        IN CASE pt.weak -> acc
             [] ~pt.weak /\ pt.ctl -> [acc EXCEPT ![i].weak = TRUE]
             [] ~pt.weak /\ ~pt.ctl /\ NoDirection(pt) ->
                  IF corner_is_flat(Delta(acc, pt.v, i), Delta(acc, i, pt.u))
                  THEN Skipped(acc, i) ELSE acc
             [] OTHER -> [acc EXCEPT ![i].weak = pt.in = pt.out \/ pt.in = -pt.out]
  IN FoldLeft(Visit, pts, [i \in DOMAIN pts |-> i])

reload(outline, scale) ==
  LET linked == Linked(outline, scale)
      directed == Written([i \in DOMAIN linked |->
                     [linked[i] EXCEPT !.in = direction_compute(Delta(linked, linked[i].prev, i)),
                                       !.out = direction_compute(Delta(linked, i, linked[i].next)),
                                       !.u = i, !.v = i]])
      Chain(acc, i) == IF Begins(linked, i) THEN build_direction_chain(acc, i) ELSE acc
      chained == FoldLeft(Chain, directed, [i \in DOMAIN linked |-> i])
  IN Classified(Simplified(chained))

-----------------------------------------------------------------------------
(* Points follow edges.                                                    *)

Placed(pts, which, dim, pos) ==
  Written([i \in DOMAIN pts |->
     IF i \in which THEN [pts[i] EXCEPT !.p[dim] = pos, !.touched = @ \union {dim}] ELSE pts[i]])

\* The points of all segments of an edge go where the edge is.
align_edge_points(pts, axis, dim) ==
  LET Points(edge) == UNION {Between(pts, axis.segs[s].first, axis.segs[s].last) : s \in Range(edge.segs)}
      Align(acc, edge) == Placed(acc, Points(edge), dim, edge.pos)
  IN FoldLeft(Align, pts, axis.edges)

\* A strong point follows the edges around it.
StrongPlace(pt, edges, dim) ==
  LET u == pt.f[dim]
      before == Cardinality({k \in DOMAIN edges : \A j \in 1..k : edges[j].fpos < u})
      after == before + 1
  IN IF before = Len(edges) THEN pt.o[dim] + edges[before].pos - edges[before].opos
     ELSE IF before = 0 THEN pt.o[dim] + edges[1].pos - edges[1].opos
     ELSE IF edges[after].fpos = u THEN edges[after].pos
     ELSE edges[before].pos
            + MulFix(u - edges[before].fpos,
                     DivFix(edges[after].pos - edges[before].pos, edges[after].fpos - edges[before].fpos))

align_strong_points(pts, edges, dim) ==
  IF edges = <<>> THEN pts
  ELSE [i \in DOMAIN pts |->
          IF dim \in pts[i].touched \/ pts[i].weak THEN pts[i]
          ELSE [pts[i] EXCEPT !.p[dim] = StrongPlace(pts[i], edges, dim), !.touched = @ \union {dim}]]

\* Mutant: the references are taken in the order in which the contour meets them.
iup_interp_unsorted(v, ref1, ref2) ==
  LET v1 == ref1.v
      v2 == ref2.v
      u1 == ref1.u
      u2 == ref2.u
  IN IF v <= v1 THEN v + u1 - v1
     ELSE IF v >= v2 THEN v + u2 - v2
     ELSE IF u1 = u2 THEN u1
     ELSE u1 + MulFix(v - v1, MulDiv(u2 - u1, One, v2 - v1))

\* Where a point goes that was at v, between two touched points.
iup_interp(v, ref1, ref2) ==
  LET v1 == IF ref1.v > ref2.v THEN ref2.v ELSE ref1.v
      v2 == IF ref1.v > ref2.v THEN ref1.v ELSE ref2.v
      u1 == IF ref1.v > ref2.v THEN ref2.u ELSE ref1.u
      u2 == IF ref1.v > ref2.v THEN ref1.u ELSE ref2.u
  IN IF v <= v1 THEN v + u1 - v1
     ELSE IF v >= v2 THEN v + u2 - v2
     ELSE IF u1 = u2 THEN u1
     ELSE u1 + MulFix(v - v1, MulDiv(u2 - u1, One, v2 - v1))

\* The nearest touched points before and after i on its contour.
RefBefore(pts, i, refs) ==
  LET n == Cardinality(OfContour(pts, pts[i].start))
  IN After(pts, i, n - (CHOOSE k \in 1..n : /\ After(pts, i, n - k) \in refs
                                            /\ \A j \in 1..(k - 1) : After(pts, i, n - j) \notin refs))
RefAfter(pts, i, refs) ==
  LET n == Cardinality(OfContour(pts, pts[i].start))
  IN After(pts, i, CHOOSE k \in 1..n : /\ After(pts, i, k) \in refs
                                       /\ \A j \in 1..(k - 1) : After(pts, i, j) \notin refs)

\* The other points follow the touched points of their contour.
align_weak_points(pts, dim) ==
  LET now == Written([i \in DOMAIN pts |-> [pts[i] EXCEPT !.u = pts[i].p[dim], !.v = pts[i].o[dim]]])
      Refs(i) == {j \in OfContour(pts, pts[i].start) : dim \in pts[j].touched}
      Place(i) ==
        IF dim \in pts[i].touched \/ Refs(i) = {} THEN now[i].u
        ELSE iup_interp(now[i].v, now[RefBefore(pts, i, Refs(i))], now[RefAfter(pts, i, Refs(i))])
  IN [i \in DOMAIN pts |-> [now[i] EXCEPT !.u = Place(i), !.p[dim] = Place(i)]]
=============================================================================
