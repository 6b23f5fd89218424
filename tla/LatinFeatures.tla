---------------------------- MODULE LatinFeatures ----------------------------
(***************************************************************************)
(* What the Latin auto-hinter finds in an outline before it moves anything *)
(* (src/src/autohint/latin.rs): segments, runs of points along an axis;    *)
(* links between the two sides of a stem and from a serif to its stem;     *)
(* edges, the segments at one position; and the blue zones edges lie in.   *)
(* The widths and zones of a font are found with the same operators.       *)
(*                                                                         *)
(* Segments and edges are numbered from 1; 0 is usize::MAX.  An edge lists *)
(* its segments, where the code chains them through edge_next.             *)
(***************************************************************************)
EXTENDS GlyphHints

Nil == 0

-----------------------------------------------------------------------------
(* Segments.                                                               *)

MajorDir(pts, dim) ==
  IF Clockwise(pts) THEN (IF dim = Horz THEN Up ELSE Left)
                    ELSE (IF dim = Horz THEN Down ELSE Right)

Along(pt, dim) == pt.out \in (IF dim = Horz THEN {Up, Down} ELSE {Left, Right})

\* u is the coordinate that is fitted, v the one along the segment.
Turned(pts, dim) ==
  Written([i \in DOMAIN pts |-> [pts[i] EXCEPT !.u = pts[i].f[dim], !.v = pts[i].f[3 - dim]]])

\* If the contour begins inside a run, the walk begins where that run does.
WalkStart(pts, s, dim) ==
  LET n == Cardinality(OfContour(pts, s))
      Before(k) == After(pts, s, n - k)
  IN IF ~Along(pts[s], dim) \/ \A i \in OfContour(pts, s) : Along(pts[i], dim) THEN s
     ELSE Before(CHOOSE k \in 0..(n - 1) : /\ ~Along(pts[Before(k + 1)], dim)
                                           /\ \A j \in 0..k : Along(pts[Before(j)], dim))

\* A run of points that leave in one direction, with the point that ends it.
Run(pts, first, last) ==
  LET on == Between(pts, first, last)
      firm == {i \in on : ~pts[i].ctl}
      Low(w) == Min({w[i] : i \in on})
      High(w) == Max({w[i] : i \in on})
      u == [i \in on |-> pts[i].u]
      v == [i \in on |-> pts[i].v]
      \* The first point met at a coordinate decides whether it is a control point.
      Met(c) == LET at == {i \in on : v[i] = c}
                IN CHOOSE i \in at : \A j \in at : i \in Between(pts, first, j)
  IN [first |-> first, last |-> last, dir |-> pts[first].out,
      low |-> Low(u), high |-> High(u), min |-> Low(v), max |-> High(v),
      bent |-> pts[Met(Low(v))].ctl \/ pts[Met(High(v))].ctl,
      firm |-> IF firm = {} THEN -1 ELSE Max({v[i] : i \in firm}) - Min({v[i] : i \in firm})]

\* Two runs that meet in a point become one: the longer one, at the positions of both.
Merged(a, b) ==
  [(IF a.max - a.min > b.max - b.min THEN a ELSE b) EXCEPT
     !.last = b.last, !.low = Min({a.low, b.low}), !.high = Max({a.high, b.high})]

RunsOf(pts, s, dim) ==
  LET n == Cardinality(OfContour(pts, s))
      start == WalkStart(pts, s, dim)
      P(k) == After(pts, start, k)
      Starts(k) == (Along(pts[P(k)], dim) \/ n = 1) /\ (k = 0 \/ pts[P(k - 1)].out # pts[P(k)].out)
      End(k) == CHOOSE j \in (k + 1)..n : /\ j = n \/ pts[P(j)].out # pts[P(k)].out
                                          /\ \A i \in (k + 1)..(j - 1) : pts[P(i)].out = pts[P(k)].out
      Record(acc, k) ==
        IF ~Starts(k) THEN acc
        ELSE LET run == Run(pts, P(k), P(End(k)))
             IN IF acc # <<>> /\ acc[Len(acc)].last = run.first
                THEN [acc EXCEPT ![Len(acc)] = Merged(@, run)] ELSE Append(acc, run)
  IN FoldLeft(Record, <<>>, [k \in 1..n |-> k - 1])

\* Half of what the neighbours go on in the direction of the segment.
Extra(pts, run) ==
  LET sense == IF pts[run.first].v < pts[run.last].v THEN 1 ELSE -1
      Half(a, b) == Max({0, (sense * (pts[b].v - pts[a].v)) \div 2})
  IN Half(pts[run.first].prev, run.first) + Half(run.last, pts[run.last].next)

compute_segments(pts, dim) ==
  LET turned == Turned(pts, dim)
      Segment(run) ==
        [first |-> run.first, last |-> run.last, dir |-> run.dir,
         pos |-> (run.low + run.high) \div 2, delta |-> (run.high - run.low) \div 2,
         min |-> run.min, max |-> run.max, height |-> run.max - run.min + Extra(turned, run),
         round |-> run.bent /\ run.firm < UnitsPerEm \div 14,
         edge |-> Nil, link |-> Nil, serif |-> Nil]
      Found(runs) == [k \in DOMAIN runs |-> Segment(runs[k])]
      Add(acc, i) == IF Begins(pts, i) THEN acc \o Found(RunsOf(turned, i, dim)) ELSE acc
  IN FoldLeft(Add, <<>>, [i \in DOMAIN pts |-> i])

-----------------------------------------------------------------------------
(* Links.                                                                  *)

latin_constant(c) == (c * UnitsPerEm) \div 2048

Unlinked == 32000   \* a score no pair may reach

Overlap(a, b) == Min({a.max, b.max}) - Max({a.min, b.min})

\* How badly two segments match: distance beyond the widest stem, short overlap.
Score(a, b, maxWidth) ==
  LET dist == b.pos - a.pos
      excess == (1024 * dist) \div maxWidth - 1024
      demerit == IF maxWidth <= 0 THEN dist
                 ELSE IF excess > 10000 THEN 32000
                 ELSE IF excess > 0 THEN (excess * excess) \div 3000 ELSE 0
  IN demerit + latin_constant(6000) \div Max({1, Overlap(a, b)})

\* A segment of the major direction may pair with one against it further up.
Pairs(segs, major, i, j) ==
  /\ segs[i].dir = major
  /\ segs[j].dir = -major
  /\ segs[j].pos > segs[i].pos
  /\ Overlap(segs[i], segs[j]) >= Max({1, latin_constant(8)})

\* The partner with the lowest score, the first of equal ones.
BestPartner(segs, major, maxWidth, i) ==
  LET Value(j) == IF Pairs(segs, major, i, j) THEN Score(segs[i], segs[j], maxWidth)
                  ELSE IF Pairs(segs, major, j, i) THEN Score(segs[j], segs[i], maxWidth)
                  ELSE Unlinked
      Better(acc, j) == IF Value(j) < acc.score THEN [score |-> Value(j), link |-> j] ELSE acc
  IN FoldLeft(Better, [score |-> Unlinked, link |-> Nil], [j \in DOMAIN segs |-> j]).link

\* Each segment links to its best partner; one whose partner prefers another
\* segment is a serif of that one.
link_segments_inner(segs, major, maxWidth) ==
  LET linked == Written([i \in DOMAIN segs |->
                  [segs[i] EXCEPT !.link = BestPartner(segs, major, maxWidth, i)]])
      Mutual(acc, i) ==
        LET j == acc[i].link
        IN IF j = Nil \/ acc[j].link = i THEN acc
           ELSE [acc EXCEPT ![i].link = Nil, ![i].serif = acc[j].link]
  IN FoldLeft(Mutual, linked, [i \in DOMAIN segs |-> i])

-----------------------------------------------------------------------------
(* The widths of a font, from its standard glyph.                          *)

\* Clusters of near widths become one; the sum is divided by the index of
\* the end of the cluster.
sort_and_quantize_widths(dists, threshold) ==
  LET n == Len(dists)
      Sort(acc, width) == InsertAt(acc, 1 + Max({0} \union {k \in DOMAIN acc : acc[k] <= width}), width)
      w == FoldLeft(Sort, <<>>, dists)
      Cluster(acc, i) ==
        LET near == acc.w[i] - acc.val <= threshold
            end == IF near THEN i ELSE i - 1
            mean == FoldLeft(LAMBDA a, b : a + b, 0, SubSeq(acc.w, acc.cur, end)) \div end
            next == IF i < n THEN i + 1 ELSE acc.cur
        IN IF near /\ i # n THEN acc
           ELSE [w |-> Written([k \in 1..n |-> IF k = acc.cur THEN mean
                                               ELSE IF k > acc.cur /\ k <= end THEN 0 ELSE acc.w[k]]),
                 cur |-> next, val |-> IF next = acc.cur THEN mean ELSE acc.w[next]]
      merged == FoldLeft(Cluster, [w |-> w, cur |-> 1, val |-> w[1]], [k \in 1..(n - 1) |-> k + 1]).w
      Keep(acc, width) == IF width = 0 THEN acc ELSE Append(acc, width)
  IN IF n <= 1 THEN dists ELSE FoldLeft(Keep, <<merged[1]>>, Tail(merged))

MaxWidths == 16   \* AF_LATIN_MAX_WIDTHS

\* The distances between the two sides of the stems of the standard glyph.
metrics_init_widths(segs) ==
  LET Note(acc, i) ==
        LET j == segs[i].link
        IN IF j > i /\ segs[j].link = i /\ Len(acc) < MaxWidths
           THEN Append(acc, Abs(segs[i].pos - segs[j].pos)) ELSE acc
  IN sort_and_quantize_widths(FoldLeft(Note, <<>>, [i \in DOMAIN segs |-> i]), UnitsPerEm \div 100)

-----------------------------------------------------------------------------
(* The metrics of a font at a size.                                        *)

\* A blue zone: a reference height for flat shapes, an overshoot for round
\* ones; top, sub (a second top), neutral, adjust (the x-height).
Extreme(zones) == Max({UnitsPerEm} \union {zones[k].ascender : k \in DOMAIN zones}
                                   \union {-zones[k].descender : k \in DOMAIN zones})

\* The vertical scale is changed so that the x-height ends on a pixel, unless
\* the tallest glyph would move by two pixels.
XHeightScale(zones, scale) ==
  LET k == SelectInSeq(zones, LAMBDA z : z.adjust)
      scaled == MulFix(zones[k].shoot, scale)
      fitted == PixFloor(scaled + 40)
      new == MulDiv(scale, fitted, scaled)
      moved == MulFix(Extreme(zones), new - scale)
  IN IF k = 0 THEN scale
     ELSE IF scaled = fitted \/ ~(-128 < moved /\ moved < 128) THEN scale ELSE new

\* A zone of at most three quarters of a pixel is active: its reference goes
\* to a pixel and its overshoot to half a pixel or none.
ScaledZone(z, scale) ==
  LET dist == MulFix(z.ref - z.shoot, scale)
      room == IF Abs(dist) < 32 THEN 0 ELSE 32
      fit == PixRound(MulFix(z.ref, scale))
  IN [ref |-> z.ref, shoot |-> z.shoot, top |-> z.top \/ z.sub, sub |-> z.sub, neutral |-> z.neutral,
      active |-> Abs(dist) <= 48, refFit |-> fit,
      shootFit |-> fit - Sign(dist) * (IF Abs(dist) = 48 THEN 64 ELSE room)]

metrics_scale_dim(metrics, xscale, yscale) ==
  LET scale == <<xscale, XHeightScale(metrics.blues, yscale)>>
      zones == Written([k \in DOMAIN metrics.blues |-> ScaledZone(metrics.blues[k], scale[Vert])])
      Covered(z) == \E k \in DOMAIN zones : /\ ~zones[k].sub /\ zones[k].active
                                            /\ zones[k].refFit <= z.shootFit /\ zones[k].shootFit >= z.refFit
      std == [d \in Dims |-> IF metrics.widths[d] = <<>> THEN 0 ELSE metrics.widths[d][1]]
  IN [scale |-> scale, widths |-> metrics.widths, std |-> std,
      cur |-> [d \in Dims |-> [k \in DOMAIN metrics.widths[d] |-> MulFix(metrics.widths[d][k], scale[d])]],
      light |-> [d \in Dims |-> MulFix(std[d], scale[d]) < 40],
      blues |-> [k \in DOMAIN zones |->
                   [zones[k] EXCEPT !.active = @ /\ ~(zones[k].sub /\ Covered(zones[k]))]]]

-----------------------------------------------------------------------------
(* Edges.                                                                  *)

Threshold(metrics, d) ==
  MulDiv(Min({16, MulFix(metrics.std[d] \div 5, metrics.scale[d])}), One, metrics.scale[d])

\* Short, slanted and directionless segments make no edge.
MakesEdge(seg, metrics, d) ==
  LET short == IF d = Horz THEN MulDiv(64, One, metrics.scale[Vert]) ELSE 0
  IN /\ seg.dir # None
     /\ seg.height >= short
     /\ seg.delta <= MulDiv(32, One, metrics.scale[d])
     /\ ~(seg.serif # Nil /\ 2 * seg.height < 3 * short)

NewEdge(seg, k, scale) ==
  [fpos |-> seg.pos, opos |-> MulFix(seg.pos, scale), pos |-> MulFix(seg.pos, scale), dir |-> seg.dir,
   segs |-> <<k>>, link |-> Nil, serif |-> Nil, round |-> FALSE, serifed |-> FALSE, done |-> FALSE,
   neutral |-> FALSE, blue |-> {}]

\* A segment joins the first edge near it that lies in one of the directions.
Joined(ax, k, near) ==
  [edges |-> [ax.edges EXCEPT ![near].segs = Append(@, k)], segs |-> [ax.segs EXCEPT ![k].edge = near]]

\* Mutant: the segments of the edges behind the new one keep their numbers.
insert_edge_unbumped(ax, k, edge, major) ==
  LET Before(e) == e.fpos < edge.fpos \/ (e.fpos = edge.fpos /\ edge.dir = major)
      at == 1 + Max({0} \union {j \in DOMAIN ax.edges : Before(ax.edges[j])})
  IN [edges |-> InsertAt(ax.edges, at, edge), segs |-> [ax.segs EXCEPT ![k].edge = at]]

\* Edges are sorted by position; the segments of those behind are renumbered.
insert_edge(ax, k, edge, major) ==
  LET Before(e) == e.fpos < edge.fpos \/ (e.fpos = edge.fpos /\ edge.dir = major)
      at == 1 + Max({0} \union {j \in DOMAIN ax.edges : Before(ax.edges[j])})
  IN [edges |-> InsertAt(ax.edges, at, edge),
      segs |-> Written([i \in DOMAIN ax.segs |->
                 [ax.segs[i] EXCEPT !.edge = IF i = k THEN at ELSE IF @ >= at THEN @ + 1 ELSE @]])]

Near(edge, seg, metrics, d) == Abs(edge.fpos - seg.pos) < Threshold(metrics, d)

\* A segment joins the first edge near it that has its direction, or makes one.
Place(ax, k, metrics, d, major) ==
  LET seg == ax.segs[k]
      near == SelectInSeq(ax.edges, LAMBDA e : e.dir = seg.dir /\ Near(e, seg, metrics, d))
  IN IF ~MakesEdge(seg, metrics, d) THEN ax
     ELSE IF near # 0 THEN Joined(ax, k, near)
     ELSE insert_edge(ax, k, NewEdge(seg, k, metrics.scale[d]), major)

\* A segment without a direction joins the first edge near it, if there is one.
Catch(ax, k, metrics, d) ==
  LET near == SelectInSeq(ax.edges, LAMBDA e : Near(e, ax.segs[k], metrics, d))
  IN IF ax.segs[k].dir # None \/ near = 0 THEN ax ELSE Joined(ax, k, near)

Grouped(segs, metrics, d, major) ==
  LET order == [k \in DOMAIN segs |-> k]
      placed == FoldLeft(LAMBDA ax, k : Place(ax, k, metrics, d, major), [segs |-> segs, edges |-> <<>>], order)
  IN FoldLeft(LAMBDA ax, k : Catch(ax, k, metrics, d), placed, order)

\* Edge i lies behind those further up, and those at its place that were before it.
Rank(edges, i) ==
  Cardinality({j \in DOMAIN edges : \/ edges[j].fpos > edges[i].fpos
                                    \/ edges[j].fpos = edges[i].fpos /\ j < i}) + 1

\* Scripts that are hinted from the top list their horizontal edges downwards.
Ordered(ax) ==
  LET E == DOMAIN ax.edges
  IN [edges |-> Written([k \in E |-> ax.edges[CHOOSE i \in E : Rank(ax.edges, i) = k]]),
      segs |-> Written([i \in DOMAIN ax.segs |->
                 [ax.segs[i] EXCEPT !.edge = IF @ = Nil THEN Nil ELSE Rank(ax.edges, @)]])]

\* Edge e is linked where segment k of it is, or a serif where that is one, if
\* the other edge is nearer than the one noted so far.
Follow(ax, e, edges, k) ==
  LET seg == ax.segs[k]
      other == IF seg.serif = Nil THEN Nil ELSE ax.segs[seg.serif].edge
      isSerif == other \notin {Nil, e}
      prior == IF isSerif THEN edges[e].serif ELSE edges[e].link
      linked == IF isSerif THEN seg.serif ELSE seg.link
      gap == Abs(seg.pos - ax.segs[linked].pos)
      e2 == IF prior = Nil \/ gap < Abs(edges[e].fpos - edges[prior].fpos)
            THEN ax.segs[linked].edge ELSE prior
  IN IF ~isSerif /\ (seg.link = Nil \/ ax.segs[seg.link].edge = Nil) THEN edges
     ELSE IF e2 \in {Nil, e} THEN edges
     ELSE IF isSerif THEN [edges EXCEPT ![e].serif = e2, ![e2].serifed = TRUE]
     ELSE [edges EXCEPT ![e].link = e2]

\* Each edge forgets the serifs noted before its turn.
Visit(ax, edges, e) ==
  LET walked == FoldLeft(LAMBDA acc, k : Follow(ax, e, acc, k), edges, ax.edges[e].segs)
      bends == Cardinality({k \in DOMAIN ax.edges[e].segs : ax.segs[ax.edges[e].segs[k]].round})
  IN [walked EXCEPT ![e].serifed = FALSE,
                    ![e].round = bends > 0 /\ 2 * bends >= Len(ax.edges[e].segs),
                    ![e].serif = IF walked[e].link # Nil THEN Nil ELSE walked[e].serif]

Propagated(ax) ==
  [ax EXCEPT !.edges = FoldLeft(LAMBDA acc, e : Visit(ax, acc, e), @, [e \in DOMAIN ax.edges |-> e])]

compute_edges(segs, metrics, d, major, down) ==
  LET grouped == Grouped(segs, metrics, d, major)
  IN Propagated(IF down /\ d = Vert THEN Ordered(grouped) ELSE grouped)

\* The position of the active zone nearest to an edge, if one is near: tops for
\* edges against the major direction, bottoms for the others.
compute_blue_edges(edges, metrics, major) ==
  LET scale == metrics.scale[Vert]
      Consider(e) ==
        LET Weigh(acc, z) ==
              LET dist == MulFix(Abs(e.fpos - z.ref), scale)
                  shootDist == MulFix(Abs(e.fpos - z.shoot), scale)
                  enter == z.active /\ (z.neutral \/ z.top # (e.dir = major))
                  first == IF enter /\ dist < acc.dist
                           THEN [dist |-> dist, blue |-> {z.refFit}, neutral |-> z.neutral] ELSE acc
                  over == /\ enter /\ e.round /\ dist # 0 /\ ~z.neutral
                          /\ z.top # (e.fpos < z.ref)
              IN IF over /\ shootDist < first.dist
                 THEN [dist |-> shootDist, blue |-> {z.shootFit}, neutral |-> FALSE] ELSE first
            start == [dist |-> Min({32, MulFix(UnitsPerEm \div 40, scale)}), blue |-> {}, neutral |-> FALSE]
            best == FoldLeft(Weigh, start, metrics.blues)
        IN [e EXCEPT !.blue = best.blue, !.neutral = best.neutral]
  IN [k \in DOMAIN edges |-> Consider(edges[k])]
=============================================================================
