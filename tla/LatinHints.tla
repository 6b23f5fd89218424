----------------------------- MODULE LatinHints -----------------------------
(***************************************************************************)
(* The Latin auto-hinter at work on a glyph (apply_hints_with_advance and  *)
(* hint_edges in src/src/autohint/latin.rs): features are detected in both *)
(* dimensions, then in each the edges are placed, in phases that build on  *)
(* each other, and the points follow; last the glyph is moved so that its  *)
(* left edge keeps its distance from the origin.                           *)
(*                                                                         *)
(* One step is one stage, or one edge of a phase.  Left out: the CJK       *)
(* variant, the adjustments for single characters (tildes, marks above and *)
(* below) and glyphs of more than 1000 segments.                           *)
(***************************************************************************)
EXTENDS LatinFeatures

CONSTANTS Outlines,   \* the glyphs that are hinted
          Fonts,      \* [standard, blues, down]: the standard glyph and blue zones of a font
          Ppems,
          Modes       \* of target_flags

\* Glyphs are contours of points on and off the curve, in units of the font.
ASSUME OutlineAssumption ==
  \A o \in Outlines : o.contours \in Seq(Seq([at : Int \X Int, ctl : BOOLEAN]))

\* The hinting flags of each render target.
target_flags(mode) ==
  CASE mode = "normal" -> [horizontal |-> TRUE, adjust |-> TRUE, snap |-> {}, mono |-> FALSE]
    [] mode = "light"  -> [horizontal |-> FALSE, adjust |-> FALSE, snap |-> {}, mono |-> FALSE]
    [] mode = "mono"   -> [horizontal |-> TRUE, adjust |-> TRUE, snap |-> Dims, mono |-> TRUE]
    [] mode = "lcd"    -> [horizontal |-> FALSE, adjust |-> FALSE, snap |-> {Horz}, mono |-> FALSE]
    [] mode = "lcd_v"  -> [horizontal |-> TRUE, adjust |-> TRUE, snap |-> {Vert}, mono |-> FALSE]

-----------------------------------------------------------------------------
(* Stem widths.                                                            *)

snap_width(widths, width) ==
  LET Nearer(acc, w) == IF Abs(width - w) < acc.best THEN [best |-> Abs(width - w), ref |-> w] ELSE acc
      ref == FoldLeft(Nearer, [best |-> 98, ref |-> width], widths).ref
      scaled == PixRound(ref)
  IN IF (width >= ref /\ width < scaled + 48) \/ (width < ref /\ width > scaled - 48) THEN ref ELSE width

\* A stem keeps its width where that is wide; otherwise the standard width if
\* near, or a fraction of a pixel that shows.
SmoothWidth(how, d, width, baseDelta, round, serifed) ==
  LET dist == Abs(width)
      firm == IF round THEN (IF dist < 80 THEN 64 ELSE dist) ELSE Max({dist, 56})
      std == how.widths[1]
      part == firm % 64
      \* A stem that follows an edge moved the same way makes up for the move at small sizes.
      shift == IF Sign(width) * baseDelta <= 0 \/ width = 0 THEN 0
               ELSE IF how.ppem < 10 THEN Abs(baseDelta)
               ELSE IF how.ppem < 30 THEN Abs(Quot(baseDelta * (30 - how.ppem), 20)) ELSE 0
  IN IF serifed /\ d = Vert /\ dist < 192 THEN dist
     ELSE IF how.widths = <<>> THEN firm
     ELSE IF Abs(firm - std) < 40 THEN Max({std, 48})
     ELSE IF firm < 192
          THEN firm - part + (IF part < 10 THEN part ELSE IF part < 32 THEN 10
                              ELSE IF part < 54 THEN 54 ELSE part)
     ELSE PixRound(firm - shift)

\* A stem is a whole number of pixels, but where pixels of grey may show it.
StrongWidth(how, d, width) ==
  LET org == Abs(width)
      dist == snap_width(how.widths, org)
      Half(a) == (a + 64) \div 2
      near == PixFloor(dist + 22)
  IN IF d = Vert THEN (IF dist >= 64 THEN PixFloor(dist + 16) ELSE 64)
     ELSE IF how.mono THEN Max({64, PixRound(dist)})
     ELSE IF dist < 48 THEN Half(dist)
     ELSE IF dist >= 128 THEN PixRound(dist)
     ELSE IF Abs(near - org) < 16 THEN near
     ELSE IF org < 48 THEN Half(org) ELSE org

compute_stem_width(how, d, width, baseDelta, round, serifed) ==
  IF ~how.adjust \/ how.light THEN width
  ELSE Sign(width) * (IF d \in how.snap THEN StrongWidth(how, d, width)
                      ELSE SmoothWidth(how, d, width, baseDelta, round, serifed))

-----------------------------------------------------------------------------
(* Placing edges.  h is [edges, anchor, rest]: the edges of a dimension,   *)
(* the first one placed, and whether edges outside stems were met.         *)

StemWidth(how, d, from, to, baseDelta) ==
  compute_stem_width(how, d, to.opos - from.opos, baseDelta, from.round, to.serifed)

\* Where the other edge of a stem goes when one is placed.
align_linked_edge(how, d, base, stem) == base.pos + StemWidth(how, d, base, stem, base.pos - base.opos)

\* Of two linked zones a neutral one gives way.
Deduped(edges, i) ==
  LET j == edges[i].link
      weaker == IF edges[j].neutral THEN j ELSE i
  IN IF j = Nil \/ edges[i].blue = {} THEN edges
     ELSE IF edges[j].blue = {} \/ ~(edges[i].neutral \/ edges[j].neutral) THEN edges
     ELSE [edges EXCEPT ![weaker].blue = {}, ![weaker].neutral = FALSE]

\* Mutant: only edges that lie in a zone themselves are placed by it.
BlueEdge_own(how, d, h, i) ==
  LET edges == Deduped(h.edges, i)
      e2 == edges[i].link
      zoned == [edges EXCEPT ![i].pos = CHOOSE b \in edges[i].blue : TRUE, ![i].done = TRUE]
  IN IF edges[i].done \/ edges[i].blue = {} THEN [h EXCEPT !.edges = edges]
     ELSE [h EXCEPT !.anchor = IF @ = Nil THEN i ELSE @,
                    !.edges = IF e2 = Nil \/ edges[e2].blue # {} THEN zoned
                              ELSE [zoned EXCEPT ![e2].pos = align_linked_edge(how, d, zoned[i], zoned[e2]),
                                                 ![e2].done = TRUE]]

\* Phase 1: an edge in a blue zone goes where the zone is, and the other side
\* of its stem follows.
BlueEdge(how, d, h, i) ==
  LET edges == Deduped(h.edges, i)
      j == edges[i].link
      mine == edges[i].blue # {}
      e1 == IF mine THEN i ELSE j
      e2 == IF mine THEN j ELSE i
      zoned == [edges EXCEPT ![e1].pos = CHOOSE b \in edges[e1].blue : TRUE, ![e1].done = TRUE]
  IN IF h.edges[i].done THEN h
     ELSE IF ~mine /\ (j = Nil \/ edges[j].blue = {}) THEN [h EXCEPT !.edges = edges]
     ELSE [h EXCEPT !.anchor = IF @ = Nil THEN i ELSE @,
                    !.edges = IF e2 = Nil \/ edges[e2].blue # {} THEN zoned
                              ELSE [zoned EXCEPT ![e2].pos = align_linked_edge(how, d, zoned[e1], zoned[e2]),
                                                 ![e2].done = TRUE]]

\* A narrow stem is centred on a pixel, or on the border of two.
Centred(center, len) ==
  LET p == PixRound(center)
      up == IF len <= 64 THEN 32 ELSE 38
      down == IF len <= 64 THEN 32 ELSE 26
  IN IF Abs(center - (p - up)) < Abs(center - (p + down)) THEN p - up ELSE p + down

\* The first stem of a glyph.
AnchorStem(how, d, h, i, len) ==
  LET e == h.edges[i]
      j == e.link
      org == h.edges[j].opos - e.opos
      placed == [e EXCEPT !.done = TRUE,
                          !.pos = IF len < 96 THEN Centred(e.opos + org \div 2, len) - Quot(len, 2)
                                  ELSE PixRound(e.opos)]
  IN [h EXCEPT !.anchor = i,
               !.edges[i] = placed,
               !.edges[j].pos = align_linked_edge(how, d, placed, h.edges[j])]

\* Mutant: an edge is held back behind its neighbour whatever is left of its stem.
Bound_always(edges, i, down) ==
  IF i > 1 /\ (IF down THEN edges[i].pos > edges[i - 1].pos ELSE edges[i].pos < edges[i - 1].pos)
  THEN [edges EXCEPT ![i].pos = edges[i - 1].pos] ELSE edges

\* An edge does not pass the one before it, unless its stem would vanish.
Bound(edges, i, down) ==
  IF /\ i > 1
     /\ IF down THEN edges[i].pos > edges[i - 1].pos ELSE edges[i].pos < edges[i - 1].pos
     /\ Abs(edges[edges[i].link].pos - edges[i - 1].pos) > 16
  THEN [edges EXCEPT ![i].pos = edges[i - 1].pos] ELSE edges

\* Another stem, placed as far from the anchor as it was.
RelativeStem(h, i, len, down) ==
  LET e == h.edges[i]
      j == e.link
      f == h.edges[j]
      at == h.edges[h.anchor].pos + e.opos - h.edges[h.anchor].opos
      org == f.opos - e.opos
      center == at + org \div 2
      mid == Centred(center, len)
      low == PixRound(at)
      high == PixRound(at + org) - len
      Off(p) == Abs(p + len \div 2 - center)
      pos == IF f.done THEN f.pos - len
             ELSE IF len < 96 THEN mid - Quot(len, 2)
             ELSE IF Off(low) < Off(high) THEN low ELSE high
      far == IF f.done THEN f.pos ELSE IF len < 96 THEN mid + Quot(len, 2) ELSE pos + len
      placed == [h.edges EXCEPT ![i].pos = pos, ![i].done = TRUE, ![j].pos = far, ![j].done = TRUE]
  IN [h EXCEPT !.edges = Bound(placed, i, down)]

\* Phase 3: of three stems, with or without serifs, the last is placed as far
\* from the middle one as the first if it was.
Symmetry3(h) ==
  LET n == Len(h.edges)
      E == h.edges
      m == IF n = 6 THEN <<1, 3, 5>> ELSE <<2, 6, 10>>
      span == Abs((E[m[2]].opos - E[m[1]].opos) - (E[m[3]].opos - E[m[2]].opos))
      delta == E[m[3]].pos - (2 * E[m[2]].pos - E[m[1]].pos)
      stem == {m[3], E[m[3]].link} \ {Nil}
      Times(k) == (IF k \in stem THEN 1 ELSE 0) + (IF n = 12 /\ k \in {9, 12} THEN 1 ELSE 0)
  IN IF n \notin {6, 12} THEN h
     ELSE IF span >= 8 THEN h
     ELSE [h EXCEPT !.edges = [k \in 1..n |->
             [E[k] EXCEPT !.pos = @ - Times(k) * delta, !.done = @ \/ k \in stem]]]

\* Another edge lies between a serif and its stem, where they overlap.
SerifBlocked(points, segs, edges, i) ==
  LET s == edges[i].serif
      Ends(e) == LET f == segs[Head(edges[e].segs)]
                     l == segs[Last(edges[e].segs)]
                 IN {points[f.first].v, points[f.last].v, points[l.first].v, points[l.last].v}
      both == Ends(i) \union Ends(s)
      low == IF edges[s].opos < edges[i].opos THEN s ELSE i
      high == IF low = s THEN i ELSE s
  IN \E k \in (low + 1)..(high - 1) : Max(Ends(k)) >= Min(both) /\ Min(Ends(k)) <= Max(both)

\* Phase 4: an edge outside stems follows the stem it is a serif of, or the
\* edges around it.  The code then holds a linked edge behind its neighbours,
\* but no edge of this phase is linked (EdgesPlaced).
SerifEdge(points, segs, h, i) ==
  LET E == h.edges
      e == E[i]
      dist == IF e.serif = Nil THEN 1000 ELSE Abs(E[e.serif].opos - e.opos)
      before == {k \in 1..(i - 1) : E[k].done}
      after == {k \in (i + 1)..Len(E) : E[k].done}
      b == E[Max(before)]
      a == E[Min(after)]
      pos == IF dist < 80 THEN E[e.serif].pos + e.opos - E[e.serif].opos
             ELSE IF h.anchor = Nil THEN PixRound(e.opos)
             ELSE IF before = {} \/ after = {}
                  THEN E[h.anchor].pos + 32 * ((e.opos - E[h.anchor].opos + 16) \div 32)
             ELSE IF a.opos = b.opos THEN b.pos
             ELSE b.pos + MulDiv(e.opos - b.opos, a.pos - b.pos, a.opos - b.opos)
  IN IF e.done \/ (dist < 96 /\ SerifBlocked(points, segs, E, i)) THEN h
     ELSE [h EXCEPT !.edges[i].pos = pos,
                    !.edges[i].done = TRUE,
                    !.anchor = IF dist >= 80 /\ @ = Nil THEN i ELSE @]

-----------------------------------------------------------------------------
(* The order of the stages.                                                *)

VARIABLES
  job,       \* what is hinted: outline, font, ppem, mode
  metrics,   \* of the font at the size
  pts,       \* the points
  axis,      \* per dimension the segments and edges, anchor and rest of its h
  stage,     \* [what, dim, at]: what comes next; at is the edge whose turn it is
  advance    \* the advance width of the hinted glyph

vars == <<job, metrics, pts, axis, stage, advance>>

At(what, d) == [what |-> what, dim |-> d, at |-> 1]
Fitting == {"blue", "stem", "serif"}

Flags == target_flags(job.mode)
Major(d) == MajorDir(pts, d)
Downward(d) == d = Vert /\ job.font.down
How(d) == [adjust |-> Flags.adjust, snap |-> Flags.snap, mono |-> Flags.mono, light |-> metrics.light[d],
           widths |-> metrics.cur[d], ppem |-> Max({1, Min({100, job.ppem})})]

Init ==
  /\ job \in [outline : Outlines, font : Fonts, ppem : Ppems, mode : Modes]
  /\ metrics = <<>>
  /\ pts = <<>>
  /\ axis = [d \in Dims |-> [segs |-> <<>>, edges |-> <<>>, anchor |-> Nil, rest |-> FALSE]]
  /\ stage = At("standard", Horz)
  /\ advance = 0

\* The standard glyph of the font is loaded, unscaled.  (The metrics of a
\* font are kept; here they are found again for each job.)
Standard ==
  /\ stage.what = "standard"
  /\ pts' = reload(job.font.standard, <<One, One>>)
  /\ stage' = At("widths", Horz)
  /\ UNCHANGED <<job, metrics, axis, advance>>

\* Its stems give the widths, which are scaled with the blue zones.
Widths ==
  /\ stage.what = "widths"
  /\ \E segs \in {[d \in Dims |-> compute_segments(pts, d)]} :
       \E linked \in {[d \in Dims |-> link_segments_inner(segs[d], Major(d), 0)]} :
         \E widths \in {[d \in Dims |-> metrics_init_widths(linked[d])]} :
           LET scale == (job.ppem * Grid * One) \div UnitsPerEm
           IN metrics' = metrics_scale_dim([widths |-> widths, blues |-> job.font.blues], scale, scale)
  /\ stage' = At("load", Horz)
  /\ UNCHANGED <<job, pts, axis, advance>>

Load ==
  /\ stage.what = "load"
  /\ pts' = reload(job.outline.contours, metrics.scale)
  /\ stage' = At("segments", IF Flags.horizontal THEN Horz ELSE Vert)
  /\ UNCHANGED <<job, metrics, axis, advance>>

Segments ==
  /\ stage.what = "segments"
  /\ axis' = [axis EXCEPT ![stage.dim].segs = compute_segments(pts, stage.dim)]
  /\ pts' = Turned(pts, stage.dim)
  /\ stage' = At("link", stage.dim)
  /\ UNCHANGED <<job, metrics, advance>>

Link ==
  /\ stage.what = "link"
  /\ LET d == stage.dim
         w == metrics.widths[d]
     IN axis' = [axis EXCEPT ![d].segs = link_segments_inner(@, Major(d), IF w = <<>> THEN 0 ELSE Last(w))]
  /\ stage' = At("edges", stage.dim)
  /\ UNCHANGED <<job, metrics, pts, advance>>

\* The vertical edges are found before the horizontal segments, so that what
\* is in v when edges are placed is the other coordinate.
Edges ==
  /\ stage.what = "edges"
  /\ LET d == stage.dim
         ax == compute_edges(axis[d].segs, metrics, d, Major(d), Downward(d))
     IN axis' = [axis EXCEPT ![d].segs = ax.segs, ![d].edges = ax.edges]
  /\ stage' = IF stage.dim = Horz THEN At("segments", Vert) ELSE At("zones", Vert)
  /\ UNCHANGED <<job, metrics, pts, advance>>

Zones ==
  /\ stage.what = "zones"
  /\ axis' = [axis EXCEPT ![Vert].edges = compute_blue_edges(@, metrics, Major(Vert))]
  /\ stage' = IF Flags.horizontal THEN At("stem", Horz) ELSE At("blue", Vert)
  /\ UNCHANGED <<job, metrics, pts, advance>>

\* One edge of a phase; after the last one the next phase begins.
Turn(what, next) ==
  /\ stage.what = what
  /\ stage' = IF stage.at < Len(axis[stage.dim].edges) THEN [stage EXCEPT !.at = @ + 1]
              ELSE At(next, stage.dim)
  /\ UNCHANGED <<job, metrics, pts, advance>>

HintBlue ==
  /\ Turn("blue", "stem")
  /\ axis' = [axis EXCEPT ![Vert] = IF @.edges = <<>> THEN @ ELSE BlueEdge(How(Vert), Vert, @, stage.at)]

\* Phase 2: the edges of stems.
HintStem ==
  /\ Turn("stem", "symmetry")
  /\ LET d == stage.dim
         i == stage.at
         h == axis[d]
         e == h.edges[i]
         j == e.link
     IN \/ /\ h.edges # <<>> => e.done
           /\ UNCHANGED axis
        \/ /\ h.edges # <<>> /\ ~e.done /\ j = Nil
           /\ axis' = [axis EXCEPT ![d].rest = TRUE]
        \/ /\ h.edges # <<>> /\ ~e.done /\ j # Nil
           /\ \E len \in {StemWidth(How(d), d, e, h.edges[j], 0)} :
                axis' = [axis EXCEPT ![d] =
                           IF h.anchor = Nil THEN AnchorStem(How(d), d, h, i, len)
                                             ELSE RelativeStem(h, i, len, Downward(d))]

HintSymmetry ==
  /\ stage.what = "symmetry"
  /\ axis' = [axis EXCEPT ![stage.dim] = IF stage.dim = Horz THEN Symmetry3(@) ELSE @]
  /\ stage' = At("serif", stage.dim)
  /\ UNCHANGED <<job, metrics, pts, advance>>

HintSerif ==
  /\ Turn("serif", "edge_points")
  /\ LET d == stage.dim
     IN axis' = [axis EXCEPT ![d] =
                   IF @.edges = <<>> \/ ~(@.rest \/ @.anchor = Nil) THEN @
                   ELSE SerifEdge(pts, @.segs, @, stage.at)]

Align ==
  /\ LET d == stage.dim
         ax == axis[d]
     IN \/ /\ stage.what = "edge_points"
           /\ pts' = align_edge_points(pts, ax, d)
           /\ stage' = At("strong_points", d)
        \/ /\ stage.what = "strong_points"
           /\ pts' = align_strong_points(pts, ax.edges, d)
           /\ stage' = At("weak_points", d)
        \/ /\ stage.what = "weak_points"
           /\ pts' = align_weak_points(pts, d)
           /\ stage' = IF d = Horz THEN At("blue", Vert) ELSE At("phantom", Horz)
  /\ UNCHANGED <<job, metrics, axis, advance>>

\* How far the origin moves with the leftmost edge; the stem stays right of it.
LeftShift(edge) ==
  LET moved == PixRound(edge.pos - edge.opos - (IF edge.opos < 24 THEN 8 ELSE 0))
  IN IF moved >= edge.pos /\ edge.opos > 0 THEN moved - 64 ELSE moved

\* Where the next glyph begins, that kept its distance from the rightmost edge.
RightShift(edge, width) ==
  LET room == width - edge.opos
      moved == PixRound(edge.pos + room + (IF room < 24 THEN 8 ELSE 0))
  IN IF moved <= edge.pos /\ room > 0 THEN moved + 64 ELSE moved

Phantom ==
  /\ stage.what = "phantom"
  /\ LET edges == axis[Horz].edges
         width == MulFix(job.outline.advance, metrics.scale[Horz])
         fits == Len(edges) > 1
         left == IF fits THEN LeftShift(edges[1]) ELSE 0
         light == ~Flags.horizontal /\ ~Flags.adjust /\ Flags.snap = {}
     IN /\ pts' = [i \in DOMAIN pts |-> [pts[i] EXCEPT !.p[Horz] = @ - left]]
        /\ advance' = IF ~fits \/ (job.font.fixed /\ ~light) THEN PixRound(width)
                      ELSE RightShift(Last(edges), width) - left
  /\ stage' = At("done", Horz)
  /\ UNCHANGED <<job, metrics, axis>>

Next ==
  \/ Standard \/ Widths \/ Load \/ Segments \/ Link \/ Edges \/ Zones
  \/ HintBlue \/ HintStem \/ HintSymmetry \/ HintSerif
  \/ Align \/ Phantom

Spec == Init /\ [][Next]_vars

-----------------------------------------------------------------------------
(* Properties.                                                             *)

\* Each segment is listed by the edge it names and by no other, and edges are
\* in the order of their positions (compute_edges).
EdgesSound ==
  \A d \in Dims :
    LET ax == axis[d]
        E == DOMAIN ax.edges
    IN /\ ax.edges # <<>> =>
            \A s \in DOMAIN ax.segs, e \in E :
              Cardinality({k \in DOMAIN ax.edges[e].segs : ax.edges[e].segs[k] = s})
                = (IF ax.segs[s].edge = e THEN 1 ELSE 0)
       /\ \A e, f \in E : e < f => IF Downward(d) THEN ax.edges[e].fpos >= ax.edges[f].fpos
                                   ELSE ax.edges[e].fpos <= ax.edges[f].fpos
       /\ \A e \in E : \A f \in {ax.edges[e].link, ax.edges[e].serif} : f = Nil \/ f \in E \ {e}

Mutual(edges) == {m \in (DOMAIN edges) \X (DOMAIN edges) :
                    /\ edges[m[1]].link = m[2] /\ edges[m[2]].link = m[1]
                    /\ edges[m[1]].opos < edges[m[2]].opos}

\* The side of a stem that phase 2 comes to first stands where its neighbour is.
HeldBack(E, m) == LET i == IF Downward(stage.dim) THEN m[2] ELSE m[1]
                  IN i > 1 /\ E[i].pos = E[i - 1].pos

\* Both sides lie in blue zones, and each goes where its zone is.
Zoned(E, m) == E[m[1]].blue # {} /\ E[m[2]].blue # {}

\* No stem is erased, not in phase 2 (latin.rs:4640) and not in those after it:
\* its sides stay in order and a quarter of a pixel apart, or as far as they were
\* but for the rounding of halves.  The one exception is a side that is held back
\* more than a quarter of a pixel past the other one: that stem is turned around.
StemsKept ==
  stage.what \in {"symmetry", "serif", "edge_points"} =>
    LET E == axis[stage.dim].edges
    IN \A m \in {m \in Mutual(E) : ~Zoned(E, m)} :
         LET width == E[m[2]].pos - E[m[1]].pos
         IN \/ width >= Min({16, E[m[2]].opos - E[m[1]].opos - 1})
            \/ width < -16 /\ (stage.what = "symmetry" => HeldBack(E, m))

\* When stems are placed, none that is not placed is linked to an edge in a
\* blue zone; when serifs are, every linked edge is placed.
EdgesPlaced ==
  LET E == axis[stage.dim].edges
  IN /\ stage.what = "stem" =>
          \A i \in DOMAIN E : ~E[i].done /\ E[i].link # Nil => E[E[i].link].blue = {}
     /\ stage.what = "serif" => \A i \in DOMAIN E : E[i].link # Nil => E[i].done

\* A point that was between its touched neighbours stays between them.
PointsBetween ==
  (stage.what \in {"blue", "phantom"}) =>
    \A i \in DOMAIN pts :
      LET d == IF stage.what = "blue" THEN Horz ELSE Vert
          refs == {j \in OfContour(pts, pts[i].start) : d \in pts[j].touched}
          a == pts[RefBefore(pts, i, refs)]
          b == pts[RefAfter(pts, i, refs)]
          x == pts[i]
      IN d \notin x.touched /\ refs # {} =>
           \/ x.o[d] < Min({a.o[d], b.o[d]})
           \/ x.o[d] > Max({a.o[d], b.o[d]})
           \/ x.p[d] \in (Min({a.p[d], b.p[d]}) - 1)..(Max({a.p[d], b.p[d]}) + 1)
=============================================================================
