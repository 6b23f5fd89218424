--------------------------- MODULE Stroker_proofs ---------------------------
(***************************************************************************)
(* Theorems about the stroker: what counts and export say of the borders,  *)
(* for every path, joins, caps, curves and outlines.                       *)
(***************************************************************************)
EXTENDS Stroker, SeqLemmas, FiniteSetTheorems, TLAPS

-----------------------------------------------------------------------------
(* Borders                                                                 *)

\* Where a point lies is of no matter here, only how it is tagged.
IsPoints(s) == \E S : s \in Seq(S)
Plain(p) == "begin" \notin p.tags /\ "end" \notin p.tags

IsBorder(b) ==
  /\ DOMAIN b = {"points", "start", "movable", "valid"}
  /\ IsPoints(b.points)
  /\ b.start = NoStart \/ b.start \in 0..Len(b.points)

\* What drawing does to a border: points are moved or added, and those that are
\* added neither begin nor end a contour.
Grown(b, c) ==
  /\ IsBorder(c) /\ c.start = b.start
  /\ Len(b.points) <= Len(c.points)
  /\ \A i \in 1..Len(b.points) : c.points[i].tags = b.points[i].tags
  /\ \A i \in 1..Len(c.points) : i > Len(b.points) => Plain(c.points[i])
  /\ c.valid => b.valid /\ Len(c.points) = Len(b.points)

LEMMA Points ==
  ASSUME NEW s, IsPoints(s)
  PROVE  /\ Len(s) \in Nat /\ DOMAIN s = 1..Len(s)
         /\ s # <<>> <=> Len(s) > 0
<1>1. PICK S : s \in Seq(S)
  BY DEF IsPoints
<1> QED BY <1>1

LEMMA PointAdded ==
  ASSUME NEW s, IsPoints(s), NEW p
  PROVE  /\ IsPoints(Append(s, p)) /\ Len(Append(s, p)) = Len(s) + 1
         /\ \A i \in 1..Len(s) : Append(s, p)[i] = s[i]
         /\ Append(s, p)[Len(s) + 1] = p
<1>1. PICK S : s \in Seq(S)
  BY DEF IsPoints
<1>2. s \in Seq(S \union {p}) /\ p \in S \union {p}
  BY <1>1
<1>3. Append(s, p) \in Seq(S \union {p})
  BY <1>2, Appended
<1> QED BY <1>2, <1>3, Appended DEF IsPoints

LEMMA PointsJoined ==
  ASSUME NEW s, IsPoints(s), NEW t, IsPoints(t)
  PROVE  /\ IsPoints(s \o t) /\ Len(s \o t) = Len(s) + Len(t)
         /\ \A i \in 1..(Len(s) + Len(t)) :
              (s \o t)[i] = IF i <= Len(s) THEN s[i] ELSE t[i - Len(s)]
<1>1. PICK S, T : s \in Seq(S) /\ t \in Seq(T)
  BY DEF IsPoints
<1>2. s \in Seq(S \union T) /\ t \in Seq(S \union T)
  BY <1>1
<1>3. s \o t \in Seq(S \union T)
  BY <1>2, Concatenation
<1> QED BY <1>2, <1>3, Concatenation DEF IsPoints

LEMMA PointsCut ==
  ASSUME NEW s, IsPoints(s), NEW m \in 1..(Len(s) + 1), NEW n \in 0..Len(s), m <= n + 1
  PROVE  LET t == SubSeq(s, m, n) IN
         /\ IsPoints(t) /\ Len(t) = n - m + 1
         /\ \A i \in 1..Len(t) : t[i] = s[m + i - 1]
<1>1. PICK S : s \in Seq(S)
  BY DEF IsPoints
<1>2. m \in Nat /\ n \in Nat /\ Len(s) \in Nat
  BY <1>1
<1> DEFINE t == SubSeq(s, m, n)
<1>3. t \in Seq(S) /\ Len(t) = n - m + 1
  BY <1>1, <1>2
<1>4. \A i \in 1..Len(t) : t[i] = s[m + i - 1]
  BY <1>1, <1>2, <1>3
<1> QED BY <1>3, <1>4 DEF IsPoints

\* A function on 1..n is a sequence of points.
LEMMA PointsListed ==
  ASSUME NEW n \in Nat, NEW s, DOMAIN s = 1..n, s = [i \in 1..n |-> s[i]]
  PROVE  IsPoints(s) /\ Len(s) = n
<1> DEFINE S == {s[i] : i \in 1..n}
<1>1. s \in [1..n -> S]
  OBVIOUS
<1>2. s \in Seq(S)
  BY <1>1
<1> HIDE DEF S
<1>3. Len(s) \in Nat /\ 1..Len(s) = 1..n
  BY <1>2
<1>4. Len(s) = n
  BY <1>3
<1> QED BY <1>2, <1>4 DEF IsPoints

\* The last point moves.
LEMMA LastMoved ==
  ASSUME NEW s, IsPoints(s), s # <<>>, NEW p
  PROVE  LET t == Append(Front(s), p) IN
         /\ IsPoints(t) /\ Len(t) = Len(s)
         /\ \A i \in 1..(Len(s) - 1) : t[i] = s[i]
         /\ t[Len(s)] = p
<1> DEFINE f == Front(s)
<1>1. Len(s) \in Nat /\ Len(s) > 0
  BY Points
<1>2. IsPoints(f) /\ Len(f) = Len(s) - 1 /\ \A i \in 1..(Len(s) - 1) : f[i] = s[i]
  <2>1. 1 \in 1..(Len(s) + 1) /\ Len(s) - 1 \in 0..Len(s) /\ 1 <= Len(s) - 1 + 1
    BY <1>1
  <2>2. /\ IsPoints(f) /\ Len(f) = (Len(s) - 1) - 1 + 1
        /\ \A i \in 1..Len(f) : f[i] = s[1 + i - 1]
    BY <2>1, PointsCut DEF Front
  <2> HIDE DEF f
  <2>3. Len(f) = Len(s) - 1
    BY <1>1, <2>2
  <2>4. \A i \in 1..(Len(s) - 1) : f[i] = s[1 + i - 1] /\ 1 + i - 1 = i
    BY <1>1, <2>2, <2>3
  <2> QED BY <2>2, <2>3, <2>4
<1> HIDE DEF f
<1>3. IsPoints(Append(f, p)) /\ Len(Append(f, p)) = Len(s)
  BY <1>1, <1>2, PointAdded
<1>4. \A i \in 1..(Len(s) - 1) : Append(f, p)[i] = s[i]
  BY <1>1, <1>2, PointAdded
<1>5. Append(f, p)[Len(s)] = p
  <2>1. Append(f, p)[Len(f) + 1] = p
    BY <1>2, PointAdded
  <2> QED BY <1>1, <1>2, <2>1
<1> QED BY <1>3, <1>4, <1>5 DEF f

-----------------------------------------------------------------------------
(* What a border goes through.                                             *)

LEMMA GrownSame ==
  ASSUME NEW b, IsBorder(b), NEW c, DOMAIN c = DOMAIN b, c.points = b.points,
         c.start = b.start, c.valid => b.valid
  PROVE  Grown(b, c)
<1>1. Len(b.points) \in Nat
  BY Points DEF IsBorder
<1>2. IsBorder(c)
  BY DEF IsBorder
<1>3. \A i \in 1..Len(c.points) : ~(i > Len(b.points))
  BY <1>1
<1> QED BY <1>1, <1>2, <1>3 DEF Grown

LEMMA GrownSelf ==
  ASSUME NEW b, IsBorder(b)
  PROVE  Grown(b, b) /\ Grown(b, [b EXCEPT !.movable = FALSE])
<1>2. Grown(b, b)
  BY GrownSame
<1> DEFINE c == [b EXCEPT !.movable = FALSE]
<1>3. DOMAIN c = DOMAIN b /\ c.points = b.points /\ c.start = b.start /\ c.valid = b.valid
  BY DEF IsBorder
<1> HIDE DEF c
<1>4. Grown(b, c)
  BY <1>3, GrownSame
<1> QED BY <1>2, <1>4 DEF c

LEMMA GrownOn ==
  ASSUME NEW b, NEW c, NEW d, IsBorder(b), Grown(b, c), Grown(c, d)
  PROVE  Grown(b, d)
<1>1. Len(b.points) \in Nat /\ Len(c.points) \in Nat /\ Len(d.points) \in Nat
  BY Points DEF IsBorder, Grown
<1>2. \A i \in 1..Len(d.points) : i > Len(b.points) => Plain(d.points[i])
  <2> SUFFICES ASSUME NEW i \in 1..Len(d.points), i > Len(b.points)
               PROVE  Plain(d.points[i])
    OBVIOUS
  <2>1. CASE i > Len(c.points)
    BY <2>1 DEF Grown
  <2>2. CASE i <= Len(c.points)
    <3>1. i \in 1..Len(c.points)
      BY <1>1, <2>2
    <3>2. Plain(c.points[i]) /\ d.points[i].tags = c.points[i].tags
      BY <3>1 DEF Grown
    <3> QED BY <3>2 DEF Plain
  <2> QED BY <1>1, <2>1, <2>2
<1>3. \A i \in 1..Len(b.points) : d.points[i].tags = b.points[i].tags
  <2>1. \A i \in 1..Len(b.points) : i \in 1..Len(c.points)
    BY <1>1 DEF Grown
  <2> QED BY <2>1 DEF Grown
<1> QED BY <1>1, <1>2, <1>3 DEF Grown

\* lineto: a line to a point, or the last point moved to it.
LEMMA LineGrows ==
  ASSUME NEW b, IsBorder(b), NEW p, NEW movable
  PROVE  /\ Grown(b, lineto(b, p, movable))
         /\ ~lineto(b, p, movable).valid
         /\ ~b.movable /\ ~Duplicate(b, p) =>
              /\ Len(lineto(b, p, movable).points) = Len(b.points) + 1
              /\ LastPlace(lineto(b, p, movable)) = [at |-> p.at, off |-> p.off]
              /\ ~movable => ~lineto(b, p, movable).movable
<1> DEFINE s == b.points
           c == lineto(b, p, movable)
<1>1. Len(s) \in Nat /\ IsPoints(s)
  BY Points DEF IsBorder
<1>2. /\ DOMAIN c = DOMAIN b /\ c.start = b.start /\ c.movable = movable /\ c.valid = FALSE
      /\ c.points = IF b.movable /\ s # <<>> THEN Append(Front(s), Tagged(p, Last(s).tags))
                    ELSE IF b.movable \/ Duplicate(b, p) THEN s
                    ELSE Append(s, Tagged(p, {"on"}))
  BY DEF IsBorder, lineto
<1> HIDE DEF c
<1>3. CASE b.movable /\ s # <<>>
  <2>1. c.points = Append(Front(s), Tagged(p, Last(s).tags))
    BY <1>2, <1>3
  <2>2. /\ IsPoints(c.points) /\ Len(c.points) = Len(s)
        /\ \A i \in 1..(Len(s) - 1) : c.points[i] = s[i]
        /\ c.points[Len(s)] = Tagged(p, Last(s).tags)
    BY <1>1, <1>3, <2>1, LastMoved
  <2>3. \A i \in 1..Len(s) : c.points[i].tags = s[i].tags
    <3>1. c.points[Len(s)].tags = s[Len(s)].tags
      BY <2>2 DEF Tagged, Last
    <3>2. \A i \in 1..Len(s) : i = Len(s) \/ i \in 1..(Len(s) - 1)
      BY <1>1
    <3> QED BY <2>2, <3>1, <3>2
  <2>4. Grown(b, c)
    BY <1>1, <1>2, <2>2, <2>3 DEF Grown, IsBorder
  <2> QED BY <1>2, <1>3, <2>4 DEF c
<1>4. CASE ~(b.movable /\ s # <<>>) /\ (b.movable \/ Duplicate(b, p))
  <2>1. c.points = s
    BY <1>2, <1>4
  <2>2. Grown(b, c)
    BY <1>2, <2>1, GrownSame
  <2> QED BY <1>2, <1>4, <2>2 DEF c
<1>5. CASE ~b.movable /\ ~Duplicate(b, p)
  <2>1. c.points = Append(s, Tagged(p, {"on"}))
    BY <1>2, <1>5
  <2>2. /\ IsPoints(c.points) /\ Len(c.points) = Len(s) + 1
        /\ \A i \in 1..Len(s) : c.points[i] = s[i]
        /\ c.points[Len(s) + 1] = Tagged(p, {"on"})
    BY <1>1, <2>1, PointAdded
  <2>3. Plain(c.points[Len(s) + 1])
    BY <2>2 DEF Plain, Tagged
  <2>4. \A i \in 1..Len(c.points) : i > Len(s) => i = Len(s) + 1
    BY <1>1, <2>2
  <2>5. Grown(b, c)
    BY <1>1, <1>2, <2>2, <2>3, <2>4 DEF Grown, IsBorder
  <2>6. LastPlace(c) = [at |-> p.at, off |-> p.off]
    BY <2>2 DEF LastPlace, Last, Tagged
  <2> QED BY <1>2, <2>2, <2>5, <2>6 DEF c
<1>6. c.valid = FALSE
  BY <1>2
<1> QED BY <1>3, <1>4, <1>5, <1>6 DEF c

\* Points are added that neither begin nor end a contour.
LEMMA PointsGrow ==
  ASSUME NEW b, IsBorder(b), NEW more, IsPoints(more), \A i \in 1..Len(more) : Plain(more[i]),
         NEW c, DOMAIN c = DOMAIN b, c.points = b.points \o more, c.start = b.start, ~c.valid
  PROVE  Grown(b, c) /\ Len(c.points) = Len(b.points) + Len(more)
<1>1. IsPoints(b.points) /\ Len(b.points) \in Nat /\ Len(more) \in Nat
  BY Points DEF IsBorder
<1>2. /\ IsPoints(c.points) /\ Len(c.points) = Len(b.points) + Len(more)
      /\ \A i \in 1..(Len(b.points) + Len(more)) :
           c.points[i] = IF i <= Len(b.points) THEN b.points[i] ELSE more[i - Len(b.points)]
  BY <1>1, PointsJoined
<1>3. IsBorder(c)
  BY <1>1, <1>2 DEF IsBorder
<1>4. ASSUME NEW i \in 1..Len(c.points), i > Len(b.points) PROVE Plain(c.points[i])
  <2>1. i - Len(b.points) \in 1..Len(more) /\ c.points[i] = more[i - Len(b.points)]
    BY <1>1, <1>2, <1>4
  <2> QED BY <2>1
<1>5. \A i \in 1..Len(b.points) : c.points[i].tags = b.points[i].tags
  <2>1. \A i \in 1..Len(b.points) : i \in 1..(Len(b.points) + Len(more)) /\ i <= Len(b.points)
    BY <1>1
  <2> QED BY <1>2, <2>1
<1> QED BY <1>1, <1>2, <1>3, <1>4, <1>5 DEF Grown

LEMMA OnePoint ==
  ASSUME NEW p
  PROVE  IsPoints(<<p>>) /\ Len(<<p>>) = 1 /\ <<p>>[1] = p
<1>1. <<p>> \in Seq({p})
  OBVIOUS
<1> QED BY <1>1 DEF IsPoints

\* conicto, cubicto
LEMMA CurveGrows ==
  ASSUME NEW b, IsBorder(b), NEW controls \in {ConicControls, CubicControls}, NEW p
  PROVE  /\ Grown(b, curveto(b, controls, p))
         /\ Len(curveto(b, controls, p).points) >= Len(b.points) + 2
<1> DEFINE bent == [i \in DOMAIN controls |-> Tagged(p, controls[i])]
           end == <<Tagged(p, {"on"})>>
           c == [b EXCEPT !.points = b.points \o bent, !.valid = FALSE]
           d == curveto(b, controls, p)
<1>1. /\ Len(controls) \in {1, 2} /\ DOMAIN controls = 1..Len(controls)
      /\ \A i \in DOMAIN controls : "begin" \notin controls[i] /\ "end" \notin controls[i]
  BY DEF ConicControls, CubicControls
<1>2. IsPoints(bent) /\ Len(bent) = Len(controls)
  <2>1. DOMAIN bent = 1..Len(controls) /\ bent = [i \in 1..Len(controls) |-> bent[i]]
    BY <1>1
  <2> HIDE DEF bent
  <2>2. Len(controls) \in Nat
    BY <1>1
  <2> QED BY <2>1, <2>2, PointsListed
<1>3. \A i \in 1..Len(bent) : Plain(bent[i])
  <2>1. \A i \in DOMAIN controls : Plain(bent[i])
    BY <1>1 DEF Plain, Tagged
  <2> QED BY <1>1, <1>2, <2>1
<1>4. /\ DOMAIN c = DOMAIN b /\ c.points = b.points \o bent /\ c.start = b.start /\ c.valid = FALSE
      /\ DOMAIN d = DOMAIN b /\ d.points = c.points \o end /\ d.start = b.start /\ d.valid = FALSE
  BY DEF IsBorder, curveto
<1> HIDE DEF bent, c, d
<1>5. Grown(b, c) /\ Len(c.points) = Len(b.points) + Len(bent)
  BY <1>2, <1>3, <1>4, PointsGrow
<1>6. IsPoints(end) /\ Len(end) = 1 /\ \A i \in 1..Len(end) : Plain(end[i])
  <2>1. Plain(Tagged(p, {"on"}))
    BY DEF Plain, Tagged
  <2>2. IsPoints(end) /\ Len(end) = 1 /\ end[1] = Tagged(p, {"on"})
    BY OnePoint
  <2> QED BY <2>1, <2>2
<1> HIDE DEF end
<1>7. Grown(c, d) /\ Len(d.points) = Len(c.points) + Len(end)
  <2>1. IsBorder(c)
    BY <1>5 DEF Grown
  <2> QED BY <1>4, <1>6, <2>1, PointsGrow
<1>8. Grown(b, d)
  BY <1>5, <1>7, GrownOn
<1>9. Len(b.points) \in Nat
  BY Points DEF IsBorder
<1> QED BY <1>1, <1>2, <1>5, <1>6, <1>7, <1>8, <1>9 DEF d

\* FT_Angle_Diff
LEMMA Turns ==
  ASSUME NEW in \in Int, NEW out \in Int
  PROVE  Turn(in, out) \in -3..4
<1>1. (out - in) % 8 \in 0..7
  OBVIOUS
<1> DEFINE d == (out - in) % 8
<1> HIDE DEF d
<1>2. (IF d > 4 THEN d - 8 ELSE d) \in -3..4
  BY <1>1 DEF d
<1> QED BY <1>2 DEF Turn, d

\* arcto
LEMMA ArcsGrow ==
  ASSUME NEW b, IsBorder(b), NEW s, NEW side, NEW in, NEW turn \in -4..4
  PROVE  Grown(b, arcto(b, s, side, in, turn))
<1> DEFINE arcs == (Size(turn) + 1) \div 2
           end == in + Rotate(side) + (IF turn = 4 THEN -2 * Rotate(side) ELSE turn)
           Arc(x, k) == curveto(x, CubicControls, IF k = arcs THEN Normal(s, s.center, end)
                                                  ELSE Offset(s, s.center, "arc", in, k))
           drawn[k \in 0..arcs] == IF k = 0 THEN b ELSE Arc(drawn[k - 1], k)
<1>1. arcs \in Nat
  BY DEF Size
<1>2. \A x, k : IsBorder(x) => Grown(x, Arc(x, k))
  BY CurveGrows
<1>3. arcto(b, s, side, in, turn) = drawn[arcs]
  BY DEF arcto
<1> HIDE DEF arcs, end, Arc
<1> DEFINE Is(g, m) == g = [k \in 0..m |-> IF k = 0 THEN b ELSE Arc(g[k - 1], k)]
           P == {m \in 0..arcs : \E g : Is(g, m)}
<1>4. 0 \in P
  <2> DEFINE g == [k \in 0..0 |-> b]
  <2>1. Is(g, 0)
    OBVIOUS
  <2> HIDE DEF g, Is
  <2> QED BY <1>1, <2>1
<1>5. ASSUME NEW m \in 1..arcs, m - 1 \in P PROVE m \in P
  <2>1. PICK g : Is(g, m - 1)
    BY <1>5
  <2> DEFINE h == [k \in 0..m |-> IF k < m THEN g[k] ELSE Arc(g[m - 1], m)]
  <2>2. \A k \in 0..m : h[k] = IF k = 0 THEN b ELSE Arc(h[k - 1], k)
    <3> SUFFICES ASSUME NEW k \in 0..m PROVE h[k] = IF k = 0 THEN b ELSE Arc(h[k - 1], k)
      OBVIOUS
    <3>0. m \in Nat /\ m > 0
      BY <1>1
    <3>1. CASE k = 0
      BY <2>1, <3>0, <3>1
    <3>2. CASE k # 0 /\ k < m
      <4>1. h[k] = g[k] /\ h[k - 1] = g[k - 1]
        BY <3>0, <3>2
      <4>2. g[k] = Arc(g[k - 1], k)
        BY <2>1, <3>0, <3>2
      <4> QED BY <3>2, <4>1, <4>2
    <3>3. CASE k = m
      <4>1. h[k] = Arc(g[m - 1], m) /\ h[k - 1] = g[m - 1]
        BY <3>0, <3>3
      <4> QED BY <3>0, <3>3, <4>1
    <3> QED BY <3>0, <3>1, <3>2, <3>3
  <2>3. h = [k \in 0..m |-> h[k]]
    OBVIOUS
  <2> HIDE DEF h
  <2>4. Is(h, m)
    BY <2>2, <2>3
  <2> HIDE DEF Is
  <2>5. m \in 0..arcs
    BY <1>1
  <2> QED BY <2>4, <2>5
<1> HIDE DEF P
<1>6. 0..arcs \subseteq P
  BY <1>1, <1>4, <1>5, UpTo
<1>7. PICK g : Is(g, arcs)
  BY <1>1, <1>6 DEF P
<1>8. drawn = [k \in 0..arcs |-> IF k = 0 THEN b ELSE Arc(drawn[k - 1], k)]
  BY <1>7, Zenon
<1> HIDE DEF drawn, Is
<1> DEFINE Q == {k \in 0..arcs : Grown(b, drawn[k])}
<1>9. 0 \in Q
  <2>1. drawn[0] = b
    BY <1>1, <1>8
  <2>2. Grown(b, b)
    BY GrownSelf
  <2>3. 0 \in 0..arcs
    BY <1>1
  <2> QED BY <2>1, <2>2, <2>3
<1>10. ASSUME NEW k \in 1..arcs, k - 1 \in Q PROVE k \in Q
  <2>1. k \in 0..arcs /\ k # 0
    BY <1>1
  <2>2. drawn[k] = Arc(drawn[k - 1], k)
    BY <1>8, <2>1
  <2>3. Grown(b, drawn[k - 1]) /\ IsBorder(drawn[k - 1])
    BY <1>10 DEF Grown
  <2>4. Grown(drawn[k - 1], Arc(drawn[k - 1], k))
    BY <1>2, <2>3
  <2>5. Grown(b, drawn[k])
    BY <2>2, <2>3, <2>4, GrownOn
  <2> QED BY <2>1, <2>5
<1> HIDE DEF Q
<1>11. 0..arcs \subseteq Q
  BY <1>1, <1>9, <1>10, UpTo
<1>12. Grown(b, drawn[arcs])
  BY <1>1, <1>11 DEF Q
<1> QED BY <1>3, <1>12

-----------------------------------------------------------------------------
(* Contours                                                                *)

Begins(b, i) == "begin" \in b.points[i].tags
Finishes(b, i) == "end" \in b.points[i].tags

\* The part of a border that is not drawn at.
Base(b) == IF b.start = NoStart THEN Len(b.points) ELSE b.start

\* There are whole contours up to the base, and nothing begins or ends after it.
Whole(b, n) ==
  /\ \A i \in 1..n : Begins(b, i) <=> (i = 1 \/ Finishes(b, i - 1))
  /\ n > 0 => Finishes(b, n)
Contoured(b, count) ==
  /\ Whole(b, Base(b))
  /\ \A i \in 1..Len(b.points) : i > Base(b) => Plain(b.points[i])
  /\ Cardinality(Ends(b)) = count

LEMMA BaseInside ==
  ASSUME NEW b, IsBorder(b)
  PROVE  Base(b) \in 0..Len(b.points) /\ Len(b.points) \in Nat
<1>1. Len(b.points) \in Nat
  BY Points DEF IsBorder
<1> QED BY <1>1 DEF IsBorder, Base

\* Drawing leaves the contours that are there.
LEMMA GrownContoured ==
  ASSUME NEW b, IsBorder(b), NEW c, Grown(b, c), NEW count, Contoured(b, count), b.start # NoStart
  PROVE  Contoured(c, count) /\ c.start # NoStart
<1>1. /\ Base(b) = b.start /\ Base(c) = b.start /\ b.start \in 0..Len(b.points)
      /\ Len(b.points) \in Nat /\ Len(c.points) \in Nat /\ Len(b.points) <= Len(c.points)
  BY Points DEF Grown, Base, IsBorder
<1>2. \A i \in 1..Len(b.points) : c.points[i].tags = b.points[i].tags
  BY DEF Grown
<1>3. \A i \in 1..Len(c.points) : i > Len(b.points) => Plain(c.points[i])
  BY DEF Grown
<1>4. Whole(c, Base(c))
  <2>1. \A i \in 1..b.start : i \in 1..Len(b.points) /\ (i # 1 => i - 1 \in 1..Len(b.points))
    BY <1>1
  <2>2. \A i \in 1..b.start : Begins(c, i) <=> (i = 1 \/ Finishes(c, i - 1))
    BY <1>1, <1>2, <2>1 DEF Contoured, Whole, Begins, Finishes
  <2>3. b.start > 0 => Finishes(c, b.start)
    <3>1. b.start > 0 => b.start \in 1..Len(b.points)
      BY <1>1
    <3> QED BY <1>1, <1>2, <3>1 DEF Contoured, Whole, Finishes
  <2> QED BY <1>1, <2>2, <2>3 DEF Whole
<1>5. \A i \in 1..Len(c.points) : i > Base(c) => Plain(c.points[i])
  <2> SUFFICES ASSUME NEW i \in 1..Len(c.points), i > b.start PROVE Plain(c.points[i])
    BY <1>1
  <2>1. CASE i > Len(b.points)
    BY <1>3, <2>1
  <2>2. CASE i <= Len(b.points)
    <3>1. i \in 1..Len(b.points)
      BY <1>1, <2>2
    <3>2. Plain(b.points[i]) /\ c.points[i].tags = b.points[i].tags
      BY <1>1, <1>2, <3>1 DEF Contoured
    <3> QED BY <3>2 DEF Plain
  <2> QED BY <1>1, <2>1, <2>2
<1>6. Ends(c) = Ends(b)
  <2>1. DOMAIN b.points = 1..Len(b.points) /\ DOMAIN c.points = 1..Len(c.points)
    BY Points DEF IsBorder, Grown
  <2>2. \A i \in 1..Len(c.points) : "end" \in c.points[i].tags => i \in 1..Len(b.points)
    BY <1>1, <1>3 DEF Plain
  <2>3. \A i \in 1..Len(b.points) : i \in 1..Len(c.points)
    BY <1>1
  <2> QED BY <1>2, <2>1, <2>2, <2>3 DEF Ends
<1> QED BY <1>4, <1>5, <1>6 DEF Contoured, Grown

\* A border that is not drawn at is an outline.
LEMMA ContouredBalanced ==
  ASSUME NEW b, IsBorder(b), NEW count, Contoured(b, count), Base(b) = Len(b.points)
  PROVE  Balanced(b) /\ Counts(b).contours = count
<1>1. DOMAIN b.points = 1..Len(b.points) /\ Len(b.points) \in Nat
  BY Points DEF IsBorder
<1>2. Whole(b, Len(b.points))
  BY DEF Contoured
<1>3. Balanced(b)
  BY <1>1, <1>2 DEF Whole, Balanced, Begins, Finishes
<1> QED BY <1>3 DEF Contoured, Counts

\* The points that make up a contour when it is closed.
IsRing(b, turned) ==
  /\ IsPoints(turned) /\ Len(turned) = Len(b.points) - b.start - 1
  /\ \A i \in 1..Len(turned) : \E j \in (b.start + 1)..Len(b.points) : turned[i] = b.points[j]

LEMMA Ring ==
  ASSUME NEW b, IsBorder(b), b.start # NoStart, Len(b.points) >= b.start + 2, NEW reversed
  PROVE  LET n == Len(b.points)
             ring == <<b.points[n]>> \o SubSeq(b.points, b.start + 2, n - 1)
             turned == IF reversed THEN <<Head(ring)>> \o Reverse(Tail(ring)) ELSE ring
         IN IsRing(b, turned)
<1> DEFINE n == Len(b.points)
           start == b.start
           cut == SubSeq(b.points, start + 2, n - 1)
           ring == <<b.points[n]>> \o cut
           m == n - start - 1
           Inside(p) == \E j \in (start + 1)..n : p = b.points[j]
<1>1. n \in Nat /\ start \in 0..n /\ n >= start + 2 /\ IsPoints(b.points)
  BY Points DEF IsBorder
<1>2. IsPoints(cut) /\ Len(cut) = m - 1 /\ \A i \in 1..Len(cut) : cut[i] = b.points[start + 2 + i - 1]
  <2>1. start + 2 \in 1..(n + 1) /\ n - 1 \in 0..n /\ start + 2 <= (n - 1) + 1
    BY <1>1
  <2>2. (n - 1) - (start + 2) + 1 = m - 1
    BY <1>1
  <2> HIDE DEF n, start, m
  <2> QED BY <1>1, <2>1, <2>2, PointsCut DEF n
<1>3. IsPoints(<<b.points[n]>>) /\ Len(<<b.points[n]>>) = 1 /\ <<b.points[n]>>[1] = b.points[n]
  BY OnePoint
<1>4. \A i \in 1..Len(cut) : Inside(cut[i])
  <2>1. n \in Nat /\ start \in 0..n /\ n >= start + 2 /\ Len(cut) = n - start - 2
    <3>1. Len(cut) = (n - start - 1) - 1
      BY <1>2
    <3> HIDE DEF n, start, cut
    <3> QED BY <1>1, <3>1
  <2> HIDE DEF n, start, m, cut
  <2>2. ASSUME NEW i \in 1..Len(cut) PROVE start + 2 + i - 1 \in (start + 1)..n
    BY <2>1
  <2> USE DEF n, start
  <2> QED BY <1>2, <2>2
<1>5. Inside(b.points[n])
  <2>1. n \in (start + 1)..n
    BY <1>1
  <2> QED BY <2>1
<1> HIDE DEF cut
<1> DEFINE one == <<b.points[n]>>
<1>6. IsPoints(one) /\ Len(one) = 1 /\ one[1] = b.points[n]
  BY <1>3
<1> HIDE DEF one, Inside
<1>7. /\ IsPoints(one \o cut) /\ Len(one \o cut) = m
      /\ \A i \in 1..m : (one \o cut)[i] = IF i = 1 THEN b.points[n] ELSE cut[i - 1]
  <2>1. m \in Nat /\ m >= 1
    BY <1>1
  <2> HIDE DEF m
  <2>2. /\ IsPoints(one \o cut) /\ Len(one \o cut) = Len(one) + Len(cut)
        /\ \A i \in 1..(Len(one) + Len(cut)) :
             (one \o cut)[i] = IF i <= Len(one) THEN one[i] ELSE cut[i - Len(one)]
    BY <1>2, <1>6, PointsJoined
  <2>3. Len(one) + Len(cut) = m
    BY <1>2, <1>6, <2>1
  <2>4. ASSUME NEW i \in 1..m PROVE (one \o cut)[i] = IF i = 1 THEN b.points[n] ELSE cut[i - 1]
    <3>1. (one \o cut)[i] = IF i <= Len(one) THEN one[i] ELSE cut[i - Len(one)]
      BY <2>2, <2>3
    <3>2. i <= 1 <=> i = 1
      BY <2>1
    <3> QED BY <1>6, <3>1, <3>2
  <2> QED BY <2>2, <2>3, <2>4
<1>8. \A i \in 1..m : Inside((one \o cut)[i])
  <2>1. \A i \in 1..m : i = 1 \/ i - 1 \in 1..Len(cut)
    BY <1>1, <1>2
  <2> QED BY <1>4, <1>5, <1>7, <2>1
<1>9. ring = one \o cut
  BY DEF one
<1> HIDE DEF ring
<1>10. m \in Nat /\ m >= 1
  BY <1>1
<1> DEFINE back == Reverse(Tail(ring))
           first == <<Head(ring)>>
<1>11. IsPoints(back) /\ Len(back) = m - 1 /\ \A i \in 1..(m - 1) : Inside(back[i])
  <2> HIDE DEF m
  <2>1. Tail(ring) = SubSeq(ring, 2, Len(ring)) /\ IsPoints(ring) /\ Len(ring) = m
    <3>1. PICK S : ring \in Seq(S)
      BY <1>7, <1>9 DEF IsPoints
    <3>2. Tail(ring) = SubSeq(ring, 2, Len(ring))
      BY <1>7, <1>9, <1>10, <3>1
    <3> QED BY <1>7, <1>9, <3>2
  <2>2. /\ IsPoints(Tail(ring)) /\ Len(Tail(ring)) = m - 2 + 1
        /\ \A i \in 1..Len(Tail(ring)) : Tail(ring)[i] = ring[2 + i - 1]
    <3>1. 2 \in 1..(Len(ring) + 1) /\ Len(ring) \in 0..Len(ring) /\ 2 <= Len(ring) + 1
      BY <1>10, <2>1
    <3> DEFINE tail == SubSeq(ring, 2, Len(ring))
    <3>2. /\ IsPoints(tail) /\ Len(tail) = Len(ring) - 2 + 1
          /\ \A i \in 1..Len(tail) : tail[i] = ring[2 + i - 1]
      BY <2>1, <3>1, PointsCut
    <3> HIDE DEF tail
    <3>3. Len(tail) = m - 2 + 1
      BY <2>1, <3>2
    <3>4. Tail(ring) = tail
      BY <2>1 DEF tail
    <3> QED BY <3>2, <3>3, <3>4
  <2> DEFINE tail == Tail(ring)
  <2>3. Len(tail) = m - 1 /\ \A i \in 1..(m - 1) : tail[i] = ring[2 + i - 1] /\ 2 + i - 1 \in 1..m
    BY <1>10, <2>2
  <2> HIDE DEF tail
  <2>4. Reverse(tail) = [i \in 1..(m - 1) |-> tail[(m - 1 - i) + 1]]
    BY <2>3 DEF Reverse
  <2> DEFINE r == Reverse(tail)
  <2>5. /\ DOMAIN r = 1..(m - 1) /\ r = [i \in 1..(m - 1) |-> r[i]]
        /\ \A i \in 1..(m - 1) : r[i] = tail[(m - 1 - i) + 1]
    BY <2>4
  <2>6. \A i \in 1..(m - 1) : (m - 1 - i) + 1 \in 1..(m - 1)
    BY <1>10
  <2> HIDE DEF r
  <2>7. m - 1 \in Nat
    BY <1>10
  <2>8. IsPoints(r) /\ Len(r) = m - 1
    BY <2>5, <2>7, PointsListed
  <2>9. \A i \in 1..(m - 1) : Inside(tail[i])
    BY <1>8, <1>9, <2>3
  <2>10. \A i \in 1..(m - 1) : Inside(r[i])
    BY <2>5, <2>6, <2>9
  <2> QED BY <2>8, <2>10 DEF r, tail
<1>12. IsPoints(first) /\ Len(first) = 1 /\ Inside(first[1])
  <2>1. PICK S : ring \in Seq(S)
    BY <1>7, <1>9 DEF IsPoints
  <2>2. Head(ring) = ring[1] /\ 1 \in 1..m
    BY <1>7, <1>9, <1>10, <2>1
  <2>3. Inside(Head(ring))
    BY <1>8, <1>9, <2>2
  <2> QED BY <2>3, OnePoint
<1> HIDE DEF back, first
<1>13. IsPoints(first \o back) /\ Len(first \o back) = m /\ \A i \in 1..m : Inside((first \o back)[i])
  <2> HIDE DEF m
  <2>1. /\ IsPoints(first \o back) /\ Len(first \o back) = Len(first) + Len(back)
        /\ \A i \in 1..(Len(first) + Len(back)) :
             (first \o back)[i] = IF i <= Len(first) THEN first[i] ELSE back[i - Len(first)]
    BY <1>11, <1>12, PointsJoined
  <2>2. Len(first) + Len(back) = m
    BY <1>10, <1>11, <1>12
  <2>3. ASSUME NEW i \in 1..m PROVE Inside((first \o back)[i])
    <3>1. (first \o back)[i] = IF i <= Len(first) THEN first[i] ELSE back[i - Len(first)]
      BY <2>1, <2>2
    <3>2. i = 1 \/ (~(i <= 1) /\ i - 1 \in 1..(m - 1))
      BY <1>10
    <3> QED BY <1>11, <1>12, <3>1, <3>2
  <2> QED BY <2>1, <2>2, <2>3
<1> DEFINE turned == IF reversed THEN first \o back ELSE ring
<1>14. IsPoints(turned) /\ Len(turned) = m /\ \A i \in 1..m : Inside(turned[i])
  BY <1>7, <1>8, <1>9, <1>13
<1> HIDE DEF turned
<1>15. IsRing(b, turned)
  BY <1>14 DEF IsRing, Inside
<1> QED BY <1>15, Zenon DEF turned, first, back, ring, cut

IsChanged(t, s, i, p) ==
  /\ IsPoints(t) /\ Len(t) = Len(s) /\ t[i] = p
  /\ \A k \in 1..Len(s) : k # i => t[k] = s[k]

LEMMA PointChanged ==
  ASSUME NEW s, IsPoints(s), NEW i \in 1..Len(s), NEW p
  PROVE  IsChanged([s EXCEPT ![i] = p], s, i, p)
<1>1. PICK S : s \in Seq(S)
  BY DEF IsPoints
<1> DEFINE T == S \union {p}
           t == [s EXCEPT ![i] = p]
<1>2. s \in Seq(T) /\ p \in T /\ i \in DOMAIN s /\ DOMAIN s = 1..Len(s)
  BY <1>1
<1>3. t \in Seq(T) /\ Len(t) = Len(s) /\ t[i] = p /\ \A k \in DOMAIN s \ {i} : t[k] = s[k]
  BY <1>2, Replaced
<1> HIDE DEF t
<1> QED BY <1>2, <1>3 DEF IsPoints, IsChanged, t

\* What closing a border with at least two points makes of it.
IsClosed(c, b, m) ==
  /\ IsBorder(c) /\ c.start = NoStart /\ ~c.valid /\ Len(c.points) = b.start + m
  /\ \A i \in 1..b.start : c.points[i] = b.points[i]
  /\ \A i \in 1..m : \E j \in (b.start + 1)..Len(b.points) :
       c.points[b.start + i].tags = b.points[j].tags
         \union (IF i = 1 THEN {"begin"} ELSE {}) \union (IF i = m THEN {"end"} ELSE {})

LEMMA RingClosed ==
  ASSUME NEW b, IsBorder(b), b.start # NoStart, Len(b.points) >= b.start + 2, NEW reversed
  PROVE  IsClosed(close(b, reversed), b, Len(b.points) - b.start - 1)
<1> DEFINE n == Len(b.points)
           start == b.start
           m == n - start - 1
           ring == <<b.points[n]>> \o SubSeq(b.points, start + 2, n - 1)
           turned == IF reversed THEN <<Head(ring)>> \o Reverse(Tail(ring)) ELSE ring
           begun == [turned EXCEPT ![1] = Marked(@, "begin")]
           ended == [begun EXCEPT ![Len(begun)] = Marked(@, "end")]
           before == SubSeq(b.points, 1, start)
           c == close(b, reversed)
<1>1. n \in Nat /\ start \in 0..n /\ n >= start + 2 /\ IsPoints(b.points) /\ m \in Nat /\ m >= 1
  BY Points DEF IsBorder
<1>2. /\ IsPoints(turned) /\ Len(turned) = m
      /\ \A i \in 1..m : \E j \in (start + 1)..n : turned[i] = b.points[j]
  <2>1. IsRing(b, turned)
    BY Ring, Zenon
  <2> HIDE DEF turned
  <2>2. Len(turned) = m
    BY <2>1 DEF IsRing
  <2> QED BY <2>1, <2>2 DEF IsRing
<1>3. c.points = before \o ended /\ c.start = NoStart /\ c.valid = FALSE
      /\ DOMAIN c = {"points", "start", "movable", "valid"}
  <2>1. ~(n <= start + 1)
    BY <1>1
  <2> HIDE DEF ended, before
  <2>2. c = [points |-> before \o (IF n <= start + 1 THEN <<>> ELSE ended),
             start |-> NoStart, movable |-> FALSE, valid |-> FALSE]
    BY Zenon DEF close, ended, begun, turned, ring, before
  <2>3. (IF n <= start + 1 THEN <<>> ELSE ended) = ended
    BY <2>1
  <2> HIDE DEF c
  <2> QED BY <2>2, <2>3
<1> HIDE DEF ring, turned, c
<1>4. /\ IsPoints(begun) /\ Len(begun) = m /\ begun[1] = Marked(turned[1], "begin")
      /\ \A i \in 1..m : i # 1 => begun[i] = turned[i]
  <2>1. 1 \in 1..Len(turned)
    BY <1>1, <1>2
  <2>2. begun = [turned EXCEPT ![1] = Marked(turned[1], "begin")]
    OBVIOUS
  <2>3. IsChanged(begun, turned, 1, Marked(turned[1], "begin"))
    BY <1>2, <2>1, <2>2, PointChanged, Zenon
  <2> HIDE DEF begun
  <2> QED BY <1>2, <2>3 DEF IsChanged
<1> HIDE DEF begun
<1>5. /\ IsPoints(ended) /\ Len(ended) = m /\ ended[m] = Marked(begun[m], "end")
      /\ \A i \in 1..m : i # m => ended[i] = begun[i]
  <2>1. m \in 1..Len(begun)
    BY <1>1, <1>4
  <2>2. ended = [begun EXCEPT ![m] = Marked(begun[m], "end")]
    BY <1>4
  <2> HIDE DEF m
  <2>3. IsChanged(ended, begun, m, Marked(begun[m], "end"))
    BY <1>4, <2>1, <2>2, PointChanged, Zenon
  <2> HIDE DEF ended
  <2> QED BY <1>4, <2>3 DEF IsChanged
<1> HIDE DEF ended
<1>6. \A i \in 1..m : \E j \in (start + 1)..n :
        ended[i].tags = b.points[j].tags \union (IF i = 1 THEN {"begin"} ELSE {})
                                         \union (IF i = m THEN {"end"} ELSE {})
  <2> SUFFICES ASSUME NEW i \in 1..m
               PROVE  \E j \in (start + 1)..n :
                 ended[i].tags = b.points[j].tags \union (IF i = 1 THEN {"begin"} ELSE {})
                                                  \union (IF i = m THEN {"end"} ELSE {})
    OBVIOUS
  <2>1. PICK j \in (start + 1)..n : turned[i] = b.points[j]
    BY <1>2
  <2>2. begun[i].tags = turned[i].tags \union (IF i = 1 THEN {"begin"} ELSE {})
    <3>1. CASE i = 1
      BY <1>4, <3>1 DEF Marked, Tagged
    <3>2. CASE i # 1
      BY <1>4, <3>2
    <3> QED BY <3>1, <3>2
  <2>3. ended[i].tags = begun[i].tags \union (IF i = m THEN {"end"} ELSE {})
    <3>1. CASE i = m
      BY <1>5, <3>1 DEF Marked, Tagged
    <3>2. CASE i # m
      BY <1>5, <3>2
    <3> QED BY <3>1, <3>2
  <2> QED BY <2>1, <2>2, <2>3
<1>7. IsPoints(before) /\ Len(before) = start /\ \A i \in 1..start : before[i] = b.points[i]
  <2>1. 1 \in 1..(Len(b.points) + 1) /\ start \in 0..Len(b.points) /\ 1 <= start + 1
    BY <1>1
  <2>2. /\ IsPoints(before) /\ Len(before) = start - 1 + 1
        /\ \A i \in 1..Len(before) : before[i] = b.points[1 + i - 1]
    BY <1>1, <2>1, PointsCut
  <2> HIDE DEF before
  <2>3. Len(before) = start /\ \A i \in 1..start : 1 + i - 1 = i
    BY <1>1, <2>2
  <2> QED BY <2>2, <2>3
<1> HIDE DEF before, m
<1>8. /\ IsPoints(c.points) /\ Len(c.points) = Len(before) + Len(ended)
      /\ \A i \in 1..(Len(before) + Len(ended)) :
           c.points[i] = IF i <= Len(before) THEN before[i] ELSE ended[i - Len(before)]
  <2>1. c.points = before \o ended /\ IsPoints(before) /\ IsPoints(ended)
    BY <1>3, <1>5, <1>7
  <2> QED BY <2>1, PointsJoined
<1>9. Len(c.points) = start + m
  BY <1>5, <1>7, <1>8
<1>10. \A i \in 1..start : c.points[i] = b.points[i]
  <2>1. \A i \in 1..start : i \in 1..(Len(before) + Len(ended)) /\ i <= Len(before)
    BY <1>1, <1>5, <1>7
  <2> QED BY <1>7, <1>8, <2>1
<1>11. \A i \in 1..m : c.points[start + i] = ended[i]
  <2>1. \A i \in 1..m : /\ start + i \in 1..(Len(before) + Len(ended)) /\ ~(start + i <= Len(before))
                        /\ (start + i) - Len(before) = i
    BY <1>1, <1>5, <1>7
  <2> QED BY <1>8, <2>1
<1>12. IsBorder(c)
  BY <1>3, <1>8 DEF IsBorder
<1>13. \A i \in 1..m : \E j \in (start + 1)..n :
         c.points[start + i].tags = b.points[j].tags \union (IF i = 1 THEN {"begin"} ELSE {})
                                                    \union (IF i = m THEN {"end"} ELSE {})
  BY <1>6, <1>11
<1>14. IsClosed(c, b, m)
  BY <1>3, <1>9, <1>10, <1>12, <1>13 DEF IsClosed
<1> QED BY <1>14 DEF c, m

\* A contour more.
LEMMA CloseContour ==
  ASSUME NEW b, IsBorder(b), b.start # NoStart, Len(b.points) >= b.start + 2, NEW reversed,
         NEW count \in Nat, Contoured(b, count)
  PROVE  LET c == close(b, reversed)
         IN IsBorder(c) /\ c.start = NoStart /\ Contoured(c, count + 1)
<1> DEFINE c == close(b, reversed)
           start == b.start
           n == Len(b.points)
           m == n - start - 1
           len == Len(c.points)
           Added(i, j) == c.points[start + i].tags = b.points[j].tags
              \union (IF i = 1 THEN {"begin"} ELSE {}) \union (IF i = m THEN {"end"} ELSE {})
<1>1. n \in Nat /\ start \in 0..n /\ n >= start + 2 /\ m \in Nat /\ m >= 1 /\ DOMAIN b.points = 1..n
  BY Points DEF IsBorder
<1>2. /\ IsBorder(c) /\ c.start = NoStart /\ len = start + m
      /\ \A i \in 1..start : c.points[i] = b.points[i]
      /\ \A i \in 1..m : \E j \in (start + 1)..n : Added(i, j)
  <2>1. IsClosed(c, b, m)
    BY RingClosed
  <2> HIDE DEF c
  <2> QED BY <2>1 DEF IsClosed
<1>3. /\ Whole(b, start) /\ Cardinality(Ends(b)) = count
      /\ \A i \in (start + 1)..n : Plain(b.points[i])
  <2>1. Base(b) = start
    BY DEF Base
  <2>2. \A i \in (start + 1)..n : i \in 1..n /\ i > start
    BY <1>1
  <2> QED BY <2>1, <2>2 DEF Contoured
<1> HIDE DEF c
<1>4. \A i \in 1..m : (Begins(c, start + i) <=> i = 1) /\ (Finishes(c, start + i) <=> i = m)
  <2> SUFFICES ASSUME NEW i \in 1..m
               PROVE  (Begins(c, start + i) <=> i = 1) /\ (Finishes(c, start + i) <=> i = m)
    OBVIOUS
  <2>1. PICK j \in (start + 1)..n : Added(i, j)
    BY <1>2
  <2>2. "begin" \notin b.points[j].tags /\ "end" \notin b.points[j].tags
    BY <1>3 DEF Plain
  <2> QED BY <2>1, <2>2 DEF Begins, Finishes
<1> HIDE DEF Added
<1>5. \A i \in 1..start : (Begins(c, i) <=> Begins(b, i)) /\ (Finishes(c, i) <=> Finishes(b, i))
  BY <1>2 DEF Begins, Finishes
<1> HIDE DEF m, n
<1>6. Whole(c, start + m)
  <2>1. ASSUME NEW i \in 1..(start + m)
        PROVE  Begins(c, i) <=> (i = 1 \/ Finishes(c, i - 1))
    <3>1. CASE i <= start
      <4>1. i \in 1..start /\ (i # 1 => i - 1 \in 1..start)
        BY <1>1, <3>1
      <4> QED BY <1>3, <1>5, <4>1 DEF Whole
    <3>2. CASE i = start + 1
      <4>1. i = start + 1 /\ 1 \in 1..m /\ i - 1 = start /\ (start > 0 => start \in 1..start)
        BY <1>1, <3>2
      <4>2. Begins(c, i)
        BY <1>4, <4>1
      <4>3. start > 0 => Finishes(c, start)
        BY <1>3, <1>5, <4>1 DEF Whole
      <4>4. i = 1 \/ start > 0
        BY <1>1, <3>2
      <4> QED BY <4>1, <4>2, <4>3, <4>4
    <3>3. CASE i > start + 1
      <4>1. /\ i - start \in 1..m /\ start + (i - start) = i /\ i - start # 1 /\ i # 1
            /\ i - start - 1 \in 1..m /\ start + (i - start - 1) = i - 1 /\ i - start - 1 # m
        <5>1. m \in Int /\ start \in Nat /\ i \in Int /\ i <= start + m
          BY <1>1
        <5> QED BY <3>3, <5>1, SMTT(60)
      <4>2. ~Begins(c, i)
        BY <1>4, <4>1
      <4>3. ~Finishes(c, i - 1)
        BY <1>4, <4>1
      <4> QED BY <4>1, <4>2, <4>3
    <3> QED BY <1>1, <3>1, <3>2, <3>3
  <2>2. Finishes(c, start + m)
    BY <1>1, <1>4
  <2> QED BY <2>1, <2>2 DEF Whole
<1>7. Base(c) = len
  BY <1>2 DEF Base
<1>8. \A i \in 1..len : ~(i > Base(c))
  BY <1>1, <1>2, <1>7
<1>9. Ends(c) = Ends(b) \union {start + m}
  <2>1. DOMAIN c.points = 1..(start + m)
    <3>1. DOMAIN c.points = 1..len
      BY <1>2, Points DEF IsBorder
    <3> QED BY <1>2, <3>1
  <2>2. ASSUME NEW i \in 1..(start + m) PROVE Finishes(c, i) <=> (i \in Ends(b) \/ i = start + m)
    <3>1. CASE i <= start
      <4>1. i \in 1..start /\ i \in 1..n /\ i # start + m
        BY <1>1, <3>1 DEF m, n
      <4> QED BY <1>1, <1>5, <4>1 DEF Ends, Finishes
    <3>2. CASE i > start
      <4>1. i - start \in 1..m /\ start + (i - start) = i /\ (i - start = m <=> i = start + m)
        BY <1>1, <3>2
      <4>2. Finishes(c, i) <=> i = start + m
        BY <1>4, <4>1
      <4>3. i \notin Ends(b)
        <5>1. i \in 1..n => i \in (start + 1)..n
          BY <1>1, <3>2 DEF n
        <5> QED BY <1>1, <1>3, <5>1 DEF Ends, Plain
      <4> QED BY <4>2, <4>3
    <3> QED BY <1>1, <3>1, <3>2
  <2>3. \A i \in Ends(b) : i \in 1..(start + m)
    <3> SUFFICES ASSUME NEW i \in Ends(b) PROVE i \in 1..(start + m)
      OBVIOUS
    <3>1. i \in 1..n /\ "end" \in b.points[i].tags
      BY <1>1 DEF Ends
    <3>2. ~(i > start)
      <4>1. i > start => i \in (start + 1)..n
        BY <1>1, <3>1 DEF n
      <4> QED BY <1>3, <3>1, <4>1 DEF Plain
    <3> QED BY <1>1, <3>1, <3>2
  <2>4. start + m \in 1..(start + m)
    BY <1>1
  <2> QED BY <2>1, <2>2, <2>3, <2>4 DEF Ends, Finishes
<1>10. Cardinality(Ends(c)) = count + 1
  <2>1. start + m \notin Ends(b)
    <3>1. start + m \in (start + 1)..n
      BY <1>1 DEF m, n
    <3> QED BY <1>3, <3>1 DEF Ends, Plain
  <2>2. IsFiniteSet(Ends(b))
    <3>1. IsFiniteSet(1..n)
      <4>1. 1 \in Int /\ n \in Int
        BY <1>1
      <4> QED BY <4>1, FS_Interval
    <3>2. Ends(b) \subseteq 1..n
      BY <1>1 DEF Ends
    <3> QED BY <3>1, <3>2, FS_Subset
  <2>3. Cardinality(Ends(b) \union {start + m}) = Cardinality(Ends(b)) + 1
    BY <2>1, <2>2, FS_AddElement
  <2> QED BY <1>3, <1>9, <2>3
<1> QED BY <1>2, <1>6, <1>7, <1>8, <1>10 DEF Contoured, c

\* A border that is not drawn at, or has a single new point, gets no contour.
LEMMA CloseCut ==
  ASSUME NEW b, IsBorder(b), b.start # NoStart, ~(Len(b.points) >= b.start + 2), NEW reversed
  PROVE  LET c == close(b, reversed) IN
         /\ DOMAIN c = {"points", "start", "movable", "valid"}
         /\ c.start = NoStart /\ c.valid = FALSE /\ IsPoints(c.points) /\ Len(c.points) = b.start
         /\ \A i \in 1..b.start : c.points[i] = b.points[i]
<1> DEFINE n == Len(b.points)
           start == b.start
           ring == <<b.points[n]>> \o SubSeq(b.points, start + 2, n - 1)
           turned == IF reversed THEN <<Head(ring)>> \o Reverse(Tail(ring)) ELSE ring
           begun == [turned EXCEPT ![1] = Marked(@, "begin")]
           ended == [begun EXCEPT ![Len(begun)] = Marked(@, "end")]
           before == SubSeq(b.points, 1, start)
           c == close(b, reversed)
<1>1. n \in Nat /\ start \in 0..n /\ n <= start + 1 /\ IsPoints(b.points)
  BY Points DEF IsBorder
<1>2. c = [points |-> before \o (IF n <= start + 1 THEN <<>> ELSE ended),
           start |-> NoStart, movable |-> FALSE, valid |-> FALSE]
  BY Zenon DEF close, ended, begun, turned, ring, before
<1> HIDE DEF c, ended, before
<1>3. IsPoints(before) /\ Len(before) = start /\ \A i \in 1..start : before[i] = b.points[i]
  <2>1. 1 \in 1..(Len(b.points) + 1) /\ start \in 0..Len(b.points) /\ 1 <= start + 1
    BY <1>1
  <2>2. /\ IsPoints(before) /\ Len(before) = start - 1 + 1
        /\ \A i \in 1..Len(before) : before[i] = b.points[1 + i - 1]
    BY <1>1, <2>1, PointsCut DEF before
  <2>3. Len(before) = start /\ \A i \in 1..start : 1 + i - 1 = i
    BY <1>1, <2>2
  <2> QED BY <2>2, <2>3
<1>4. before \o <<>> = before
  <2>1. PICK S : before \in Seq(S)
    BY <1>3 DEF IsPoints
  <2> QED BY <2>1
<1>5. (IF n <= start + 1 THEN <<>> ELSE ended) = <<>>
  BY <1>1
<1>6. c = [points |-> before, start |-> NoStart, movable |-> FALSE, valid |-> FALSE]
  BY <1>2, <1>4, <1>5
<1> QED BY <1>3, <1>6 DEF c

\* Closing at any time.
LEMMA CloseBorder ==
  ASSUME NEW b, IsBorder(b), NEW reversed
  PROVE  LET c == close(b, reversed)
         IN /\ IsBorder(c) /\ c.start = NoStart
            /\ c.valid => c = b
            /\ DOMAIN c = DOMAIN b
<1> DEFINE c == close(b, reversed)
<1>1. CASE b.start = NoStart
  <2>1. c = b
    BY <1>1, Zenon DEF close
  <2> QED BY <1>1, <2>1
<1>2. CASE b.start # NoStart /\ Len(b.points) >= b.start + 2
  <2>1. IsClosed(c, b, Len(b.points) - b.start - 1)
    BY <1>2, RingClosed
  <2> HIDE DEF c
  <2>2. IsBorder(c) /\ c.start = NoStart /\ ~c.valid
    BY <2>1 DEF IsClosed
  <2> QED BY <2>2 DEF IsBorder, c
<1>3. CASE b.start # NoStart /\ ~(Len(b.points) >= b.start + 2)
  <2>1. /\ DOMAIN c = {"points", "start", "movable", "valid"}
        /\ c.start = NoStart /\ c.valid = FALSE /\ IsPoints(c.points)
    BY <1>3, CloseCut
  <2> HIDE DEF c
  <2>2. IsBorder(c)
    BY <2>1 DEF IsBorder
  <2>3. DOMAIN c = DOMAIN b
    BY <2>1 DEF IsBorder
  <2> QED BY <2>1, <2>2, <2>3 DEF c
<1> QED BY <1>1, <1>2, <1>3

LEMMA CloseNothing ==
  ASSUME NEW b, IsBorder(b), NEW count, Contoured(b, count), Base(b) = Len(b.points), NEW reversed
  PROVE  LET c == close(b, reversed) IN Contoured(c, count) /\ Base(c) = Len(c.points)
<1> DEFINE c == close(b, reversed)
<1>1. CASE b.start = NoStart
  <2>1. c = b
    BY <1>1, Zenon DEF close
  <2> QED BY <2>1
<1>2. CASE b.start # NoStart
  <2>1. Len(b.points) \in Nat /\ b.start = Len(b.points) /\ DOMAIN b.points = 1..Len(b.points)
    BY <1>2, Points DEF IsBorder, Base
  <2>2. /\ DOMAIN c = {"points", "start", "movable", "valid"}
        /\ c.start = NoStart /\ IsPoints(c.points) /\ Len(c.points) = b.start
        /\ \A i \in 1..b.start : c.points[i] = b.points[i]
    <3>1. ~(Len(b.points) >= b.start + 2)
      BY <2>1
    <3> QED BY <1>2, <3>1, CloseCut
  <2> HIDE DEF c
  <2> DEFINE n == Len(b.points)
  <2>3. Len(c.points) = n /\ \A i \in 1..n : c.points[i] = b.points[i]
    BY <2>1, <2>2
  <2>4. Base(c) = n /\ Base(b) = n
    BY <2>2, <2>3 DEF Base
  <2>5. Whole(b, n) /\ Cardinality(Ends(b)) = count
    BY <2>4 DEF Contoured
  <2> HIDE DEF n
  <2>6. Whole(c, n)
    <3>1. \A i \in 1..n : i # 1 => i - 1 \in 1..n
      BY <2>1 DEF n
    <3>2. n > 0 => n \in 1..n
      BY <2>1 DEF n
    <3> QED BY <2>3, <2>5, <3>1, <3>2 DEF Whole, Begins, Finishes
  <2>7. \A i \in 1..n : ~(i > n)
    BY <2>1 DEF n
  <2>8. DOMAIN c.points = 1..n /\ DOMAIN b.points = 1..n
    BY <2>1, <2>2, <2>3, Points DEF n
  <2>9. Ends(c) = Ends(b)
    BY <2>3, <2>8 DEF Ends
  <2> QED BY <2>3, <2>4, <2>5, <2>6, <2>7, <2>9 DEF Contoured, c
<1> QED BY <1>1, <1>2

\* moveto: the open part is closed, or dropped, and another begins.
LEMMA Moves ==
  ASSUME NEW b, IsBorder(b), NEW p
  PROVE  LET d == moveto(b, p) IN
         /\ IsBorder(d) /\ d.start # NoStart /\ ~d.valid /\ Len(d.points) = d.start + 1
         /\ LastPlace(d) = [at |-> p.at, off |-> p.off] /\ ~d.movable
         /\ \A count : Contoured(b, count) /\ Base(b) = Len(b.points) => Contoured(d, count)
<1> DEFINE c == close(b, FALSE)
           e == [c EXCEPT !.start = Len(c.points), !.movable = FALSE]
           d == moveto(b, p)
<1>1. IsBorder(c) /\ DOMAIN c = DOMAIN b /\ c.start = NoStart
  BY CloseBorder
<1>2. \A count : Contoured(b, count) /\ Base(b) = Len(b.points) =>
                   Contoured(c, count) /\ Base(c) = Len(c.points)
  BY CloseNothing
<1>3. d = lineto(e, p, FALSE)
  BY DEF moveto
<1> HIDE DEF c, d
<1>4. /\ DOMAIN e = DOMAIN c /\ e.points = c.points /\ e.start = Len(c.points)
      /\ e.movable = FALSE /\ e.valid = c.valid
  BY <1>1 DEF IsBorder
<1> HIDE DEF e
<1>5. Len(c.points) \in Nat
  BY <1>1, Points DEF IsBorder
<1>6. IsBorder(e) /\ e.start # NoStart /\ Len(e.points) = e.start
  BY <1>1, <1>4, <1>5 DEF IsBorder, NoStart
<1>7. ~Duplicate(e, p)
  BY <1>5, <1>4, <1>6 DEF Duplicate
<1>8. /\ Grown(e, d) /\ ~d.valid /\ Len(d.points) = Len(e.points) + 1
      /\ LastPlace(d) = [at |-> p.at, off |-> p.off] /\ ~d.movable
  BY <1>3, <1>4, <1>6, <1>7, LineGrows
<1>9. \A count : Contoured(c, count) /\ Base(c) = Len(c.points) => Contoured(e, count)
  <2> SUFFICES ASSUME NEW count, Contoured(c, count), Base(c) = Len(c.points)
               PROVE  Contoured(e, count)
    OBVIOUS
  <2>1. Base(e) = Base(c)
    BY <1>4, <1>6 DEF Base
  <2>2. \A i : (Begins(e, i) <=> Begins(c, i)) /\ (Finishes(e, i) <=> Finishes(c, i))
    BY <1>4 DEF Begins, Finishes
  <2>3. Ends(e) = Ends(c)
    BY <1>4 DEF Ends
  <2> QED BY <1>4, <2>1, <2>2, <2>3 DEF Contoured, Whole
<1>10. d.start = e.start /\ IsBorder(d)
  BY <1>8 DEF Grown
<1>11. \A count : Contoured(e, count) => Contoured(d, count)
  BY <1>6, <1>8, GrownContoured
<1> QED BY <1>2, <1>6, <1>8, <1>9, <1>10, <1>11 DEF d

\* append_reverse_from: one border takes the open part of the other.
LEMMA Reversing ==
  ASSUME NEW b, IsBorder(b), NEW source, IsBorder(source)
  PROVE  LET r == AppendReverse(b, source) IN
         /\ Grown(b, r.to) /\ IsBorder(r.from)
         /\ r.from.valid => r.from = source
         /\ \A count : Contoured(source, count) => Contoured(r.from, count) /\ Base(r.from) = Len(r.from.points)
<1> DEFINE r == AppendReverse(b, source)
           start == source.start
           n == Len(source.points)
<1>0. n \in Nat /\ IsPoints(source.points) /\ (start = NoStart \/ start \in 0..n)
  BY Points DEF IsBorder
<1>1. CASE start = NoStart \/ start >= n
  <2>1. r.to = b /\ r.from = source
    BY <1>1 DEF AppendReverse
  <2>2. Base(source) = Len(source.points)
    BY <1>0, <1>1 DEF Base
  <2> QED BY <2>1, <2>2, GrownSelf
<1>2. CASE ~(start = NoStart \/ start >= n)
  <2> DEFINE Back(i) == source.points[n - i + 1]
             more == [i \in 1..(n - start) |-> Tagged(Back(i), Back(i).tags \ {"begin", "end"})]
             to == [b EXCEPT !.points = b.points \o more, !.movable = FALSE, !.valid = FALSE]
             cut == SubSeq(source.points, 1, start)
             from == [source EXCEPT !.points = cut, !.movable = FALSE, !.valid = FALSE]
  <2>1. r.to = to /\ r.from = from
    BY <1>2, Zenon DEF AppendReverse
  <2> HIDE DEF r
  <2>2. /\ DOMAIN to = DOMAIN b /\ to.points = b.points \o more /\ to.start = b.start /\ to.valid = FALSE
        /\ DOMAIN from = DOMAIN source /\ from.points = cut /\ from.start = start /\ from.valid = FALSE
    BY DEF IsBorder
  <2> HIDE DEF to, from
  <2>3. start \in 0..n /\ start < n
    BY <1>0, <1>2
  <2>4. IsPoints(more) /\ Len(more) = n - start /\ \A i \in 1..(n - start) : Plain(more[i])
    <3>1. \A i \in 1..(n - start) : Plain(more[i])
      BY DEF Plain, Tagged
    <3>2. DOMAIN more = 1..(n - start) /\ more = [i \in 1..(n - start) |-> more[i]]
      OBVIOUS
    <3>3. n - start \in Nat
      BY <1>0, <2>3
    <3> HIDE DEF more, n, start
    <3> QED BY <3>1, <3>2, <3>3, PointsListed
  <2> HIDE DEF more
  <2>5. Grown(b, to)
    <3>1. \A i \in 1..Len(more) : Plain(more[i])
      BY <2>4
    <3> QED BY <2>2, <2>4, <3>1, PointsGrow
  <2>6. IsPoints(cut) /\ Len(cut) = start /\ \A i \in 1..start : cut[i] = source.points[i]
    <3>1. 1 \in 1..(Len(source.points) + 1) /\ start \in 0..Len(source.points) /\ 1 <= start + 1
      BY <1>0, <2>3
    <3>2. /\ IsPoints(cut) /\ Len(cut) = start - 1 + 1
          /\ \A i \in 1..Len(cut) : cut[i] = source.points[1 + i - 1]
      BY <1>0, <3>1, PointsCut
    <3> HIDE DEF cut
    <3>3. Len(cut) = start /\ \A i \in 1..start : 1 + i - 1 = i
      BY <2>3, <3>2
    <3> QED BY <3>2, <3>3
  <2> HIDE DEF cut
  <2>7. IsBorder(from)
    <3>1. start \in 0..Len(cut)
      BY <2>3, <2>6
    <3> QED BY <2>2, <2>6, <3>1 DEF IsBorder
  <2>8. Base(from) = start /\ Len(from.points) = start /\ Base(source) = start
    BY <1>2, <2>2, <2>6 DEF Base
  <2>9. ASSUME NEW count, Contoured(source, count) PROVE Contoured(from, count)
    <3>1. Whole(source, start) /\ Cardinality(Ends(source)) = count
          /\ \A i \in 1..n : i > start => Plain(source.points[i])
      BY <2>8, <2>9 DEF Contoured
    <3>2. \A i \in 1..start : from.points[i] = source.points[i]
      BY <2>2, <2>6
    <3>3. Whole(from, start)
      <4>1. \A i \in 1..start : i # 1 => i - 1 \in 1..start
        BY <2>3
      <4>2. start > 0 => start \in 1..start
        BY <2>3
      <4> HIDE DEF start
      <4> QED BY <3>1, <3>2, <4>1, <4>2 DEF Whole, Begins, Finishes
    <3>4. \A i \in 1..start : ~(i > start)
      BY <2>3
    <3>5. DOMAIN from.points = 1..start /\ DOMAIN source.points = 1..n
      BY <1>0, <2>7, <2>8, Points DEF IsBorder
    <3>6. Ends(from) = Ends(source)
      <4>1. \A i \in 1..n : "end" \in source.points[i].tags => i \in 1..start
        BY <1>0, <2>3, <3>1 DEF Plain
      <4>2. \A i \in 1..start : i \in 1..n
        BY <1>0, <2>3
      <4> QED BY <3>2, <3>5, <4>1, <4>2 DEF Ends
    <3> QED BY <2>8, <3>1, <3>3, <3>4, <3>6 DEF Contoured
  <2> QED BY <2>1, <2>2, <2>5, <2>7, <2>8, <2>9 DEF r
<1> QED BY <1>1, <1>2

-----------------------------------------------------------------------------
(* Strokers                                                                *)

Fields == {"radius", "cap", "join", "limit", "in", "out", "start", "center", "open", "first",
           "corner", "angle", "long", "startLong", "single", "wide", "segments", "success",
           "pending", "counted", "published", "outline", "border"}
Joins == {"round", "bevel", "fixed", "variable"}

IsStroke(s) ==
  /\ DOMAIN s = Fields
  /\ s.join \in Joins /\ s.in \in Int /\ s.out \in Int /\ s.angle \in Int
  /\ DOMAIN s.border = Sides /\ \A side \in Sides : IsBorder(s.border[side])

\* What drawing has no business with.
Kept == {"open", "single", "success", "pending", "published", "outline", "start", "join", "first"}
Draws(s, t) ==
  /\ IsStroke(t)
  /\ \A f \in Kept : t[f] = s[f]
  /\ \A side \in Sides : Grown(s.border[side], t.border[side])

LEMMA DrawsSelf ==
  ASSUME NEW s, IsStroke(s)
  PROVE  Draws(s, s)
<1>1. \A side \in Sides : Grown(s.border[side], s.border[side])
  BY GrownSelf DEF IsStroke
<1> QED BY <1>1 DEF Draws

LEMMA DrawsOn ==
  ASSUME NEW s, NEW t, NEW u, IsStroke(s), Draws(s, t), Draws(t, u)
  PROVE  Draws(s, u)
<1>1. \A side \in Sides : Grown(s.border[side], u.border[side])
  BY GrownOn DEF IsStroke, Draws
<1> QED BY <1>1 DEF Draws

\* A stroker that differs in nothing that matters here.
LEMMA DrawsSame ==
  ASSUME NEW s, IsStroke(s), NEW t, DOMAIN t = Fields, t.border = s.border,
         t.in \in Int, t.out \in Int, t.angle \in Int, \A f \in Kept : t[f] = s[f]
  PROVE  Draws(s, t)
<1>1. t.join = s.join
  BY DEF Kept
<1>2. IsStroke(t)
  BY <1>1 DEF IsStroke
<1>3. \A side \in Sides : Grown(s.border[side], t.border[side])
  BY GrownSelf DEF IsStroke
<1> QED BY <1>2, <1>3 DEF Draws

LEMMA BorderDrawn ==
  ASSUME NEW s, IsStroke(s), NEW side \in Sides, NEW b, Grown(s.border[side], b)
  PROVE  Draws(s, OnBorder(s, side, b)) /\ OnBorder(s, side, b).border[side] = b
<1> DEFINE t == OnBorder(s, side, b)
<1>1. /\ DOMAIN t = Fields /\ \A f \in Fields : f # "border" => t[f] = s[f]
      /\ DOMAIN t.border = Sides
      /\ t.border[side] = b /\ \A other \in Sides : other # side => t.border[other] = s.border[other]
  BY DEF IsStroke, OnBorder, Fields
<1> HIDE DEF t
<1>2. \A other \in Sides : Grown(s.border[other], t.border[other])
  BY <1>1, GrownSelf DEF IsStroke
<1>3. IsStroke(t)
  <2>1. t.join = s.join /\ t.in = s.in /\ t.out = s.out /\ t.angle = s.angle
    BY <1>1 DEF Fields
  <2>2. \A other \in Sides : IsBorder(t.border[other])
    BY <1>2 DEF Grown
  <2> QED BY <1>1, <2>1, <2>2 DEF IsStroke
<1>4. \A f \in Kept : f \in Fields /\ f # "border"
  BY DEF Kept, Fields
<1> QED BY <1>1, <1>2, <1>3, <1>4 DEF Draws, t

\* A direction is a multiple of 45 degrees.
LEMMA Directions ==
  ASSUME NEW a, NEW b
  PROVE  Direction(a, b) \in 0..7
<1> DEFINE d == Minus(b, a)
           v == <<Sgn(d[1]), Sgn(d[2])>>
<1>1. Sgn(d[1]) \in {-1, 0, 1} /\ Sgn(d[2]) \in {-1, 0, 1}
  BY DEF Sgn
<1> HIDE DEF d
<1>2. v # <<0, 0>> => \E k \in 1..8 : Octant[k] = v
  <2> SUFFICES ASSUME v # <<0, 0>> PROVE \E k \in 1..8 : Octant[k] = v
    OBVIOUS
  <2> DEFINE x == Sgn(d[1])
             y == Sgn(d[2])
  <2>1. x \in {-1, 0, 1} /\ y \in {-1, 0, 1} /\ v = <<x, y>>
    BY <1>1
  <2> HIDE DEF x, y
  <2>2. /\ Octant[1] = <<1, 0>> /\ Octant[2] = <<1, 1>> /\ Octant[3] = <<0, 1>>
        /\ Octant[4] = <<-1, 1>> /\ Octant[5] = <<-1, 0>> /\ Octant[6] = <<-1, -1>>
        /\ Octant[7] = <<0, -1>> /\ Octant[8] = <<1, -1>>
    BY DEF Octant
  <2>3. CASE x = 1
    BY <2>1, <2>2, <2>3
  <2>4. CASE x = 0
    BY <2>1, <2>2, <2>4
  <2>5. CASE x = -1
    BY <2>1, <2>2, <2>5
  <2> QED BY <2>1, <2>3, <2>4, <2>5
<1> HIDE DEF v
<1>3. CASE v = <<0, 0>>
  <2>1. Direction(a, b) = 0
    BY <1>3, Zenon DEF Direction, v, d
  <2> QED BY <2>1
<1>4. CASE v # <<0, 0>>
  <2> DEFINE k == CHOOSE i \in 1..8 : Octant[i] = v
  <2>1. Direction(a, b) = k - 1
    BY <1>4, Zenon DEF Direction, v, d
  <2>2. k \in 1..8
    BY <1>2, <1>4
  <2> HIDE DEF k
  <2> QED BY <2>1, <2>2
<1> QED BY <1>3, <1>4

\* process_inside_corner
LEMMA InsideDraws ==
  ASSUME NEW s, IsStroke(s), NEW side \in Sides, NEW long
  PROVE  Draws(s, process_inside_corner(s, side, long))
<1> DEFINE b == s.border[side]
<1>1. IsBorder(b) /\ IsBorder([b EXCEPT !.movable = FALSE]) /\ Grown(b, [b EXCEPT !.movable = FALSE])
  <2>1. IsBorder(b)
    BY DEF IsStroke
  <2> QED BY <2>1, GrownSelf DEF Grown
<1>2. \A p : Grown(b, lineto(b, p, FALSE))
  BY <1>1, LineGrows
<1>3. \A p : Grown(b, lineto([b EXCEPT !.movable = FALSE], p, FALSE))
  BY <1>1, LineGrows, GrownOn
<1>4. \E c : Grown(b, c) /\ process_inside_corner(s, side, long) = OnBorder(s, side, c)
  BY <1>2, <1>3, Zenon DEF process_inside_corner
<1> QED BY <1>4, BorderDrawn

\* process_outside_corner
LEMMA OutsideDraws ==
  ASSUME NEW s, IsStroke(s), NEW side \in Sides, NEW long
  PROVE  Draws(s, process_outside_corner(s, side, long))
<1> DEFINE b == s.border[side]
           t == Turn(s.in, s.out)
           bevel == s.join = "bevel" \/ s.limit = "least" \/ Size(t) = 4
           next == Normal(s, s.center, s.out + Rotate(side))
           Unlong(x) == IF long THEN x ELSE lineto(x, next, FALSE)
           cut == lineto(lineto(b, Offset(s, s.center, "cut", s.in, s.out), FALSE),
                         Offset(s, s.center, "cut2", s.in, s.out), FALSE)
           point == lineto(b, Offset(s, s.center, "miter", s.in, s.out), FALSE)
           out == process_outside_corner(s, side, long)
<1>1. IsBorder(b) /\ IsBorder([b EXCEPT !.movable = FALSE]) /\ Grown(b, [b EXCEPT !.movable = FALSE])
  <2>1. IsBorder(b)
    BY DEF IsStroke
  <2> QED BY <2>1, GrownSelf DEF Grown
<1>2. \A c, p : Grown(b, c) => Grown(b, lineto(c, p, FALSE))
  <2> SUFFICES ASSUME NEW c, NEW p, Grown(b, c) PROVE Grown(b, lineto(c, p, FALSE))
    OBVIOUS
  <2>1. IsBorder(c)
    BY DEF Grown
  <2> QED BY <1>1, <2>1, LineGrows, GrownOn
<1>3. Grown(b, [arcto(b, s, side, s.in, t) EXCEPT !.movable = FALSE])
  <2>1. t \in -4..4
    <3>1. t \in -3..4
      BY Turns DEF IsStroke
    <3> QED BY <3>1
  <2> HIDE DEF t
  <2> DEFINE c == arcto(b, s, side, s.in, t)
  <2>2. Grown(b, c)
    BY <1>1, <2>1, ArcsGrow
  <2> HIDE DEF c
  <2>3. Grown(c, [c EXCEPT !.movable = FALSE])
    BY <2>2, GrownSelf DEF Grown
  <2>4. Grown(b, [c EXCEPT !.movable = FALSE])
    BY <1>1, <2>2, <2>3, GrownOn
  <2> QED BY <2>4 DEF c
<1>4. Grown(b, lineto([b EXCEPT !.movable = FALSE], next, FALSE))
  BY <1>1, <1>2
<1>5. Grown(b, Unlong(cut)) /\ Grown(b, Unlong(point))
  <2>1. Grown(b, b)
    BY <1>1, GrownSelf
  <2>2. Grown(b, point)
    BY <1>2, <2>1
  <2>3. Grown(b, cut)
    BY <1>2, <2>1
  <2> HIDE DEF b, cut, point
  <2> QED BY <1>2, <2>2, <2>3
<1>6. s.join \in {"round", "bevel", "fixed", "variable"}
  BY DEF IsStroke, Joins
<1> HIDE DEF bevel, next, cut, point, t
<1>7. /\ s.join = "round" =>
           out = OnBorder(s, side, [arcto(b, s, side, s.in, t) EXCEPT !.movable = FALSE])
      /\ s.join \in {"bevel", "fixed"} /\ bevel =>
           out = OnBorder(s, side, lineto([b EXCEPT !.movable = FALSE], next, FALSE))
      /\ s.join = "variable" /\ bevel => out = OnBorder(s, side, Unlong(cut))
      /\ s.join # "round" /\ ~bevel => out = OnBorder(s, side, Unlong(point))
  BY DEF process_outside_corner, bevel, next, cut, point, t
<1> HIDE DEF b, Unlong, out
<1>8. \E c : Grown(b, c) /\ out = OnBorder(s, side, c)
  BY <1>3, <1>4, <1>5, <1>6, <1>7
<1> QED BY <1>8, BorderDrawn DEF out, b

\* process_corner
LEMMA CornerDraws ==
  ASSUME NEW s, IsStroke(s), NEW long
  PROVE  Draws(s, process_corner(s, long))
<1> DEFINE t == Turn(s.in, s.out)
           inside == IF t < 0 THEN "left" ELSE "right"
           u == process_inside_corner(s, inside, long)
<1>1. CASE t = 0
  <2>1. process_corner(s, long) = s
    BY <1>1 DEF process_corner
  <2> QED BY <2>1, DrawsSelf
<1>2. CASE t # 0
  <2>1. inside \in Sides /\ OtherSide(inside) \in Sides
    BY DEF Sides, OtherSide
  <2>2. process_corner(s, long) = process_outside_corner(u, OtherSide(inside), long)
    BY <1>2, Zenon DEF process_corner
  <2> HIDE DEF inside, t
  <2>3. Draws(s, u)
    BY <2>1, InsideDraws
  <2> HIDE DEF u
  <2>4. IsStroke(u)
    BY <2>3 DEF Draws
  <2>5. Draws(u, process_outside_corner(u, OtherSide(inside), long))
    BY <2>1, <2>4, OutsideDraws
  <2> QED BY <2>2, <2>3, <2>5, DrawsOn
<1> QED BY <1>1, <1>2

\* cap_open_path; the angle is that of a direction, or of one turned round.
LEMMA CapDraws ==
  ASSUME NEW s, IsStroke(s), NEW angle \in Int
  PROVE  /\ Draws(s, cap_open_path(s, angle))
         /\ cap_open_path(s, angle).border["left"] = s.border["left"]
         /\ cap_open_path(s, angle).angle = s.angle
<1> DEFINE b == s.border["right"]
           Corner(d) == IF s.cap = "square" THEN Offset(s, s.center, "square", angle, d)
                        ELSE Normal(s, s.center, d)
           capped == lineto(lineto(b, Corner(angle + 2), FALSE), Corner(angle - 2), FALSE)
           r == [s EXCEPT !.in = angle % 8, !.out = (angle + 4) % 8]
           round == [arcto(b, s, "right", angle, 4) EXCEPT !.movable = FALSE]
           t == cap_open_path(s, angle)
<1>1. IsBorder(b) /\ "right" \in Sides /\ "left" \in Sides
  BY DEF IsStroke, Sides
<1>2. Grown(b, capped)
  <2>1. \A p, q : Grown(b, lineto(lineto(b, p, FALSE), q, FALSE))
    <3> SUFFICES ASSUME NEW p, NEW q PROVE Grown(b, lineto(lineto(b, p, FALSE), q, FALSE))
      OBVIOUS
    <3>1. Grown(b, lineto(b, p, FALSE))
      BY <1>1, LineGrows
    <3>2. IsBorder(lineto(b, p, FALSE))
      BY <3>1 DEF Grown
    <3>3. Grown(lineto(b, p, FALSE), lineto(lineto(b, p, FALSE), q, FALSE))
      BY <3>2, LineGrows
    <3> HIDE DEF b
    <3> QED BY <1>1, <3>1, <3>3, GrownOn
  <2> QED BY <2>1
<1>3. Grown(b, round)
  <2> DEFINE c == arcto(b, s, "right", angle, 4)
  <2>1. Grown(b, c)
    BY <1>1, ArcsGrow
  <2> HIDE DEF c
  <2>2. Grown(c, [c EXCEPT !.movable = FALSE])
    BY <2>1, GrownSelf DEF Grown
  <2>3. Grown(b, [c EXCEPT !.movable = FALSE])
    BY <1>1, <2>1, <2>2, GrownOn
  <2> QED BY <2>3 DEF c
<1>4. Draws(s, r) /\ r.border = s.border /\ r.angle = s.angle
  <2>1. /\ DOMAIN r = Fields /\ r.border = s.border /\ r.in = angle % 8 /\ r.out = (angle + 4) % 8
        /\ r.angle = s.angle /\ \A f \in Kept : r[f] = s[f]
    BY DEF IsStroke, Fields, Kept
  <2>2. r.in \in Int /\ r.out \in Int /\ r.angle \in Int
    BY <2>1 DEF IsStroke
  <2> HIDE DEF r
  <2> QED BY <2>1, <2>2, DrawsSame
<1>5. \A x, c : (IsStroke(x) /\ Grown(x.border["right"], c)) =>
        /\ Draws(x, OnBorder(x, "right", c))
        /\ OnBorder(x, "right", c).border["left"] = x.border["left"]
        /\ OnBorder(x, "right", c).angle = x.angle
  <2> SUFFICES ASSUME NEW x, NEW c, IsStroke(x), Grown(x.border["right"], c)
               PROVE  /\ Draws(x, OnBorder(x, "right", c))
                      /\ OnBorder(x, "right", c).border["left"] = x.border["left"]
                      /\ OnBorder(x, "right", c).angle = x.angle
    OBVIOUS
  <2>1. Draws(x, OnBorder(x, "right", c))
    BY <1>1, BorderDrawn
  <2> QED BY <2>1 DEF OnBorder, IsStroke, Fields, Sides
<1>6. CASE s.cap = "round"
  <2>1. t = OnBorder(r, "right", round)
    BY <1>6, Zenon DEF cap_open_path
  <2> HIDE DEF r, round, t
  <2>2. IsStroke(r) /\ Grown(r.border["right"], round)
    BY <1>3, <1>4 DEF Draws
  <2>3. Draws(r, t) /\ t.border["left"] = r.border["left"] /\ t.angle = r.angle
    BY <1>5, <2>1, <2>2
  <2>4. Draws(s, t)
    BY <1>4, <2>3, DrawsOn
  <2> QED BY <1>4, <2>3, <2>4 DEF t
<1>7. CASE s.cap # "round"
  <2>1. t = OnBorder(s, "right", capped)
    BY <1>7, Zenon DEF cap_open_path
  <2> HIDE DEF capped
  <2>2. Draws(s, t) /\ t.border["left"] = s.border["left"] /\ t.angle = s.angle
    BY <1>2, <1>5, <2>1
  <2> QED BY <2>2
<1> QED BY <1>6, <1>7

\* Both borders follow a line.
IsFollowed(t, s, to, angle) ==
  /\ Draws(s, t) /\ t.center = to /\ t.counted = FALSE
  /\ \A side \in Sides :
       t.border[side] = lineto(s.border[side], Normal(s, to, angle + Rotate(side)), TRUE)

LEMMA Follows ==
  ASSUME NEW s, IsStroke(s), NEW to, NEW angle \in Int
  PROVE  IsFollowed(Followed(s, to, angle), s, to, angle)
<1> DEFINE lines == [side \in Sides |-> lineto(s.border[side], Normal(s, to, angle + Rotate(side)), TRUE)]
           t == Followed(s, to, angle)
<1>1. \A side \in Sides : Grown(s.border[side], lines[side])
  <2>1. \A side \in Sides : IsBorder(s.border[side])
    BY DEF IsStroke
  <2> QED BY <2>1, LineGrows
<1>2. DOMAIN lines = Sides /\ \A side \in Sides : lines[side]
              = lineto(s.border[side], Normal(s, to, angle + Rotate(side)), TRUE)
  OBVIOUS
<1>3. t = [s EXCEPT !.border = lines, !.in = angle, !.long = (to # s.center), !.center = to,
                    !.counted = FALSE]
  BY Zenon DEF Followed
<1> HIDE DEF lines, t
<1>4. /\ DOMAIN t = Fields /\ t.border = lines /\ t.in = angle /\ t.out = s.out /\ t.angle = s.angle
      /\ t.center = to /\ t.counted = FALSE /\ \A f \in Kept : t[f] = s[f]
  BY <1>3 DEF IsStroke, Fields, Kept
<1>5. IsStroke(t)
  <2>1. \A side \in Sides : IsBorder(lines[side])
    BY <1>1 DEF Grown
  <2>2. t.join = s.join
    BY <1>4 DEF Kept
  <2> QED BY <1>2, <1>4, <2>1, <2>2 DEF IsStroke
<1> QED BY <1>1, <1>2, <1>4, <1>5 DEF Draws, IsFollowed, t

\* Both borders begin an open part, and what was closed before is a contour still.
Begun(b, c) ==
  /\ IsBorder(c) /\ c.start # NoStart /\ ~c.valid /\ Len(c.points) >= c.start + 1
  /\ \A count : (Contoured(b, count) /\ Base(b) = Len(b.points)) => Contoured(c, count)
SetsOut(s, t) ==
  /\ IsStroke(t) /\ t.first = FALSE
  /\ \A f \in Kept \ {"first", "published"} : t[f] = s[f]
  /\ \A side \in Sides : Begun(s.border[side], t.border[side])

LEMMA BegunOn ==
  ASSUME NEW b, NEW c, NEW d, IsBorder(b), Begun(b, c), Grown(c, d)
  PROVE  Begun(b, d)
<1>1. IsBorder(c) /\ IsBorder(d) /\ d.start = c.start /\ d.start # NoStart /\ ~d.valid
  BY DEF Begun, Grown
<1>2. Len(c.points) \in Nat /\ Len(d.points) \in Nat /\ c.start \in Int
  BY <1>1, Points DEF IsBorder
<1>3. Len(d.points) >= d.start + 1
  BY <1>1, <1>2 DEF Begun, Grown
<1>4. \A count : Contoured(c, count) => Contoured(d, count)
  BY <1>1, GrownContoured
<1> QED BY <1>1, <1>3, <1>4 DEF Begun

LEMMA StartsOn ==
  ASSUME NEW s, NEW t, NEW u, IsStroke(s), SetsOut(s, t), Draws(t, u)
  PROVE  SetsOut(s, u)
<1>1. u.first = FALSE
  BY DEF SetsOut, Draws, Kept
<1>2. \A side \in Sides : Begun(s.border[side], u.border[side])
  BY BegunOn DEF SetsOut, Draws, IsStroke
<1> QED BY <1>1, <1>2 DEF SetsOut, Draws

LEMMA StartedStarts ==
  ASSUME NEW s, IsStroke(s), NEW angle \in Int
  PROVE  LET t == Started(s, angle) IN
         /\ SetsOut(s, t) /\ t.center = s.center /\ t.counted = FALSE /\ t.published = s.published
         /\ \A side \in Sides : /\ LastPlace(t.border[side]).at = s.center
                                /\ ~t.border[side].movable
<1> DEFINE moved == [side \in Sides |-> moveto(s.border[side], Normal(s, s.center, angle + Rotate(side)))]
           t == Started(s, angle)
<1>1. \A side \in Sides : /\ Begun(s.border[side], moved[side])
                          /\ LastPlace(moved[side]).at = s.center /\ ~moved[side].movable
  <2> SUFFICES ASSUME NEW side \in Sides
               PROVE  /\ Begun(s.border[side], moved[side])
                      /\ LastPlace(moved[side]).at = s.center /\ ~moved[side].movable
    OBVIOUS
  <2> DEFINE b == s.border[side]
             p == Normal(s, s.center, angle + Rotate(side))
             d == moveto(b, p)
  <2>1. IsBorder(b) /\ moved[side] = d
    BY DEF IsStroke
  <2>2. p.at = s.center
    BY DEF Normal, Offset
  <2> HIDE DEF p, moved
  <2>3. /\ IsBorder(d) /\ d.start # NoStart /\ ~d.valid /\ Len(d.points) = d.start + 1
        /\ LastPlace(d) = [at |-> p.at, off |-> p.off] /\ ~d.movable
        /\ \A count : Contoured(b, count) /\ Base(b) = Len(b.points) => Contoured(d, count)
    BY <2>1, Moves
  <2> HIDE DEF d
  <2>4. Len(d.points) >= d.start + 1
    <3>1. Len(d.points) \in Nat
      BY <2>3, Points DEF IsBorder
    <3> QED BY <2>3, <3>1
  <2>5. Begun(b, d)
    BY <2>3, <2>4 DEF Begun
  <2>6. LastPlace(d).at = s.center
    BY <2>2, <2>3
  <2> QED BY <2>1, <2>3, <2>5, <2>6
<1>2. DOMAIN moved = Sides
  OBVIOUS
<1>3. t = [s EXCEPT !.border = moved, !.angle = angle, !.first = FALSE, !.counted = FALSE]
  BY Zenon DEF Started
<1> HIDE DEF moved, t
<1>4. /\ DOMAIN t = Fields /\ t.border = moved /\ t.in = s.in /\ t.out = s.out /\ t.angle = angle
      /\ t.center = s.center /\ t.counted = FALSE /\ t.first = FALSE /\ t.published = s.published
      /\ \A f \in Kept \ {"first"} : t[f] = s[f]
  BY <1>3 DEF IsStroke, Fields, Kept
<1>5. IsStroke(t)
  <2>1. \A side \in Sides : IsBorder(moved[side])
    BY <1>1 DEF Begun
  <2>2. t.join = s.join
    BY <1>4 DEF Kept
  <2> QED BY <1>2, <1>4, <2>1, <2>2 DEF IsStroke
<1>6. SetsOut(s, t)
  BY <1>1, <1>4, <1>5 DEF SetsOut
<1> QED BY <1>1, <1>4, <1>6 DEF t

\* The open parts have two points, so that they are contours when they close.
Two(t) == \A side \in Sides : Len(t.border[side].points) >= t.border[side].start + 2

LEMMA FirstLine ==
  ASSUME NEW s, IsStroke(s), NEW to, to # s.center
  PROVE  LET t == start_first_line_segment(s, to) IN
         SetsOut(s, t) /\ Two(t) /\ t.center = to /\ t.counted = FALSE
<1> DEFINE angle == Direction(s.center, to)
           u == Started(s, angle)
           v == Followed(u, to, angle)
           t == start_first_line_segment(s, to)
<1>1. angle \in Int
  <2>1. angle \in 0..7
    BY Directions
  <2> QED BY <2>1
<1>2. t = [v EXCEPT !.startLong = TRUE, !.corner = to, !.segments = 1,
            !.published = [side \in Sides |-> [points |-> 2, contours |-> 1]]]
  BY Zenon DEF start_first_line_segment
<1> HIDE DEF angle, t
<1>3. /\ SetsOut(s, u) /\ u.center = s.center
      /\ \A side \in Sides : LastPlace(u.border[side]).at = s.center /\ ~u.border[side].movable
  BY <1>1, StartedStarts
<1> HIDE DEF u
<1>4. IsStroke(u)
  BY <1>3 DEF SetsOut
<1>5. /\ Draws(u, v) /\ v.center = to /\ v.counted = FALSE
      /\ \A side \in Sides : v.border[side]
              = lineto(u.border[side], Normal(u, to, angle + Rotate(side)), TRUE)
  <2>1. IsFollowed(v, u, to, angle)
    BY <1>1, <1>4, Follows
  <2> HIDE DEF v
  <2> QED BY <2>1 DEF IsFollowed
<1> HIDE DEF v
<1>6. SetsOut(s, v) /\ IsStroke(v)
  BY <1>3, <1>5, StartsOn DEF Draws
<1>7. Two(v)
  <2> SUFFICES ASSUME NEW side \in Sides
               PROVE  Len(v.border[side].points) >= v.border[side].start + 2
    BY DEF Two
  <2> DEFINE b == u.border[side]
             p == Normal(u, to, angle + Rotate(side))
             c == lineto(b, p, TRUE)
  <2>1. v.border[side] = c /\ IsBorder(b) /\ ~b.movable /\ LastPlace(b).at = s.center
    BY <1>3, <1>4, <1>5 DEF IsStroke
  <2>2. p.at = to
    BY DEF Normal, Offset
  <2>3. ~Duplicate(b, p)
    <3> HIDE DEF p, b
    <3> QED BY <2>1, <2>2 DEF Duplicate
  <2> HIDE DEF p
  <2>4. Len(c.points) = Len(b.points) + 1 /\ Grown(b, c)
    BY <2>1, <2>3, LineGrows
  <2> HIDE DEF c
  <2>5. c.start = b.start /\ Len(b.points) >= b.start + 1 /\ b.start \in Int /\ Len(b.points) \in Nat
    <3>1. Begun(s.border[side], b)
      BY <1>3 DEF SetsOut
    <3>2. Len(b.points) >= b.start + 1 /\ IsBorder(b) /\ b.start # NoStart
      BY <3>1 DEF Begun
    <3> QED BY <2>4, <3>2, Points DEF Grown, IsBorder
  <2> QED BY <2>1, <2>4, <2>5
<1>8. /\ DOMAIN t = Fields /\ t.border = v.border /\ t.in = v.in /\ t.out = v.out /\ t.angle = v.angle
      /\ t.center = v.center /\ t.counted = v.counted /\ t.first = v.first
      /\ \A f \in Kept \ {"published"} : t[f] = v[f]
  BY <1>2, <1>6 DEF IsStroke, Fields, Kept
<1>9. IsStroke(t)
  <2>1. t.join = v.join
    BY <1>8 DEF Kept
  <2> QED BY <1>6, <1>8, <2>1 DEF IsStroke
<1>10. SetsOut(s, t)
  BY <1>6, <1>8, <1>9 DEF SetsOut
<1> QED BY <1>5, <1>7, <1>8, <1>10 DEF Two, t

LEMMA NextLine ==
  ASSUME NEW s, IsStroke(s), NEW to
  PROVE  LET t == append_line_segment_candidate(s, to) IN
         Draws(s, t) /\ t.center = to /\ t.counted = FALSE
<1> DEFINE angle == Direction(s.center, to)
           r == [s EXCEPT !.out = angle]
           u == process_corner(r, to # s.center)
           v == Followed(u, to, angle)
           t == append_line_segment_candidate(s, to)
<1>1. angle \in Int
  <2>1. angle \in 0..7
    BY Directions
  <2> QED BY <2>1
<1>2. t = [v EXCEPT !.corner = s.center, !.segments = v.segments + 1]
  BY Zenon DEF append_line_segment_candidate
<1> HIDE DEF angle, t
<1>3. Draws(s, r) /\ IsStroke(r)
  <2>1. /\ DOMAIN r = Fields /\ r.border = s.border /\ r.in = s.in /\ r.out = angle
        /\ r.angle = s.angle /\ \A f \in Kept : r[f] = s[f]
    BY DEF IsStroke, Fields, Kept
  <2>2. r.in \in Int /\ r.out \in Int /\ r.angle \in Int
    BY <1>1, <2>1 DEF IsStroke
  <2> HIDE DEF r
  <2> QED BY <2>1, <2>2, DrawsSame DEF Draws
<1> HIDE DEF r
<1>4. Draws(r, u) /\ IsStroke(u)
  <2>1. \A long : Draws(r, process_corner(r, long))
    BY <1>3, CornerDraws
  <2> QED BY <2>1 DEF Draws
<1> HIDE DEF u
<1>5. Draws(u, v) /\ v.center = to /\ v.counted = FALSE /\ IsStroke(v)
  <2>1. IsFollowed(v, u, to, angle)
    BY <1>1, <1>4, Follows
  <2> HIDE DEF v
  <2> QED BY <2>1 DEF IsFollowed, Draws
<1> HIDE DEF v
<1>6. Draws(v, t) /\ t.center = v.center /\ t.counted = v.counted
  <2>1. /\ DOMAIN t = Fields /\ t.border = v.border /\ t.in = v.in /\ t.out = v.out /\ t.angle = v.angle
        /\ t.center = v.center /\ t.counted = v.counted /\ \A f \in Kept : t[f] = v[f]
    BY <1>2, <1>5 DEF IsStroke, Fields, Kept
  <2>2. t.in \in Int /\ t.out \in Int /\ t.angle \in Int
    BY <1>5, <2>1 DEF IsStroke
  <2> QED BY <1>5, <2>1, <2>2, DrawsSame
<1>7. Draws(s, u) /\ Draws(s, v)
  BY <1>3, <1>4, <1>5, DrawsOn
<1>8. Draws(s, t)
  BY <1>6, <1>7, DrawsOn
<1> QED BY <1>5, <1>6, <1>8 DEF t

\* Each small arc adds at least two points to each border.
Longer(s, t) == \A side \in Sides : Len(t.border[side].points) >= Len(s.border[side].points) + 1

LEMMA ArcDraws ==
  ASSUME NEW s, IsStroke(s), NEW controls \in {ConicControls, CubicControls}, NEW to, NEW in,
         NEW out \in Int, NEW tight, NEW turn
  PROVE  LET t == AppendArc(s, controls, to, in, out, tight, turn) IN Draws(s, t) /\ Longer(s, t)
<1> DEFINE Side(side) ==
             LET b == s.border[side]
                 end == Normal(s, to, out + Rotate(side))
                 inner == side = (IF turn < 0 THEN "left" ELSE "right")
                 detour == lineto(lineto([b EXCEPT !.movable = FALSE],
                                    Offset(s, to, "sector", in, out), FALSE), end, FALSE)
             IN IF s.wide /\ tight /\ inner /\ turn # 0 /\ s.radius # 0 /\ b.points # <<>>
                THEN lineto(curveto(detour, controls, LastPlace(b)), end, FALSE)
                ELSE curveto(b, controls, end)
           arcs == [side \in Sides |-> Side(side)]
           t == AppendArc(s, controls, to, in, out, tight, turn)
<1>1. ASSUME NEW side \in Sides
      PROVE  /\ Grown(s.border[side], Side(side))
             /\ Len(Side(side).points) >= Len(s.border[side].points) + 1
  <2> DEFINE b == s.border[side]
             More(c) == Grown(b, c) /\ Len(c.points) >= Len(b.points) + 1
  <2>1. IsBorder(b) /\ Len(b.points) \in Nat
    BY Points DEF IsStroke, IsBorder
  <2> HIDE DEF b
  <2>2. \A c, q : Grown(b, c) => Grown(b, lineto(c, q, FALSE))
    <3> SUFFICES ASSUME NEW c, NEW q, Grown(b, c) PROVE Grown(b, lineto(c, q, FALSE))
      OBVIOUS
    <3>1. IsBorder(c)
      BY DEF Grown
    <3> QED BY <2>1, <3>1, LineGrows, GrownOn
  <2>3. \A c, q : Grown(b, c) => More(curveto(c, controls, q))
    <3> SUFFICES ASSUME NEW c, NEW q, Grown(b, c) PROVE More(curveto(c, controls, q))
      OBVIOUS
    <3>1. IsBorder(c)
      BY DEF Grown
    <3> DEFINE d == curveto(c, controls, q)
    <3>2. Grown(c, d) /\ Len(d.points) >= Len(c.points) + 2
      BY <3>1, CurveGrows
    <3> HIDE DEF d
    <3>3. Grown(b, d)
      BY <2>1, <3>2, GrownOn
    <3>4. Len(d.points) \in Nat /\ Len(c.points) \in Nat /\ Len(c.points) >= Len(b.points)
      BY <3>1, <3>3, Points DEF Grown, IsBorder
    <3> QED BY <2>1, <3>2, <3>3, <3>4 DEF d
  <2>4. \A c, q : More(c) => More(lineto(c, q, FALSE))
    <3> SUFFICES ASSUME NEW c, NEW q, More(c) PROVE More(lineto(c, q, FALSE))
      OBVIOUS
    <3> DEFINE d == lineto(c, q, FALSE)
    <3>1. IsBorder(c)
      BY DEF Grown
    <3>2. Grown(c, d)
      BY <3>1, LineGrows
    <3> HIDE DEF d
    <3>3. Grown(b, d)
      BY <2>1, <3>2, GrownOn
    <3>4. Len(d.points) \in Nat /\ Len(c.points) \in Nat /\ Len(c.points) <= Len(d.points)
      BY <3>1, <3>2, Points DEF Grown, IsBorder
    <3>5. Len(d.points) >= Len(b.points) + 1
      <4> DEFINE x == Len(b.points)
                 y == Len(c.points)
                 z == Len(d.points)
      <4>1. x \in Nat /\ y \in Nat /\ z \in Nat /\ y >= x + 1 /\ y <= z
        BY <2>1, <3>4
      <4> HIDE DEF x, y, z
      <4>2. z >= x + 1
        BY <4>1
      <4> QED BY <4>2 DEF x, z
    <3> QED BY <3>3, <3>5 DEF d
  <2>5. Grown(b, b) /\ Grown(b, [b EXCEPT !.movable = FALSE])
    BY <2>1, GrownSelf
  <2> HIDE DEF More
  <2>6. \A q, r : Grown(b, lineto(lineto([b EXCEPT !.movable = FALSE], q, FALSE), r, FALSE))
    BY <2>2, <2>5
  <2>7. \A q, r, u, v :
          More(lineto(curveto(lineto(lineto([b EXCEPT !.movable = FALSE], q, FALSE), r, FALSE), controls, u), v, FALSE))
    BY <2>3, <2>4, <2>6
  <2>8. \A q : More(curveto(b, controls, q))
    BY <2>3, <2>5
  <2>9. More(Side(side))
    BY <2>7, <2>8, Zenon DEF b
  <2> HIDE DEF Side
  <2> QED BY <2>9 DEF More, b
<1>2. DOMAIN arcs = Sides /\ \A side \in Sides : arcs[side] = Side(side)
  OBVIOUS
<1>3. t = [s EXCEPT !.border = arcs, !.in = out]
  BY Zenon DEF AppendArc
<1> HIDE DEF arcs, Side, t
<1>4. /\ DOMAIN t = Fields /\ t.border = arcs /\ t.in = out /\ t.out = s.out /\ t.angle = s.angle
      /\ \A f \in Kept : t[f] = s[f]
  BY <1>3 DEF IsStroke, Fields, Kept
<1>5. IsStroke(t)
  <2>1. \A side \in Sides : IsBorder(arcs[side])
    BY <1>1, <1>2 DEF Grown
  <2>2. t.join = s.join
    BY <1>4 DEF Kept
  <2> QED BY <1>2, <1>4, <2>1, <2>2 DEF IsStroke
<1>6. Draws(s, t)
  BY <1>1, <1>2, <1>4, <1>5 DEF Draws
<1>7. Longer(s, t)
  BY <1>1, <1>2, <1>4 DEF Longer
<1> QED BY <1>6, <1>7 DEF t

IsWays(w) == w.in \in Int /\ w.out \in Int

LEMMA CurveArcDraws ==
  ASSUME NEW s, IsStroke(s), NEW points, NEW w, IsWays(w), NEW k
  PROVE  Draws(s, CurveArc(s, points, w, k)) /\ Longer(s, CurveArc(s, points, w, k))
<1> DEFINE turn == Turn(w.in, w.out)
           n == ArcCount(points, turn)
           cusp == Size(turn) = 4
           controls == IF Len(points) = 2 THEN ConicControls ELSE CubicControls
           at == IF k = n THEN Last(points) ELSE points[1]
           way == IF k = n \/ (cusp /\ k > 1) THEN w.out ELSE w.in
           r == [s EXCEPT !.center = points[1], !.out = w.out, !.join = "round"]
           turned == process_corner(r, FALSE)
           back == [turned EXCEPT !.join = s.join]
           begun == IF cusp /\ k = 2 THEN back ELSE s
           t == AppendArc(begun, controls, at, IF cusp THEN way ELSE w.in, way,
                          points \in Tight, IF cusp THEN 0 ELSE turn)
<1>1. CurveArc(s, points, w, k) = t
  BY Zenon DEF CurveArc
<1>2. way \in Int /\ controls \in {ConicControls, CubicControls}
  BY DEF IsWays
<1> HIDE DEF way, controls, at, n
<1>3. /\ DOMAIN r = Fields /\ r.border = s.border /\ r.in = s.in /\ r.out = w.out /\ r.angle = s.angle
      /\ r.join = "round" /\ \A f \in Kept \ {"join"} : r[f] = s[f]
  BY DEF IsStroke, Fields, Kept
<1> HIDE DEF r
<1>4. IsStroke(r)
  BY <1>3 DEF IsStroke, IsWays, Joins
<1>5. Draws(r, turned)
  BY <1>4, CornerDraws
<1> HIDE DEF turned
<1>6. Draws(s, back)
  <2>1. /\ DOMAIN back = Fields /\ back.border = turned.border /\ back.in = turned.in
        /\ back.out = turned.out /\ back.angle = turned.angle /\ back.join = s.join
        /\ \A f \in Kept \ {"join"} : back[f] = turned[f]
    BY <1>5 DEF Draws, IsStroke, Fields, Kept
  <2> HIDE DEF back
  <2>2. \A f \in Kept : back[f] = s[f]
    <3>1. \A f \in Kept \ {"join"} : turned[f] = r[f]
      BY <1>5 DEF Draws
    <3> QED BY <1>3, <2>1, <3>1
  <2>3. IsStroke(back)
    BY <1>5, <2>1 DEF Draws, IsStroke
  <2>4. \A side \in Sides : Grown(s.border[side], back.border[side])
    BY <1>3, <1>5, <2>1 DEF Draws
  <2> QED BY <2>2, <2>3, <2>4 DEF Draws
<1> HIDE DEF back
<1>7. Draws(s, begun)
  BY <1>6, DrawsSelf
<1> HIDE DEF begun, cusp, turn
<1>8. Draws(begun, t) /\ Longer(begun, t)
  <2>1. IsStroke(begun)
    BY <1>7 DEF Draws
  <2>2. \A tight, in, trn : LET x == AppendArc(begun, controls, at, in, way, tight, trn)
                           IN Draws(begun, x) /\ Longer(begun, x)
    BY <1>2, <2>1, ArcDraws
  <2> QED BY <2>2
<1> HIDE DEF t
<1>9. Draws(s, t)
  BY <1>7, <1>8, DrawsOn
<1>10. Longer(s, t)
  <2> SUFFICES ASSUME NEW side \in Sides
               PROVE  Len(t.border[side].points) >= Len(s.border[side].points) + 1
    BY DEF Longer
  <2>1. Len(t.border[side].points) >= Len(begun.border[side].points) + 1
    BY <1>8 DEF Longer
  <2>2. Grown(s.border[side], begun.border[side]) /\ IsBorder(begun.border[side])
        /\ IsBorder(s.border[side]) /\ IsBorder(t.border[side])
    BY <1>7, <1>9 DEF Draws, IsStroke
  <2>3. Len(s.border[side].points) <= Len(begun.border[side].points)
    BY <2>2 DEF Grown
  <2>4. Len(s.border[side].points) \in Nat /\ Len(begun.border[side].points) \in Nat
        /\ Len(t.border[side].points) \in Nat
    BY <2>2, Points DEF IsBorder
  <2> DEFINE x == Len(s.border[side].points)
             y == Len(begun.border[side].points)
             z == Len(t.border[side].points)
  <2>5. x \in Nat /\ y \in Nat /\ z \in Nat /\ z >= y + 1 /\ x <= y
    BY <2>1, <2>3, <2>4
  <2> HIDE DEF x, y, z
  <2>6. z >= x + 1
    BY <2>5
  <2> QED BY <2>6 DEF x, z
<1> QED BY <1>1, <1>9, <1>10

\* conic_is_small_enough, cubic_is_small_enough
LEMMA WaysKnown ==
  ASSUME NEW s, NEW from, NEW points
  PROVE  /\ IsWays(Ways(s, from, points))
         /\ \A w : IsWays(w) => ArcCount(points, Turn(w.in, w.out)) \in Nat \ {0}
<1>1. IsWays(Ways(s, from, points))
  <2> DEFINE all == <<from>> \o points
             legs == {k \in DOMAIN points : all[k] # all[k + 1]}
             i == CHOOSE k \in legs : \A j \in legs : k <= j
             o == CHOOSE k \in legs : \A j \in legs : j <= k
  <2>1. Ways(s, from, points) = [in |-> Direction(all[i], all[i + 1]), out |-> Direction(all[o], all[o + 1])]
    BY Zenon DEF Ways
  <2> HIDE DEF all, i, o
  <2>2. Direction(all[i], all[i + 1]) \in 0..7 /\ Direction(all[o], all[o + 1]) \in 0..7
    BY Directions
  <2> QED BY <2>1, <2>2 DEF IsWays
<1>2. \A w : IsWays(w) => ArcCount(points, Turn(w.in, w.out)) \in Nat \ {0}
  <2> SUFFICES ASSUME NEW w, IsWays(w)
               PROVE  ArcCount(points, Turn(w.in, w.out)) \in Nat \ {0}
    OBVIOUS
  <2> DEFINE t == Turn(w.in, w.out)
  <2>1. t \in -3..4
    BY Turns DEF IsWays
  <2> HIDE DEF t
  <2>2. ArcCount(points, t) \in Nat \ {0}
    BY <2>1 DEF ArcCount, Size
  <2> QED BY <2>2 DEF t
<1> QED BY <1>1, <1>2

\* A line or a curve: it begins the open parts, or goes on from them.
Extends(s, t, to) ==
  /\ IsStroke(t) /\ t.center = to /\ t.counted = FALSE
  /\ s.first => SetsOut(s, t) /\ Two(t)
  /\ ~s.first => Draws(s, t)

LEMMA CurveExtends ==
  ASSUME NEW s, IsStroke(s), NEW points
  PROVE  Extends(s, AppendCurve(s, points), Last(points))
<1> DEFINE w == Ways(s, s.center, points)
           n == ArcCount(points, Turn(w.in, w.out))
           r == [s EXCEPT !.in = w.in, !.startLong = FALSE]
           q == [s EXCEPT !.out = w.in]
           begun == IF s.first THEN Started(r, w.in) ELSE process_corner(q, FALSE)
           drawn[k \in 0..n] == IF k = 0 THEN begun ELSE CurveArc(drawn[k - 1], points, w, k)
           t == AppendCurve(s, points)
<1>1. t = [drawn[n] EXCEPT !.center = Last(points), !.long = FALSE, !.counted = FALSE]
  BY Zenon DEF AppendCurve
<1> HIDE DEF t
<1>2. IsWays(w) /\ n \in Nat \ {0}
  BY WaysKnown
<1> HIDE DEF w, n
<1>3. Draws(s, q) /\ Draws(s, r)
  <2>1. /\ DOMAIN q = Fields /\ q.border = s.border /\ q.in = s.in /\ q.out = w.in
        /\ q.angle = s.angle /\ \A f \in Kept : q[f] = s[f]
    BY DEF IsStroke, Fields, Kept
  <2>2. /\ DOMAIN r = Fields /\ r.border = s.border /\ r.in = w.in /\ r.out = s.out
        /\ r.angle = s.angle /\ \A f \in Kept : r[f] = s[f]
    BY DEF IsStroke, Fields, Kept
  <2> HIDE DEF q, r
  <2>3. s.in \in Int /\ s.out \in Int /\ s.angle \in Int /\ w.in \in Int
    BY <1>2 DEF IsStroke, IsWays
  <2>4. Draws(s, q)
    BY <2>1, <2>3, DrawsSame
  <2>5. Draws(s, r)
    BY <2>2, <2>3, DrawsSame
  <2> QED BY <2>4, <2>5
<1>4. (s.first => SetsOut(s, begun)) /\ (~s.first => Draws(s, begun)) /\ IsStroke(begun)
  <2>1. CASE s.first
    <3>1. begun = Started(r, w.in)
      BY <2>1
    <3> HIDE DEF begun, r
    <3>2. SetsOut(r, begun)
      BY <1>2, <1>3, <3>1, StartedStarts DEF Draws, IsWays
    <3>3. SetsOut(s, begun)
      <4>1. \A f \in Kept \ {"first", "published"} : begun[f] = s[f]
        <5>1. \A f \in Kept \ {"first", "published"} : begun[f] = r[f]
          BY <3>2 DEF SetsOut
        <5> QED BY <1>3, <5>1 DEF Draws
      <4>2. \A side \in Sides : Begun(s.border[side], begun.border[side])
        <5>1. r.border = s.border
          BY DEF r, IsStroke, Fields
        <5> QED BY <3>2, <5>1 DEF SetsOut
      <4> QED BY <3>2, <4>1, <4>2 DEF SetsOut
    <3> QED BY <2>1, <3>3 DEF SetsOut
  <2>2. CASE ~s.first
    <3>1. begun = process_corner(q, FALSE)
      BY <2>2
    <3> HIDE DEF begun, q
    <3>2. Draws(q, begun)
      BY <1>3, <3>1, CornerDraws DEF Draws
    <3>3. Draws(s, begun)
      BY <1>3, <3>2, DrawsOn
    <3> QED BY <2>2, <3>3 DEF Draws
  <2> QED BY <2>1, <2>2
<1> HIDE DEF begun, r, q
<1> DEFINE Arc(x, k) == CurveArc(x, points, w, k)
           Is(g, m) == g = [k \in 0..m |-> IF k = 0 THEN begun ELSE Arc(g[k - 1], k)]
           P == {m \in 0..n : \E g : Is(g, m)}
<1>5. \A x, k : IsStroke(x) => Draws(x, Arc(x, k)) /\ Longer(x, Arc(x, k))
  BY <1>2, CurveArcDraws
<1>6. n \in P
  <2> HIDE DEF Arc
  <2>1. 0 \in P
    <3> DEFINE g == [k \in 0..0 |-> begun]
    <3>1. Is(g, 0)
      OBVIOUS
    <3> HIDE DEF g, Is
    <3> QED BY <1>2, <3>1
  <2>2. ASSUME NEW m \in 1..n, m - 1 \in P PROVE m \in P
    <3>0. m \in Nat /\ m > 0
      BY <1>2
    <3>1. PICK g : Is(g, m - 1)
      BY <2>2
    <3> DEFINE h == [k \in 0..m |-> IF k < m THEN g[k] ELSE Arc(g[m - 1], m)]
    <3>2. \A k \in 0..m : h[k] = IF k = 0 THEN begun ELSE Arc(h[k - 1], k)
      <4> SUFFICES ASSUME NEW k \in 0..m PROVE h[k] = IF k = 0 THEN begun ELSE Arc(h[k - 1], k)
        OBVIOUS
      <4>1. CASE k = 0
        BY <3>0, <3>1, <4>1
      <4>2. CASE k # 0 /\ k < m
        <5>1. h[k] = g[k] /\ h[k - 1] = g[k - 1]
          BY <3>0, <4>2
        <5>2. g[k] = Arc(g[k - 1], k)
          BY <3>0, <3>1, <4>2
        <5> QED BY <4>2, <5>1, <5>2
      <4>3. CASE k = m
        <5>1. h[k] = Arc(g[m - 1], m) /\ h[k - 1] = g[m - 1]
          BY <3>0, <4>3
        <5> QED BY <3>0, <4>3, <5>1
      <4> QED BY <3>0, <4>1, <4>2, <4>3
    <3>3. h = [k \in 0..m |-> h[k]]
      OBVIOUS
    <3> HIDE DEF h
    <3>4. Is(h, m)
      BY <3>2, <3>3
    <3> HIDE DEF Is
    <3>5. m \in 0..n
      BY <1>2
    <3> QED BY <3>4, <3>5
  <2> HIDE DEF P
  <2>3. 0..n \subseteq P
    BY <1>2, <2>1, <2>2, UpTo
  <2> QED BY <1>2, <2>3
<1>7. drawn = [k \in 0..n |-> IF k = 0 THEN begun ELSE Arc(drawn[k - 1], k)]
  <2>1. PICK g : Is(g, n)
    BY <1>6
  <2> QED BY <2>1, Zenon
<1> HIDE DEF drawn, Is, P
<1> DEFINE Q == {k \in 0..n : Draws(begun, drawn[k]) /\ (k > 0 => Longer(begun, drawn[k]))}
<1>8. 0 \in Q
  <2>1. drawn[0] = begun /\ 0 \in 0..n /\ ~(0 > 0)
    BY <1>2, <1>7
  <2>2. Draws(begun, begun)
    BY <1>4, DrawsSelf
  <2> QED BY <2>1, <2>2
<1>9. ASSUME NEW k \in 1..n, k - 1 \in Q PROVE k \in Q
  <2>1. k \in 0..n /\ k # 0
    BY <1>2
  <2>2. drawn[k] = Arc(drawn[k - 1], k)
    BY <1>7, <2>1
  <2>3. Draws(begun, drawn[k - 1]) /\ IsStroke(drawn[k - 1])
    BY <1>9 DEF Draws
  <2> HIDE DEF Arc
  <2>4. Draws(drawn[k - 1], drawn[k]) /\ Longer(drawn[k - 1], drawn[k])
    BY <1>5, <2>2, <2>3
  <2>5. Draws(begun, drawn[k])
    BY <1>4, <2>3, <2>4, DrawsOn
  <2>6. Longer(begun, drawn[k])
    <3> SUFFICES ASSUME NEW side \in Sides
                 PROVE  Len(drawn[k].border[side].points) >= Len(begun.border[side].points) + 1
      BY DEF Longer
    <3> DEFINE x == Len(begun.border[side].points)
               y == Len(drawn[k - 1].border[side].points)
               z == Len(drawn[k].border[side].points)
    <3>1. z >= y + 1
      BY <2>4 DEF Longer
    <3>2. x <= y
      BY <2>3 DEF Draws, Grown
    <3>3. x \in Nat /\ y \in Nat /\ z \in Nat
      BY <1>4, <2>3, <2>5, Points DEF Draws, IsStroke, IsBorder
    <3> HIDE DEF x, y, z
    <3>4. z >= x + 1
      BY <3>1, <3>2, <3>3
    <3> QED BY <3>4 DEF x, z
  <2> QED BY <2>1, <2>5, <2>6
<1> HIDE DEF Q
<1>10. n \in Q
  <2>1. 0..n \subseteq Q
    BY <1>2, <1>8, <1>9, UpTo
  <2> QED BY <1>2, <2>1
<1> DEFINE last == drawn[n]
<1>11. Draws(begun, last) /\ Longer(begun, last) /\ IsStroke(last)
  <2>1. n > 0
    BY <1>2
  <2> QED BY <1>10, <2>1 DEF Q, Draws
<1> HIDE DEF last
<1>12. Draws(last, t) /\ t.border = last.border /\ t.center = Last(points) /\ t.counted = FALSE
  <2>1. t = [last EXCEPT !.center = Last(points), !.long = FALSE, !.counted = FALSE]
    BY <1>1 DEF last
  <2>2. /\ DOMAIN t = Fields /\ t.border = last.border /\ t.in = last.in /\ t.out = last.out
        /\ t.angle = last.angle /\ t.center = Last(points) /\ t.counted = FALSE
        /\ \A f \in Kept : t[f] = last[f]
    BY <1>11, <2>1 DEF IsStroke, Fields, Kept
  <2>3. t.in \in Int /\ t.out \in Int /\ t.angle \in Int
    BY <1>11, <2>2 DEF IsStroke
  <2>4. Draws(last, t)
    BY <1>11, <2>2, <2>3, DrawsSame
  <2> QED BY <2>2, <2>4
<1>13. Draws(begun, t) /\ IsStroke(t)
  BY <1>4, <1>11, <1>12, DrawsOn DEF Draws
<1>14. s.first => SetsOut(s, t) /\ Two(t)
  <2> SUFFICES ASSUME s.first PROVE SetsOut(s, t) /\ Two(t)
    OBVIOUS
  <2>1. SetsOut(s, begun)
    BY <1>4
  <2>2. SetsOut(s, t)
    BY <1>13, <2>1, StartsOn
  <2>3. ASSUME NEW side \in Sides
        PROVE  Len(t.border[side].points) >= t.border[side].start + 2
    <3> DEFINE b == begun.border[side]
               c == t.border[side]
    <3>1. Len(c.points) >= Len(b.points) + 1
      BY <1>11, <1>12 DEF Longer
    <3>2. IsBorder(b) /\ IsBorder(c) /\ b.start # NoStart /\ Len(b.points) >= b.start + 1
      BY <1>13, <2>1 DEF SetsOut, Begun, IsStroke
    <3>3. c.start = b.start
      BY <1>13 DEF Draws, Grown
    <3>4. Len(b.points) \in Nat /\ Len(c.points) \in Nat /\ b.start \in Nat
      BY <3>2, Points DEF IsBorder
    <3> DEFINE x == b.start
               y == Len(b.points)
               z == Len(c.points)
    <3>5. x \in Nat /\ y \in Nat /\ z \in Nat /\ z >= y + 1 /\ y >= x + 1
      BY <3>1, <3>2, <3>4
    <3> HIDE DEF x, y, z
    <3>6. z >= x + 2
      BY <3>5
    <3> QED BY <3>3, <3>6 DEF x, z
  <2> QED BY <2>2, <2>3 DEF Two
<1>15. ~s.first => Draws(s, t)
  BY <1>4, <1>13, DrawsOn
<1> QED BY <1>12, <1>13, <1>14, <1>15 DEF Extends, t

LEMMA LineExtends ==
  ASSUME NEW s, IsStroke(s), NEW to, s.first => to # s.center
  PROVE  Extends(s, IF s.first THEN start_first_line_segment(s, to)
                    ELSE append_line_segment_candidate(s, to), to)
<1>1. CASE s.first
  <2> DEFINE t == start_first_line_segment(s, to)
  <2>1. SetsOut(s, t) /\ Two(t) /\ t.center = to /\ t.counted = FALSE
    BY <1>1, FirstLine
  <2> HIDE DEF t
  <2>2. Extends(s, t, to)
    BY <1>1, <2>1 DEF Extends, SetsOut
  <2> QED BY <1>1, <2>2 DEF t
<1>2. CASE ~s.first
  <2> DEFINE t == append_line_segment_candidate(s, to)
  <2>1. Draws(s, t) /\ t.center = to /\ t.counted = FALSE
    BY NextLine
  <2> HIDE DEF t
  <2>2. Extends(s, t, to)
    BY <1>2, <2>1 DEF Extends, Draws
  <2> QED BY <1>2, <2>2 DEF t
<1> QED BY <1>1, <1>2

-----------------------------------------------------------------------------
(* What export may use                                                     *)

Exportable(s) == \A side \in Sides : s.border[side].valid => Balanced(s.border[side])

\* A border that was found in order and has not changed since is in order.
LEMMA GrownBalanced ==
  ASSUME NEW b, IsBorder(b), NEW c, Grown(b, c), b.valid => Balanced(b), c.valid
  PROVE  Balanced(c)
<1>1. Balanced(b) /\ Len(c.points) = Len(b.points)
  BY DEF Grown
<1>2. DOMAIN b.points = 1..Len(b.points) /\ DOMAIN c.points = 1..Len(b.points) /\ Len(b.points) \in Nat
  BY <1>1, Points DEF Grown, IsBorder
<1>3. \A i \in 1..Len(b.points) : c.points[i].tags = b.points[i].tags
  BY DEF Grown
<1>4. \A i \in 1..Len(b.points) : i # 1 => i - 1 \in 1..Len(b.points)
  BY <1>2
<1> QED BY <1>1, <1>2, <1>3, <1>4 DEF Balanced

LEMMA DrawsExportable ==
  ASSUME NEW s, IsStroke(s), NEW t, Draws(s, t), Exportable(s)
  PROVE  Exportable(t)
BY GrownBalanced DEF Exportable, Draws, IsStroke

LEMMA StartsExportable ==
  ASSUME NEW s, NEW t, SetsOut(s, t)
  PROVE  Exportable(t)
BY DEF Exportable, SetsOut, Begun

LEMMA ExtendsExportable ==
  ASSUME NEW s, IsStroke(s), NEW t, NEW to, Extends(s, t, to), Exportable(s)
  PROVE  Exportable(t)
BY DrawsExportable, StartsExportable DEF Extends

-----------------------------------------------------------------------------
(* The calls                                                               *)

\* A border that nothing is drawn at.
Resting(s) == \A side \in Sides : Base(s.border[side]) = Len(s.border[side].points)

LEMMA EmptyRests ==
  /\ IsBorder(EmptyBorder) /\ Contoured(EmptyBorder, 0) /\ ~EmptyBorder.valid
  /\ Base(EmptyBorder) = Len(EmptyBorder.points)
<1>1. /\ DOMAIN EmptyBorder = {"points", "start", "movable", "valid"}
      /\ EmptyBorder.points = <<>> /\ EmptyBorder.start = NoStart /\ EmptyBorder.valid = FALSE
  BY DEF EmptyBorder
<1>2. IsPoints(<<>>) /\ Len(<<>>) = 0 /\ DOMAIN <<>> = {}
  <2>1. <<>> \in Seq({})
    OBVIOUS
  <2> QED BY <2>1 DEF IsPoints
<1> DEFINE b == EmptyBorder
<1>3. /\ DOMAIN b = {"points", "start", "movable", "valid"}
      /\ b.start = NoStart /\ b.valid = FALSE /\ IsPoints(b.points) /\ Len(b.points) = 0
      /\ DOMAIN b.points = {}
  BY <1>1, <1>2
<1> HIDE DEF b
<1>4. IsBorder(b) /\ Base(b) = 0
  BY <1>3 DEF IsBorder, Base
<1>5. Whole(b, 0)
  BY DEF Whole
<1>6. Cardinality(Ends(b)) = 0
  <2>1. Ends(b) = {}
    BY <1>3 DEF Ends
  <2> QED BY <2>1, FS_EmptySet
<1>7. Contoured(b, 0)
  BY <1>3, <1>4, <1>5, <1>6 DEF Contoured
<1> QED BY <1>3, <1>4, <1>7 DEF b

IsFresh(s) ==
  /\ IsStroke(s) /\ s.success = FALSE /\ s.pending = NoPath /\ s.outline = s.published
  /\ \A side \in Sides : s.border[side] = EmptyBorder

LEMMA FreshMade ==
  ASSUME NEW a, a.join \in Joins
  PROVE  IsFresh(Fresh(a)) /\ Fresh(a).first = FALSE
<1> DEFINE s == Fresh(a)
<1>1. /\ DOMAIN s = Fields /\ s.join = a.join /\ s.in = 0 /\ s.out = 0 /\ s.angle = 0
      /\ s.border = [side \in Sides |-> EmptyBorder]
      /\ s.success = FALSE /\ s.pending = NoPath /\ s.first = FALSE
      /\ s.outline = [side \in Sides |-> NoCounts] /\ s.published = [side \in Sides |-> NoCounts]
  BY DEF Fresh, Fields
<1> HIDE DEF s
<1>2. DOMAIN s.border = Sides /\ \A side \in Sides : s.border[side] = EmptyBorder
  BY <1>1
<1>3. IsStroke(s)
  <2>1. \A side \in Sides : IsBorder(s.border[side])
    BY <1>2, EmptyRests
  <2> QED BY <1>1, <1>2, <2>1 DEF IsStroke
<1> QED BY <1>1, <1>2, <1>3 DEF IsFresh, s

LEMMA FreshRests ==
  ASSUME NEW s, IsFresh(s)
  PROVE  /\ Exportable(s) /\ Resting(s)
         /\ \A side \in Sides : Contoured(s.border[side], 0)
BY EmptyRests DEF IsFresh, Exportable, Resting

LEMMA ResetFresh ==
  ASSUME NEW s, IsStroke(s), NEW start
  PROVE  LET r == reset_pending_curve_state(s, start)
         IN IsFresh(r) /\ r.first = TRUE /\ r.open = s.open
<1> DEFINE f == Fresh(s)
           r == reset_pending_curve_state(s, start)
<1>1. IsFresh(f)
  BY FreshMade DEF IsStroke
<1>2. r = [f EXCEPT !.first = TRUE, !.center = start, !.start = start, !.corner = start,
                    !.open = s.open, !.wide = s.wide]
  BY Zenon DEF reset_pending_curve_state
<1> HIDE DEF f, r
<1>3. /\ DOMAIN r = Fields /\ r.border = f.border /\ r.in = f.in /\ r.out = f.out /\ r.angle = f.angle
      /\ r.join = f.join /\ r.success = f.success /\ r.pending = f.pending
      /\ r.outline = f.outline /\ r.published = f.published /\ r.first = TRUE /\ r.open = s.open
  BY <1>1, <1>2 DEF IsFresh, IsStroke, Fields
<1>4. IsFresh(r)
  BY <1>1, <1>3 DEF IsFresh, IsStroke
<1> QED BY <1>3, <1>4 DEF r

\* A stored curve that is drawn after all replaces what was there.
IsReplayed(r, s) ==
  /\ IsStroke(r) /\ r.open = s.open
  /\ s.pending = NoPath => r = s
  /\ s.pending # NoPath =>
       r.first = FALSE /\ r.success = FALSE /\ r.pending = NoPath /\ r.counted = FALSE
  /\ Exportable(s) => Exportable(r)

LEMMA Replays ==
  ASSUME NEW s, IsStroke(s)
  PROVE  IsReplayed(Replayed(s), s)
<1>1. CASE s.pending = NoPath
  <2>1. Replayed(s) = s
    BY <1>1 DEF Replayed
  <2> QED BY <1>1, <2>1 DEF IsReplayed
<1>2. CASE s.pending # NoPath
  <2> DEFINE q == reset_pending_curve_state(s, Head(s.pending))
             r == AppendCurve(q, Tail(s.pending))
  <2>1. Replayed(s) = r
    BY <1>2 DEF Replayed
  <2>2. IsFresh(q) /\ q.first = TRUE /\ q.open = s.open
    BY ResetFresh
  <2> HIDE DEF q
  <2>3. Extends(q, r, Last(Tail(s.pending)))
    BY <2>2, CurveExtends DEF IsFresh
  <2> HIDE DEF r
  <2>4. SetsOut(q, r)
    BY <2>2, <2>3 DEF Extends
  <2>5. /\ IsStroke(r) /\ r.first = FALSE /\ r.open = q.open /\ r.success = q.success
        /\ r.pending = q.pending /\ r.counted = FALSE
    BY <2>3, <2>4 DEF SetsOut, Kept, Extends
  <2>6. Exportable(r)
    BY <2>4, StartsExportable
  <2> QED BY <1>2, <2>1, <2>2, <2>5, <2>6 DEF IsReplayed, IsFresh
<1> QED BY <1>1, <1>2

\* What a segment keeps, whether it begins or goes on.
LEMMA ExtendsKeeps ==
  ASSUME NEW s, NEW t, NEW to, Extends(s, t, to)
  PROVE  /\ t.open = s.open /\ t.single = s.single /\ t.success = s.success /\ t.pending = s.pending
         /\ t.outline = s.outline
         /\ ~t.first
         /\ ~s.first => t.published = s.published
<1>1. CASE s.first
  BY <1>1 DEF Extends, SetsOut, Kept
<1>2. CASE ~s.first
  BY <1>2 DEF Extends, Draws, Kept
<1> QED BY <1>1, <1>2

\* What was announced is what would be exported, where that may be asked for; a
\* stored curve is the only curve of its sub-path.
Agreed(s) ==
  /\ s.counted \/ s.success => s.outline = s.published
  /\ s.success => ~s.first /\ ~s.single

\* A segment that leads away, drawn or stored.
Segment(s, t, to) ==
  /\ IsStroke(t) /\ t.center = to /\ t.open = s.open /\ t.first = FALSE
  /\ Exportable(s) => Exportable(t)
  /\ Agreed(s) => Agreed(t)

\* What a segment that is not stored does to the borders.
Goes(s, t) ==
  /\ t.pending = s.pending /\ t.success = s.success
  /\ s.first => Two(t) /\ \A side \in Sides : Begun(s.border[side], t.border[side])
  /\ ~s.first => \A side \in Sides : Grown(s.border[side], t.border[side])

LEMMA ExtendsSegment ==
  ASSUME NEW s, IsStroke(s), NEW t, NEW to, Extends(s, t, to)
  PROVE  Segment(s, t, to) /\ Goes(s, t)
<1>1. /\ t.open = s.open /\ t.single = s.single /\ t.success = s.success /\ t.pending = s.pending
      /\ t.outline = s.outline
      /\ ~t.first
      /\ ~s.first => t.published = s.published
  BY ExtendsKeeps
<1>2. IsStroke(t) /\ t.center = to /\ t.counted = FALSE
  BY DEF Extends
<1>3. t.first = FALSE
  BY DEF Extends, SetsOut, Draws, Kept
<1>4. Exportable(s) => Exportable(t)
  BY ExtendsExportable
<1>5. Agreed(s) => Agreed(t)
  BY <1>1, <1>2 DEF Agreed
<1>6. Goes(s, t)
  BY <1>1 DEF Goes, Extends, SetsOut, Draws
<1> QED BY <1>1, <1>2, <1>3, <1>4, <1>5, <1>6 DEF Segment

LEMMA SegmentAfterReplay ==
  ASSUME NEW s, NEW r, IsReplayed(r, s), NEW t, NEW to, Segment(r, t, to)
  PROVE  Segment(s, t, to)
<1>1. Agreed(s) => Agreed(r)
  BY DEF IsReplayed, Agreed
<1> QED BY <1>1 DEF Segment, IsReplayed

LEMMA Lines ==
  ASSUME NEW s, IsStroke(s), NEW to
  PROVE  LET t == LineTo(s, to) IN
         /\ to = s.center => t = s
         /\ to # s.center => Segment(s, t, to) /\ (s.pending = NoPath => Goes(s, t))
<1> DEFINE r == Replayed(s)
           t == LineTo(s, to)
<1>1. IsReplayed(r, s)
  BY Replays
<1>2. CASE to = s.center
  <2>1. t = s
    BY <1>2, Zenon DEF LineTo
  <2> QED BY <1>2, <2>1
<1>3. CASE to # s.center
  <2> DEFINE u == IF r.first THEN start_first_line_segment(r, to)
                  ELSE append_line_segment_candidate(r, to)
  <2>1. t = u
    BY <1>3, Zenon DEF LineTo
  <2> HIDE DEF t, r
  <2>2. IsStroke(r) /\ (r.first => to # r.center) /\ (s.pending = NoPath => r = s)
    BY <1>1, <1>3 DEF IsReplayed
  <2>3. Extends(r, u, to)
    BY <2>2, LineExtends
  <2> HIDE DEF u
  <2>4. Segment(r, u, to) /\ Goes(r, u)
    BY <2>2, <2>3, ExtendsSegment
  <2>5. Segment(s, u, to) /\ (s.pending = NoPath => Goes(s, u))
    BY <1>1, <2>2, <2>4, SegmentAfterReplay
  <2>6. Segment(s, t, to) /\ (s.pending = NoPath => Goes(s, t))
    BY <2>1, <2>5
  <2> QED BY <1>3, <2>6 DEF t
<1> QED BY <1>2, <1>3

\* A curve that is stored is not drawn.
LEMMA StoredSegment ==
  ASSUME NEW s, IsStroke(s), NEW points, s.single = FALSE
  PROVE  Segment(s, Stored(s, points), Last(points))
<1> DEFINE t == Stored(s, points)
           sizes == StoredSizes(points, s.open)
<1>1. \E pending : t = [s EXCEPT !.pending = pending, !.published = sizes, !.outline = sizes,
                  !.counted = FALSE, !.success = TRUE, !.first = FALSE, !.center = Last(points)]
  BY Zenon DEF Stored
<1> HIDE DEF t, sizes
<1>2. /\ DOMAIN t = Fields /\ t.border = s.border /\ t.in = s.in /\ t.out = s.out
      /\ t.angle = s.angle /\ t.join = s.join /\ t.open = s.open /\ t.single = s.single
      /\ t.published = sizes /\ t.outline = sizes /\ t.first = FALSE /\ t.center = Last(points)
  BY <1>1 DEF IsStroke, Fields
<1>3. IsStroke(t)
  BY <1>2 DEF IsStroke
<1>4. Agreed(t)
  BY <1>2 DEF Agreed
<1>5. Exportable(s) => Exportable(t)
  BY <1>2 DEF Exportable
<1>6. Segment(s, t, Last(points))
  BY <1>2, <1>3, <1>4, <1>5 DEF Segment
<1> QED BY <1>6 DEF t

\* Only the mark that a sub-path is nothing but lines is taken away.
Curved(s) == [s EXCEPT !.single = FALSE]

LEMMA CurvedKeeps ==
  ASSUME NEW s, IsStroke(s)
  PROVE  /\ DOMAIN Curved(s) = Fields /\ Curved(s).single = FALSE
         /\ \A f \in Fields \ {"single"} : Curved(s)[f] = s[f]
         /\ IsStroke(Curved(s))
         /\ Exportable(s) => Exportable(Curved(s))
         /\ Agreed(s) => Agreed(Curved(s))
<1> DEFINE t == Curved(s)
<1>1. DOMAIN t = Fields /\ t.single = FALSE /\ \A f \in Fields \ {"single"} : t[f] = s[f]
  BY DEF Curved, IsStroke, Fields
<1> HIDE DEF t
<1>2. /\ t.border = s.border /\ t.in = s.in /\ t.out = s.out /\ t.angle = s.angle /\ t.join = s.join
      /\ t.published = s.published /\ t.outline = s.outline /\ t.first = s.first
      /\ t.success = s.success /\ t.counted = s.counted
  BY <1>1 DEF Fields
<1>3. IsStroke(t)
  BY <1>1, <1>2 DEF IsStroke
<1>4. (Exportable(s) => Exportable(t)) /\ (Agreed(s) => Agreed(t))
  BY <1>1, <1>2 DEF Exportable, Agreed
<1> QED BY <1>1, <1>3, <1>4 DEF t

LEMMA CurvesDrawn ==
  ASSUME NEW s, IsStroke(s), NEW points, NEW short \in BOOLEAN
  PROVE  LET t == CurveTo(s, points, short) IN
         /\ ToSet(points) = {s.center} => t = Curved(s)
         /\ ToSet(points) # {s.center} =>
              /\ Segment(s, t, Last(points))
              /\ (s.pending = NoPath /\ ~(short /\ IsStored(s, points))) => Goes(s, t)
<1> DEFINE c == Curved(s)
           r == Replayed(c)
           t == CurveTo(s, points, short)
           u == IF short /\ IsStored(r, points) THEN Stored(r, points) ELSE AppendCurve(r, points)
<1>1. t = IF ToSet(points) = {s.center} THEN c ELSE u
  BY Zenon DEF CurveTo, Curved
<1>2. /\ DOMAIN c = Fields /\ c.single = FALSE /\ \A f \in Fields \ {"single"} : c[f] = s[f]
      /\ IsStroke(c)
      /\ Exportable(s) => Exportable(c)
      /\ Agreed(s) => Agreed(c)
  BY CurvedKeeps
<1>3. /\ c.border = s.border /\ c.first = s.first /\ c.center = s.center /\ c.join = s.join
      /\ c.radius = s.radius /\ c.open = s.open /\ c.cap = s.cap /\ c.pending = s.pending
      /\ c.success = s.success
  BY <1>2 DEF Fields
<1>4. IsStored(c, points) = IsStored(s, points)
  BY <1>3, Zenon DEF IsStored
<1>5. IsReplayed(r, c) /\ r.single = FALSE
  <2>1. IsReplayed(r, c)
    BY <1>2, Replays
  <2>2. CASE c.pending = NoPath
    BY <1>2, <2>1, <2>2 DEF IsReplayed
  <2>3. CASE c.pending # NoPath
    <3> DEFINE q == reset_pending_curve_state(c, Head(c.pending))
               v == AppendCurve(q, Tail(c.pending))
    <3>1. r = v
      BY <2>3, Zenon DEF Replayed
    <3>2. IsFresh(q) /\ q.first = TRUE
      BY <1>2, ResetFresh
    <3>3. q.single = FALSE
      BY DEF reset_pending_curve_state, Fresh
    <3> HIDE DEF q
    <3>4. Extends(q, v, Last(Tail(c.pending)))
      BY <3>2, CurveExtends DEF IsFresh
    <3> HIDE DEF v
    <3>5. v.single = FALSE
      BY <3>3, <3>4, ExtendsKeeps
    <3> QED BY <2>1, <3>1, <3>5
  <2> QED BY <2>2, <2>3
<1> HIDE DEF c, r, t
<1>6. Segment(r, u, Last(points)) /\ (~(short /\ IsStored(r, points)) => Goes(r, u))
  <2>0. IsStroke(r)
    BY <1>5 DEF IsReplayed
  <2>1. CASE short /\ IsStored(r, points)
    <3>1. u = Stored(r, points)
      BY <2>1
    <3> HIDE DEF u
    <3>2. Segment(r, Stored(r, points), Last(points))
      BY <1>5, <2>0, StoredSegment
    <3> QED BY <2>1, <3>1, <3>2
  <2>2. CASE ~(short /\ IsStored(r, points))
    <3>1. u = AppendCurve(r, points)
      BY <2>2
    <3> HIDE DEF u
    <3>2. Extends(r, u, Last(points))
      BY <2>0, <3>1, CurveExtends
    <3> QED BY <2>0, <3>2, ExtendsSegment
  <2> QED BY <2>1, <2>2
<1> HIDE DEF u
<1>7. Segment(c, u, Last(points))
  BY <1>5, <1>6, SegmentAfterReplay
<1>8. Segment(s, u, Last(points))
  BY <1>2, <1>3, <1>7 DEF Segment
<1>9. (s.pending = NoPath /\ ~(short /\ IsStored(s, points))) => Goes(s, u)
  <2> SUFFICES ASSUME s.pending = NoPath, ~(short /\ IsStored(s, points)) PROVE Goes(s, u)
    OBVIOUS
  <2>1. r = c
    BY <1>3, <1>5 DEF IsReplayed
  <2>2. Goes(c, u)
    BY <1>4, <1>6, <2>1
  <2> QED BY <1>3, <2>2 DEF Goes
<1>10. /\ ToSet(points) = {s.center} => t = Curved(s)
       /\ ToSet(points) # {s.center} =>
            /\ Segment(s, t, Last(points))
            /\ (s.pending = NoPath /\ ~(short /\ IsStored(s, points))) => Goes(s, t)
  BY <1>1, <1>8, <1>9 DEF c
<1> QED BY <1>10 DEF t

IsBegun(t, s, to, open) ==
  /\ IsStroke(t) /\ t.border = s.border /\ t.first = TRUE /\ t.open = open /\ t.center = to
  /\ t.success = s.success /\ t.pending = s.pending /\ t.counted = s.counted
  /\ t.outline = s.outline /\ t.published = s.published

LEMMA Beginning ==
  ASSUME NEW s, IsStroke(s), NEW to, NEW open
  PROVE  IsBegun(BeginSubPath(s, to, open), s, to, open)
<1> DEFINE t == BeginSubPath(s, to, open)
<1>1. \E wide : t = [s EXCEPT !.first = TRUE, !.center = to, !.start = to, !.open = open,
                              !.single = TRUE, !.in = 0, !.wide = wide]
  BY Zenon DEF BeginSubPath
<1> HIDE DEF t
<1>2. /\ DOMAIN t = Fields /\ t.border = s.border /\ t.first = TRUE /\ t.open = open /\ t.center = to
      /\ t.success = s.success /\ t.pending = s.pending /\ t.counted = s.counted
      /\ t.outline = s.outline /\ t.published = s.published
      /\ t.join = s.join /\ t.in = 0 /\ t.out = s.out /\ t.angle = s.angle
  BY <1>1 DEF IsStroke, Fields
<1>3. IsStroke(t)
  BY <1>2 DEF IsStroke
<1>4. IsBegun(t, s, to, open)
  BY <1>2, <1>3 DEF IsBegun
<1> QED BY <1>4 DEF t

\* Both borders are at work, with two points and more.
AtWork(s) == Two(s) /\ \A side \in Sides : s.border[side].start # NoStart

\* How contours are added: to the right border, and to the left one of a closed
\* path.  Nothing is drawn at either any more.
More(s, t, left) ==
  \A count \in [Sides -> Nat] :
    (\A side \in Sides : Contoured(s.border[side], count[side])) =>
      /\ Contoured(t.border["right"], count["right"] + 1)
      /\ Contoured(t.border["left"], count["left"] + left)
      /\ Resting(t)

LEMMA WorkOn ==
  ASSUME NEW s, IsStroke(s), NEW t, Draws(s, t), AtWork(s)
  PROVE  /\ AtWork(t) /\ IsStroke(t)
         /\ \A side \in Sides : \A count : Contoured(s.border[side], count) => Contoured(t.border[side], count)
<1>1. IsStroke(t)
  BY DEF Draws
<1>2. ASSUME NEW side \in Sides
      PROVE  /\ t.border[side].start = s.border[side].start
             /\ Len(t.border[side].points) >= t.border[side].start + 2
             /\ \A count : Contoured(s.border[side], count) => Contoured(t.border[side], count)
  <2> DEFINE b == s.border[side]
             c == t.border[side]
  <2>1. IsBorder(b) /\ IsBorder(c) /\ Grown(b, c) /\ b.start # NoStart /\ Len(b.points) >= b.start + 2
    BY <1>1 DEF IsStroke, Draws, AtWork, Two
  <2> HIDE DEF b, c
  <2>2. c.start = b.start /\ Len(b.points) <= Len(c.points)
    BY <2>1 DEF Grown
  <2>3. Len(b.points) \in Nat /\ Len(c.points) \in Nat /\ b.start \in Nat
    BY <2>1, Points DEF IsBorder
  <2> DEFINE x == Len(b.points)
             y == Len(c.points)
             z == b.start
  <2>4. x \in Nat /\ y \in Nat /\ z \in Nat /\ x <= y /\ x >= z + 2
    BY <2>1, <2>2, <2>3
  <2> HIDE DEF x, y, z
  <2>5. y >= z + 2
    BY <2>4
  <2>6. Len(c.points) >= c.start + 2
    BY <2>2, <2>5 DEF y, z
  <2>7. \A count : Contoured(b, count) => Contoured(c, count)
    BY <2>1, GrownContoured
  <2> QED BY <2>2, <2>6, <2>7 DEF b, c
<1>3. AtWork(t)
  BY <1>2 DEF AtWork, Two
<1> QED BY <1>1, <1>2, <1>3

\* The end of an open path: a cap, the left border backwards, a cap, and the
\* right border is closed.
IsFinished(t, s) ==
  /\ IsStroke(t) /\ (Exportable(s) => Exportable(t))
  /\ t.pending = s.pending /\ t.success = s.success /\ t.counted = FALSE

LEMMA OpenFinished ==
  ASSUME NEW s, IsStroke(s)
  PROVE  /\ IsFinished(finalize_open_path(s), s)
         /\ AtWork(s) => More(s, finalize_open_path(s), 0)
<1> DEFINE capped == cap_open_path(s, s.in)
           joined == AppendReverse(capped.border["right"], capped.border["left"])
           turned == [capped EXCEPT !.border["right"] = joined.to, !.border["left"] = joined.from,
                                    !.center = s.start]
           done == cap_open_path(turned, s.angle + 4)
           t == finalize_open_path(s)
<1>1. t = [done EXCEPT !.border["right"] = close(@, FALSE), !.counted = FALSE]
  BY Zenon DEF finalize_open_path
<1>2. /\ Draws(s, capped) /\ capped.border["left"] = s.border["left"] /\ capped.angle = s.angle
  BY CapDraws DEF IsStroke
<1> HIDE DEF t, done, capped
<1>3. /\ Grown(capped.border["right"], joined.to) /\ IsBorder(joined.from)
      /\ joined.from.valid => joined.from = capped.border["left"]
      /\ \A count : Contoured(capped.border["left"], count) =>
           Contoured(joined.from, count) /\ Base(joined.from) = Len(joined.from.points)
  <2>1. IsBorder(capped.border["right"]) /\ IsBorder(capped.border["left"])
    BY <1>2 DEF Draws, IsStroke, Sides
  <2> QED BY <2>1, Reversing
<1> HIDE DEF joined
<1>4. /\ DOMAIN turned = Fields /\ turned.in = capped.in /\ turned.out = capped.out
      /\ turned.angle = capped.angle /\ turned.join = capped.join
      /\ DOMAIN turned.border = DOMAIN capped.border
      /\ turned.border["right"] = joined.to /\ turned.border["left"] = joined.from
  BY <1>2 DEF IsStroke, Fields, Draws, Sides
<1>5. \A f \in Kept : turned[f] = capped[f]
  BY <1>2 DEF IsStroke, Fields, Draws, Kept
<1> HIDE DEF turned
<1>6. DOMAIN turned.border = Sides
  BY <1>2, <1>4 DEF Draws, IsStroke
<1>7. IsStroke(turned)
  <2>1. IsBorder(joined.to)
    BY <1>3 DEF Grown
  <2>2. turned.join = capped.join
    BY <1>5 DEF Kept
  <2> QED BY <1>2, <1>3, <1>4, <1>6, <2>1, <2>2 DEF IsStroke, Sides, Draws
<1>8. Draws(turned, done) /\ done.border["left"] = joined.from
  BY <1>4, <1>7, CapDraws DEF done, IsStroke
<1>9. /\ DOMAIN t = Fields /\ t.border = [done.border EXCEPT !["right"] = close(@, FALSE)]
      /\ t.in = done.in /\ t.out = done.out /\ t.angle = done.angle /\ t.join = done.join
      /\ t.counted = FALSE /\ t.pending = done.pending /\ t.success = done.success
  BY <1>1, <1>8 DEF IsStroke, Draws, Fields
<1>10. /\ DOMAIN t.border = Sides /\ t.border["left"] = joined.from
       /\ t.border["right"] = close(done.border["right"], FALSE)
  BY <1>8, <1>9 DEF IsStroke, Draws, Sides
<1>11. IsBorder(done.border["right"]) /\ IsBorder(t.border["right"])
  <2>1. IsBorder(done.border["right"])
    BY <1>8 DEF Draws, IsStroke, Sides
  <2>2. IsBorder(close(done.border["right"], FALSE))
    BY <2>1, CloseBorder
  <2> QED BY <1>10, <2>1, <2>2
<1>12. IsStroke(t)
  BY <1>3, <1>8, <1>9, <1>10, <1>11 DEF IsStroke, Draws, Sides
<1>13. Grown(s.border["right"], done.border["right"]) /\ Grown(s.border["right"], capped.border["right"])
  <2>1. IsBorder(s.border["right"])
    BY DEF IsStroke, Sides
  <2>2. Grown(s.border["right"], capped.border["right"])
    BY <1>2 DEF Draws, Sides
  <2>3. Grown(s.border["right"], joined.to)
    BY <1>3, <2>1, <2>2, GrownOn
  <2>4. Grown(joined.to, done.border["right"])
    BY <1>4, <1>8 DEF Draws, Sides
  <2> QED BY <2>1, <2>2, <2>3, <2>4, GrownOn
<1>14. Exportable(s) => Exportable(t)
  <2> SUFFICES ASSUME Exportable(s), NEW side \in Sides, t.border[side].valid
               PROVE  Balanced(t.border[side])
    BY DEF Exportable
  <2>1. CASE side = "left"
    <3>1. joined.from = s.border["left"] /\ s.border["left"].valid
      BY <1>2, <1>3, <1>10, <2>1
    <3> QED BY <1>10, <2>1, <3>1 DEF Exportable
  <2>2. CASE side = "right"
    <3>1. done.border["right"].valid /\ t.border["right"] = done.border["right"]
      BY <1>10, <1>11, <2>2, CloseBorder
    <3>2. IsBorder(s.border["right"]) /\ (s.border["right"].valid => Balanced(s.border["right"]))
      BY DEF Exportable, IsStroke, Sides
    <3> QED BY <1>13, <2>2, <3>1, <3>2, GrownBalanced
  <2> QED BY <2>1, <2>2 DEF Sides
<1>15. t.pending = s.pending /\ t.success = s.success
  BY <1>2, <1>5, <1>8, <1>9 DEF Draws, Kept
<1>16. AtWork(s) => More(s, t, 0)
  <2> SUFFICES ASSUME AtWork(s), NEW count \in [Sides -> Nat],
                      \A side \in Sides : Contoured(s.border[side], count[side])
               PROVE  /\ Contoured(t.border["right"], count["right"] + 1)
                      /\ Contoured(t.border["left"], count["left"] + 0)
                      /\ Resting(t)
    BY DEF More
  <2>1. count["left"] \in Nat /\ count["right"] \in Nat
    BY DEF Sides
  <2>2. Contoured(joined.from, count["left"]) /\ Base(joined.from) = Len(joined.from.points)
    BY <1>2, <1>3 DEF Sides
  <2>3. /\ done.border["right"].start # NoStart
        /\ Len(done.border["right"].points) >= done.border["right"].start + 2
        /\ Contoured(done.border["right"], count["right"])
    <3> DEFINE b == s.border["right"]
               c == done.border["right"]
    <3>1. IsBorder(b) /\ IsBorder(c) /\ Grown(b, c) /\ b.start # NoStart /\ Len(b.points) >= b.start + 2
          /\ Contoured(b, count["right"])
      BY <1>11, <1>13 DEF IsStroke, AtWork, Two, Sides
    <3> HIDE DEF b, c
    <3>2. c.start = b.start /\ Len(b.points) <= Len(c.points)
      BY <3>1 DEF Grown
    <3>3. Len(b.points) \in Nat /\ Len(c.points) \in Nat /\ b.start \in Nat
      BY <3>1, Points DEF IsBorder
    <3> DEFINE x == Len(b.points)
               y == Len(c.points)
               z == b.start
    <3>4. x \in Nat /\ y \in Nat /\ z \in Nat /\ x <= y /\ x >= z + 2
      BY <3>1, <3>2, <3>3
    <3> HIDE DEF x, y, z
    <3>5. y >= z + 2
      BY <3>4
    <3>6. Len(c.points) >= c.start + 2
      BY <3>2, <3>5 DEF y, z
    <3>7. Contoured(c, count["right"]) /\ c.start # NoStart
      BY <3>1, GrownContoured
    <3> QED BY <3>6, <3>7 DEF c
  <2>4. Contoured(t.border["right"], count["right"] + 1) /\ t.border["right"].start = NoStart
    BY <1>10, <1>11, <2>1, <2>3, CloseContour
  <2>5. Resting(t)
    BY <1>10, <2>2, <2>4 DEF Resting, Base, Sides
  <2>6. count["left"] + 0 = count["left"]
    BY <2>1
  <2> QED BY <1>10, <2>2, <2>4, <2>5, <2>6
<1> QED BY <1>9, <1>12, <1>14, <1>15, <1>16 DEF IsFinished, t

LEMMA CloseKeeps ==
  ASSUME NEW b, IsBorder(b), b.valid => Balanced(b), NEW reversed, close(b, reversed).valid
  PROVE  Balanced(close(b, reversed))
BY CloseBorder, Zenon

\* The end of a closed path: the way back, the corner at the start, and both
\* borders are closed.
LEMMA ClosedFinished ==
  ASSUME NEW s, IsStroke(s)
  PROVE  /\ IsFinished(finalize_closed_path(s), s)
         /\ AtWork(s) => More(s, finalize_closed_path(s), 1)
<1> DEFINE back == IF s.center = s.start THEN s ELSE append_line_segment_candidate(s, s.start)
           r == [back EXCEPT !.out = s.angle]
           turned == process_corner(r, back.startLong)
           t == finalize_closed_path(s)
<1>1. t = [turned EXCEPT !.border["right"] = close(@, FALSE), !.border["left"] = close(@, TRUE),
                         !.counted = FALSE]
  BY Zenon DEF finalize_closed_path
<1>2. Draws(s, back)
  <2>1. CASE s.center = s.start
    BY <2>1, DrawsSelf
  <2>2. CASE s.center # s.start
    BY <2>2, NextLine
  <2> QED BY <2>1, <2>2
<1> HIDE DEF t, back
<1>3. Draws(back, r)
  <2>1. /\ DOMAIN r = Fields /\ r.border = back.border /\ r.in = back.in /\ r.out = s.angle
        /\ r.angle = back.angle /\ \A f \in Kept : r[f] = back[f]
    BY <1>2 DEF IsStroke, Draws, Fields, Kept
  <2>2. IsStroke(back) /\ s.angle \in Int
    BY <1>2 DEF IsStroke, Draws
  <2> HIDE DEF r
  <2>3. r.in \in Int /\ r.out \in Int /\ r.angle \in Int
    BY <2>1, <2>2 DEF IsStroke
  <2> QED BY <2>1, <2>2, <2>3, DrawsSame
<1> HIDE DEF r
<1>4. Draws(s, turned)
  <2>1. Draws(r, turned)
    BY <1>3, CornerDraws DEF Draws
  <2>2. Draws(s, r)
    BY <1>2, <1>3, DrawsOn
  <2> HIDE DEF turned
  <2> QED BY <2>1, <2>2, DrawsOn
<1> HIDE DEF turned
<1>5. /\ DOMAIN t = Fields /\ t.in = turned.in /\ t.out = turned.out /\ t.angle = turned.angle
      /\ t.join = turned.join /\ t.counted = FALSE /\ t.pending = turned.pending
      /\ t.success = turned.success
      /\ DOMAIN t.border = Sides
      /\ t.border["right"] = close(turned.border["right"], FALSE)
      /\ t.border["left"] = close(turned.border["left"], TRUE)
  <2>1. DOMAIN turned = Fields /\ DOMAIN turned.border = Sides
    BY <1>4 DEF Draws, IsStroke
  <2> QED BY <1>1, <2>1 DEF Fields, Sides
<1>6. IsBorder(turned.border["right"]) /\ IsBorder(turned.border["left"])
  BY <1>4 DEF Draws, IsStroke, Sides
<1>7. IsBorder(t.border["right"]) /\ IsBorder(t.border["left"])
  BY <1>5, <1>6, CloseBorder
<1>8. IsStroke(t)
  BY <1>4, <1>5, <1>7 DEF Draws, IsStroke, Sides
<1>9. Exportable(s) => Exportable(t)
  <2> SUFFICES ASSUME Exportable(s) PROVE Exportable(t)
    OBVIOUS
  <2>1. Exportable(turned)
    BY <1>4, DrawsExportable
  <2>2. \A side \in Sides : turned.border[side].valid => Balanced(turned.border[side])
    BY <2>1 DEF Exportable
  <2>3. t.border["right"].valid => Balanced(t.border["right"])
    BY <1>5, <1>6, <2>2, CloseKeeps DEF Sides
  <2>4. t.border["left"].valid => Balanced(t.border["left"])
    BY <1>5, <1>6, <2>2, CloseKeeps DEF Sides
  <2> QED BY <2>3, <2>4 DEF Exportable, Sides
<1>10. t.pending = s.pending /\ t.success = s.success
  BY <1>4, <1>5 DEF Draws, Kept
<1>11. AtWork(s) => More(s, t, 1)
  <2> SUFFICES ASSUME AtWork(s), NEW count \in [Sides -> Nat],
                      \A side \in Sides : Contoured(s.border[side], count[side])
               PROVE  /\ Contoured(t.border["right"], count["right"] + 1)
                      /\ Contoured(t.border["left"], count["left"] + 1)
                      /\ Resting(t)
    BY DEF More
  <2>1. AtWork(turned) /\ \A side \in Sides : Contoured(turned.border[side], count[side])
    BY <1>4, WorkOn
  <2>2. ASSUME NEW side \in Sides, NEW reversed
        PROVE  LET c == close(turned.border[side], reversed)
               IN c.start = NoStart /\ Contoured(c, count[side] + 1)
    <3>1. /\ IsBorder(turned.border[side]) /\ turned.border[side].start # NoStart
          /\ Len(turned.border[side].points) >= turned.border[side].start + 2
          /\ count[side] \in Nat /\ Contoured(turned.border[side], count[side])
      BY <1>6, <2>1 DEF AtWork, Two, Sides
    <3> QED BY <3>1, CloseContour
  <2>3. /\ t.border["right"].start = NoStart /\ Contoured(t.border["right"], count["right"] + 1)
        /\ t.border["left"].start = NoStart /\ Contoured(t.border["left"], count["left"] + 1)
    BY <1>5, <2>2 DEF Sides
  <2> QED BY <2>3 DEF Resting, Base, Sides
<1> QED BY <1>5, <1>8, <1>9, <1>10, <1>11 DEF IsFinished, t

\* The ways a sub-path ends.
IsPublished(t, s) == \E left, right : t = Published(s, left, right)
IsAnnounced(t, s) == t = [s EXCEPT !.success = FALSE, !.counted = TRUE]
EndsAs(t, s, short) ==
  \/ s.first /\ t = s
  \/ short /\ (IsOpenLine(s) \/ ~s.success) /\ IsPublished(t, s)
  \/ short /\ s.success /\ IsAnnounced(t, s)
  \/ ~s.first /\ ~(short /\ IsShortcut(s)) /\ s.open /\ t = finalize_open_path(s)
  \/ ~s.first /\ ~(short /\ IsShortcut(s)) /\ ~s.open /\ t = finalize_closed_path(s)

LEMMA Ending ==
  ASSUME NEW s, NEW short \in BOOLEAN
  PROVE  LET t == EndSubPath(s, short) IN
         /\ EndsAs(t, s, short)
         /\ s.first /\ ~s.open => t = s
         /\ (~s.first /\ ~(short /\ IsShortcut(s))) =>
              t = IF s.open THEN finalize_open_path(s) ELSE finalize_closed_path(s)
<1> DEFINE t == EndSubPath(s, short)
<1>1. CASE s.first /\ ~s.open
  <2>1. t = s
    BY <1>1, Zenon DEF EndSubPath
  <2> QED BY <1>1, <2>1 DEF EndsAs
<1> DEFINE Open == IsOpenLine(s)
<1>2. CASE ~(s.first /\ ~s.open) /\ short /\ Open
  <2>1. t = finalize_open_single_line(s)
    BY <1>2 DEF EndSubPath, IsOpenLine, IsClosedLine, IsRightAngle, IsShortcut
  <2>2. IsPublished(t, s)
    BY <2>1 DEF finalize_open_single_line, IsPublished
  <2>3. IsShortcut(s)
    BY <1>2 DEF IsShortcut
  <2> HIDE DEF t
  <2>4. EndsAs(t, s, short)
    BY <1>2, <2>2 DEF EndsAs
  <2> QED BY <1>2, <2>3, <2>4 DEF t
<1>3. CASE ~(s.first /\ ~s.open) /\ short /\ ~Open /\ s.success
  <2>1. t = [s EXCEPT !.success = FALSE, !.counted = TRUE]
    BY <1>3 DEF EndSubPath, IsShortcut
  <2>2. IsAnnounced(t, s)
    BY <2>1 DEF IsAnnounced
  <2>3. IsShortcut(s)
    BY <1>3 DEF IsShortcut
  <2> HIDE DEF t
  <2>4. EndsAs(t, s, short)
    BY <1>3, <2>2 DEF EndsAs
  <2> QED BY <1>3, <2>3, <2>4 DEF t
<1>4. CASE ~s.first /\ ~(short /\ IsShortcut(s))
  <2>1. t = IF s.open THEN finalize_open_path(s) ELSE finalize_closed_path(s)
    BY <1>4 DEF EndSubPath, IsShortcut
  <2> HIDE DEF t
  <2>2. EndsAs(t, s, short)
    BY <1>4, <2>1 DEF EndsAs
  <2> QED BY <1>4, <2>1, <2>2 DEF t
<1>5. CASE ~s.first /\ short /\ ~Open /\ ~s.success /\ IsShortcut(s)
  <2>1. ~s.open /\ (IsClosedLine(s) \/ IsRightAngle(s))
    BY <1>5 DEF IsShortcut
  <2>2. IsPublished(t, s)
    <3>1. CASE IsClosedLine(s)
      <4>1. ~IsRightAngle(s)
        BY <3>1 DEF IsClosedLine, IsRightAngle
      <4>2. t = finalize_closed_single_horizontal_line(s)
        BY <1>5, <2>1, <3>1, <4>1 DEF EndSubPath
      <4> QED BY <4>2 DEF finalize_closed_single_horizontal_line, IsPublished
    <3>2. CASE ~IsClosedLine(s)
      <4>1. t = finalize_closed_two_line_right_angle(s)
        BY <1>5, <2>1, <3>2 DEF EndSubPath
      <4> QED BY <4>1 DEF finalize_closed_two_line_right_angle, IsPublished
    <3> QED BY <3>1, <3>2
  <2> HIDE DEF t
  <2>3. EndsAs(t, s, short)
    BY <1>5, <2>2 DEF EndsAs
  <2> QED BY <1>5, <2>3 DEF t
<1>6. CASE s.first /\ s.open /\ ~(short /\ (Open \/ s.success))
  <2>1. t = s
    BY <1>6 DEF EndSubPath
  <2> QED BY <1>6, <2>1 DEF EndsAs
<1> QED BY <1>1, <1>2, <1>3, <1>4, <1>5, <1>6

LEMMA PublishedKeeps ==
  ASSUME NEW s, IsStroke(s), NEW t, IsPublished(t, s) \/ IsAnnounced(t, s)
  PROVE  /\ IsStroke(t) /\ t.border = s.border
         /\ IsPublished(t, s) => t.outline = t.published /\ t.success = s.success
         /\ IsAnnounced(t, s) => t.outline = s.outline /\ t.published = s.published /\ t.success = FALSE
<1>1. CASE IsPublished(t, s)
  <2>1. PICK left, right : t = Published(s, left, right)
    BY <1>1 DEF IsPublished
  <2> DEFINE sizes == [side \in Sides |-> IF side = "left" THEN left ELSE right]
  <2>2. t = [s EXCEPT !.published = sizes, !.outline = sizes, !.counted = TRUE]
    BY <2>1, Zenon DEF Published
  <2> HIDE DEF sizes
  <2>3. /\ DOMAIN t = Fields /\ t.border = s.border /\ t.in = s.in /\ t.out = s.out
        /\ t.angle = s.angle /\ t.join = s.join /\ t.outline = t.published /\ t.success = s.success
    BY <2>2 DEF IsStroke, Fields
  <2>4. IsStroke(t)
    BY <2>3 DEF IsStroke
  <2>5. IsAnnounced(t, s) => t.outline = s.outline /\ t.published = s.published /\ t.success = FALSE
    BY DEF IsAnnounced, IsStroke, Fields
  <2> QED BY <2>3, <2>4, <2>5
<1>2. CASE ~IsPublished(t, s)
  <2>1. t = [s EXCEPT !.success = FALSE, !.counted = TRUE]
    BY <1>2 DEF IsAnnounced
  <2>2. /\ DOMAIN t = Fields /\ t.border = s.border /\ t.in = s.in /\ t.out = s.out
        /\ t.angle = s.angle /\ t.join = s.join /\ t.outline = s.outline
        /\ t.published = s.published /\ t.success = FALSE
    BY <2>1 DEF IsStroke, Fields
  <2>3. IsStroke(t)
    BY <2>2 DEF IsStroke
  <2> QED BY <1>2, <2>2, <2>3
<1> QED BY <1>1, <1>2

LEMMA SubPathEnded ==
  ASSUME NEW s, IsStroke(s), NEW short \in BOOLEAN
  PROVE  LET t == EndSubPath(s, short) IN
         /\ IsStroke(t) /\ (Exportable(s) => Exportable(t))
         /\ Agreed(s) /\ short /\ ~(s.first /\ s.open) => Agreed(t) /\ ~t.success
         /\ s.first /\ ~s.open => t = s
         /\ (~s.first /\ ~(short /\ IsShortcut(s))) =>
              /\ t.pending = s.pending /\ t.success = s.success
              /\ AtWork(s) => More(s, t, IF s.open THEN 0 ELSE 1)
<1> DEFINE t == EndSubPath(s, short)
<1>1. EndsAs(t, s, short) /\ (s.first /\ ~s.open => t = s)
  BY Ending
<1>2. (~s.first /\ ~(short /\ IsShortcut(s))) =>
         t = IF s.open THEN finalize_open_path(s) ELSE finalize_closed_path(s)
  BY Ending
<1> HIDE DEF t
<1>3. t = finalize_open_path(s) => IsFinished(t, s) /\ (AtWork(s) => More(s, t, 0))
  BY OpenFinished
<1>4. t = finalize_closed_path(s) => IsFinished(t, s) /\ (AtWork(s) => More(s, t, 1))
  BY ClosedFinished
<1>5. CASE s.first /\ t = s
  <2>1. Agreed(s) => ~s.success
    BY <1>5 DEF Agreed
  <2> QED BY <1>5, <2>1 DEF t
<1>6. CASE short /\ (((IsOpenLine(s) \/ ~s.success) /\ IsPublished(t, s)) \/ (s.success /\ IsAnnounced(t, s)))
  <2>1. /\ IsStroke(t) /\ t.border = s.border
        /\ IsPublished(t, s) => t.outline = t.published /\ t.success = s.success
        /\ IsAnnounced(t, s) => t.outline = s.outline /\ t.published = s.published /\ t.success = FALSE
    BY <1>6, PublishedKeeps
  <2>2. Exportable(s) => Exportable(t)
    BY <2>1 DEF Exportable
  <2>3. Agreed(s) => Agreed(t) /\ ~t.success
    <3> SUFFICES ASSUME Agreed(s) PROVE Agreed(t) /\ ~t.success
      OBVIOUS
    <3>1. CASE s.success /\ IsAnnounced(t, s)
      BY <2>1, <3>1 DEF Agreed
    <3>2. CASE ~(s.success /\ IsAnnounced(t, s))
      <4>1. t.outline = t.published /\ t.success = s.success
        BY <1>6, <2>1, <3>2
      <4>2. ~s.success
        BY <1>6, <3>2 DEF Agreed, IsOpenLine
      <4> QED BY <4>1, <4>2 DEF Agreed
    <3> QED BY <3>1, <3>2
  <2> QED BY <1>1, <1>2, <1>3, <1>4, <2>1, <2>2, <2>3 DEF t, IsFinished
<1>7. CASE ~s.first /\ ~(short /\ IsShortcut(s))
  <2>1. IsFinished(t, s) /\ (AtWork(s) => More(s, t, IF s.open THEN 0 ELSE 1))
    BY <1>2, <1>3, <1>4, <1>7
  <2>2. Agreed(s) /\ short => Agreed(t) /\ ~t.success
    <3>1. short => ~s.success
      BY <1>7 DEF IsShortcut
    <3> QED BY <2>1, <3>1 DEF IsFinished, Agreed
  <2> QED BY <1>7, <2>1, <2>2 DEF t, IsFinished
<1> QED BY <1>1, <1>5, <1>6, <1>7 DEF EndsAs

-----------------------------------------------------------------------------
(* The invariant.                                                          *)

PathFields == {"ended", "real", "shadow", "drawing", "orderly", "direct", "continued", "skipped",
               "promised"}

\* The stroker is well formed, and so is its shadow, which is drawing where the
\* stroker is.
PathInv(x) ==
  /\ DOMAIN x = PathFields /\ IsStroke(x.real) /\ IsStroke(x.shadow)
  /\ x.promised \in [Sides -> Nat]
  /\ Exportable(x.real)
  /\ x.drawing => /\ x.real.first <=> x.shadow.first
                  /\ x.real.open = x.shadow.open /\ x.real.center = x.shadow.center

\* Between sub-paths nothing is stored that was not announced.
AgreedInv(x) == x.orderly => Agreed(x.real) /\ (x.real.success => x.drawing)

\* Without shortcuts each border has the contours that were promised, and
\* below them either nothing or a sub-path that is being drawn.
CountedInv(x) ==
  x.orderly /\ x.direct =>
    /\ x.real.pending = NoPath /\ ~x.real.success
    /\ \A side \in Sides : Contoured(x.real.border[side], x.promised[OtherSide(side)])
    /\ ~x.drawing \/ x.real.first => Resting(x.real)
    /\ x.drawing /\ ~x.real.first => AtWork(x.real)

StrokerInv(x) == PathInv(x) /\ AgreedInv(x) /\ CountedInv(x)

LEMMA RewoundInv ==
  ASSUME NEW a, a.join \in Joins
  PROVE  StrokerInv(Rewound(Fresh(a)))
<1> DEFINE s == Fresh(a)
           x == Rewound(s)
<1>1. IsFresh(s) /\ s.first = FALSE
  BY FreshMade
<1> HIDE DEF s
<1>2. Exportable(s) /\ Resting(s) /\ \A side \in Sides : Contoured(s.border[side], 0)
  BY <1>1, FreshRests
<1>3. /\ DOMAIN x = PathFields /\ x.real = s /\ x.shadow = s /\ x.drawing = FALSE
      /\ x.promised = [side \in Sides |-> 0]
  BY DEF Rewound, PathFields
<1> HIDE DEF x
<1>4. PathInv(x)
  BY <1>1, <1>2, <1>3 DEF PathInv, IsFresh
<1>5. AgreedInv(x)
  BY <1>1, <1>3 DEF AgreedInv, Agreed, IsFresh
<1>6. \A side \in Sides : x.promised[OtherSide(side)] = 0
  BY <1>3 DEF Sides, OtherSide
<1>7. CountedInv(x)
  BY <1>1, <1>2, <1>3, <1>6 DEF CountedInv, IsFresh
<1> QED BY <1>4, <1>5, <1>7 DEF StrokerInv, x, s

LEMMA BeginInv ==
  ASSUME NEW x, StrokerInv(x), NEW to, NEW open
  PROVE  StrokerInv(FT_Stroker_BeginSubPath(x, to, open))
<1> DEFINE y == FT_Stroker_BeginSubPath(x, to, open)
           s == x.real
           t == BeginSubPath(s, to, open)
           u == BeginSubPath(x.shadow, to, open)
<1>1. /\ DOMAIN x = PathFields /\ IsStroke(s) /\ IsStroke(x.shadow)
      /\ x.promised \in [Sides -> Nat] /\ Exportable(s)
  BY DEF StrokerInv, PathInv
<1>2. y = [x EXCEPT !.real = t, !.shadow = u, !.drawing = TRUE, !.orderly = x.orderly /\ ~x.drawing]
  BY Zenon DEF FT_Stroker_BeginSubPath
<1>3. IsBegun(t, s, to, open) /\ IsBegun(u, x.shadow, to, open)
  BY <1>1, Beginning
<1> HIDE DEF y, t, u
<1>4. /\ IsStroke(t) /\ t.border = s.border /\ t.first = TRUE /\ t.open = open /\ t.center = to
      /\ t.success = s.success /\ t.pending = s.pending /\ t.counted = s.counted
      /\ t.outline = s.outline /\ t.published = s.published
      /\ IsStroke(u) /\ u.first = TRUE /\ u.open = open /\ u.center = to
  BY <1>3 DEF IsBegun
<1>5. /\ DOMAIN y = PathFields /\ y.real = t /\ y.shadow = u /\ y.drawing = TRUE
      /\ y.orderly = (x.orderly /\ ~x.drawing) /\ y.direct = x.direct /\ y.promised = x.promised
  BY <1>1, <1>2 DEF PathFields
<1>6. Exportable(t)
  BY <1>1, <1>4 DEF Exportable
<1>7. PathInv(y)
  BY <1>1, <1>4, <1>5, <1>6 DEF PathInv
<1>8. AgreedInv(y)
  BY <1>4, <1>5 DEF AgreedInv, Agreed, StrokerInv
<1>9. CountedInv(y)
  BY <1>4, <1>5 DEF CountedInv, StrokerInv, Resting
<1> QED BY <1>7, <1>8, <1>9 DEF StrokerInv, y

\* A segment that goes on from the shadow's place goes on from the stroker's.
LEMMA SegmentInv ==
  ASSUME NEW x, StrokerInv(x), x.drawing, NEW to, NEW y, DOMAIN y = PathFields,
         Segment(x.real, y.real, to), Segment(x.shadow, y.shadow, to),
         y.drawing = x.drawing, y.promised = x.promised, y.orderly => x.orderly,
         y.direct => x.direct /\ (x.real.pending = NoPath => Goes(x.real, y.real))
  PROVE  StrokerInv(y)
<1> DEFINE s == x.real
           t == y.real
<1>1. PathInv(y)
  BY DEF StrokerInv, PathInv, Segment
<1>2. AgreedInv(y)
  BY DEF StrokerInv, AgreedInv, Segment
<1>3. CountedInv(y)
  <2> SUFFICES ASSUME y.orderly, y.direct PROVE CountedInv(y)
    BY DEF CountedInv
  <2>1. /\ s.pending = NoPath /\ ~s.success
        /\ \A side \in Sides : Contoured(s.border[side], x.promised[OtherSide(side)])
        /\ s.first => Resting(s)
        /\ ~s.first => AtWork(s)
    BY DEF StrokerInv, CountedInv
  <2>2. Goes(s, t) /\ IsStroke(s) /\ IsStroke(t) /\ t.first = FALSE
    BY <2>1 DEF Segment, StrokerInv, PathInv
  <2>3. t.pending = NoPath /\ ~t.success
    BY <2>1, <2>2 DEF Goes
  <2>4. (\A side \in Sides : Contoured(t.border[side], x.promised[OtherSide(side)])) /\ AtWork(t)
    <3>1. CASE s.first
      <4>1. Two(t) /\ \A side \in Sides : Begun(s.border[side], t.border[side])
        BY <2>2, <3>1 DEF Goes
      <4> QED BY <2>1, <3>1, <4>1 DEF Begun, AtWork, Resting
    <3>2. CASE ~s.first
      <4> DEFINE v == [s EXCEPT !.border = t.border]
      <4>1. DOMAIN v = Fields /\ v.border = t.border /\ v.in = s.in /\ v.out = s.out /\ v.angle = s.angle
            /\ v.join = s.join /\ \A f \in Kept : v[f] = s[f]
        BY <2>2 DEF IsStroke, Fields, Kept
      <4> HIDE DEF v
      <4>2. Draws(s, v)
        BY <2>2, <3>2, <4>1 DEF Draws, Goes, IsStroke
      <4>3. AtWork(v) /\ \A side \in Sides : \A count : Contoured(s.border[side], count) => Contoured(v.border[side], count)
        BY <2>1, <2>2, <3>2, <4>2, WorkOn
      <4> QED BY <2>1, <4>1, <4>3 DEF AtWork, Two
    <3> QED BY <3>1, <3>2
  <2> QED BY <2>2, <2>3, <2>4 DEF CountedInv
<1> QED BY <1>1, <1>2, <1>3 DEF StrokerInv

LEMMA LineInv ==
  ASSUME NEW x, StrokerInv(x), x.drawing, NEW to
  PROVE  StrokerInv(FT_Stroker_LineTo(x, to))
<1> DEFINE y == FT_Stroker_LineTo(x, to)
           s == x.real
           t == LineTo(s, to)
           u == LineTo(x.shadow, to)
<1>1. DOMAIN x = PathFields /\ IsStroke(s) /\ IsStroke(x.shadow) /\ s.center = x.shadow.center
  BY DEF StrokerInv, PathInv
<1>2. y = [x EXCEPT !.continued = Continues(x), !.real = t, !.shadow = u, !.orderly = x.orderly /\ x.drawing]
  BY Zenon DEF FT_Stroker_LineTo
<1>3. /\ to = s.center => t = s
      /\ to # s.center => Segment(s, t, to) /\ (s.pending = NoPath => Goes(s, t))
  BY <1>1, Lines
<1>4. /\ to = x.shadow.center => u = x.shadow
      /\ to # x.shadow.center => Segment(x.shadow, u, to)
  BY <1>1, Lines
<1> HIDE DEF y, t, u
<1>5. /\ DOMAIN y = PathFields /\ y.real = t /\ y.shadow = u /\ y.drawing = x.drawing
      /\ y.orderly = (x.orderly /\ x.drawing) /\ y.direct = x.direct /\ y.promised = x.promised
  BY <1>1, <1>2 DEF PathFields
<1>6. CASE to = s.center
  <2>1. y.real = x.real /\ y.shadow = x.shadow
    BY <1>1, <1>3, <1>4, <1>5, <1>6
  <2> HIDE DEF s
  <2>2. PathInv(y) /\ AgreedInv(y) /\ CountedInv(y)
    BY <1>5, <2>1 DEF StrokerInv, PathInv, AgreedInv, CountedInv
  <2> QED BY <2>2 DEF StrokerInv, y
<1>7. CASE to # s.center
  <2>1. Segment(x.real, y.real, to) /\ Segment(x.shadow, y.shadow, to)
    BY <1>1, <1>3, <1>4, <1>5, <1>7
  <2>2. x.real.pending = NoPath => Goes(x.real, y.real)
    BY <1>3, <1>5, <1>7
  <2>3. StrokerInv(y)
    BY <1>5, <2>1, <2>2, SegmentInv
  <2> QED BY <2>3 DEF y
<1> QED BY <1>6, <1>7

LEMMA CurveInv ==
  ASSUME NEW x, StrokerInv(x), x.drawing, NEW points
  PROVE  StrokerInv(FT_Stroker_CurveTo(x, points))
<1> DEFINE y == FT_Stroker_CurveTo(x, points)
           s == x.real
           t == CurveTo(s, points, TRUE)
           u == CurveTo(x.shadow, points, FALSE)
           stored == IsStored(Replayed(s), points)
<1>1. DOMAIN x = PathFields /\ IsStroke(s) /\ IsStroke(x.shadow) /\ s.center = x.shadow.center
  BY DEF StrokerInv, PathInv
<1>2. y = [x EXCEPT !.continued = Continues(x), !.real = t, !.shadow = u,
                    !.orderly = x.orderly /\ x.drawing, !.direct = x.direct /\ ~stored]
  BY Zenon DEF FT_Stroker_CurveTo
<1>3. /\ ToSet(points) = {s.center} => t = Curved(s)
      /\ ToSet(points) # {s.center} =>
              /\ Segment(s, t, Last(points))
              /\ (s.pending = NoPath /\ ~IsStored(s, points)) => Goes(s, t)
  BY <1>1, CurvesDrawn
<1>4. /\ ToSet(points) = {x.shadow.center} => u = Curved(x.shadow)
      /\ ToSet(points) # {x.shadow.center} => Segment(x.shadow, u, Last(points))
  BY <1>1, CurvesDrawn
<1>5. s.pending = NoPath => Replayed(s) = s
  BY Zenon DEF Replayed
<1>6. (s.pending = NoPath /\ ~stored) => ~IsStored(s, points)
  BY <1>5
<1> HIDE DEF y, t, u, stored
<1>7. /\ DOMAIN y = PathFields /\ y.real = t /\ y.shadow = u /\ y.drawing = x.drawing
      /\ y.orderly = (x.orderly /\ x.drawing) /\ y.direct = (x.direct /\ ~stored)
      /\ y.promised = x.promised
  BY <1>1, <1>2 DEF PathFields
<1>8. CASE ToSet(points) = {s.center}
  <2>1. t = Curved(s) /\ u = Curved(x.shadow)
    BY <1>1, <1>3, <1>4, <1>8
  <2>2. /\ IsStroke(t) /\ (Exportable(s) => Exportable(t)) /\ (Agreed(s) => Agreed(t))
        /\ \A f \in Fields \ {"single"} : t[f] = s[f]
    BY <1>1, <2>1, CurvedKeeps
  <2>3. IsStroke(u) /\ \A f \in Fields \ {"single"} : u[f] = x.shadow[f]
    BY <1>1, <2>1, CurvedKeeps
  <2>4. /\ t.border = s.border /\ t.first = s.first /\ t.open = s.open /\ t.center = s.center
        /\ t.pending = s.pending /\ t.success = s.success
        /\ u.first = x.shadow.first /\ u.open = x.shadow.open /\ u.center = x.shadow.center
    BY <2>2, <2>3 DEF Fields
  <2>5. PathInv(y)
    BY <1>7, <2>2, <2>3, <2>4 DEF StrokerInv, PathInv
  <2>6. AgreedInv(y)
    BY <1>7, <2>2, <2>4 DEF StrokerInv, AgreedInv
  <2>7. CountedInv(y)
    BY <1>7, <2>4 DEF StrokerInv, CountedInv, Resting, AtWork, Two
  <2> QED BY <2>5, <2>6, <2>7 DEF StrokerInv, y
<1>9. CASE ToSet(points) # {s.center}
  <2>1. Segment(x.real, y.real, Last(points)) /\ Segment(x.shadow, y.shadow, Last(points))
    BY <1>1, <1>3, <1>4, <1>7, <1>9
  <2>2. y.direct => x.direct /\ (x.real.pending = NoPath => Goes(x.real, y.real))
    BY <1>3, <1>6, <1>7, <1>9
  <2>3. StrokerInv(y)
    BY <1>7, <2>1, <2>2, SegmentInv
  <2> QED BY <2>3 DEF y
<1> QED BY <1>8, <1>9

\* The end of a sub-path: what is promised of the borders is what they get.
LEMMA EndInv ==
  ASSUME NEW x, StrokerInv(x), x.drawing
  PROVE  StrokerInv(FT_Stroker_EndSubPath(x))
<1> DEFINE drawn == x.drawing /\ ~x.shadow.first
           y == FT_Stroker_EndSubPath(x)
           s == x.real
           t == EndSubPath(s, TRUE)
           u == EndSubPath(x.shadow, FALSE)
           promised == [side \in Sides |->
              IF drawn /\ (side = "left" \/ ~x.shadow.open) THEN x.promised[side] + 1 ELSE x.promised[side]]
           short == IsShortcut(s)
<1>1. /\ DOMAIN x = PathFields /\ IsStroke(s) /\ IsStroke(x.shadow) /\ x.promised \in [Sides -> Nat]
      /\ Exportable(s) /\ (s.first <=> x.shadow.first) /\ s.open = x.shadow.open
  BY DEF StrokerInv, PathInv
<1>2. \E ended, skipped :
        y = [x EXCEPT !.real = t, !.shadow = u, !.drawing = FALSE, !.direct = x.direct /\ ~short, !.skipped = skipped,
                      !.orderly = x.orderly /\ x.drawing /\ (x.shadow.first => ~x.shadow.open),
                      !.ended = ended, !.promised = promised]
  <2>1. y = [x EXCEPT !.real = t, !.shadow = u, !.drawing = FALSE, !.direct = x.direct /\ ~short,
                      !.skipped = x.skipped \/ Skips(x),
                      !.orderly = x.orderly /\ x.drawing /\ (x.shadow.first => ~x.shadow.open),
                      !.ended = IF drawn THEN x.ended + 1 ELSE x.ended, !.promised = promised]
    BY Zenon DEF FT_Stroker_EndSubPath
  <2> QED BY <2>1, Zenon
<1>3. /\ IsStroke(t) /\ (Exportable(s) => Exportable(t))
      /\ Agreed(s) /\ ~(s.first /\ s.open) => Agreed(t) /\ ~t.success
      /\ s.first /\ ~s.open => t = s
      /\ (~s.first /\ ~short) => /\ t.pending = s.pending /\ t.success = s.success
                                 /\ AtWork(s) => More(s, t, IF s.open THEN 0 ELSE 1)
  BY <1>1, SubPathEnded
<1>4. IsStroke(u)
  BY <1>1, SubPathEnded
<1> HIDE DEF y, t, u, short
<1>5. promised \in [Sides -> Nat]
  BY <1>1
<1> HIDE DEF promised
<1>6. /\ DOMAIN y = PathFields /\ y.real = t /\ y.shadow = u /\ y.drawing = FALSE
      /\ y.direct = (x.direct /\ ~short)
      /\ y.orderly = (x.orderly /\ x.drawing /\ (x.shadow.first => ~x.shadow.open))
      /\ y.promised = promised
  BY <1>1, <1>2 DEF PathFields
<1>7. PathInv(y)
  BY <1>1, <1>3, <1>4, <1>5, <1>6 DEF PathInv
<1>8. AgreedInv(y)
  BY <1>1, <1>3, <1>6 DEF StrokerInv, AgreedInv
<1>9. CountedInv(y)
  <2> SUFFICES ASSUME x.orderly, x.direct, ~short, s.first => ~s.open
               PROVE  /\ t.pending = NoPath /\ ~t.success /\ Resting(t)
                      /\ \A side \in Sides : Contoured(t.border[side], promised[OtherSide(side)])
    BY <1>1, <1>6 DEF CountedInv
  <2>1. /\ s.pending = NoPath /\ ~s.success
        /\ \A side \in Sides : Contoured(s.border[side], x.promised[OtherSide(side)])
        /\ s.first => Resting(s)
        /\ ~s.first => AtWork(s)
    BY DEF StrokerInv, CountedInv
  <2>2. CASE s.first
    <3>1. t = s
      BY <1>3, <2>2
    <3>2. promised = x.promised
      BY <1>1, <2>2 DEF promised
    <3> QED BY <2>1, <2>2, <3>1, <3>2
  <2>3. CASE ~s.first
    <3> DEFINE count == [side \in Sides |-> x.promised[OtherSide(side)]]
               left == IF s.open THEN 0 ELSE 1
    <3>1. More(s, t, left) /\ t.pending = NoPath /\ ~t.success
      BY <1>3, <2>1, <2>3
    <3>2. count \in [Sides -> Nat] /\ \A side \in Sides : Contoured(s.border[side], count[side])
      BY <1>1, <2>1 DEF Sides, OtherSide
    <3>3. count["right"] = x.promised["left"] /\ count["left"] = x.promised["right"]
      BY DEF Sides, OtherSide
    <3> HIDE DEF count
    <3>4. /\ Contoured(t.border["right"], count["right"] + 1)
          /\ Contoured(t.border["left"], count["left"] + left)
          /\ Resting(t)
      BY <3>1, <3>2 DEF More
    <3>5. /\ promised["left"] = count["right"] + 1
          /\ promised["right"] = count["left"] + left
      BY <1>1, <2>3, <3>3 DEF promised, Sides
    <3>6. OtherSide("left") = "right" /\ OtherSide("right") = "left"
      BY DEF OtherSide
    <3> QED BY <3>1, <3>4, <3>5, <3>6 DEF Sides
  <2> QED BY <2>2, <2>3
<1> QED BY <1>7, <1>8, <1>9 DEF StrokerInv, y

\* Counting a border only says whether it is in order.
LEMMA CountedBorder ==
  ASSUME NEW b, IsBorder(b)
  PROVE  LET c == Counted(b) IN
         /\ IsBorder(c) /\ c.points = b.points /\ c.start = b.start
         /\ Balanced(c) <=> Balanced(b)
         /\ c.valid => Balanced(c)
         /\ Base(c) = Base(b)
         /\ \A count : Contoured(b, count) => Contoured(c, count)
<1> DEFINE c == Counted(b)
<1>1. c = [b EXCEPT !.valid = Balanced(b)]
  BY DEF Counted
<1>2. DOMAIN c = DOMAIN b /\ c.points = b.points /\ c.start = b.start /\ c.valid = Balanced(b)
  BY <1>1 DEF IsBorder
<1> HIDE DEF c
<1>3. IsBorder(c)
  BY <1>2 DEF IsBorder
<1>4. Balanced(c) <=> Balanced(b)
  BY <1>2 DEF Balanced
<1>5. Base(c) = Base(b) /\ Ends(c) = Ends(b)
  BY <1>2 DEF Base, Ends
<1>6. \A count : Contoured(b, count) => Contoured(c, count)
  BY <1>2, <1>5 DEF Contoured, Whole, Begins, Finishes
<1> QED BY <1>2, <1>3, <1>4, <1>5, <1>6 DEF c

LEMMA CountInv ==
  ASSUME NEW x, StrokerInv(x), NEW side \in Sides
  PROVE  StrokerInv([x EXCEPT !.real.border[side] = Counted(@)])
<1> DEFINE s == x.real
           c == Counted(s.border[side])
           t == [s EXCEPT !.border = [s.border EXCEPT ![side] = c]]
           y == [x EXCEPT !.real.border[side] = Counted(@)]
<1>1. DOMAIN x = PathFields /\ IsStroke(s) /\ IsStroke(x.shadow)
  BY DEF StrokerInv, PathInv
<1>2. y = [x EXCEPT !.real = t]
  BY Zenon
<1>3. /\ IsBorder(c) /\ c.points = s.border[side].points /\ c.start = s.border[side].start
      /\ c.valid => Balanced(c)
      /\ Base(c) = Base(s.border[side])
      /\ \A count : Contoured(s.border[side], count) => Contoured(c, count)
  BY <1>1, CountedBorder DEF IsStroke
<1> HIDE DEF c, y
<1>4. /\ DOMAIN t = Fields /\ DOMAIN t.border = Sides /\ t.border[side] = c
      /\ \A z \in Sides : z # side => t.border[z] = s.border[z]
      /\ \A f \in Fields \ {"border"} : t[f] = s[f]
  BY <1>1 DEF IsStroke, Fields
<1> HIDE DEF t
<1>5. /\ t.in = s.in /\ t.out = s.out /\ t.angle = s.angle /\ t.join = s.join
      /\ t.first = s.first /\ t.open = s.open /\ t.center = s.center /\ t.pending = s.pending
      /\ t.success = s.success /\ t.counted = s.counted /\ t.outline = s.outline
      /\ t.published = s.published /\ t.single = s.single
  BY <1>4 DEF Fields
<1>6. IsStroke(t)
  BY <1>1, <1>3, <1>4, <1>5 DEF IsStroke
<1>7. /\ DOMAIN y = PathFields /\ y.real = t /\ y.shadow = x.shadow /\ y.drawing = x.drawing
      /\ y.orderly = x.orderly /\ y.direct = x.direct /\ y.promised = x.promised
  BY <1>1, <1>2 DEF PathFields
<1>8. \A z \in Sides :
        /\ t.border[z].points = s.border[z].points /\ t.border[z].start = s.border[z].start
        /\ Base(t.border[z]) = Base(s.border[z])
        /\ \A count : Contoured(s.border[z], count) => Contoured(t.border[z], count)
  BY <1>3, <1>4
<1>9. Exportable(s) => Exportable(t)
  BY <1>3, <1>4 DEF Exportable
<1>10. PathInv(y)
  BY <1>1, <1>5, <1>6, <1>7, <1>9 DEF StrokerInv, PathInv
<1>11. AgreedInv(y)
  BY <1>5, <1>7 DEF StrokerInv, AgreedInv, Agreed
<1>12. CountedInv(y)
  <2>1. (Resting(s) => Resting(t)) /\ (AtWork(s) => AtWork(t))
    BY <1>8 DEF Resting, AtWork, Two
  <2> QED BY <1>5, <1>7, <1>8, <2>1 DEF StrokerInv, CountedInv
<1> QED BY <1>10, <1>11, <1>12 DEF StrokerInv, y

LEMMA CountsInv ==
  ASSUME NEW x, StrokerInv(x)
  PROVE  /\ \A side \in Sides : StrokerInv(FT_Stroker_GetBorderCounts(x, side))
         /\ StrokerInv(FT_Stroker_GetCounts(x))
<1>1. \A side \in Sides : StrokerInv([x EXCEPT !.real.border[side] = Counted(@)])
  BY CountInv
<1>2. ASSUME NEW side \in Sides PROVE StrokerInv(FT_Stroker_GetBorderCounts(x, side))
  <2>1. OtherSide(side) \in Sides
    BY DEF OtherSide, Sides
  <2> QED BY <1>1, <2>1 DEF FT_Stroker_GetBorderCounts
<1>3. StrokerInv(FT_Stroker_GetCounts(x))
  <2> DEFINE one == [x EXCEPT !.real.border["left"] = Counted(@)]
             both == [one EXCEPT !.real.border["right"] = Counted(@)]
  <2>1. StrokerInv(one)
    BY <1>1 DEF Sides
  <2> HIDE DEF one
  <2>2. StrokerInv(both)
    BY <2>1, CountInv DEF Sides
  <2> HIDE DEF both
  <2>3. FT_Stroker_GetCounts(x) \in {x, one, both}
    BY Zenon DEF FT_Stroker_GetCounts, one, both
  <2> QED BY <2>1, <2>2, <2>3
<1> QED BY <1>2, <1>3

LEMMA DisorderInv ==
  ASSUME NEW x, StrokerInv(x)
  PROVE  StrokerInv([x EXCEPT !.orderly = FALSE])
<1> DEFINE y == [x EXCEPT !.orderly = FALSE]
<1>1. DOMAIN x = PathFields
  BY DEF StrokerInv, PathInv
<1>2. /\ DOMAIN y = PathFields /\ y.real = x.real /\ y.shadow = x.shadow /\ y.drawing = x.drawing
      /\ y.orderly = FALSE /\ y.direct = x.direct /\ y.promised = x.promised
  BY <1>1 DEF PathFields
<1> HIDE DEF y
<1>3. PathInv(y) /\ AgreedInv(y) /\ CountedInv(y)
  BY <1>2 DEF StrokerInv, PathInv, AgreedInv, CountedInv
<1> QED BY <1>3 DEF StrokerInv, y

Inv == StrokerInv(path)

LEMMA InitInv == Init => Inv
<1> SUFFICES ASSUME NEW a \in Attributes \union {Initially}, path = Rewound(Fresh(a)) PROVE Inv
  BY DEF Init
<1>1. a.join \in Joins
  BY StrokerAssumption DEF Initially, Joins
<1> QED BY <1>1, RewoundInv DEF Inv

LEMMA RewindInv ==
  ASSUME StrokerInv(path)
  PROVE  StrokerInv(Rewound(rewind_path(path.real)))
<1>1. path.real.join \in Joins
  BY DEF StrokerInv, PathInv, IsStroke
<1> QED BY <1>1, RewoundInv DEF rewind_path

LEMMA NextInv == Inv /\ [Next]_vars => Inv'
<1> SUFFICES ASSUME Inv, [Next]_vars PROVE Inv'
  OBVIOUS
<1> USE DEF Inv
<1>1. ASSUME Set PROVE Inv'
  <2>1. PICK a \in Attributes : path' = Rewound(Fresh(a))
    BY <1>1 DEF Set, Again
  <2>2. a.join \in Joins
    BY StrokerAssumption DEF Joins
  <2> QED BY <2>1, <2>2, RewoundInv
<1>2. ASSUME Rewind \/ Parse PROVE Inv'
  <2>1. path' = Rewound(rewind_path(path.real))
    BY <1>2 DEF Rewind, Parse, Again
  <2> QED BY <2>1, RewindInv
<1>3. ASSUME Begin PROVE Inv'
  BY <1>3, BeginInv DEF Begin, Call
<1>4. ASSUME Line PROVE Inv'
  BY <1>4, LineInv DEF Line, Draw, Call
<1>5. ASSUME Curve PROVE Inv'
  BY <1>5, CurveInv DEF Curve, Draw, Call
<1>6. ASSUME End PROVE Inv'
  BY <1>6, EndInv DEF End, Call
<1>7. ASSUME Skip \/ Refuse PROVE Inv'
  <2>1. path' = [path EXCEPT !.orderly = FALSE]
    BY <1>7 DEF Skip, Refuse, Call
  <2> QED BY <2>1, DisorderInv
<1>8. ASSUME BorderCounts \/ GetCounts PROVE Inv'
  BY <1>8, CountsInv DEF BorderCounts, GetCounts, Call
<1>9. ASSUME UNCHANGED vars PROVE Inv'
  BY <1>9 DEF vars
<1> QED BY <1>1, <1>2, <1>3, <1>4, <1>5, <1>6, <1>7, <1>8, <1>9 DEF Next

LEMMA StrokerInvariant == Spec => []Inv
BY InitInv, NextInv, PTL DEF Spec

\* A border is only marked as valid for export while its contours all begin and
\* end, whatever calls, in whatever order, came before (handles.rs, the valid
\* flag of StrokeBorderState that FT_Stroker_GetBorderCounts sets).
THEOREM ExportsStayWhole == Spec => []ExportsWholeContours
<1>1. Inv => ExportsWholeContours
  BY DEF Inv, StrokerInv, PathInv, Exportable, ExportsWholeContours
<1> QED BY <1>1, StrokerInvariant, PTL

\* Between the sub-paths of a path that is begun and ended in turn, the counts
\* that the stroker answers with agree with the outlines it would export, also
\* where a stored outline was announced.
THEOREM ExportsAgree == Spec => []ExportAgreesWithCounts
<1>1. Inv => ExportAgreesWithCounts
  BY DEF Inv, StrokerInv, AgreedInv, Agreed, ExportAgreesWithCounts, Complete
<1> QED BY <1>1, StrokerInvariant, PTL

\* The general algorithm closes one contour of each border for a closed
\* sub-path and one, all around, for an open one, and both borders are outlines
\* after it: for every path, any number of sub-paths, all joins, caps and curves.
THEOREM SubpathsStayCounted == Spec => []GeneralSubpathsCounted
<1>1. Inv => GeneralSubpathsCounted
  <2> SUFFICES ASSUME Inv, Complete, path.direct, NEW side \in Sides
               PROVE  /\ Balanced(Live(path.real, side))
                      /\ Counts(Live(path.real, side)).contours = path.promised[side]
    BY DEF GeneralSubpathsCounted
  <2> DEFINE b == Live(path.real, side)
  <2>1. OtherSide(side) \in Sides /\ OtherSide(OtherSide(side)) = side
    BY DEF OtherSide, Sides
  <2>2. /\ Contoured(path.real.border[OtherSide(side)], path.promised[OtherSide(OtherSide(side))])
        /\ Resting(path.real) /\ IsStroke(path.real)
    BY <2>1 DEF Inv, StrokerInv, PathInv, CountedInv, Complete
  <2>3. Contoured(b, path.promised[side]) /\ IsBorder(b) /\ Base(b) = Len(b.points)
    BY <2>1, <2>2 DEF Live, Resting, IsStroke
  <2> HIDE DEF b
  <2>4. Balanced(b) /\ Counts(b).contours = path.promised[side]
    BY <2>3, ContouredBalanced
  <2> QED BY <2>4 DEF b
<1> QED BY <1>1, StrokerInvariant, PTL
=============================================================================
