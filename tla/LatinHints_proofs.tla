------------------------- MODULE LatinHints_proofs --------------------------
(***************************************************************************)
(* Proofs about LatinHints: whatever the glyphs, fonts, sizes and modes,   *)
(* each segment is listed by the edge it is in and by no other, edges lie  *)
(* in order and lead to other edges, and the phases that place edges find  *)
(* what the phases before them promise.                                    *)
(*                                                                         *)
(* Positions and zones come out of fixed-point arithmetic that plays no    *)
(* part here: the fields of segments, edges and points that hold them      *)
(* range over a set V or W that is left open.                              *)
(***************************************************************************)
EXTENDS LatinHints, SeqLemmas, FiniteSetTheorems

-----------------------------------------------------------------------------
(* Sequences that are written out *)

\* A function of 1..n that is written out is itself.
LEMMA WrittenOut ==
  ASSUME NEW S, NEW n \in Nat, NEW f \in [1..n -> S]
  PROVE  f \in Seq(S) /\ Len(f) = n /\ Written(f) = f
<1>1. f \in Seq(S) /\ Len(f) = n
  OBVIOUS
<1>2. SubSeq(f, 1, n) = f
  BY <1>1
<1> QED BY <1>1, <1>2 DEF Written

-----------------------------------------------------------------------------
(* Segments and edges *)

SegmentRecs(V) ==
  [first : V, last : V, dir : V, pos : Int, delta : V, min : V, max : V, height : V, round : V,
   edge : Nat, link : Nat, serif : Nat]

EdgeRecs(V) ==
  [fpos : Int, opos : V, pos : V, dir : V, segs : Seq(Nat), link : Nat, serif : Nat, round : BOOLEAN,
   serifed : BOOLEAN, done : BOOLEAN, neutral : V, blue : V]

Axes(V) == [segs : Seq(SegmentRecs(V)), edges : Seq(EdgeRecs(V))]

\* A segment that differs in the edge at most, an edge that differs in its segments.
SameSegment(new, old) ==
  /\ new.pos = old.pos /\ new.dir = old.dir /\ new.link = old.link /\ new.serif = old.serif

SameEdge(new, old) ==
  /\ new.fpos = old.fpos /\ new.dir = old.dir /\ new.link = old.link /\ new.serif = old.serif
  /\ new.done = old.done /\ new.blue = old.blue

\* One field of an edge changes, or of a segment.
LEMMA EdgeFields ==
  ASSUME NEW V, NEW e \in EdgeRecs(V)
  PROVE  /\ e.fpos \in Int /\ e.segs \in Seq(Nat)
         /\ e.link \in Nat /\ e.serif \in Nat /\ e.done \in BOOLEAN
         /\ \A x \in Seq(Nat) : [e EXCEPT !.segs = x] \in EdgeRecs(V)
  BY DEF EdgeRecs

\* One field of a segment changes.
LEMMA SegmentFields ==
  ASSUME NEW V, NEW seg \in SegmentRecs(V)
  PROVE  \A x \in Nat : LET new == [seg EXCEPT !.edge = x]
                        IN new \in SegmentRecs(V) /\ new.edge = x /\ SameSegment(new, seg)
  BY DEF SegmentRecs, SameSegment

\* A segment joins an edge: what changes is its edge and that edge's list.
LEMMA JoinedParts ==
  ASSUME NEW V, NEW ax \in Axes(V), NEW k \in 1..Len(ax.segs), NEW near \in 1..Len(ax.edges)
  PROVE  LET new == Joined(ax, k, near)
         IN /\ new \in Axes(V)
            /\ Len(new.edges) = Len(ax.edges) /\ Len(new.segs) = Len(ax.segs)
            /\ new.edges[near].segs = Append(ax.edges[near].segs, k)
            /\ SameEdge(new.edges[near], ax.edges[near])
            /\ \A e \in 1..Len(ax.edges) : e # near => new.edges[e] = ax.edges[e]
            /\ new.segs[k].edge = near
            /\ SameSegment(new.segs[k], ax.segs[k])
            /\ \A s \in 1..Len(ax.segs) : s # k => new.segs[s] = ax.segs[s]
<1> DEFINE edge == [ax.edges[near] EXCEPT !.segs = Append(@, k)]
           seg == [ax.segs[k] EXCEPT !.edge = near]
<1>1. ax.segs \in Seq(SegmentRecs(V)) /\ ax.edges \in Seq(EdgeRecs(V))
  BY DEF Axes
<1>2. k \in DOMAIN ax.segs /\ near \in DOMAIN ax.edges /\ k \in Nat /\ near \in Nat
  BY <1>1
<1>3. ax.segs[k] \in SegmentRecs(V) /\ ax.edges[near] \in EdgeRecs(V) /\ ax.edges[near].segs \in Seq(Nat)
  <2>1. ax.segs[k] \in SegmentRecs(V) /\ ax.edges[near] \in EdgeRecs(V)
    BY <1>1, <1>2
  <2> QED BY <2>1, EdgeFields
<1>4. seg \in SegmentRecs(V) /\ seg.edge = near /\ SameSegment(seg, ax.segs[k])
  BY <1>2, <1>3, SegmentFields
<1>5. edge \in EdgeRecs(V) /\ edge.segs = Append(ax.edges[near].segs, k) /\ SameEdge(edge, ax.edges[near])
  <2>1. Append(ax.edges[near].segs, k) \in Seq(Nat)
    BY <1>2, <1>3
  <2>2. edge = [ax.edges[near] EXCEPT !.segs = Append(ax.edges[near].segs, k)]
    BY Zenon
  <2> QED BY <1>3, <2>1, <2>2, EdgeFields DEF EdgeRecs, SameEdge
<1> HIDE DEF edge, seg
<1> DEFINE segs == [ax.segs EXCEPT ![k] = seg]
           edges == [ax.edges EXCEPT ![near] = edge]
<1>6. /\ segs \in Seq(SegmentRecs(V)) /\ Len(segs) = Len(ax.segs) /\ segs[k] = seg
      /\ \A s \in 1..Len(ax.segs) : s # k => segs[s] = ax.segs[s]
  BY <1>1, <1>2, <1>4, Replaced
<1>7. /\ edges \in Seq(EdgeRecs(V)) /\ Len(edges) = Len(ax.edges) /\ edges[near] = edge
      /\ \A e \in 1..Len(ax.edges) : e # near => edges[e] = ax.edges[e]
  BY <1>1, <1>2, <1>5, Replaced
<1>8. Joined(ax, k, near) = [edges |-> edges, segs |-> segs]
  BY Zenon DEF Joined, edge, seg
<1> HIDE DEF edges, segs
<1>9. Joined(ax, k, near) \in Axes(V) /\ Joined(ax, k, near).edges = edges /\ Joined(ax, k, near).segs = segs
  BY <1>6, <1>7, <1>8 DEF Axes
<1> QED BY <1>4, <1>5, <1>6, <1>7, <1>9

\* The lists of the edges and the edges of the segments say the same: what an
\* edge lists names it, once, and a segment that names an edge is listed.
Listed(ax) ==
  /\ \A e \in 1..Len(ax.edges) : \A i \in 1..Len(ax.edges[e].segs) :
       /\ ax.edges[e].segs[i] \in 1..Len(ax.segs)
       /\ ax.segs[ax.edges[e].segs[i]].edge = e
       /\ \A j \in 1..Len(ax.edges[e].segs) : ax.edges[e].segs[i] = ax.edges[e].segs[j] => i = j
  /\ \A s \in 1..Len(ax.segs) :
       \/ ax.segs[s].edge = Nil
       \/ /\ ax.segs[s].edge \in 1..Len(ax.edges)
          /\ \E i \in 1..Len(ax.edges[ax.segs[s].edge].segs) : ax.edges[ax.segs[s].edge].segs[i] = s

\* A segment that is in no edge joins one: the lists stay sound.
LEMMA JoinedListed ==
  ASSUME NEW V, NEW ax \in Axes(V), NEW k \in 1..Len(ax.segs), NEW near \in 1..Len(ax.edges),
         Listed(ax), ax.segs[k].edge = Nil
  PROVE  Listed(Joined(ax, k, near))
<1> DEFINE new == Joined(ax, k, near)
           list == ax.edges[near].segs
<1>1. ax.segs \in Seq(SegmentRecs(V)) /\ ax.edges \in Seq(EdgeRecs(V))
  BY DEF Axes
<1>2. k \in DOMAIN ax.segs /\ near \in DOMAIN ax.edges /\ k \in Nat /\ near \in Nat /\ near # Nil
  BY <1>1 DEF Nil
<1>3. ax.segs[k] \in SegmentRecs(V) /\ list \in Seq(Nat) /\ \A e \in 1..Len(ax.edges) : ax.edges[e].segs \in Seq(Nat)
  <2>1. \A e \in 1..Len(ax.edges) : ax.edges[e] \in EdgeRecs(V)
    BY <1>1
  <2> QED BY <1>1, <1>2, <2>1, EdgeFields
<1>4. /\ Len(new.edges) = Len(ax.edges) /\ Len(new.segs) = Len(ax.segs)
      /\ new.edges[near].segs = Append(list, k)
      /\ \A e \in 1..Len(ax.edges) : e # near => new.edges[e] = ax.edges[e]
      /\ new.segs[k].edge = near
      /\ \A s \in 1..Len(ax.segs) : s # k => new.segs[s] = ax.segs[s]
  BY JoinedParts
<1> HIDE DEF new
<1>5. \A i \in 1..Len(list) : list[i] # k
  BY <1>2 DEF Listed
<1>6. /\ Len(Append(list, k)) = Len(list) + 1
      /\ \A i \in 1..Len(list) : Append(list, k)[i] = list[i]
      /\ Append(list, k)[Len(list) + 1] = k
  BY <1>2, <1>3, Appended
<1>7. Len(list) \in Nat
  BY <1>3
<1>8. ASSUME NEW e \in 1..Len(new.edges), NEW i \in 1..Len(new.edges[e].segs)
      PROVE  /\ new.edges[e].segs[i] \in 1..Len(new.segs)
             /\ new.segs[new.edges[e].segs[i]].edge = e
             /\ \A j \in 1..Len(new.edges[e].segs) : new.edges[e].segs[i] = new.edges[e].segs[j] => i = j
  <2>1. CASE e # near
    <3>1. new.edges[e] = ax.edges[e] /\ e \in 1..Len(ax.edges)
      BY <1>4, <2>1
    <3>2. /\ ax.edges[e].segs[i] \in 1..Len(ax.segs)
          /\ ax.segs[ax.edges[e].segs[i]].edge = e
          /\ \A j \in 1..Len(ax.edges[e].segs) : ax.edges[e].segs[i] = ax.edges[e].segs[j] => i = j
      BY <3>1 DEF Listed
    <3>3. ax.edges[e].segs[i] # k
      BY <3>1, <3>2 DEF Nil
    <3> QED BY <1>4, <3>1, <3>2, <3>3
  <2>2. CASE e = near /\ i \in 1..Len(list)
    <3>1. list[i] \in 1..Len(ax.segs) /\ ax.segs[list[i]].edge = near
      BY <2>2 DEF Listed
    <3>2. ASSUME NEW j \in 1..(Len(list) + 1), Append(list, k)[i] = Append(list, k)[j] PROVE i = j
      <4>1. CASE j \in 1..Len(list)
        BY <1>6, <2>2, <3>2, <4>1 DEF Listed
      <4>2. CASE j = Len(list) + 1
        BY <1>5, <1>6, <2>2, <3>2, <4>2
      <4> QED BY <1>7, <4>1, <4>2, SMTT(60)
    <3>3. new.edges[e].segs = Append(list, k) /\ Append(list, k)[i] = list[i] /\ list[i] # k
      BY <1>4, <1>5, <1>6, <2>2
    <3>4. new.segs[list[i]].edge = e /\ list[i] \in 1..Len(new.segs)
      BY <1>4, <2>2, <3>1, <3>3
    <3> HIDE DEF list
    <3> QED BY <1>6, <3>2, <3>3, <3>4
  <2>3. CASE e = near /\ i = Len(list) + 1
    <3>1. ASSUME NEW j \in 1..(Len(list) + 1), Append(list, k)[i] = Append(list, k)[j] PROVE i = j
      <4>1. j \notin 1..Len(list)
        BY <1>5, <1>6, <2>3, <3>1
      <4> QED BY <1>7, <2>3, <4>1
    <3> QED BY <1>4, <1>6, <2>3, <3>1
  <2>4. e = near => i \in 1..(Len(list) + 1)
    BY <1>4, <1>6
  <2>5. e # near \/ (e = near /\ i \in 1..Len(list)) \/ (e = near /\ i = Len(list) + 1)
    <3> HIDE DEF list
    <3> QED BY <1>7, <2>4
  <2> QED BY <2>1, <2>2, <2>3, <2>5
<1>9. ASSUME NEW s \in 1..Len(new.segs), new.segs[s].edge # Nil
      PROVE  /\ new.segs[s].edge \in 1..Len(new.edges)
             /\ \E i \in 1..Len(new.edges[new.segs[s].edge].segs) : new.edges[new.segs[s].edge].segs[i] = s
  <2>1. CASE s = k
    <3>1. Len(list) + 1 \in 1..Len(Append(list, k))
      BY <1>6, <1>7
    <3> QED BY <1>4, <1>6, <2>1, <3>1
  <2>2. CASE s # k
    <3> DEFINE e == ax.segs[s].edge
    <3>1. new.segs[s] = ax.segs[s] /\ s \in 1..Len(ax.segs)
      BY <1>4, <2>2
    <3>2. e \in 1..Len(ax.edges) /\ \E i \in 1..Len(ax.edges[e].segs) : ax.edges[e].segs[i] = s
      BY <1>9, <3>1 DEF Listed
    <3> HIDE DEF e
    <3>3. PICK i \in 1..Len(ax.edges[e].segs) : ax.edges[e].segs[i] = s
      BY <3>2
    <3>4. CASE e = near
      <4>1. i \in 1..Len(Append(list, k)) /\ Append(list, k)[i] = s
        BY <1>6, <1>7, <3>3, <3>4
      <4> QED BY <1>4, <3>1, <3>4, <4>1 DEF e
    <3>5. CASE e # near
      BY <1>4, <3>1, <3>2, <3>5 DEF e
    <3> QED BY <3>4, <3>5
  <2> QED BY <2>1, <2>2
<1>10. Listed(new)
  BY <1>8, <1>9 DEF Listed
<1> QED BY <1>10 DEF new

-----------------------------------------------------------------------------
(* Least and greatest *)

\* A finite set of numbers that is not empty has a greatest and a least one.
LEMMA Extremes ==
  ASSUME NEW S, S \subseteq Int, S # {}, IsFiniteSet(S)
  PROVE  /\ Max(S) \in S /\ \A j \in S : j <= Max(S)
         /\ Min(S) \in S /\ \A j \in S : Min(S) <= j
<1> DEFINE n == Cardinality(S)
<1>1. n \in Nat /\ ExistsBijection(1..n, S)
  BY FS_CardinalityType
<1>2. PICK f \in [1..n -> S] : \A x \in S : \E i \in 1..n : f[i] = x
  BY <1>1 DEF ExistsBijection, Bijection, Injection, Surjection
<1> HIDE DEF n
<1> DEFINE Top(k) == \E m \in 1..k : \A j \in 1..k : f[j] <= f[m]
           Low(k) == \E m \in 1..k : \A j \in 1..k : f[m] <= f[j]
           P == {k \in 0..n : k = 0 \/ (Top(k) /\ Low(k))}
<1>3. n # 0
  <2>1. PICK x \in S : TRUE
    OBVIOUS
  <2> QED BY <1>1, <1>2, <2>1
<1>4. ASSUME NEW k \in 1..n, k - 1 \in P PROVE k \in P
  <2>1. \A j \in 1..k : f[j] \in Int
    <3>1. 1..k \subseteq 1..n
      BY <1>1
    <3> QED BY <3>1
  <2>2. CASE k = 1
    <3>1. 1 \in 1..k /\ \A j \in 1..k : j = 1
      BY <2>2
    <3> QED BY <2>1, <2>2, <3>1
  <2>3. CASE k # 1
    <3>1. k - 1 # 0 /\ k \in 1..k /\ 1..(k - 1) \subseteq 1..k /\ \A j \in 1..k : j = k \/ j \in 1..(k - 1)
      BY <2>3
    <3>2. PICK m \in 1..(k - 1) : \A j \in 1..(k - 1) : f[j] <= f[m]
      BY <1>4, <3>1
    <3>3. PICK l \in 1..(k - 1) : \A j \in 1..(k - 1) : f[l] <= f[j]
      BY <1>4, <3>1
    <3>4. Top(k)
      <4>1. m \in 1..k /\ f[m] \in Int /\ f[k] \in Int
        BY <2>1, <3>1
      <4>2. CASE f[k] <= f[m]
        BY <3>1, <3>2, <4>1, <4>2
      <4>3. CASE f[m] < f[k]
        <5>1. ASSUME NEW j \in 1..k PROVE f[j] <= f[k]
          <6>1. j = k \/ f[j] <= f[m]
            BY <3>1, <3>2
          <6> QED BY <2>1, <4>1, <4>3, <6>1
        <5> QED BY <3>1, <5>1
      <4> HIDE DEF Top
      <4> QED BY <4>1, <4>2, <4>3
    <3>5. Low(k)
      <4>1. l \in 1..k /\ f[l] \in Int /\ f[k] \in Int
        BY <2>1, <3>1
      <4>2. CASE f[l] <= f[k]
        BY <3>1, <3>3, <4>1, <4>2
      <4>3. CASE f[k] < f[l]
        <5>1. ASSUME NEW j \in 1..k PROVE f[k] <= f[j]
          <6>1. j = k \/ f[l] <= f[j]
            BY <3>1, <3>3
          <6> QED BY <2>1, <4>1, <4>3, <6>1
        <5> QED BY <3>1, <5>1
      <4> HIDE DEF Low
      <4> QED BY <4>1, <4>2, <4>3
    <3> HIDE DEF Top, Low
    <3> QED BY <3>4, <3>5
  <2> QED BY <2>2, <2>3
<1>5. n \in P
  <2>1. 0 \in P
    BY <1>1
  <2> HIDE DEF P
  <2>2. 0..n \subseteq P
    BY <1>1, <1>4, <2>1, UpTo
  <2> QED BY <1>1, <2>2
<1>6. PICK m \in 1..n : \A j \in 1..n : f[j] <= f[m]
  BY <1>3, <1>5
<1>7. PICK l \in 1..n : \A j \in 1..n : f[l] <= f[j]
  BY <1>3, <1>5
<1>8. f[m] \in S /\ \A y \in S : f[m] >= y
  BY <1>2, <1>6
<1>9. f[l] \in S /\ \A y \in S : f[l] =< y
  BY <1>2, <1>7
<1>10. Max(S) \in S /\ \A y \in S : Max(S) >= y
  BY <1>8, Zenon DEF Max
<1>11. Min(S) \in S /\ \A y \in S : Min(S) =< y
  BY <1>9, Zenon DEF Min
<1>12. ASSUME NEW j \in S PROVE j <= Max(S)
  <2>1. Max(S) >= j /\ j \in Int /\ Max(S) \in Int
    BY <1>10
  <2> QED BY <2>1
<1> QED BY <1>10, <1>11, <1>12

\* The last of the positions in B, or zero.
LEMMA LastOf ==
  ASSUME NEW n \in Nat, NEW B, B \subseteq 1..n
  PROVE  LET m == Max({0} \union B)
         IN /\ m \in 0..n /\ (m = 0 \/ m \in B) /\ \A j \in B : j <= m
<1>1. {0} \union B \subseteq 0..n /\ {0} \union B # {}
  OBVIOUS
<1>2. IsFiniteSet({0} \union B)
  <2>1. IsFiniteSet(0..n)
    BY FS_Interval
  <2> QED BY <1>1, <2>1, FS_Subset
<1>3. {0} \union B \subseteq Int
  BY <1>1
<1> QED BY <1>1, <1>2, <1>3, Extremes

\* The first position of a sequence at which something holds, or zero.
LEMMA FirstOf ==
  ASSUME NEW n \in Nat, NEW I, I \subseteq 1..n
  PROVE  LET m == IF I # {} THEN Min(I) ELSE 0
         IN /\ m \in 0..n /\ (m # 0 => m \in I) /\ (m = 0 => I = {})
<1>1. IsFiniteSet(I)
  <2>1. IsFiniteSet(1..n)
    BY FS_Interval
  <2> QED BY <2>1, FS_Subset
<1>2. I \subseteq Int
  OBVIOUS
<1>3. CASE I = {}
  BY <1>3
<1>4. CASE I # {}
  <2>1. Min(I) \in I
    BY <1>1, <1>2, <1>4, Extremes
  <2>2. Min(I) \in 0..n /\ Min(I) # 0
    <3>1. \A j \in I : j \in 0..n /\ j # 0
      OBVIOUS
    <3> QED BY <2>1, <3>1
  <2> DEFINE m == IF I # {} THEN Min(I) ELSE 0
  <2>3. m = Min(I)
    BY <1>4
  <2> HIDE DEF m
  <2>4. m \in 0..n /\ (m # 0 => m \in I) /\ (m = 0 => I = {})
    BY <2>1, <2>2, <2>3
  <2> QED BY <2>4 DEF m
<1> QED BY <1>3, <1>4

\* An entry is put in at a position; those from there on move up.
LEMMA Inserted ==
  ASSUME NEW S, NEW s \in Seq(S), NEW at \in 1..(Len(s) + 1), NEW x \in S
  PROVE  LET t == InsertAt(s, at, x)
         IN /\ t \in Seq(S) /\ Len(t) = Len(s) + 1
            /\ \A i \in 1..(Len(s) + 1) : t[i] = IF i < at THEN s[i] ELSE IF i = at THEN x ELSE s[i - 1]
<1> DEFINE n == Len(s)
           front == SubSeq(s, 1, at - 1)
           back == SubSeq(s, at, n)
<1>1. n \in Nat
  OBVIOUS
<1>2. front \in Seq(S) /\ Len(front) = at - 1 /\ \A i \in 1..(at - 1) : front[i] = s[i]
  BY <1>1
<1>3. back \in Seq(S) /\ Len(back) = n + 1 - at /\ \A i \in 1..(n + 1 - at) : back[i] = s[at + i - 1]
  BY <1>1
<1>4. <<x>> \in Seq(S) /\ Len(<<x>>) = 1 /\ <<x>>[1] = x
  OBVIOUS
<1> DEFINE one == <<x>>
<1> HIDE DEF front, back, one
<1>5. /\ front \o one \in Seq(S) /\ Len(front \o one) = at
      /\ \A i \in 1..at : (front \o one)[i] = IF i < at THEN s[i] ELSE x
  <2>1. /\ front \o one \in Seq(S) /\ Len(front \o one) = Len(front) + Len(one)
        /\ \A j \in 1..(Len(front) + Len(one)) :
             (front \o one)[j] = IF j <= Len(front) THEN front[j] ELSE one[j - Len(front)]
    BY <1>2, <1>4, Concatenation DEF one
  <2>2. Len(front) + Len(one) = at
    BY <1>2, <1>4 DEF one
  <2>3. ASSUME NEW i \in 1..at PROVE (front \o one)[i] = IF i < at THEN s[i] ELSE x
    <3>1. CASE i < at
      BY <1>2, <2>1, <2>2, <3>1
    <3>2. CASE i = at
      <4>1. (front \o one)[i] = one[1]
        <5>1. ~(i <= Len(front)) /\ i - Len(front) = 1 /\ i \in 1..(Len(front) + Len(one))
          BY <1>1, <1>2, <2>2, <3>2
        <5> QED BY <2>1, <5>1
      <4>2. one[1] = x /\ ~(i < at)
        BY <1>1, <1>4, <3>2 DEF one
      <4> QED BY <4>1, <4>2
    <3>3. i < at \/ i = at
      <4>1. at \in Int
        BY <1>1
      <4> QED BY <4>1
    <3> QED BY <3>1, <3>2, <3>3
  <2> QED BY <2>1, <2>2, <2>3
<1> DEFINE lead == front \o one
<1> HIDE DEF lead, n
<1>6. /\ lead \o back \in Seq(S) /\ Len(lead \o back) = Len(lead) + Len(back)
      /\ \A j \in 1..(Len(lead) + Len(back)) :
           (lead \o back)[j] = IF j <= Len(lead) THEN lead[j] ELSE back[j - Len(lead)]
  <2>1. lead \in Seq(S)
    BY <1>5 DEF lead
  <2> QED BY <1>3, <2>1, Concatenation
<1>7. Len(lead) = at /\ Len(lead) + Len(back) = n + 1 /\ at \in 1..(n + 1)
  BY <1>1, <1>3, <1>5 DEF lead, n
<1>8. ASSUME NEW i \in 1..(n + 1)
      PROVE  (lead \o back)[i] = IF i < at THEN s[i] ELSE IF i = at THEN x ELSE s[i - 1]
  <2>1. CASE i <= at
    <3>1. (lead \o back)[i] = lead[i] /\ i \in 1..at
      BY <1>6, <1>7, <2>1
    <3> QED BY <1>5, <2>1, <3>1 DEF lead
  <2>2. CASE i > at
    <3>1. (lead \o back)[i] = back[i - at] /\ i - at \in 1..(n + 1 - at)
      BY <1>1, <1>6, <1>7, <2>2
    <3>2. back[i - at] = s[at + (i - at) - 1] /\ at + (i - at) - 1 = i - 1
      BY <1>3, <1>7, <3>1
    <3> QED BY <1>7, <2>2, <3>1, <3>2
  <2> QED BY <1>1, <1>7, <2>1, <2>2
<1>9. InsertAt(s, at, x) = lead \o back
  BY DEF InsertAt, lead, front, one, back, n
<1> QED BY <1>6, <1>7, <1>8, <1>9 DEF n

SortedUp(edges) == \A e, f \in 1..Len(edges) : e < f => edges[e].fpos <= edges[f].fpos

\* Joining an edge moves none.
LEMMA JoinedSorted ==
  ASSUME NEW V, NEW ax \in Axes(V), NEW k \in 1..Len(ax.segs), NEW near \in 1..Len(ax.edges), SortedUp(ax.edges)
  PROVE  SortedUp(Joined(ax, k, near).edges)
<1> DEFINE new == Joined(ax, k, near)
<1>1. Len(new.edges) = Len(ax.edges) /\ \A e \in 1..Len(ax.edges) : new.edges[e].fpos = ax.edges[e].fpos
  BY JoinedParts DEF SameEdge
<1> HIDE DEF new
<1>2. SortedUp(new.edges)
  BY <1>1 DEF SortedUp
<1> QED BY <1>2 DEF new

\* The edge that segment k is put in for is at the position at: the edges behind it
\* moved up, and so did the numbers of their segments.
Inserts(new, ax, k, edge, at) ==
  /\ \A i \in 1..(Len(ax.edges) + 1) :
       new.edges[i] = IF i < at THEN ax.edges[i] ELSE IF i = at THEN edge ELSE ax.edges[i - 1]
  /\ \A s \in 1..Len(ax.segs) :
       new.segs[s].edge = IF s = k THEN at
                          ELSE IF ax.segs[s].edge >= at THEN ax.segs[s].edge + 1 ELSE ax.segs[s].edge
  /\ SortedUp(ax.edges) =>
       \A i \in 1..Len(ax.edges) :
         IF i < at THEN ax.edges[i].fpos <= edge.fpos ELSE edge.fpos <= ax.edges[i].fpos

\* insert_edge: an edge is put in before position at, and the numbers of those
\* behind it grow.
LEMMA InsertedParts ==
  ASSUME NEW V, NEW ax \in Axes(V), NEW k \in 1..Len(ax.segs), NEW edge \in EdgeRecs(V), NEW major
  PROVE  LET new == insert_edge(ax, k, edge, major)
             n == Len(ax.edges)
         IN /\ new \in Axes(V)
            /\ Len(new.edges) = n + 1 /\ Len(new.segs) = Len(ax.segs)
            /\ \A s \in 1..Len(ax.segs) : SameSegment(new.segs[s], ax.segs[s])
            /\ \E at \in 1..(n + 1) : Inserts(new, ax, k, edge, at)
<1> DEFINE n == Len(ax.edges)
           m == Len(ax.segs)
           Before(e) == e.fpos < edge.fpos \/ (e.fpos = edge.fpos /\ edge.dir = major)
           B == {j \in DOMAIN ax.edges : Before(ax.edges[j])}
           top == Max({0} \union B)
           at == 1 + top
           edges == InsertAt(ax.edges, at, edge)
           Number(s) == IF s = k THEN at ELSE IF ax.segs[s].edge >= at THEN ax.segs[s].edge + 1 ELSE ax.segs[s].edge
           Numbered(s) == [ax.segs[s] EXCEPT !.edge = Number(s)]
           segs == [s \in DOMAIN ax.segs |-> Numbered(s)]
<1>1. /\ ax.segs \in Seq(SegmentRecs(V)) /\ ax.edges \in Seq(EdgeRecs(V))
      /\ n \in Nat /\ m \in Nat /\ DOMAIN ax.edges = 1..n /\ DOMAIN ax.segs = 1..m
  BY DEF Axes
<1>2. \A i \in 1..n : ax.edges[i] \in EdgeRecs(V) /\ ax.edges[i].fpos \in Int
  <2>1. \A i \in 1..n : ax.edges[i] \in EdgeRecs(V)
    BY <1>1
  <2> QED BY <2>1, EdgeFields
<1>3. B \subseteq 1..n
  BY <1>1
<1>4. top \in 0..n /\ (top = 0 \/ top \in B) /\ \A j \in B : j <= top
  <2> HIDE DEF B, n
  <2> QED BY <1>1, <1>3, LastOf
<1>5. at \in 1..(n + 1)
  <2> HIDE DEF top, n
  <2> QED BY <1>1, <1>4
<1>6. /\ edges \in Seq(EdgeRecs(V)) /\ Len(edges) = n + 1
      /\ \A i \in 1..(n + 1) : edges[i] = IF i < at THEN ax.edges[i] ELSE IF i = at THEN edge ELSE ax.edges[i - 1]
  <2> HIDE DEF at
  <2> DEFINE old == ax.edges
  <2>1. at \in 1..(Len(old) + 1) /\ old \in Seq(EdgeRecs(V)) /\ edge \in EdgeRecs(V)
    BY <1>1, <1>5
  <2> HIDE DEF old
  <2>2. LET t == InsertAt(old, at, edge)
        IN /\ t \in Seq(EdgeRecs(V)) /\ Len(t) = Len(old) + 1
           /\ \A i \in 1..(Len(old) + 1) : t[i] = IF i < at THEN old[i] ELSE IF i = at THEN edge ELSE old[i - 1]
    BY <2>1, Inserted
  <2> QED BY <2>2 DEF old
<1>7. ASSUME NEW s \in 1..m
      PROVE  /\ Numbered(s) \in SegmentRecs(V)
             /\ Numbered(s).edge = Number(s)
             /\ SameSegment(Numbered(s), ax.segs[s])
  <2>1. ax.segs[s] \in SegmentRecs(V)
    BY <1>1
  <2>2. ax.segs[s].edge \in Nat
    BY <2>1 DEF SegmentRecs
  <2> HIDE DEF at, n, m
  <2>3. Number(s) \in Nat
    BY <1>5, <2>2
  <2> HIDE DEF Number
  <2> QED BY <2>1, <2>3, SegmentFields
<1>8. segs \in [1..m -> SegmentRecs(V)] /\ \A s \in 1..m : segs[s] = Numbered(s)
  <2> HIDE DEF Numbered, m
  <2> QED BY <1>1, <1>7
<1> HIDE DEF segs, edges
<1>9. segs \in Seq(SegmentRecs(V)) /\ Len(segs) = m /\ Written(segs) = segs
  <2> HIDE DEF m
  <2> QED BY <1>1, <1>8, WrittenOut
<1>10. insert_edge(ax, k, edge, major) = [edges |-> edges, segs |-> segs]
  <2>1. insert_edge(ax, k, edge, major) = [edges |-> edges, segs |-> Written(segs)]
    BY Zenon DEF insert_edge, edges, segs
  <2> QED BY <1>9, <2>1
<1>11. ASSUME SortedUp(ax.edges), NEW i \in 1..n
       PROVE  IF i < at THEN ax.edges[i].fpos <= edge.fpos ELSE edge.fpos <= ax.edges[i].fpos
  <2>1. edge.fpos \in Int /\ ax.edges[i].fpos \in Int
    BY <1>2, EdgeFields
  <2>2. CASE i < at
    <3>1. top \in B /\ top \in 1..n /\ i <= top
      <4> HIDE DEF top, B, n
      <4> QED BY <1>1, <1>3, <1>4, <2>2
    <3>2. ax.edges[top].fpos <= edge.fpos
      <4>1. Before(ax.edges[top])
        BY <3>1
      <4>2. ax.edges[top].fpos \in Int
        BY <1>2, <3>1
      <4> HIDE DEF top
      <4> QED BY <2>1, <4>1, <4>2
    <3>3. ax.edges[i].fpos <= ax.edges[top].fpos
      <4> HIDE DEF top
      <4>1. i = top \/ i < top
        BY <1>1, <3>1
      <4> QED BY <1>11, <2>1, <3>1, <4>1 DEF SortedUp
    <3>4. ax.edges[top].fpos \in Int
      BY <1>2, <3>1
    <3> HIDE DEF top
    <3> QED BY <2>1, <2>2, <3>2, <3>3, <3>4
  <2>3. CASE ~(i < at)
    <3>1. i \notin B
      <4> HIDE DEF B, n
      <4>1. i \in B => i <= top
        BY <1>4
      <4> HIDE DEF top
      <4> QED BY <1>1, <1>4, <2>3, <4>1
    <3>2. ~Before(ax.edges[i])
      BY <1>1, <3>1
    <3> QED BY <2>1, <2>3, <3>2
  <2> QED BY <2>2, <2>3
<1> DEFINE new == insert_edge(ax, k, edge, major)
<1>12. new.edges = edges /\ new.segs = segs /\ new \in Axes(V)
  BY <1>6, <1>9, <1>10 DEF Axes
<1>13. \A s \in 1..m : SameSegment(new.segs[s], ax.segs[s]) /\ new.segs[s].edge = Number(s)
  <2> HIDE DEF new, Numbered, Number
  <2> QED BY <1>7, <1>8, <1>12
<1> HIDE DEF new, at
<1>14. Inserts(new, ax, k, edge, at)
  BY <1>6, <1>11, <1>12, <1>13 DEF Inserts
<1> QED BY <1>5, <1>6, <1>9, <1>12, <1>13, <1>14 DEF new

\* It is put in where it belongs.
LEMMA InsertedSorted ==
  ASSUME NEW V, NEW ax \in Axes(V), NEW k \in 1..Len(ax.segs), NEW edge \in EdgeRecs(V), NEW major, SortedUp(ax.edges)
  PROVE  SortedUp(insert_edge(ax, k, edge, major).edges)
<1> DEFINE new == insert_edge(ax, k, edge, major)
           n == Len(ax.edges)
<1>1. /\ Len(new.edges) = n + 1
      /\ \E at \in 1..(n + 1) : Inserts(new, ax, k, edge, at)
  BY InsertedParts
<1> HIDE DEF new
<1>2. PICK at \in 1..(n + 1) :
           /\ \A i \in 1..(n + 1) :
                new.edges[i] = IF i < at THEN ax.edges[i] ELSE IF i = at THEN edge ELSE ax.edges[i - 1]
           /\ \A i \in 1..n : IF i < at THEN ax.edges[i].fpos <= edge.fpos ELSE edge.fpos <= ax.edges[i].fpos
  BY <1>1 DEF Inserts
<1>3. n \in Nat /\ \A i \in 1..n : ax.edges[i].fpos \in Int
  <2>1. ax.edges \in Seq(EdgeRecs(V))
    BY DEF Axes
  <2>2. \A i \in 1..n : ax.edges[i] \in EdgeRecs(V)
    BY <2>1
  <2> QED BY <2>1, <2>2, EdgeFields
<1> HIDE DEF n
<1>4. edge.fpos \in Int
  BY EdgeFields
<1>5. ASSUME NEW e \in 1..(n + 1), NEW f \in 1..(n + 1), e < f PROVE new.edges[e].fpos <= new.edges[f].fpos
  <2>1. CASE f < at
    <3>1. e \in 1..n /\ f \in 1..n /\ e < at
      BY <1>3, <1>5, <2>1
    <3> QED BY <1>2, <1>5, <2>1, <3>1 DEF SortedUp, n
  <2>2. CASE f = at
    <3>1. e \in 1..n /\ e < at
      BY <1>3, <1>5, <2>2
    <3> QED BY <1>2, <2>2, <3>1
  <2>3. CASE f > at
    <3>1. f - 1 \in 1..n /\ ~(f - 1 < at) /\ ~(f < at) /\ f # at
      BY <1>3, <2>3
    <3>2. new.edges[f] = ax.edges[f - 1]
      BY <1>2, <3>1
    <3>3. edge.fpos <= ax.edges[f - 1].fpos
      BY <1>2, <3>1
    <3>4. CASE e < at
      <4>1. e \in 1..n /\ new.edges[e] = ax.edges[e] /\ ax.edges[e].fpos <= edge.fpos
        BY <1>2, <1>3, <3>4
      <4> QED BY <1>3, <1>4, <3>1, <3>2, <3>3, <4>1
    <3>5. CASE e = at
      BY <1>2, <3>2, <3>3, <3>5
    <3>6. CASE e > at
      <4>1. e - 1 \in 1..n /\ ~(e < at) /\ e # at /\ e - 1 < f - 1
        BY <1>3, <1>5, <3>6
      <4>2. new.edges[e] = ax.edges[e - 1]
        BY <1>2, <4>1
      <4> QED BY <3>1, <3>2, <4>1, <4>2 DEF SortedUp, n
    <3> QED BY <3>4, <3>5, <3>6
  <2> QED BY <2>1, <2>2, <2>3
<1>6. SortedUp(new.edges)
  BY <1>1, <1>5 DEF SortedUp, n
<1> QED BY <1>6 DEF new

\* The segments of the edges behind it are renumbered with them.
LEMMA InsertedListed ==
  ASSUME NEW V, NEW ax \in Axes(V), NEW k \in 1..Len(ax.segs), NEW edge \in EdgeRecs(V), NEW major, SortedUp(ax.edges),
         Listed(ax), ax.segs[k].edge = Nil, edge.segs = <<k>>
  PROVE  Listed(insert_edge(ax, k, edge, major))
<1> DEFINE new == insert_edge(ax, k, edge, major)
           n == Len(ax.edges)
           m == Len(ax.segs)
<1>1. /\ Len(new.edges) = n + 1 /\ Len(new.segs) = m
      /\ \E at \in 1..(n + 1) : Inserts(new, ax, k, edge, at)
  BY InsertedParts
<1>2. n \in Nat /\ m \in Nat /\ \A s \in 1..m : ax.segs[s].edge \in Nat
  <2>1. ax.segs \in Seq(SegmentRecs(V)) /\ ax.edges \in Seq(EdgeRecs(V))
    BY DEF Axes
  <2>2. n \in Nat /\ m \in Nat /\ \A s \in 1..m : ax.segs[s] \in SegmentRecs(V)
    BY <2>1
  <2> HIDE DEF n, m
  <2> QED BY <2>2 DEF SegmentRecs
<1> HIDE DEF new
<1>3. PICK at \in 1..(n + 1) :
           /\ \A i \in 1..(n + 1) :
                new.edges[i] = IF i < at THEN ax.edges[i] ELSE IF i = at THEN edge ELSE ax.edges[i - 1]
           /\ \A s \in 1..m :
                new.segs[s].edge = IF s = k THEN at
                                   ELSE IF ax.segs[s].edge >= at THEN ax.segs[s].edge + 1 ELSE ax.segs[s].edge
  BY <1>1 DEF Inserts
<1>4. /\ \A e \in 1..n : \A i \in 1..Len(ax.edges[e].segs) :
           /\ ax.edges[e].segs[i] \in 1..m
           /\ ax.segs[ax.edges[e].segs[i]].edge = e
           /\ \A j \in 1..Len(ax.edges[e].segs) : ax.edges[e].segs[i] = ax.edges[e].segs[j] => i = j
      /\ \A s \in 1..m :
           \/ ax.segs[s].edge = Nil
           \/ /\ ax.segs[s].edge \in 1..n
              /\ \E i \in 1..Len(ax.edges[ax.segs[s].edge].segs) : ax.edges[ax.segs[s].edge].segs[i] = s
  BY DEF Listed
<1>5. k \in 1..m /\ Len(<<k>>) = 1 /\ <<k>>[1] = k
  OBVIOUS
<1> HIDE DEF n, m
\* The edge before or behind the new one that is at e now.
<1> DEFINE Old(e) == IF e < at THEN e ELSE e - 1
<1>6. ASSUME NEW e \in 1..(n + 1), e # at PROVE Old(e) \in 1..n /\ new.edges[e] = ax.edges[Old(e)]
  BY <1>2, <1>3, <1>6
<1>7. ASSUME NEW e \in 1..(n + 1), NEW i \in 1..Len(new.edges[e].segs)
      PROVE  /\ new.edges[e].segs[i] \in 1..m
             /\ new.segs[new.edges[e].segs[i]].edge = e
             /\ \A j \in 1..Len(new.edges[e].segs) : new.edges[e].segs[i] = new.edges[e].segs[j] => i = j
  <2>1. CASE e = at
    <3>1. new.edges[e].segs = <<k>>
      BY <1>3, <2>1
    <3>2. i = 1
      BY <1>5, <3>1
    <3> QED BY <1>3, <1>5, <2>1, <3>1, <3>2
  <2>2. CASE e # at
    <3> DEFINE o == Old(e)
    <3>1. o \in 1..n /\ new.edges[e] = ax.edges[o]
      BY <1>6, <2>2
    <3>2. e = IF o < at THEN o ELSE o + 1
      BY <1>2, <2>2
    <3> HIDE DEF o
    <3>3. /\ ax.edges[o].segs[i] \in 1..m
          /\ ax.segs[ax.edges[o].segs[i]].edge = o
          /\ \A j \in 1..Len(ax.edges[o].segs) : ax.edges[o].segs[i] = ax.edges[o].segs[j] => i = j
      BY <1>4, <3>1
    <3> DEFINE s == ax.edges[o].segs[i]
    <3>4. s # k
      <4>1. ax.segs[s].edge = o
        BY <3>3
      <4>2. o # Nil
        BY <1>2, <3>1 DEF Nil
      <4> HIDE DEF s
      <4> QED BY <4>1, <4>2
    <3>5. new.segs[s].edge = e
      <4>1. s \in 1..m /\ ax.segs[s].edge = o
        BY <3>3
      <4> HIDE DEF s
      <4>2. new.segs[s].edge = IF o >= at THEN o + 1 ELSE o
        BY <1>3, <3>4, <4>1
      <4> QED BY <1>2, <3>1, <3>2, <4>2
    <3> QED BY <3>1, <3>3, <3>5
  <2> QED BY <2>1, <2>2
<1>8. ASSUME NEW s \in 1..m, new.segs[s].edge # Nil
      PROVE  /\ new.segs[s].edge \in 1..(n + 1)
             /\ \E i \in 1..Len(new.edges[new.segs[s].edge].segs) : new.edges[new.segs[s].edge].segs[i] = s
  <2>1. CASE s = k
    <3>1. new.segs[s].edge = at /\ new.edges[at] = edge /\ 1 \in 1..Len(edge.segs) /\ edge.segs[1] = k
      BY <1>3, <1>5, <2>1
    <3> QED BY <2>1, <3>1
  <2>2. CASE s # k
    <3> DEFINE o == ax.segs[s].edge
               e == new.segs[s].edge
    <3>1. e = IF o >= at THEN o + 1 ELSE o
      BY <1>3, <2>2
    <3>2. o \in Nat
      BY <1>2
    <3>3. o # Nil
      <4>1. at > 0
        BY <1>2
      <4> HIDE DEF o, e
      <4> QED BY <1>8, <3>1, <4>1 DEF Nil, e
    <3>4. o \in 1..n /\ \E i \in 1..Len(ax.edges[o].segs) : ax.edges[o].segs[i] = s
      BY <1>4, <3>3
    <3> HIDE DEF o, e
    <3>5. e \in 1..(n + 1) /\ e # at /\ Old(e) = o
      BY <1>2, <3>1, <3>4
    <3>6. new.edges[e] = ax.edges[o]
      BY <1>6, <3>5
    <3> QED BY <3>4, <3>5, <3>6 DEF e
  <2> QED BY <2>1, <2>2
<1>9. Listed(new)
  BY <1>1, <1>7, <1>8 DEF Listed, n, m
<1> QED BY <1>9 DEF new

-----------------------------------------------------------------------------
(* Links of segments *)

\* The best partner of a segment is a segment, or none.
LEMMA PartnerInRange ==
  ASSUME NEW S, NEW segs \in Seq(S), NEW major, NEW maxWidth, NEW i
  PROVE  BestPartner(segs, major, maxWidth, i) \in 0..Len(segs)
<1> DEFINE n == Len(segs)
           Value(j) == IF Pairs(segs, major, i, j) THEN Score(segs[i], segs[j], maxWidth)
                       ELSE IF Pairs(segs, major, j, i) THEN Score(segs[j], segs[i], maxWidth)
                       ELSE Unlinked
           Better(acc, j) == IF Value(j) < acc.score THEN [score |-> Value(j), link |-> j] ELSE acc
           start == [score |-> Unlinked, link |-> Nil]
           order == [j \in DOMAIN segs |-> j]
           Scores == {Unlinked} \union {Value(j) : j \in 1..n}
           T == [score : Scores, link : 0..n]
           round == [k \in 1..n |-> [x \in T |-> Better(x, order[k])]]
           Fold(f) == [s \in SUBSET (DOMAIN order) |->
                         IF s = {} THEN start ELSE Better(f[s \ {Max(s)}], order[Max(s)])]
           fold == CHOOSE f : f = Fold(f)
<1>1. BestPartner(segs, major, maxWidth, i) = fold[DOMAIN order].link
  BY Zenon DEF BestPartner, FoldLeft, MapThenFoldSet
<1>2. n \in Nat /\ DOMAIN order = 1..n /\ \A k \in 1..n : order[k] = k
  OBVIOUS
<1>3. start \in T
  BY <1>2 DEF Nil
<1>4. \A k \in 1..n : \A x \in T : Better(x, order[k]) \in T
  <2> SUFFICES ASSUME NEW k \in 1..n, NEW x \in T PROVE Better(x, order[k]) \in T
    OBVIOUS
  <2>1. Value(k) \in Scores /\ order[k] = k
    OBVIOUS
  <2> HIDE DEF Value, Scores, order
  <2> QED BY <1>2, <2>1
<1> HIDE DEF Value, start, T
<1> HIDE DEF Better
<1>5. AreRounds(round, n, T) /\ \A k \in 1..n : \A x \in T : round[k][x] = Better(x, order[k])
  BY <1>4 DEF AreRounds
<1> HIDE DEF round, order, n
<1>6. fold = Fold(fold)
  <2>1. PICK f \in [SUBSET (1..n) -> T] : IsFold(f, n, start, round)
    BY <1>2, <1>3, <1>5, FoldExists
  <2>2. \A s \in SUBSET (1..n) :
          (IF s = {} THEN start ELSE round[Max(s)][f[s \ {Max(s)}]])
            = (IF s = {} THEN start ELSE Better(f[s \ {Max(s)}], order[Max(s)]))
    BY <1>2, <1>5, <2>1, WithoutGreatest
  <2>3. f = Fold(f)
    BY <1>2, <2>1, <2>2 DEF IsFold
  <2> HIDE DEF Fold
  <2> QED BY <2>3, Zenon
<1> HIDE DEF fold
<1>7. FoldsBy(fold, n, T, start, round)
  <2>1. \A s \in SUBSET (1..n) : fold[s] = IF s = {} THEN start ELSE Better(fold[s \ {Max(s)}], order[Max(s)])
    BY <1>2, <1>6
  <2>2. fold[{}] = start
    BY <2>1
  <2>3. ASSUME NEW s \in SUBSET (1..n), s # {} /\ fold[s \ {Max(s)}] \in T
        PROVE  fold[s] = round[Max(s)][fold[s \ {Max(s)}]]
    <3>1. Max(s) \in 1..n /\ fold[s] = Better(fold[s \ {Max(s)}], order[Max(s)])
      BY <1>2, <2>1, <2>3, WithoutGreatest
    <3> QED BY <1>5, <2>3, <3>1
  <2> QED BY <2>2, <2>3 DEF FoldsBy
<1>8. PICK g : IsLoop(g, n, T, start, round) /\ fold[1..n] = g[n]
  BY <1>2, <1>3, <1>5, <1>7, FoldRounds
<1>9. fold[1..n].link \in 0..n
  <2>1. fold[1..n] \in T
    BY <1>2, <1>8 DEF IsLoop
  <2> QED BY <2>1 DEF T
<1> QED BY <1>1, <1>2, <1>9 DEF n

\* Segments that lie in no edge yet, and whose links lead to segments.
Fresh(segs) ==
  \A i \in 1..Len(segs) :
    segs[i].edge = Nil /\ segs[i].link \in 0..Len(segs) /\ segs[i].serif \in 0..Len(segs)

\* The partner of a segment changes.
LEMMA LinkField ==
  ASSUME NEW V, NEW seg \in SegmentRecs(V), NEW x \in Nat
  PROVE  LET new == [seg EXCEPT !.link = x]
         IN new \in SegmentRecs(V) /\ new.edge = seg.edge /\ new.link = x /\ new.serif = seg.serif
  BY DEF SegmentRecs

\* link_segments_inner writes links and serifs alone, and they lead to
\* segments.
LEMMA SegmentsLinked ==
  ASSUME NEW V, NEW segs \in Seq(SegmentRecs(V)), Fresh(segs), NEW major, NEW maxWidth
  PROVE  LET new == link_segments_inner(segs, major, maxWidth)
         IN new \in Seq(SegmentRecs(V)) /\ Len(new) = Len(segs) /\ Fresh(new)
<1> DEFINE n == Len(segs)
           Deserted(acc, i) ==
             LET j == acc[i].link
             IN IF j = Nil \/ acc[j].link = i THEN acc
                ELSE [acc EXCEPT ![i].link = Nil, ![i].serif = acc[j].link]
           order == [i \in DOMAIN segs |-> i]
           Partnered(i) == [segs[i] EXCEPT !.link = BestPartner(segs, major, maxWidth, i)]
           start == Written([i \in DOMAIN segs |-> Partnered(i)])
           T == {acc \in Seq(SegmentRecs(V)) : Len(acc) = n /\ Fresh(acc)}
           round == [k \in 1..n |-> [x \in T |-> Deserted(x, order[k])]]
           Fold(f) == [s \in SUBSET (DOMAIN order) |->
                         IF s = {} THEN start ELSE Deserted(f[s \ {Max(s)}], order[Max(s)])]
           fold == CHOOSE f : f = Fold(f)
<1>1. link_segments_inner(segs, major, maxWidth) = fold[DOMAIN order]
  BY Zenon DEF link_segments_inner, FoldLeft, MapThenFoldSet
<1>2. n \in Nat /\ DOMAIN order = 1..n /\ \A k \in 1..n : order[k] = k
  OBVIOUS
<1>3. start \in T
  <2>1. \A i \in 1..n : /\ Partnered(i) \in SegmentRecs(V) /\ Partnered(i).edge = Nil
                        /\ Partnered(i).link \in 0..n /\ Partnered(i).serif \in 0..n
    <3> SUFFICES ASSUME NEW i \in 1..n
                 PROVE  /\ Partnered(i) \in SegmentRecs(V) /\ Partnered(i).edge = Nil
                        /\ Partnered(i).link \in 0..n /\ Partnered(i).serif \in 0..n
      OBVIOUS
    <3>1. segs[i] \in SegmentRecs(V) /\ segs[i].edge = Nil /\ segs[i].serif \in 0..n
      BY DEF Fresh
    <3>2. BestPartner(segs, major, maxWidth, i) \in 0..n
      BY PartnerInRange
    <3>3. BestPartner(segs, major, maxWidth, i) \in Nat
      BY <1>2, <3>2
    <3> HIDE DEF n
    <3> QED BY <3>1, <3>2, <3>3, LinkField
  <2> HIDE DEF Partnered
  <2>2. [i \in 1..n |-> Partnered(i)] \in [1..n -> SegmentRecs(V)]
    BY <2>1
  <2>3. start = [i \in 1..n |-> Partnered(i)]
    BY <1>2, <2>2, WrittenOut
  <2>4. start \in Seq(SegmentRecs(V)) /\ Len(start) = n /\ \A i \in 1..n : start[i] = Partnered(i)
    BY <1>2, <2>2, <2>3
  <2> HIDE DEF start, n
  <2> QED BY <2>1, <2>4 DEF Fresh
<1>4. \A k \in 1..n : \A x \in T : Deserted(x, order[k]) \in T
  <2> SUFFICES ASSUME NEW k \in 1..n, NEW x \in T PROVE Deserted(x, k) \in T
    BY <1>2
  <2> DEFINE j == x[k].link
             seg == [x[k] EXCEPT !.link = Nil, !.serif = x[j].link]
  <2>1. x \in Seq(SegmentRecs(V)) /\ Len(x) = n /\ DOMAIN x = 1..n /\ Fresh(x)
    OBVIOUS
  <2>2. CASE j # Nil
    <3>1. x[k] \in SegmentRecs(V) /\ j \in 1..n /\ x[j].link \in 0..n /\ x[k].edge = Nil
      BY <1>2, <2>1, <2>2 DEF Fresh, Nil
    <3>2. seg \in SegmentRecs(V) /\ seg.edge = Nil /\ seg.link \in 0..n /\ seg.serif \in 0..n
      <4>1. x[j].link \in Nat /\ Nil \in Nat /\ Nil \in 0..n
        BY <1>2, <3>1 DEF Nil
      <4>2. x[k] \in SegmentRecs(V)
        BY <3>1
      <4> HIDE DEF n, j
      <4>3. seg \in SegmentRecs(V) /\ seg.edge = x[k].edge /\ seg.link = Nil /\ seg.serif = x[j].link
        BY <4>1, <4>2 DEF SegmentRecs
      <4> QED BY <3>1, <4>1, <4>3
    <3>3. [x EXCEPT ![k].link = Nil, ![k].serif = x[j].link] = [x EXCEPT ![k] = seg]
      BY Zenon
    <3> HIDE DEF seg
    <3>4. [x EXCEPT ![k] = seg] \in T
      <4> DEFINE y == [x EXCEPT ![k] = seg]
      <4>1. /\ y \in Seq(SegmentRecs(V)) /\ Len(y) = n /\ y[k] = seg
            /\ \A i \in 1..n : i # k => y[i] = x[i]
        BY <2>1, <3>2, Replaced
      <4> HIDE DEF y, n
      <4>2. Fresh(y)
        BY <2>1, <3>2, <4>1 DEF Fresh
      <4> QED BY <4>1, <4>2 DEF y
    <3> HIDE DEF T
    <3> QED BY <3>3, <3>4
  <2> QED BY <2>2
<1> HIDE DEF Deserted, start, T
<1>5. AreRounds(round, n, T) /\ \A k \in 1..n : \A x \in T : round[k][x] = Deserted(x, order[k])
  BY <1>4 DEF AreRounds
<1> HIDE DEF round, order, n
<1>6. fold = Fold(fold)
  <2>1. PICK f \in [SUBSET (1..n) -> T] : IsFold(f, n, start, round)
    BY <1>2, <1>3, <1>5, FoldExists
  <2>2. \A s \in SUBSET (1..n) :
          (IF s = {} THEN start ELSE round[Max(s)][f[s \ {Max(s)}]])
            = (IF s = {} THEN start ELSE Deserted(f[s \ {Max(s)}], order[Max(s)]))
    BY <1>2, <1>5, <2>1, WithoutGreatest
  <2>3. f = Fold(f)
    BY <1>2, <2>1, <2>2 DEF IsFold
  <2> HIDE DEF Fold
  <2> QED BY <2>3, Zenon
<1> HIDE DEF fold
<1>7. FoldsBy(fold, n, T, start, round)
  <2>1. \A s \in SUBSET (1..n) : fold[s] = IF s = {} THEN start ELSE Deserted(fold[s \ {Max(s)}], order[Max(s)])
    BY <1>2, <1>6
  <2>2. fold[{}] = start
    BY <2>1
  <2>3. ASSUME NEW s \in SUBSET (1..n), s # {} /\ fold[s \ {Max(s)}] \in T
        PROVE  fold[s] = round[Max(s)][fold[s \ {Max(s)}]]
    <3>1. Max(s) \in 1..n /\ fold[s] = Deserted(fold[s \ {Max(s)}], order[Max(s)])
      BY <1>2, <2>1, <2>3, WithoutGreatest
    <3> QED BY <1>5, <2>3, <3>1
  <2> QED BY <2>2, <2>3 DEF FoldsBy
<1>8. PICK g : IsLoop(g, n, T, start, round) /\ fold[1..n] = g[n]
  BY <1>2, <1>3, <1>5, <1>7, FoldRounds
<1>9. fold[1..n] \in T
  BY <1>2, <1>8 DEF IsLoop
<1> QED BY <1>1, <1>2, <1>9 DEF n, T

-----------------------------------------------------------------------------
(* Segments become edges *)

\* What holds of the edges while segments are put into them: ax lists the segments
\* segs in edges that are sorted and not linked yet, and only those in done.
Grouping(ax, segs, done) ==
  /\ Len(ax.segs) = Len(segs)
  /\ \A s \in 1..Len(segs) : /\ SameSegment(ax.segs[s], segs[s])
                             /\ ax.segs[s].edge # Nil => s \in done
  /\ Listed(ax)
  /\ SortedUp(ax.edges)
  /\ \A e \in 1..Len(ax.edges) : /\ ax.edges[e].link = Nil /\ ax.edges[e].serif = Nil
                                 /\ ax.edges[e].blue = {}

\* A segment is put into an edge that is there.
LEMMA JoinedGrouping ==
  ASSUME NEW V, NEW ax \in Axes(V), NEW k \in 1..Len(ax.segs), NEW near \in 1..Len(ax.edges),
         NEW segs \in Seq(SegmentRecs(V)), NEW done, k \notin done, Grouping(ax, segs, done)
  PROVE  /\ Joined(ax, k, near) \in Axes(V)
         /\ Grouping(Joined(ax, k, near), segs, done \union {k})
<1> DEFINE new == Joined(ax, k, near)
<1>1. /\ Len(ax.segs) = Len(segs) /\ Listed(ax) /\ SortedUp(ax.edges)
      /\ \A s \in 1..Len(segs) : SameSegment(ax.segs[s], segs[s]) /\ (ax.segs[s].edge # Nil => s \in done)
      /\ \A e \in 1..Len(ax.edges) : ax.edges[e].link = Nil /\ ax.edges[e].serif = Nil /\ ax.edges[e].blue = {}
  BY DEF Grouping
<1>2. ax.segs[k].edge = Nil
  BY <1>1
<1>3. Listed(new) /\ SortedUp(new.edges)
  BY <1>1, <1>2, JoinedListed, JoinedSorted
<1>4. /\ new \in Axes(V) /\ Len(new.edges) = Len(ax.edges) /\ Len(new.segs) = Len(ax.segs)
      /\ SameEdge(new.edges[near], ax.edges[near])
      /\ \A e \in 1..Len(ax.edges) : e # near => new.edges[e] = ax.edges[e]
      /\ SameSegment(new.segs[k], ax.segs[k])
      /\ \A s \in 1..Len(ax.segs) : s # k => new.segs[s] = ax.segs[s]
  BY JoinedParts, SMTT(60)
<1> HIDE DEF new
<1>5. ASSUME NEW s \in 1..Len(segs)
      PROVE  SameSegment(new.segs[s], segs[s]) /\ (new.segs[s].edge # Nil => s \in done \union {k})
  BY <1>1, <1>4 DEF SameSegment
<1>6. ASSUME NEW e \in 1..Len(new.edges)
      PROVE  new.edges[e].link = Nil /\ new.edges[e].serif = Nil /\ new.edges[e].blue = {}
  BY <1>1, <1>4 DEF SameEdge
<1>7. Grouping(new, segs, done \union {k})
  BY <1>1, <1>3, <1>4, <1>5, <1>6 DEF Grouping
<1> QED BY <1>4, <1>7 DEF new

\* A segment is put into an edge of its own.
LEMMA InsertedGrouping ==
  ASSUME NEW V, NEW ax \in Axes(V), NEW k \in 1..Len(ax.segs), NEW edge \in EdgeRecs(V), NEW major,
         edge.segs = <<k>>, edge.link = Nil, edge.serif = Nil, edge.blue = {},
         NEW segs \in Seq(SegmentRecs(V)), NEW done, k \notin done, Grouping(ax, segs, done)
  PROVE  /\ insert_edge(ax, k, edge, major) \in Axes(V)
         /\ Grouping(insert_edge(ax, k, edge, major), segs, done \union {k})
<1> DEFINE new == insert_edge(ax, k, edge, major)
           n == Len(ax.edges)
<1>1. /\ Len(ax.segs) = Len(segs) /\ Listed(ax) /\ SortedUp(ax.edges)
      /\ \A s \in 1..Len(segs) : SameSegment(ax.segs[s], segs[s]) /\ (ax.segs[s].edge # Nil => s \in done)
      /\ \A e \in 1..n : ax.edges[e].link = Nil /\ ax.edges[e].serif = Nil /\ ax.edges[e].blue = {}
  BY DEF Grouping
<1>2. ax.segs[k].edge = Nil
  BY <1>1
<1>3. Listed(new) /\ SortedUp(new.edges)
  BY <1>1, <1>2, InsertedListed, InsertedSorted
<1>4. /\ new \in Axes(V) /\ Len(new.edges) = n + 1 /\ Len(new.segs) = Len(ax.segs)
      /\ \A s \in 1..Len(ax.segs) : SameSegment(new.segs[s], ax.segs[s])
      /\ \E at \in 1..(n + 1) : Inserts(new, ax, k, edge, at)
  BY <1>1, InsertedParts
<1> HIDE DEF new
<1>5. PICK at \in 1..(n + 1) : Inserts(new, ax, k, edge, at)
  BY <1>4
<1>6. n \in Nat /\ at \in Nat /\ at # 0
  BY DEF Axes
<1>7. ASSUME NEW s \in 1..Len(segs)
      PROVE  SameSegment(new.segs[s], segs[s]) /\ (new.segs[s].edge # Nil => s \in done \union {k})
  <2>1. SameSegment(new.segs[s], segs[s])
    BY <1>1, <1>4 DEF SameSegment
  <2>2. CASE s # k /\ ax.segs[s].edge = Nil
    <3>1. new.segs[s].edge = Nil
      BY <1>1, <1>5, <1>6, <2>2 DEF Inserts, Nil
    <3> QED BY <2>1, <3>1
  <2>3. CASE s = k \/ ax.segs[s].edge # Nil
    BY <1>1, <2>1, <2>3
  <2> QED BY <2>2, <2>3
<1>8. ASSUME NEW e \in 1..(n + 1)
      PROVE  new.edges[e].link = Nil /\ new.edges[e].serif = Nil /\ new.edges[e].blue = {}
  <2>1. new.edges[e] = IF e < at THEN ax.edges[e] ELSE IF e = at THEN edge ELSE ax.edges[e - 1]
    BY <1>5 DEF Inserts
  <2>2. e < at => e \in 1..n
    BY <1>5, <1>6
  <2>3. ~(e < at) /\ e # at => e - 1 \in 1..n
    BY <1>5, <1>6
  <2> QED BY <1>1, <2>1, <2>2, <2>3
<1>9. Grouping(new, segs, done \union {k})
  BY <1>1, <1>3, <1>4, <1>7, <1>8 DEF Grouping
<1> QED BY <1>4, <1>9 DEF new

-----------------------------------------------------------------------------
(* Segments are grouped *)

\* What is in the fields of an edge that is made, and that is changed.
RoomFor(V, scale) ==
  {} \in V /\ TRUE \in V /\ FALSE \in V /\ \A p \in Int : MulFix(p, scale) \in V

\* The edge that is made for a segment lists it alone and leads nowhere.
LEMMA MadeEdge ==
  ASSUME NEW V, NEW scale, RoomFor(V, scale), NEW seg \in SegmentRecs(V), NEW k \in Nat
  PROVE  /\ NewEdge(seg, k, scale) \in EdgeRecs(V)
         /\ NewEdge(seg, k, scale).segs = <<k>>
         /\ NewEdge(seg, k, scale).link = Nil /\ NewEdge(seg, k, scale).serif = Nil
         /\ NewEdge(seg, k, scale).blue = {}
<1> DEFINE at == MulFix(seg.pos, scale)
           no == FALSE
           edge == NewEdge(seg, k, scale)
<1>1. edge = [fpos |-> seg.pos, opos |-> at, pos |-> at, dir |-> seg.dir,
              segs |-> <<k>>, link |-> Nil, serif |-> Nil, round |-> FALSE, serifed |-> FALSE, done |-> FALSE,
              neutral |-> no, blue |-> {}]
  BY Zenon DEF NewEdge
<1>2. seg.pos \in Int /\ seg.dir \in V
  BY DEF SegmentRecs
<1>3. no \in V
  BY Zenon DEF RoomFor
<1> HIDE DEF no, edge
<1>4. at \in V /\ {} \in V
  BY <1>2 DEF RoomFor
<1> HIDE DEF at
<1>5. <<k>> \in Seq(Nat) /\ Nil \in Nat
  BY DEF Nil
<1>6. edge \in EdgeRecs(V)
  BY <1>1, <1>2, <1>3, <1>4, <1>5 DEF EdgeRecs
<1>7. edge.segs = <<k>> /\ edge.link = Nil /\ edge.serif = Nil /\ edge.blue = {}
  BY <1>1
<1> QED BY <1>6, <1>7 DEF edge

\* What is in edges when only some segments were looked at is so when more
\* were.
LEMMA GroupingGrows ==
  ASSUME NEW ax, NEW segs, NEW done, NEW more, done \subseteq more, Grouping(ax, segs, done)
  PROVE  Grouping(ax, segs, more)
BY DEF Grouping

\* What a segment with a direction may change.
Puts(new, V, ax, k, major) ==
  \/ new = ax
  \/ /\ ax.segs[k].dir # None
     /\ \/ \E near \in 1..Len(ax.edges) : new = Joined(ax, k, near)
        \/ \E edge \in EdgeRecs(V) :
             /\ edge.segs = <<k>> /\ edge.link = Nil /\ edge.serif = Nil /\ edge.blue = {}
             /\ new = insert_edge(ax, k, edge, major)

\* Place: a segment without edge joins a near one of its direction, or gets
\* one.
LEMMA PlacePuts ==
  ASSUME NEW V, NEW m, NEW d, RoomFor(V, m.scale[d]), NEW major, NEW ax \in Axes(V), NEW k \in 1..Len(ax.segs)
  PROVE  Puts(Place(ax, k, m, d, major), V, ax, k, major)
<1> DEFINE seg == ax.segs[k]
           I == {i \in 1..Len(ax.edges) : ax.edges[i].dir = seg.dir /\ Near(ax.edges[i], seg, m, d)}
           near == IF I # {} THEN Min(I) ELSE 0
           edge == NewEdge(seg, k, m.scale[d])
           new == Place(ax, k, m, d, major)
<1>1. new = IF ~MakesEdge(seg, m, d) THEN ax
            ELSE IF near # 0 THEN Joined(ax, k, near) ELSE insert_edge(ax, k, edge, major)
  BY Zenon DEF Place, SelectInSeq
<1>2. Len(ax.edges) \in Nat /\ seg \in SegmentRecs(V) /\ k \in Nat
  BY DEF Axes
<1>3. near # 0 => near \in 1..Len(ax.edges)
  <2>1. I \subseteq 1..Len(ax.edges)
    OBVIOUS
  <2> HIDE DEF I
  <2>2. near \in 0..Len(ax.edges)
    BY <1>2, <2>1, FirstOf
  <2> HIDE DEF near
  <2> QED BY <1>2, <2>2
<1>4. edge \in EdgeRecs(V) /\ edge.segs = <<k>> /\ edge.link = Nil /\ edge.serif = Nil /\ edge.blue = {}
  <2>1. RoomFor(V, m.scale[d]) /\ seg \in SegmentRecs(V) /\ k \in Nat
    BY <1>2
  <2> HIDE DEF seg
  <2> QED BY <2>1, MadeEdge
<1>5. MakesEdge(seg, m, d) => seg.dir # None
  BY Zenon DEF MakesEdge
<1> HIDE DEF near, edge, new
<1>6. Puts(new, V, ax, k, major)
  BY <1>1, <1>3, <1>4, <1>5 DEF Puts
<1> QED BY <1>6 DEF new

\* Place makes edges of edges, and no segment is lost.
LEMMA PlacedSegment ==
  ASSUME NEW V, NEW m, NEW d, RoomFor(V, m.scale[d]), NEW major, NEW ax \in Axes(V), NEW k \in 1..Len(ax.segs)
  PROVE  Place(ax, k, m, d, major) \in Axes(V) /\ Len(Place(ax, k, m, d, major).segs) = Len(ax.segs)
<1>1. ASSUME NEW near \in 1..Len(ax.edges)
      PROVE  Joined(ax, k, near) \in Axes(V) /\ Len(Joined(ax, k, near).segs) = Len(ax.segs)
  BY JoinedParts
<1>2. ASSUME NEW edge \in EdgeRecs(V)
      PROVE  insert_edge(ax, k, edge, major) \in Axes(V) /\ Len(insert_edge(ax, k, edge, major).segs) = Len(ax.segs)
  BY InsertedParts
<1>3. Puts(Place(ax, k, m, d, major), V, ax, k, major)
  BY PlacePuts
<1> QED BY <1>1, <1>2, <1>3 DEF Puts

\* Place leaves no segment in two edges.
LEMMA PlacedGrouping ==
  ASSUME NEW V, NEW m, NEW d, RoomFor(V, m.scale[d]), NEW major,
         NEW ax \in Axes(V), NEW k \in 1..Len(ax.segs),
         NEW segs \in Seq(SegmentRecs(V)), NEW done, k \notin done, Grouping(ax, segs, done)
  PROVE  Grouping(Place(ax, k, m, d, major), segs, IF segs[k].dir = None THEN done ELSE done \union {k})
<1> DEFINE new == Place(ax, k, m, d, major)
           more == IF segs[k].dir = None THEN done ELSE done \union {k}
<1>1. ax.segs[k].dir = segs[k].dir
  BY DEF Grouping, SameSegment
<1>2. ASSUME new = ax PROVE Grouping(new, segs, more)
  <2>1. done \subseteq more
    OBVIOUS
  <2> HIDE DEF more
  <2>2. Grouping(ax, segs, more)
    BY <2>1, GroupingGrows
  <2> QED BY <1>2, <2>2 DEF more
<1>3. ASSUME NEW near \in 1..Len(ax.edges), ax.segs[k].dir # None, new = Joined(ax, k, near)
      PROVE  Grouping(new, segs, more)
  <2>1. Grouping(Joined(ax, k, near), segs, done \union {k})
    BY JoinedGrouping
  <2> QED BY <1>1, <1>3, <2>1
<1>4. ASSUME NEW edge \in EdgeRecs(V), ax.segs[k].dir # None,
             edge.segs = <<k>> /\ edge.link = Nil /\ edge.serif = Nil /\ edge.blue = {},
             new = insert_edge(ax, k, edge, major)
      PROVE  Grouping(new, segs, more)
  <2>1. Grouping(insert_edge(ax, k, edge, major), segs, done \union {k})
    BY <1>4, InsertedGrouping
  <2> QED BY <1>1, <1>4, <2>1
<1> HIDE DEF new, more
<1>5. Grouping(new, segs, more)
  <2>1. Puts(new, V, ax, k, major)
    BY PlacePuts DEF new
  <2>2. CASE ax.segs[k].dir # None /\ \E near \in 1..Len(ax.edges) : new = Joined(ax, k, near)
    <3>1. PICK near \in 1..Len(ax.edges) : new = Joined(ax, k, near)
      BY <2>2
    <3> QED BY <1>3, <2>2, <3>1
  <2>3. CASE /\ ax.segs[k].dir # None
             /\ \E edge \in EdgeRecs(V) :
                  /\ edge.segs = <<k>> /\ edge.link = Nil /\ edge.serif = Nil /\ edge.blue = {}
                  /\ new = insert_edge(ax, k, edge, major)
    <3>1. PICK edge \in EdgeRecs(V) : /\ edge.segs = <<k>> /\ edge.link = Nil /\ edge.serif = Nil /\ edge.blue = {}
                                      /\ new = insert_edge(ax, k, edge, major)
      BY <2>3
    <3> QED BY <1>4, <2>3, <3>1
  <2>4. \/ new = ax
        \/ /\ ax.segs[k].dir # None
           /\ \/ \E near \in 1..Len(ax.edges) : new = Joined(ax, k, near)
              \/ \E edge \in EdgeRecs(V) :
                   /\ edge.segs = <<k>> /\ edge.link = Nil /\ edge.serif = Nil /\ edge.blue = {}
                   /\ new = insert_edge(ax, k, edge, major)
    BY <2>1 DEF Puts
  <2>5. CASE new = ax
    BY <1>2, <2>5
  <2> QED BY <2>2, <2>3, <2>4, <2>5
<1> QED BY <1>5 DEF new, more

\* Catch: a segment without direction joins a near edge.
LEMMA CatchPuts ==
  ASSUME NEW V, NEW m, NEW d, NEW ax \in Axes(V), NEW k \in 1..Len(ax.segs)
  PROVE  \/ Catch(ax, k, m, d) = ax
         \/ ax.segs[k].dir = None /\ \E near \in 1..Len(ax.edges) : Catch(ax, k, m, d) = Joined(ax, k, near)
<1> DEFINE I == {i \in 1..Len(ax.edges) : Near(ax.edges[i], ax.segs[k], m, d)}
           near == IF I # {} THEN Min(I) ELSE 0
           new == Catch(ax, k, m, d)
<1>1. new = IF ax.segs[k].dir # None \/ near = 0 THEN ax ELSE Joined(ax, k, near)
  BY Zenon DEF Catch, SelectInSeq
<1>2. Len(ax.edges) \in Nat
  BY DEF Axes
<1>3. near # 0 => near \in 1..Len(ax.edges)
  <2>1. I \subseteq 1..Len(ax.edges)
    OBVIOUS
  <2> HIDE DEF I
  <2>2. near \in 0..Len(ax.edges)
    BY <1>2, <2>1, FirstOf
  <2> HIDE DEF near
  <2> QED BY <1>2, <2>2
<1> HIDE DEF near, new
<1>4. new = ax \/ (ax.segs[k].dir = None /\ \E i \in 1..Len(ax.edges) : new = Joined(ax, k, i))
  BY <1>1, <1>3
<1> QED BY <1>4 DEF new

\* Catch makes edges of edges, and no segment is lost.
LEMMA CaughtSegment ==
  ASSUME NEW V, NEW m, NEW d, NEW ax \in Axes(V), NEW k \in 1..Len(ax.segs)
  PROVE  Catch(ax, k, m, d) \in Axes(V) /\ Len(Catch(ax, k, m, d).segs) = Len(ax.segs)
<1>1. ASSUME NEW near \in 1..Len(ax.edges)
      PROVE  Joined(ax, k, near) \in Axes(V) /\ Len(Joined(ax, k, near).segs) = Len(ax.segs)
  BY JoinedParts
<1>2. \/ Catch(ax, k, m, d) = ax
      \/ \E near \in 1..Len(ax.edges) : Catch(ax, k, m, d) = Joined(ax, k, near)
  BY CatchPuts
<1> QED BY <1>1, <1>2

\* Catch leaves no segment in two edges.
LEMMA CaughtGrouping ==
  ASSUME NEW V, NEW m, NEW d, NEW ax \in Axes(V), NEW k \in 1..Len(ax.segs),
         NEW segs \in Seq(SegmentRecs(V)), NEW done, segs[k].dir = None => k \notin done, Grouping(ax, segs, done)
  PROVE  Grouping(Catch(ax, k, m, d), segs, done \union {k})
<1>1. ax.segs[k].dir = segs[k].dir
  BY DEF Grouping, SameSegment
<1>2. Grouping(ax, segs, done \union {k})
  BY GroupingGrows
<1>3. ASSUME NEW near \in 1..Len(ax.edges), ax.segs[k].dir = None
      PROVE  Grouping(Joined(ax, k, near), segs, done \union {k})
  BY <1>1, <1>3, JoinedGrouping
<1>4. \/ Catch(ax, k, m, d) = ax
      \/ ax.segs[k].dir = None /\ \E near \in 1..Len(ax.edges) : Catch(ax, k, m, d) = Joined(ax, k, near)
  BY CatchPuts
<1> QED BY <1>2, <1>3, <1>4

\* The two passes over the segments.
AfterPlacing(segs, m, d, major) ==
  FoldLeft(LAMBDA ax, k : Place(ax, k, m, d, major), [segs |-> segs, edges |-> <<>>], [k \in DOMAIN segs |-> k])

AfterCatching(start, segs, m, d) ==
  FoldLeft(LAMBDA ax, k : Catch(ax, k, m, d), start, [k \in DOMAIN segs |-> k])

Directed(segs) == {s \in 1..Len(segs) : segs[s].dir # None}

\* All segments are put into edges in their order, first those with a direction.
\* A segment is put in once, when it is in no edge.
LEMMA AllPlaced ==
  ASSUME NEW V, NEW m, NEW d, RoomFor(V, m.scale[d]), NEW major, NEW segs \in Seq(SegmentRecs(V)), Fresh(segs)
  PROVE  LET placed == AfterPlacing(segs, m, d, major)
         IN /\ placed \in Axes(V) /\ Len(placed.segs) = Len(segs)
            /\ Grouping(placed, segs, Directed(segs))
<1> DEFINE n == Len(segs)
           order == [k \in DOMAIN segs |-> k]
           start == [segs |-> segs, edges |-> <<>>]
           T == {ax \in Axes(V) : Len(ax.segs) = n}
           round == [k \in 1..n |-> [x \in T |-> Place(x, order[k], m, d, major)]]
           Fold(f) == [s \in SUBSET (DOMAIN order) |->
                         IF s = {} THEN start ELSE Place(f[s \ {Max(s)}], order[Max(s)], m, d, major)]
           fold == CHOOSE f : f = Fold(f)
           placed == AfterPlacing(segs, m, d, major)
<1>1. placed = fold[DOMAIN order]
  BY Zenon DEF AfterPlacing, FoldLeft, MapThenFoldSet
<1>2. n \in Nat /\ DOMAIN order = 1..n /\ \A k \in 1..n : order[k] = k
  OBVIOUS
<1>3. start \in T /\ Grouping(start, segs, {s \in 1..0 : segs[s].dir # None})
  <2>1. start \in Axes(V) /\ start.segs = segs /\ start.edges = <<>> /\ Len(<<>>) = 0
    BY DEF Axes
  <2> HIDE DEF start
  <2>2. \A s \in 1..n : SameSegment(segs[s], segs[s]) /\ segs[s].edge = Nil
    BY DEF Fresh, SameSegment
  <2>3. Listed(start) /\ SortedUp(start.edges)
    BY <2>1, <2>2 DEF Listed, SortedUp
  <2> QED BY <2>1, <2>2, <2>3 DEF Grouping
<1>4. \A k \in 1..n : \A x \in T : Place(x, order[k], m, d, major) \in T
  <2> SUFFICES ASSUME NEW k \in 1..n, NEW x \in T PROVE Place(x, k, m, d, major) \in T
    BY <1>2
  <2>1. x \in Axes(V) /\ Len(x.segs) = n /\ k \in 1..Len(x.segs)
    OBVIOUS
  <2> HIDE DEF n
  <2> QED BY <2>1, PlacedSegment
<1> HIDE DEF start, T, placed
<1>5. AreRounds(round, n, T) /\ \A k \in 1..n : \A x \in T : round[k][x] = Place(x, order[k], m, d, major)
  BY <1>4 DEF AreRounds
<1> HIDE DEF round, order, n
<1>6. fold = Fold(fold)
  <2>1. PICK f \in [SUBSET (1..n) -> T] : IsFold(f, n, start, round)
    BY <1>2, <1>3, <1>5, FoldExists
  <2>2. \A s \in SUBSET (1..n) :
          (IF s = {} THEN start ELSE round[Max(s)][f[s \ {Max(s)}]])
            = (IF s = {} THEN start ELSE Place(f[s \ {Max(s)}], order[Max(s)], m, d, major))
    BY <1>2, <1>5, <2>1, WithoutGreatest
  <2>3. f = Fold(f)
    BY <1>2, <2>1, <2>2 DEF IsFold
  <2> HIDE DEF Fold
  <2> QED BY <2>3, Zenon
<1> HIDE DEF fold
<1>7. FoldsBy(fold, n, T, start, round)
  <2>1. \A s \in SUBSET (1..n) : fold[s] = IF s = {} THEN start ELSE Place(fold[s \ {Max(s)}], order[Max(s)], m, d, major)
    BY <1>2, <1>6
  <2>2. fold[{}] = start
    BY <2>1
  <2>3. ASSUME NEW s \in SUBSET (1..n), s # {} /\ fold[s \ {Max(s)}] \in T
        PROVE  fold[s] = round[Max(s)][fold[s \ {Max(s)}]]
    <3>1. Max(s) \in 1..n /\ fold[s] = Place(fold[s \ {Max(s)}], order[Max(s)], m, d, major)
      BY <1>2, <2>1, <2>3, WithoutGreatest
    <3> QED BY <1>5, <2>3, <3>1
  <2> QED BY <2>2, <2>3 DEF FoldsBy
<1>8. PICK g : IsLoop(g, n, T, start, round) /\ fold[1..n] = g[n]
  BY <1>2, <1>3, <1>5, <1>7, FoldRounds
<1> DEFINE Done(k) == {s \in 1..k : segs[s].dir # None}
           P == {k \in 0..n : Grouping(g[k], segs, Done(k))}
<1>9. 0 \in P
  BY <1>2, <1>3, <1>8 DEF IsLoop
<1>10. ASSUME NEW k \in 1..n, k - 1 \in P PROVE k \in P
  <2>1. k - 1 \in 0..n /\ k \in 1..n /\ k \in 0..n /\ Grouping(g[k - 1], segs, Done(k - 1))
    BY <1>2, <1>10
  <2>2. g[k - 1] \in T /\ g[k] = Place(g[k - 1], k, m, d, major)
    BY <1>2, <1>5, <1>8, <2>1 DEF IsLoop
  <2>3. g[k - 1] \in Axes(V) /\ k \in 1..Len(g[k - 1].segs)
    BY <2>2 DEF T
  <2>4. k \notin Done(k - 1)
    BY <1>2
  <2>5. Done(k) = IF segs[k].dir = None THEN Done(k - 1) ELSE Done(k - 1) \union {k}
    <3>1. 1..k = 1..(k - 1) \union {k}
      BY <1>2
    <3> QED BY <3>1
  <2> HIDE DEF Done
  <2> DEFINE x == g[k - 1]
             done == Done(k - 1)
  <2>6. x \in Axes(V) /\ k \in 1..Len(x.segs) /\ k \notin done /\ Grouping(x, segs, done)
    BY <2>1, <2>3, <2>4
  <2> HIDE DEF x, done
  <2>7. Grouping(Place(x, k, m, d, major), segs, IF segs[k].dir = None THEN done ELSE done \union {k})
    BY <2>6, PlacedGrouping
  <2>8. Grouping(g[k], segs, Done(k))
    BY <2>2, <2>5, <2>7 DEF x, done
  <2> QED BY <2>1, <2>8
<1>11. n \in P
  <2> HIDE DEF P
  <2>1. 0..n \subseteq P
    BY <1>2, <1>9, <1>10, UpTo
  <2> QED BY <1>2, <2>1
<1>12. placed = g[n] /\ g[n] \in T
  BY <1>1, <1>2, <1>8 DEF IsLoop
<1>13. placed \in Axes(V) /\ Len(placed.segs) = n /\ Grouping(placed, segs, Done(n))
  BY <1>11, <1>12 DEF T
<1> QED BY <1>13 DEF n, placed, Directed

\* Then those without one; then no segment is left that could be in two edges.
LEMMA AllCaught ==
  ASSUME NEW V, NEW m, NEW d, NEW segs \in Seq(SegmentRecs(V)),
         NEW start \in Axes(V), Len(start.segs) = Len(segs),
         Grouping(start, segs, Directed(segs))
  PROVE  LET caught == AfterCatching(start, segs, m, d)
         IN caught \in Axes(V) /\ Grouping(caught, segs, 1..Len(segs))
<1> DEFINE n == Len(segs)
           order == [k \in DOMAIN segs |-> k]
           T == {ax \in Axes(V) : Len(ax.segs) = n}
           round == [k \in 1..n |-> [x \in T |-> Catch(x, order[k], m, d)]]
           Fold(f) == [s \in SUBSET (DOMAIN order) |->
                         IF s = {} THEN start ELSE Catch(f[s \ {Max(s)}], order[Max(s)], m, d)]
           fold == CHOOSE f : f = Fold(f)
           caught == AfterCatching(start, segs, m, d)
<1>1. caught = fold[DOMAIN order]
  BY Zenon DEF AfterCatching, FoldLeft, MapThenFoldSet
<1>2. n \in Nat /\ DOMAIN order = 1..n /\ \A k \in 1..n : order[k] = k
  OBVIOUS
<1>3. start \in T
  OBVIOUS
<1>4. \A k \in 1..n : \A x \in T : Catch(x, order[k], m, d) \in T
  <2> SUFFICES ASSUME NEW k \in 1..n, NEW x \in T PROVE Catch(x, k, m, d) \in T
    BY <1>2
  <2>1. x \in Axes(V) /\ Len(x.segs) = n /\ k \in 1..Len(x.segs)
    OBVIOUS
  <2> HIDE DEF n
  <2> QED BY <2>1, CaughtSegment
<1> HIDE DEF T, caught
<1>5. AreRounds(round, n, T) /\ \A k \in 1..n : \A x \in T : round[k][x] = Catch(x, order[k], m, d)
  BY <1>4 DEF AreRounds
<1> HIDE DEF round, order, n
<1>6. fold = Fold(fold)
  <2>1. PICK f \in [SUBSET (1..n) -> T] : IsFold(f, n, start, round)
    BY <1>2, <1>3, <1>5, FoldExists
  <2>2. \A s \in SUBSET (1..n) :
          (IF s = {} THEN start ELSE round[Max(s)][f[s \ {Max(s)}]])
            = (IF s = {} THEN start ELSE Catch(f[s \ {Max(s)}], order[Max(s)], m, d))
    BY <1>2, <1>5, <2>1, WithoutGreatest
  <2>3. f = Fold(f)
    BY <1>2, <2>1, <2>2 DEF IsFold
  <2> HIDE DEF Fold
  <2> QED BY <2>3, Zenon
<1> HIDE DEF fold
<1>7. FoldsBy(fold, n, T, start, round)
  <2>1. \A s \in SUBSET (1..n) : fold[s] = IF s = {} THEN start ELSE Catch(fold[s \ {Max(s)}], order[Max(s)], m, d)
    BY <1>2, <1>6
  <2>2. fold[{}] = start
    BY <2>1
  <2>3. ASSUME NEW s \in SUBSET (1..n), s # {} /\ fold[s \ {Max(s)}] \in T
        PROVE  fold[s] = round[Max(s)][fold[s \ {Max(s)}]]
    <3>1. Max(s) \in 1..n /\ fold[s] = Catch(fold[s \ {Max(s)}], order[Max(s)], m, d)
      BY <1>2, <2>1, <2>3, WithoutGreatest
    <3> QED BY <1>5, <2>3, <3>1
  <2> QED BY <2>2, <2>3 DEF FoldsBy
<1>8. PICK g : IsLoop(g, n, T, start, round) /\ fold[1..n] = g[n]
  BY <1>2, <1>3, <1>5, <1>7, FoldRounds
<1> DEFINE Done(k) == {s \in 1..n : segs[s].dir # None \/ s <= k}
           P == {k \in 0..n : Grouping(g[k], segs, Done(k))}
<1>9. 0 \in P
  <2>1. Done(0) = {s \in 1..n : segs[s].dir # None} /\ 0 \in 0..n
    BY <1>2
  <2>2. g[0] = start
    BY <1>8 DEF IsLoop
  <2> HIDE DEF Done
  <2> QED BY <2>1, <2>2 DEF n, Directed
<1>10. ASSUME NEW k \in 1..n, k - 1 \in P PROVE k \in P
  <2>1. k - 1 \in 0..n /\ k \in 1..n /\ k \in 0..n /\ Grouping(g[k - 1], segs, Done(k - 1))
    BY <1>2, <1>10
  <2>2. g[k - 1] \in T /\ g[k] = Catch(g[k - 1], k, m, d)
    BY <1>2, <1>5, <1>8, <2>1 DEF IsLoop
  <2>3. g[k - 1] \in Axes(V) /\ k \in 1..Len(g[k - 1].segs)
    BY <2>2 DEF T
  <2>4. segs[k].dir = None => k \notin Done(k - 1)
    BY <1>2
  <2>5. Done(k) = Done(k - 1) \union {k}
    BY <1>2
  <2> HIDE DEF Done
  <2> DEFINE x == g[k - 1]
             done == Done(k - 1)
             y == Catch(x, k, m, d)
  <2>6. /\ x \in Axes(V) /\ k \in 1..Len(x.segs)
        /\ segs[k].dir = None => k \notin done
        /\ Grouping(x, segs, done)
    BY <2>1, <2>3, <2>4
  <2> HIDE DEF x, done
  <2>7. Grouping(y, segs, done \union {k})
    BY <2>6, CaughtGrouping
  <2>8. y = g[k] /\ done = Done(k - 1) /\ x = g[k - 1]
    BY <2>2 DEF x, done
  <2> HIDE DEF y
  <2> QED BY <2>1, <2>4, <2>5, <2>7, <2>8
<1>11. n \in P
  <2> HIDE DEF P
  <2>1. 0..n \subseteq P
    BY <1>2, <1>9, <1>10, UpTo
  <2> QED BY <1>2, <2>1
<1>12. caught = g[n] /\ g[n] \in T
  BY <1>1, <1>2, <1>8 DEF IsLoop
<1>13. Done(n) = 1..n
  BY <1>2
<1>14. caught \in Axes(V) /\ Grouping(caught, segs, 1..n)
  BY <1>11, <1>12, <1>13 DEF T
<1> QED BY <1>14 DEF n, caught

\* Every segment is listed by the edge it is in, once, and edges lie in order.
LEMMA SegmentsGrouped ==
  ASSUME NEW V, NEW m, NEW d, RoomFor(V, m.scale[d]), NEW major, NEW segs \in Seq(SegmentRecs(V)), Fresh(segs)
  PROVE  LET ax == Grouped(segs, m, d, major)
         IN ax \in Axes(V) /\ Grouping(ax, segs, 1..Len(segs))
<1> DEFINE placed == AfterPlacing(segs, m, d, major)
           caught == AfterCatching(placed, segs, m, d)
<1>1. Grouped(segs, m, d, major) = caught
  BY Zenon DEF Grouped, AfterPlacing, AfterCatching
<1>2. /\ placed \in Axes(V) /\ Len(placed.segs) = Len(segs)
      /\ Grouping(placed, segs, Directed(segs))
  BY AllPlaced
<1> HIDE DEF placed
<1>3. caught \in Axes(V) /\ Grouping(caught, segs, 1..Len(segs))
  BY <1>2, AllCaught
<1> QED BY <1>1, <1>3

-----------------------------------------------------------------------------
(* Edges listed downwards *)

\* The ranks of the edges are their numbers in another order.
LEMMA Ranks ==
  ASSUME NEW V, NEW edges \in Seq(EdgeRecs(V))
  PROVE  /\ \A i \in 1..Len(edges) : Rank(edges, i) \in 1..Len(edges)
         /\ \A i, j \in 1..Len(edges) : Rank(edges, i) = Rank(edges, j) => i = j
         /\ \A i, j \in 1..Len(edges) : Rank(edges, i) < Rank(edges, j) => edges[i].fpos >= edges[j].fpos
         /\ \A k \in 1..Len(edges) : \E i \in 1..Len(edges) : Rank(edges, i) = k
<1> DEFINE n == Len(edges)
           Ahead(i) == {j \in DOMAIN edges : \/ edges[j].fpos > edges[i].fpos
                                             \/ edges[j].fpos = edges[i].fpos /\ j < i}
           rank == [i \in 1..n |-> Rank(edges, i)]
<1>1. n \in Nat /\ DOMAIN edges = 1..n /\ \A i \in 1..n : edges[i].fpos \in Int
  <2>1. \A i \in 1..n : edges[i] \in EdgeRecs(V)
    OBVIOUS
  <2> QED BY <2>1 DEF EdgeRecs
<1>2. \A i \in 1..n : Rank(edges, i) = Cardinality(Ahead(i)) + 1
  BY Zenon DEF Rank
<1>3. \A i \in 1..n : Ahead(i) \in SUBSET ((1..n) \ {i})
  BY <1>1
<1>4. IsFiniteSet(1..n) /\ Cardinality(1..n) = n
  <2>1. IsFiniteSet(1..n) /\ Cardinality(1..n) = IF 1 > n THEN 0 ELSE n - 1 + 1
    BY <1>1, FS_Interval
  <2> QED BY <1>1, <2>1
<1>5. ASSUME NEW i \in 1..n
      PROVE  IsFiniteSet(Ahead(i)) /\ Cardinality(Ahead(i)) \in 0..(n - 1)
  <2> DEFINE others == (1..n) \ {i}
  <2>1. IsFiniteSet(others) /\ Cardinality(others) = n - 1
    BY <1>1, <1>4, FS_RemoveElement
  <2>2. Ahead(i) \in SUBSET others
    BY <1>3
  <2> HIDE DEF Ahead, others
  <2>3. IsFiniteSet(Ahead(i)) /\ Cardinality(Ahead(i)) <= n - 1
    BY <2>1, <2>2, FS_Subset
  <2>4. Cardinality(Ahead(i)) \in Nat
    BY <2>3, FS_CardinalityType
  <2> QED BY <1>1, <2>3, <2>4
<1>6. ASSUME NEW i \in 1..n, NEW j \in 1..n,
             edges[i].fpos > edges[j].fpos \/ (edges[i].fpos = edges[j].fpos /\ i < j)
      PROVE  Cardinality(Ahead(i)) < Cardinality(Ahead(j))
  <2>1. Ahead(i) \in SUBSET Ahead(j)
    BY <1>1, <1>6
  <2>2. i \in Ahead(j) /\ i \notin Ahead(i)
    BY <1>1, <1>6
  <2> HIDE DEF Ahead
  <2>3. Cardinality(Ahead(i)) <= Cardinality(Ahead(j)) /\ Cardinality(Ahead(i)) # Cardinality(Ahead(j))
    BY <1>5, <2>1, <2>2, FS_Subset
  <2> QED BY <1>5, <2>3
<1> HIDE DEF Ahead
<1>7. \A i \in 1..n : rank[i] = Rank(edges, i) /\ rank[i] \in 1..n
  BY <1>1, <1>2, <1>5
<1>8. ASSUME NEW i \in 1..n, NEW j \in 1..n
      PROVE  /\ rank[i] = rank[j] => i = j
             /\ rank[i] < rank[j] => edges[i].fpos >= edges[j].fpos
  <2>1. /\ rank[i] = Cardinality(Ahead(i)) + 1 /\ rank[j] = Cardinality(Ahead(j)) + 1
        /\ Cardinality(Ahead(i)) \in Nat /\ Cardinality(Ahead(j)) \in Nat
    BY <1>1, <1>2, <1>5
  <2>2. edges[i].fpos \in Int /\ edges[j].fpos \in Int
    BY <1>1
  <2>3. CASE edges[i].fpos > edges[j].fpos \/ (edges[i].fpos = edges[j].fpos /\ i < j)
    <3>1. rank[i] < rank[j]
      BY <1>6, <2>1, <2>3
    <3> HIDE DEF rank
    <3> QED BY <1>7, <2>2, <2>3, <3>1
  <2>4. CASE edges[j].fpos > edges[i].fpos \/ (edges[j].fpos = edges[i].fpos /\ j < i)
    <3>1. rank[j] < rank[i]
      BY <1>6, <2>1, <2>4
    <3> HIDE DEF rank
    <3>2. rank[i] \in Int /\ rank[j] \in Int
      BY <1>7
    <3> QED BY <2>2, <2>4, <3>1, <3>2
  <2>5. CASE i = j
    BY <2>2, <2>5
  <2> QED BY <2>2, <2>3, <2>4, <2>5
<1> HIDE DEF rank
<1>9. \A k \in 1..n : \E i \in 1..n : rank[i] = k
  <2>1. rank \in [1..n -> 1..n]
    BY <1>7 DEF rank
  <2>2. rank \in Injection(1..n, 1..n)
    BY <1>8, <2>1 DEF Injection, IsInjective
  <2>3. rank \in Surjection(1..n, 1..n)
    BY <1>4, <2>2, FS_Injection
  <2> QED BY <2>3 DEF Surjection
<1> QED BY <1>7, <1>8, <1>9 DEF n

\* Every edge is where its rank is, and its segments name it there.
Reranked(new, ax) ==
  /\ \A i \in 1..Len(ax.edges) : new.edges[Rank(ax.edges, i)] = ax.edges[i]
  /\ \A s \in 1..Len(ax.segs) :
       new.segs[s].edge = IF ax.segs[s].edge = Nil THEN Nil ELSE Rank(ax.edges, ax.segs[s].edge)

\* Ordered: each edge goes to its rank, and its segments name the rank.
LEMMA OrderedParts ==
  ASSUME NEW V, NEW ax \in Axes(V), Listed(ax)
  PROVE  LET new == Ordered(ax)
         IN /\ new \in Axes(V)
            /\ Len(new.edges) = Len(ax.edges) /\ Len(new.segs) = Len(ax.segs)
            /\ \A s \in 1..Len(ax.segs) : SameSegment(new.segs[s], ax.segs[s])
            /\ Reranked(new, ax)
<1> DEFINE n == Len(ax.edges)
           m == Len(ax.segs)
           At1(k) == CHOOSE i \in DOMAIN ax.edges : Rank(ax.edges, i) = k
           Number(s) == IF ax.segs[s].edge = Nil THEN Nil ELSE Rank(ax.edges, ax.segs[s].edge)
           Numbered(s) == [ax.segs[s] EXCEPT !.edge = Number(s)]
           edges == [k \in DOMAIN ax.edges |-> ax.edges[At1(k)]]
           segs == [s \in DOMAIN ax.segs |-> Numbered(s)]
<1>1. /\ ax.segs \in Seq(SegmentRecs(V)) /\ ax.edges \in Seq(EdgeRecs(V))
      /\ n \in Nat /\ m \in Nat /\ DOMAIN ax.edges = 1..n /\ DOMAIN ax.segs = 1..m
  BY DEF Axes
<1>2. Ordered(ax) = [edges |-> Written(edges), segs |-> Written(segs)]
  BY Zenon DEF Ordered
<1>3. /\ \A i \in 1..n : Rank(ax.edges, i) \in 1..n
      /\ \A i, j \in 1..n : Rank(ax.edges, i) = Rank(ax.edges, j) => i = j
      /\ \A k \in 1..n : \E i \in 1..n : Rank(ax.edges, i) = k
  BY <1>1, Ranks
<1>4. \A k \in 1..n : At1(k) \in 1..n /\ Rank(ax.edges, At1(k)) = k
  BY <1>1, <1>3, Zenon
<1> HIDE DEF At1
<1>5. edges \in [1..n -> EdgeRecs(V)] /\ \A i \in 1..n : edges[Rank(ax.edges, i)] = ax.edges[i]
  <2>1. \A k \in 1..n : ax.edges[At1(k)] \in EdgeRecs(V)
    BY <1>1, <1>4
  <2>2. edges \in [1..n -> EdgeRecs(V)] /\ \A k \in 1..n : edges[k] = ax.edges[At1(k)]
    BY <1>1, <2>1
  <2> HIDE DEF edges
  <2>3. \A i \in 1..n : At1(Rank(ax.edges, i)) = i
    BY <1>3, <1>4
  <2> QED BY <1>3, <2>2, <2>3
<1>6. ASSUME NEW s \in 1..m
      PROVE  Numbered(s) \in SegmentRecs(V) /\ Numbered(s).edge = Number(s) /\ SameSegment(Numbered(s), ax.segs[s])
  <2>1. ax.segs[s] \in SegmentRecs(V)
    BY <1>1
  <2>2. Number(s) \in Nat
    BY <1>3 DEF Listed, Nil
  <2> HIDE DEF Number
  <2> QED BY <2>1, <2>2, SegmentFields
<1> HIDE DEF edges
<1>7. segs \in [1..m -> SegmentRecs(V)] /\ \A s \in 1..m : segs[s] = Numbered(s)
  <2> HIDE DEF Numbered, m
  <2> QED BY <1>1, <1>6
<1> HIDE DEF segs
<1>8. segs \in Seq(SegmentRecs(V)) /\ Len(segs) = m /\ Written(segs) = segs
  <2> HIDE DEF m
  <2> QED BY <1>1, <1>7, WrittenOut
<1>9. edges \in Seq(EdgeRecs(V)) /\ Len(edges) = n /\ Written(edges) = edges
  <2> HIDE DEF n
  <2> QED BY <1>1, <1>5, WrittenOut
<1> DEFINE new == Ordered(ax)
<1>10. new.edges = edges /\ new.segs = segs /\ new \in Axes(V)
  BY <1>2, <1>8, <1>9 DEF Axes
<1> HIDE DEF new
<1>11. \A s \in 1..m : SameSegment(new.segs[s], ax.segs[s]) /\ new.segs[s].edge = Number(s)
  <2> HIDE DEF Numbered, Number
  <2> QED BY <1>6, <1>7, <1>10
<1>12. Reranked(new, ax)
  BY <1>5, <1>10, <1>11 DEF Reranked
<1> QED BY <1>8, <1>9, <1>10, <1>11, <1>12 DEF new

\* Edges that change places keep their segments.
LEMMA OrderedListed ==
  ASSUME NEW V, NEW ax \in Axes(V), Listed(ax)
  PROVE  Listed(Ordered(ax))
<1> DEFINE new == Ordered(ax)
           n == Len(ax.edges)
           m == Len(ax.segs)
           rank == [i \in 1..n |-> Rank(ax.edges, i)]
<1>1. /\ Len(new.edges) = n /\ Len(new.segs) = m
      /\ \A i \in 1..n : new.edges[Rank(ax.edges, i)] = ax.edges[i]
      /\ \A s \in 1..m :
           new.segs[s].edge = IF ax.segs[s].edge = Nil THEN Nil ELSE Rank(ax.edges, ax.segs[s].edge)
  BY OrderedParts DEF Reranked
<1>2. /\ \A i \in 1..n : Rank(ax.edges, i) \in 1..n
      /\ \A i, j \in 1..n : Rank(ax.edges, i) = Rank(ax.edges, j) => i = j
      /\ \A k \in 1..n : \E i \in 1..n : Rank(ax.edges, i) = k
  <2>1. ax.edges \in Seq(EdgeRecs(V))
    BY DEF Axes
  <2> QED BY <2>1, Ranks
<1>3. /\ \A e \in 1..n : \A i \in 1..Len(ax.edges[e].segs) :
           /\ ax.edges[e].segs[i] \in 1..m
           /\ ax.segs[ax.edges[e].segs[i]].edge = e
           /\ \A j \in 1..Len(ax.edges[e].segs) : ax.edges[e].segs[i] = ax.edges[e].segs[j] => i = j
      /\ \A s \in 1..m :
           \/ ax.segs[s].edge = Nil
           \/ /\ ax.segs[s].edge \in 1..n
              /\ \E i \in 1..Len(ax.edges[ax.segs[s].edge].segs) : ax.edges[ax.segs[s].edge].segs[i] = s
  BY DEF Listed
<1>4. n \in Nat
  BY DEF Axes
<1> HIDE DEF new, n, m
<1>5. ASSUME NEW e \in 1..n, NEW i \in 1..Len(new.edges[e].segs)
      PROVE  /\ new.edges[e].segs[i] \in 1..m
             /\ new.segs[new.edges[e].segs[i]].edge = e
             /\ \A j \in 1..Len(new.edges[e].segs) : new.edges[e].segs[i] = new.edges[e].segs[j] => i = j
  <2>1. PICK o \in 1..n : Rank(ax.edges, o) = e
    BY <1>2
  <2>2. new.edges[e] = ax.edges[o] /\ o # Nil
    BY <1>1, <1>4, <2>1 DEF Nil
  <2>3. /\ ax.edges[o].segs[i] \in 1..m
        /\ ax.segs[ax.edges[o].segs[i]].edge = o
        /\ \A j \in 1..Len(ax.edges[o].segs) : ax.edges[o].segs[i] = ax.edges[o].segs[j] => i = j
    BY <1>3, <2>2
  <2> QED BY <1>1, <2>1, <2>2, <2>3
<1>6. ASSUME NEW s \in 1..m, new.segs[s].edge # Nil
      PROVE  /\ new.segs[s].edge \in 1..n
             /\ \E i \in 1..Len(new.edges[new.segs[s].edge].segs) : new.edges[new.segs[s].edge].segs[i] = s
  <2> DEFINE o == ax.segs[s].edge
  <2>1. o # Nil /\ new.segs[s].edge = Rank(ax.edges, o)
    BY <1>1, <1>6
  <2>2. o \in 1..n /\ \E i \in 1..Len(ax.edges[o].segs) : ax.edges[o].segs[i] = s
    BY <1>3, <2>1
  <2> HIDE DEF o
  <2>3. Rank(ax.edges, o) \in 1..n /\ new.edges[Rank(ax.edges, o)] = ax.edges[o]
    BY <1>1, <1>2, <2>2
  <2> QED BY <2>1, <2>2, <2>3
<1>7. Listed(new)
  BY <1>1, <1>5, <1>6 DEF Listed
<1> QED BY <1>7 DEF new

SortedDown(edges) == \A e, f \in 1..Len(edges) : e < f => edges[e].fpos >= edges[f].fpos

\* What holds of the edges before they are linked.
Laid(ax, segs, down) ==
  /\ Len(ax.segs) = Len(segs)
  /\ \A s \in 1..Len(segs) : SameSegment(ax.segs[s], segs[s])
  /\ Listed(ax)
  /\ IF down THEN SortedDown(ax.edges) ELSE SortedUp(ax.edges)
  /\ \A e \in 1..Len(ax.edges) : /\ ax.edges[e].link = Nil /\ ax.edges[e].serif = Nil
                                 /\ ax.edges[e].blue = {}

\* compute_edges before edges are linked: they lie in order and lead nowhere.
LEMMA EdgesLaid ==
  ASSUME NEW V, NEW m, NEW d, RoomFor(V, m.scale[d]), NEW major, NEW segs \in Seq(SegmentRecs(V)), Fresh(segs),
         NEW down
  PROVE  LET grouped == Grouped(segs, m, d, major)
             ax == IF down THEN Ordered(grouped) ELSE grouped
         IN ax \in Axes(V) /\ Laid(ax, segs, down)
<1> DEFINE grouped == Grouped(segs, m, d, major)
           new == Ordered(grouped)
           n == Len(grouped.edges)
<1>1. grouped \in Axes(V) /\ Grouping(grouped, segs, 1..Len(segs))
  BY SegmentsGrouped
<1> HIDE DEF grouped
<1>2. /\ Len(grouped.segs) = Len(segs) /\ Listed(grouped) /\ SortedUp(grouped.edges)
      /\ \A s \in 1..Len(segs) : SameSegment(grouped.segs[s], segs[s])
      /\ \A e \in 1..n : /\ grouped.edges[e].link = Nil /\ grouped.edges[e].serif = Nil
                         /\ grouped.edges[e].blue = {}
  BY <1>1 DEF Grouping
<1>3. CASE ~down
  BY <1>1, <1>2, <1>3 DEF Laid, grouped
<1>4. CASE down
  <2>1. /\ new \in Axes(V)
        /\ Len(new.edges) = n /\ Len(new.segs) = Len(grouped.segs)
        /\ \A s \in 1..Len(grouped.segs) : SameSegment(new.segs[s], grouped.segs[s])
        /\ \A i \in 1..n : new.edges[Rank(grouped.edges, i)] = grouped.edges[i]
    BY <1>1, <1>2, OrderedParts DEF Reranked
  <2>2. Listed(new)
    BY <1>1, <1>2, OrderedListed
  <2>3. /\ \A i, j \in 1..n : Rank(grouped.edges, i) < Rank(grouped.edges, j)
                                => grouped.edges[i].fpos >= grouped.edges[j].fpos
        /\ \A k \in 1..n : \E i \in 1..n : Rank(grouped.edges, i) = k
    <3>1. grouped.edges \in Seq(EdgeRecs(V))
      BY <1>1 DEF Axes
    <3> QED BY <3>1, Ranks
  <2> HIDE DEF new, n
  <2>4. \A s \in 1..Len(segs) : SameSegment(new.segs[s], segs[s])
    BY <1>2, <2>1 DEF SameSegment
  <2>5. SortedDown(new.edges)
    <3> SUFFICES ASSUME NEW e \in 1..n, NEW f \in 1..n, e < f PROVE new.edges[e].fpos >= new.edges[f].fpos
      BY <2>1 DEF SortedDown
    <3>1. PICK i \in 1..n : Rank(grouped.edges, i) = e
      BY <2>3
    <3>2. PICK j \in 1..n : Rank(grouped.edges, j) = f
      BY <2>3
    <3> QED BY <2>1, <2>3, <3>1, <3>2
  <2>6. \A e \in 1..n : new.edges[e].link = Nil /\ new.edges[e].serif = Nil /\ new.edges[e].blue = {}
    <3> SUFFICES ASSUME NEW e \in 1..n
                 PROVE  new.edges[e].link = Nil /\ new.edges[e].serif = Nil /\ new.edges[e].blue = {}
      OBVIOUS
    <3>1. PICK i \in 1..n : Rank(grouped.edges, i) = e
      BY <2>3
    <3>2. new.edges[e] = grouped.edges[i]
      BY <2>1, <3>1
    <3> QED BY <1>2, <3>2
  <2>7. Laid(new, segs, down)
    BY <1>2, <1>4, <2>1, <2>2, <2>4, <2>5, <2>6 DEF Laid
  <2> QED BY <1>4, <2>1, <2>7 DEF new, grouped
<1> QED BY <1>3, <1>4

-----------------------------------------------------------------------------
(* Links of edges *)

\* What following the links of segments may make of the edges of ax.
Linkings(V, ax) ==
  {es \in Seq(EdgeRecs(V)) :
     /\ Len(es) = Len(ax.edges)
     /\ \A e \in 1..Len(ax.edges) :
          /\ es[e].fpos = ax.edges[e].fpos /\ es[e].segs = ax.edges[e].segs /\ es[e].blue = {}
          /\ es[e].link \in 0..Len(ax.edges) /\ es[e].link # e
          /\ es[e].serif \in 0..Len(ax.edges) /\ es[e].serif # e}

\* The edges and links that segments name.
SegmentsLead(ax) ==
  \A s \in 1..Len(ax.segs) :
    /\ ax.segs[s].edge \in 0..Len(ax.edges)
    /\ ax.segs[s].link \in 0..Len(ax.segs) /\ ax.segs[s].serif \in 0..Len(ax.segs)

\* The link of an edge changes.
LEMMA LinkSet ==
  ASSUME NEW V, NEW r \in EdgeRecs(V), NEW x \in Nat
  PROVE  LET new == [r EXCEPT !.link = x]
         IN /\ new \in EdgeRecs(V) /\ new.fpos = r.fpos /\ new.segs = r.segs /\ new.blue = r.blue
            /\ new.link = x /\ new.serif = r.serif
BY DEF EdgeRecs

\* The serif of an edge changes.
LEMMA SerifSet ==
  ASSUME NEW V, NEW r \in EdgeRecs(V), NEW x \in Nat
  PROVE  LET new == [r EXCEPT !.serif = x]
         IN /\ new \in EdgeRecs(V) /\ new.fpos = r.fpos /\ new.segs = r.segs /\ new.blue = r.blue
            /\ new.link = r.link /\ new.serif = x
BY DEF EdgeRecs

\* An edge is marked as serifed.
LEMMA SerifedSet ==
  ASSUME NEW V, NEW r \in EdgeRecs(V), NEW b \in BOOLEAN
  PROVE  LET new == [r EXCEPT !.serifed = b]
         IN /\ new \in EdgeRecs(V) /\ new.fpos = r.fpos /\ new.segs = r.segs /\ new.blue = r.blue
            /\ new.link = r.link /\ new.serif = r.serif
BY DEF EdgeRecs

\* An edge is marked as round or not.
LEMMA RoundSet ==
  ASSUME NEW V, NEW r \in EdgeRecs(V), NEW b \in BOOLEAN
  PROVE  LET new == [r EXCEPT !.round = b]
         IN /\ new \in EdgeRecs(V) /\ new.fpos = r.fpos /\ new.segs = r.segs /\ new.blue = r.blue
            /\ new.link = r.link /\ new.serif = r.serif
BY DEF EdgeRecs

\* One edge changes, in what following links may change.
LEMMA Relinked ==
  ASSUME NEW V, NEW ax \in Axes(V), NEW es \in Linkings(V, ax), NEW e \in 1..Len(ax.edges), NEW r \in EdgeRecs(V),
         r.fpos = es[e].fpos, r.segs = es[e].segs, r.blue = es[e].blue,
         r.link \in 0..Len(ax.edges), r.link # e, r.serif \in 0..Len(ax.edges), r.serif # e
  PROVE  /\ [es EXCEPT ![e] = r] \in Linkings(V, ax)
         /\ [es EXCEPT ![e] = r][e] = r
         /\ \A f \in 1..Len(ax.edges) : f # e => [es EXCEPT ![e] = r][f] = es[f]
<1> DEFINE new == [es EXCEPT ![e] = r]
           n == Len(ax.edges)
<1>1. /\ es \in Seq(EdgeRecs(V)) /\ Len(es) = n
      /\ \A f \in 1..n : /\ es[f].fpos = ax.edges[f].fpos /\ es[f].segs = ax.edges[f].segs /\ es[f].blue = {}
                         /\ es[f].link \in 0..n /\ es[f].link # f
                         /\ es[f].serif \in 0..n /\ es[f].serif # f
  BY DEF Linkings
<1>2. e \in DOMAIN es /\ DOMAIN es = 1..n
  BY <1>1
<1>3. /\ new \in Seq(EdgeRecs(V)) /\ Len(new) = n /\ new[e] = r
      /\ \A f \in 1..n : f # e => new[f] = es[f]
  BY <1>1, <1>2, Replaced
<1> HIDE DEF new, n
<1>4. ASSUME NEW f \in 1..n
      PROVE  /\ new[f].fpos = ax.edges[f].fpos /\ new[f].segs = ax.edges[f].segs /\ new[f].blue = {}
             /\ new[f].link \in 0..n /\ new[f].link # f
             /\ new[f].serif \in 0..n /\ new[f].serif # f
  <2>1. CASE f = e
    BY <1>1, <1>3, <2>1 DEF n
  <2>2. CASE f # e
    BY <1>1, <1>3, <2>2
  <2> QED BY <2>1, <2>2
<1>5. new \in Linkings(V, ax)
  BY <1>3, <1>4 DEF Linkings, n
<1> QED BY <1>3, <1>5 DEF new, n

\* Follow: an edge leads to another edge through one of its segments.
LEMMA Followed ==
  ASSUME NEW V, NEW ax \in Axes(V), SegmentsLead(ax), NEW es \in Linkings(V, ax),
         NEW e \in 1..Len(ax.edges), NEW k \in 1..Len(ax.segs)
  PROVE  Follow(ax, e, es, k) \in Linkings(V, ax)
<1> DEFINE n == Len(ax.edges)
           m == Len(ax.segs)
           seg == ax.segs[k]
           other == IF seg.serif = Nil THEN Nil ELSE ax.segs[seg.serif].edge
           isSerif == other \notin {Nil, e}
           prior == IF isSerif THEN es[e].serif ELSE es[e].link
           linked == IF isSerif THEN seg.serif ELSE seg.link
           gap == Abs(seg.pos - ax.segs[linked].pos)
           closer == gap < Abs(es[e].fpos - es[prior].fpos)
           e2 == IF prior = Nil \/ closer THEN ax.segs[linked].edge ELSE prior
           yes == TRUE
           left == ~isSerif /\ (seg.link = Nil \/ ax.segs[seg.link].edge = Nil)
           serif == [es EXCEPT ![e].serif = e2, ![e2].serifed = yes]
           link == [es EXCEPT ![e].link = e2]
           new == Follow(ax, e, es, k)
<1>1. new = IF left THEN es ELSE IF e2 \in {Nil, e} THEN es ELSE IF isSerif THEN serif ELSE link
  BY Zenon DEF Follow
<1>2. /\ n \in Nat /\ m \in Nat /\ e \in Nat
      /\ es \in Seq(EdgeRecs(V)) /\ Len(es) = n
      /\ es[e] \in EdgeRecs(V)
      /\ es[e].link \in 0..n /\ es[e].link # e /\ es[e].serif \in 0..n /\ es[e].serif # e
  BY DEF Linkings, Axes
<1>3. \A s \in 1..m : ax.segs[s].edge \in 0..n /\ ax.segs[s].link \in 0..m /\ ax.segs[s].serif \in 0..m
  BY DEF SegmentsLead
<1>4. ASSUME ~left PROVE linked \in 1..m
  <2>1. seg.serif \in 0..m /\ seg.link \in 0..m
    BY <1>3
  <2>2. CASE isSerif
    <3>1. seg.serif # Nil
      BY <2>2
    <3> HIDE DEF seg, m
    <3> QED BY <1>2, <2>1, <2>2, <3>1 DEF Nil
  <2>3. CASE ~isSerif
    <3>1. seg.link # Nil
      BY <1>4, <2>3
    <3> HIDE DEF seg, m, isSerif
    <3> QED BY <1>2, <2>1, <2>3, <3>1 DEF Nil
  <2> QED BY <2>2, <2>3
<1>5. prior \in 0..n
  BY <1>2
<1> HIDE DEF prior, closer, linked, left
<1>6. ~left => e2 \in 0..n
  BY <1>3, <1>4, <1>5
<1>7. yes \in BOOLEAN
  BY Zenon
<1> HIDE DEF e2, isSerif, yes, n, m
<1>8. ASSUME e2 \in 0..n, e2 \notin {Nil, e} PROVE link \in Linkings(V, ax)
  <2> DEFINE r == [es[e] EXCEPT !.link = e2]
  <2>1. r \in EdgeRecs(V) /\ r.fpos = es[e].fpos /\ r.segs = es[e].segs /\ r.blue = es[e].blue
        /\ r.link = e2 /\ r.serif = es[e].serif
    BY <1>2, <1>8, LinkSet
  <2>2. link = [es EXCEPT ![e] = r]
    BY Zenon
  <2> HIDE DEF r
  <2>3. [es EXCEPT ![e] = r] \in Linkings(V, ax)
    BY <1>2, <1>8, <2>1, Relinked DEF n
  <2> HIDE DEF link
  <2> QED BY <2>2, <2>3
<1>9. ASSUME e2 \in 0..n, e2 \notin {Nil, e} PROVE serif \in Linkings(V, ax)
  <2> DEFINE r == [es[e] EXCEPT !.serif = e2]
             mid == [es EXCEPT ![e] = r]
             q == [mid[e2] EXCEPT !.serifed = yes]
  <2>1. r \in EdgeRecs(V) /\ r.fpos = es[e].fpos /\ r.segs = es[e].segs /\ r.blue = es[e].blue
        /\ r.link = es[e].link /\ r.serif = e2
    BY <1>2, <1>9, SerifSet
  <2>2. serif = [mid EXCEPT ![e2] = q]
    BY Zenon
  <2> HIDE DEF r
  <2>3. mid \in Linkings(V, ax)
    BY <1>2, <1>9, <2>1, Relinked DEF n
  <2> HIDE DEF mid
  <2>4. e2 \in 1..n
    BY <1>2, <1>9 DEF Nil
  <2>5. /\ mid[e2] \in EdgeRecs(V)
        /\ mid[e2].link \in 0..n /\ mid[e2].link # e2 /\ mid[e2].serif \in 0..n /\ mid[e2].serif # e2
    BY <2>3, <2>4 DEF Linkings, n
  <2>6. q \in EdgeRecs(V) /\ q.fpos = mid[e2].fpos /\ q.segs = mid[e2].segs /\ q.blue = mid[e2].blue
        /\ q.link = mid[e2].link /\ q.serif = mid[e2].serif
    BY <1>7, <2>5, SerifedSet
  <2> HIDE DEF q
  <2>7. [mid EXCEPT ![e2] = q] \in Linkings(V, ax)
    BY <2>3, <2>4, <2>5, <2>6, Relinked DEF n
  <2> HIDE DEF serif
  <2> QED BY <2>2, <2>7
<1> HIDE DEF serif, link, new
<1>10. new \in Linkings(V, ax)
  BY <1>1, <1>6, <1>8, <1>9
<1> QED BY <1>10 DEF new

\* The links of an edge when the segments of it are followed.
Walked(ax, es, e) == FoldLeft(LAMBDA acc, k : Follow(ax, e, acc, k), es, ax.edges[e].segs)

\* So it is through all its segments.
LEMMA AllFollowed ==
  ASSUME NEW V, NEW ax \in Axes(V), SegmentsLead(ax), Listed(ax), NEW es \in Linkings(V, ax),
         NEW e \in 1..Len(ax.edges)
  PROVE  Walked(ax, es, e) \in Linkings(V, ax)
<1> DEFINE order == ax.edges[e].segs
           n == Len(order)
           T == Linkings(V, ax)
           round == [k \in 1..n |-> [x \in T |-> Follow(ax, e, x, order[k])]]
           Fold(f) == [s \in SUBSET (DOMAIN order) |->
                         IF s = {} THEN es ELSE Follow(ax, e, f[s \ {Max(s)}], order[Max(s)])]
           fold == CHOOSE f : f = Fold(f)
<1>1. Walked(ax, es, e) = fold[DOMAIN order]
  BY Zenon DEF Walked, FoldLeft, MapThenFoldSet
<1>2. n \in Nat /\ DOMAIN order = 1..n
  <2>1. ax.edges[e] \in EdgeRecs(V)
    BY DEF Axes
  <2>2. order \in Seq(Nat)
    BY <2>1, EdgeFields
  <2> QED BY <2>2
<1>3. es \in T
  OBVIOUS
<1>4. \A k \in 1..n : \A x \in T : Follow(ax, e, x, order[k]) \in T
  <2> SUFFICES ASSUME NEW k \in 1..n, NEW x \in T PROVE Follow(ax, e, x, order[k]) \in T
    OBVIOUS
  <2>1. order[k] \in 1..Len(ax.segs)
    BY DEF Listed
  <2> DEFINE at == order[k]
  <2> HIDE DEF at, order
  <2>2. at \in 1..Len(ax.segs)
    BY <2>1 DEF at
  <2>3. Follow(ax, e, x, at) \in T
    BY <2>2, Followed
  <2> QED BY <2>3 DEF at
<1> HIDE DEF T
<1>5. AreRounds(round, n, T) /\ \A k \in 1..n : \A x \in T : round[k][x] = Follow(ax, e, x, order[k])
  BY <1>4 DEF AreRounds
<1> HIDE DEF round, order, n
<1>6. fold = Fold(fold)
  <2>1. PICK f \in [SUBSET (1..n) -> T] : IsFold(f, n, es, round)
    BY <1>2, <1>3, <1>5, FoldExists
  <2>2. \A s \in SUBSET (1..n) :
          (IF s = {} THEN es ELSE round[Max(s)][f[s \ {Max(s)}]])
            = (IF s = {} THEN es ELSE Follow(ax, e, f[s \ {Max(s)}], order[Max(s)]))
    BY <1>2, <1>5, <2>1, WithoutGreatest
  <2>3. f = Fold(f)
    BY <1>2, <2>1, <2>2 DEF IsFold
  <2> HIDE DEF Fold
  <2> QED BY <2>3, Zenon
<1> HIDE DEF fold
<1>7. FoldsBy(fold, n, T, es, round)
  <2>1. \A s \in SUBSET (1..n) : fold[s] = IF s = {} THEN es ELSE Follow(ax, e, fold[s \ {Max(s)}], order[Max(s)])
    BY <1>2, <1>6
  <2>2. fold[{}] = es
    BY <2>1
  <2>3. ASSUME NEW s \in SUBSET (1..n), s # {} /\ fold[s \ {Max(s)}] \in T
        PROVE  fold[s] = round[Max(s)][fold[s \ {Max(s)}]]
    <3>1. Max(s) \in 1..n /\ fold[s] = Follow(ax, e, fold[s \ {Max(s)}], order[Max(s)])
      BY <1>2, <2>1, <2>3, WithoutGreatest
    <3> QED BY <1>5, <2>3, <3>1
  <2> QED BY <2>2, <2>3 DEF FoldsBy
<1>8. PICK g : IsLoop(g, n, T, es, round) /\ fold[1..n] = g[n]
  BY <1>2, <1>3, <1>5, <1>7, FoldRounds
<1>9. fold[1..n] \in T
  BY <1>2, <1>8 DEF IsLoop
<1> QED BY <1>1, <1>2, <1>9 DEF T

\* Visit: what an edge leads to at last is another edge, or none.
LEMMA Visited ==
  ASSUME NEW V, NEW ax \in Axes(V), SegmentsLead(ax), Listed(ax), NEW es \in Linkings(V, ax),
         NEW e \in 1..Len(ax.edges)
  PROVE  Visit(ax, es, e) \in Linkings(V, ax)
<1> DEFINE n == Len(ax.edges)
           walked == Walked(ax, es, e)
           bends == Cardinality({k \in DOMAIN ax.edges[e].segs : ax.segs[ax.edges[e].segs[k]].round})
           no == FALSE
           bent == bends > 0 /\ 2 * bends >= Len(ax.edges[e].segs)
           left == IF walked[e].link # Nil THEN Nil ELSE walked[e].serif
           new == [walked EXCEPT ![e].serifed = no, ![e].round = bent, ![e].serif = left]
           one == [walked[e] EXCEPT !.serifed = no]
           two == [one EXCEPT !.round = bent]
           three == [two EXCEPT !.serif = left]
<1>1. Visit(ax, es, e) = new
  BY Zenon DEF Visit, Walked
<1>2. new = [walked EXCEPT ![e] = three]
  BY Zenon
<1>3. walked \in Linkings(V, ax)
  BY AllFollowed
<1> HIDE DEF walked
<1>4. n \in Nat /\ walked \in Seq(EdgeRecs(V)) /\ Len(walked) = n
  BY <1>3 DEF Linkings, Axes
<1>5. /\ walked[e] \in EdgeRecs(V)
      /\ walked[e].link \in 0..n /\ walked[e].link # e /\ walked[e].serif \in 0..n /\ walked[e].serif # e
  BY <1>3, <1>4 DEF Linkings
<1>6. no \in BOOLEAN /\ bent \in BOOLEAN
  BY Zenon
<1>7. left \in 0..n /\ left # e
  BY <1>4, <1>5 DEF Nil
<1>8. left \in Nat
  BY <1>4, <1>7
<1> HIDE DEF no, bent, left, n
<1>9. /\ one \in EdgeRecs(V) /\ one.fpos = walked[e].fpos /\ one.segs = walked[e].segs /\ one.blue = walked[e].blue
      /\ one.link = walked[e].link /\ one.serif = walked[e].serif
  BY <1>5, <1>6, SerifedSet
<1> HIDE DEF one
<1>10. /\ two \in EdgeRecs(V) /\ two.fpos = one.fpos /\ two.segs = one.segs /\ two.blue = one.blue
       /\ two.link = one.link /\ two.serif = one.serif
  BY <1>6, <1>9, RoundSet
<1> HIDE DEF two
<1>11. /\ three \in EdgeRecs(V) /\ three.fpos = two.fpos /\ three.segs = two.segs /\ three.blue = two.blue
       /\ three.link = two.link /\ three.serif = left
  BY <1>8, <1>10, SerifSet
<1> HIDE DEF three, new
<1>12. [walked EXCEPT ![e] = three] \in Linkings(V, ax)
  BY <1>3, <1>5, <1>7, <1>9, <1>10, <1>11, Relinked DEF n
<1> QED BY <1>1, <1>2, <1>12

\* All edges are followed, in their order; nothing else of them changes.
LEMMA AllVisited ==
  ASSUME NEW V, NEW ax \in Axes(V), SegmentsLead(ax), Listed(ax), ax.edges \in Linkings(V, ax)
  PROVE  /\ Propagated(ax).segs = ax.segs
         /\ Propagated(ax).edges \in Linkings(V, ax)
         /\ Propagated(ax) \in Axes(V)
<1> DEFINE n == Len(ax.edges)
           start == ax.edges
           order == [e \in DOMAIN ax.edges |-> e]
           T == Linkings(V, ax)
           round == [k \in 1..n |-> [x \in T |-> Visit(ax, x, order[k])]]
           Fold(f) == [s \in SUBSET (DOMAIN order) |->
                         IF s = {} THEN start ELSE Visit(ax, f[s \ {Max(s)}], order[Max(s)])]
           fold == CHOOSE f : f = Fold(f)
<1>1. Propagated(ax) = [ax EXCEPT !.edges = fold[DOMAIN order]]
  BY Zenon DEF Propagated, FoldLeft, MapThenFoldSet
<1>2. n \in Nat /\ DOMAIN order = 1..n /\ \A k \in 1..n : order[k] = k
  BY DEF Axes
<1>3. start \in T
  OBVIOUS
<1>4. \A k \in 1..n : \A x \in T : Visit(ax, x, order[k]) \in T
  BY <1>2, Visited
<1> HIDE DEF T, start
<1>5. AreRounds(round, n, T) /\ \A k \in 1..n : \A x \in T : round[k][x] = Visit(ax, x, order[k])
  BY <1>4 DEF AreRounds
<1> HIDE DEF round, order, n
<1>6. fold = Fold(fold)
  <2>1. PICK f \in [SUBSET (1..n) -> T] : IsFold(f, n, start, round)
    BY <1>2, <1>3, <1>5, FoldExists
  <2>2. \A s \in SUBSET (1..n) :
          (IF s = {} THEN start ELSE round[Max(s)][f[s \ {Max(s)}]])
            = (IF s = {} THEN start ELSE Visit(ax, f[s \ {Max(s)}], order[Max(s)]))
    BY <1>2, <1>5, <2>1, WithoutGreatest
  <2>3. f = Fold(f)
    BY <1>2, <2>1, <2>2 DEF IsFold
  <2> HIDE DEF Fold
  <2> QED BY <2>3, Zenon
<1> HIDE DEF fold
<1>7. FoldsBy(fold, n, T, start, round)
  <2>1. \A s \in SUBSET (1..n) : fold[s] = IF s = {} THEN start ELSE Visit(ax, fold[s \ {Max(s)}], order[Max(s)])
    BY <1>2, <1>6
  <2>2. fold[{}] = start
    BY <2>1
  <2>3. ASSUME NEW s \in SUBSET (1..n), s # {} /\ fold[s \ {Max(s)}] \in T
        PROVE  fold[s] = round[Max(s)][fold[s \ {Max(s)}]]
    <3>1. Max(s) \in 1..n /\ fold[s] = Visit(ax, fold[s \ {Max(s)}], order[Max(s)])
      BY <1>2, <2>1, <2>3, WithoutGreatest
    <3> QED BY <1>5, <2>3, <3>1
  <2> QED BY <2>2, <2>3 DEF FoldsBy
<1>8. PICK g : IsLoop(g, n, T, start, round) /\ fold[1..n] = g[n]
  BY <1>2, <1>3, <1>5, <1>7, FoldRounds
<1>9. fold[1..n] \in T
  BY <1>2, <1>8 DEF IsLoop
<1> DEFINE es == fold[1..n]
           new == Propagated(ax)
<1>10. es \in Seq(EdgeRecs(V)) /\ es \in Linkings(V, ax)
  BY <1>9 DEF T, Linkings
<1> HIDE DEF es
<1>11. new = [ax EXCEPT !.edges = es]
  BY <1>1, <1>2 DEF es
<1> HIDE DEF new
<1>12. new.segs = ax.segs /\ new.edges = es /\ new \in Axes(V)
  BY <1>10, <1>11 DEF Axes
<1> QED BY <1>10, <1>12 DEF new

\* What edges list stays as it is when neither their segments nor their lists change.
LEMMA SameLists ==
  ASSUME NEW a, NEW b, Listed(a), b.segs = a.segs, Len(b.edges) = Len(a.edges),
         \A e \in 1..Len(a.edges) : b.edges[e].segs = a.edges[e].segs
  PROVE  Listed(b)
<1> DEFINE n == Len(a.edges)
           m == Len(a.segs)
<1>1. ASSUME NEW e \in 1..n, NEW i \in 1..Len(b.edges[e].segs)
      PROVE  /\ b.edges[e].segs[i] \in 1..m
             /\ b.segs[b.edges[e].segs[i]].edge = e
             /\ \A j \in 1..Len(b.edges[e].segs) : b.edges[e].segs[i] = b.edges[e].segs[j] => i = j
  <2>1. b.edges[e].segs = a.edges[e].segs /\ i \in 1..Len(a.edges[e].segs)
    BY <1>1
  <2>2. /\ a.edges[e].segs[i] \in 1..m
        /\ a.segs[a.edges[e].segs[i]].edge = e
        /\ \A j \in 1..Len(a.edges[e].segs) : a.edges[e].segs[i] = a.edges[e].segs[j] => i = j
    BY <2>1 DEF Listed
  <2> QED BY <2>1, <2>2
<1>2. ASSUME NEW s \in 1..m, b.segs[s].edge # Nil
      PROVE  /\ b.segs[s].edge \in 1..n
             /\ \E i \in 1..Len(b.edges[b.segs[s].edge].segs) : b.edges[b.segs[s].edge].segs[i] = s
  <2> DEFINE e == a.segs[s].edge
  <2>1. e \in 1..n /\ \E i \in 1..Len(a.edges[e].segs) : a.edges[e].segs[i] = s
    BY <1>2 DEF Listed
  <2> HIDE DEF e
  <2>2. b.edges[e].segs = a.edges[e].segs /\ b.segs[s].edge = e
    BY <2>1 DEF e
  <2> QED BY <2>1, <2>2
<1> QED BY <1>1, <1>2 DEF Listed

\* The edges of a dimension when they are found: the segments they list name them,
\* they lie in order, and their links and serifs are other edges.
Found(ax, segs, down) ==
  /\ Len(ax.segs) = Len(segs)
  /\ Listed(ax)
  /\ IF down THEN SortedDown(ax.edges) ELSE SortedUp(ax.edges)
  /\ \A e \in 1..Len(ax.edges) :
       /\ ax.edges[e].link \in 0..Len(ax.edges) /\ ax.edges[e].link # e
       /\ ax.edges[e].serif \in 0..Len(ax.edges) /\ ax.edges[e].serif # e
       /\ ax.edges[e].blue = {}

\* compute_edges: lists, order and links of the edges are sound, and no edge
\* lies in a zone.
LEMMA EdgesFound ==
  ASSUME NEW V, NEW m, NEW d, RoomFor(V, m.scale[d]), NEW major, NEW segs \in Seq(SegmentRecs(V)), Fresh(segs),
         NEW down
  PROVE  LET ax == compute_edges(segs, m, d, major, down)
         IN ax \in Axes(V) /\ Found(ax, segs, down /\ d = Vert)
<1> DEFINE grouped == Grouped(segs, m, d, major)
           downward == down /\ d = Vert
           laid == IF downward THEN Ordered(grouped) ELSE grouped
           n == Len(laid.edges)
           new == compute_edges(segs, m, d, major, down)
<1>1. new = Propagated(laid)
  BY Zenon DEF compute_edges
<1>2. laid \in Axes(V) /\ Laid(laid, segs, downward)
  BY EdgesLaid
<1> HIDE DEF laid, downward, new
<1>3. /\ Len(laid.segs) = Len(segs) /\ Listed(laid)
      /\ \A s \in 1..Len(segs) : SameSegment(laid.segs[s], segs[s])
      /\ IF downward THEN SortedDown(laid.edges) ELSE SortedUp(laid.edges)
      /\ \A e \in 1..n : laid.edges[e].link = Nil /\ laid.edges[e].serif = Nil /\ laid.edges[e].blue = {}
  BY <1>2 DEF Laid
<1>4. n \in Nat /\ Len(segs) \in Nat
  BY <1>2 DEF Axes
<1>5. SegmentsLead(laid)
  <2> SUFFICES ASSUME NEW s \in 1..Len(segs)
               PROVE  /\ laid.segs[s].edge \in 0..n
                      /\ laid.segs[s].link \in 0..Len(segs) /\ laid.segs[s].serif \in 0..Len(segs)
    BY <1>3 DEF SegmentsLead
  <2>1. laid.segs[s].link \in 0..Len(segs) /\ laid.segs[s].serif \in 0..Len(segs)
    BY <1>3 DEF SameSegment, Fresh
  <2>2. laid.segs[s].edge = Nil \/ laid.segs[s].edge \in 1..n
    BY <1>3 DEF Listed
  <2> QED BY <1>4, <2>1, <2>2 DEF Nil
<1>6. laid.edges \in Linkings(V, laid)
  <2>1. \A e \in 1..n : e # Nil /\ Nil \in 0..n
    BY <1>4 DEF Nil
  <2> QED BY <1>2, <1>3, <2>1 DEF Linkings, Axes
<1>7. new.segs = laid.segs /\ new.edges \in Linkings(V, laid) /\ new \in Axes(V)
  BY <1>1, <1>2, <1>3, <1>5, <1>6, AllVisited
<1>8. /\ Len(new.edges) = n
      /\ \A e \in 1..n :
           /\ new.edges[e].fpos = laid.edges[e].fpos /\ new.edges[e].segs = laid.edges[e].segs
           /\ new.edges[e].blue = {}
           /\ new.edges[e].link \in 0..n /\ new.edges[e].link # e
           /\ new.edges[e].serif \in 0..n /\ new.edges[e].serif # e
  BY <1>7 DEF Linkings
<1>9. Listed(new)
  BY <1>3, <1>7, <1>8, SameLists
<1>10. IF downward THEN SortedDown(new.edges) ELSE SortedUp(new.edges)
  BY <1>3, <1>8 DEF SortedDown, SortedUp
<1>11. Found(new, segs, downward)
  BY <1>3, <1>7, <1>8, <1>9, <1>10 DEF Found
<1> QED BY <1>7, <1>11 DEF new, downward

-----------------------------------------------------------------------------
(* Points *)

PointRecs(W) ==
  [f : Int \X Int, ctl : BOOLEAN, o : W, p : W, next : Int, prev : Int, start : Nat, in : Int, out : Int,
   weak : BOOLEAN, touched : W, u : Int, v : Int]

\* What the passes over an outline make of the points base: the contours stay.
Points(W, base) ==
  {acc \in Seq(PointRecs(W)) :
     /\ Len(acc) = Len(base)
     /\ \A i \in 1..Len(base) : acc[i].start = base[i].start /\ acc[i].prev = base[i].prev}

\* A contour is a row of points.
Rings(pp) ==
  \A i \in 1..Len(pp) :
    LET s == pp[i].start
        c == Cardinality(OfContour(pp, s))
    IN /\ c \in Nat /\ s \in 1..i /\ i <= s + c - 1
       /\ OfContour(pp, s) = s..(s + c - 1)
       /\ pp[i].prev = IF i = s THEN s + c - 1 ELSE i - 1

\* A pass that keeps starts and predecessors keeps the contours.
LEMMA RingsStay ==
  ASSUME NEW W, NEW base, Rings(base), NEW acc \in Points(W, base), DOMAIN base = 1..Len(base)
  PROVE  Rings(acc) /\ \A s : OfContour(acc, s) = OfContour(base, s)
<1>1. Len(acc) = Len(base) /\ DOMAIN acc = 1..Len(base)
  BY DEF Points
<1>2. \A i \in 1..Len(base) : acc[i].start = base[i].start /\ acc[i].prev = base[i].prev
  BY DEF Points
<1>3. \A s : OfContour(acc, s) = OfContour(base, s)
  BY <1>1, <1>2 DEF OfContour
<1>4. ASSUME NEW i \in 1..Len(acc)
      PROVE  LET s == acc[i].start
                 c == Cardinality(OfContour(acc, s))
             IN /\ c \in Nat /\ s \in 1..i /\ i <= s + c - 1
                /\ OfContour(acc, s) = s..(s + c - 1)
                /\ acc[i].prev = IF i = s THEN s + c - 1 ELSE i - 1
  <2> DEFINE s == base[i].start
             c == Cardinality(OfContour(base, s))
  <2>1. /\ c \in Nat /\ s \in 1..i /\ i <= s + c - 1
        /\ OfContour(base, s) = s..(s + c - 1)
        /\ base[i].prev = IF i = s THEN s + c - 1 ELSE i - 1
    BY <1>1 DEF Rings
  <2>2. acc[i].start = s /\ acc[i].prev = base[i].prev /\ OfContour(acc, s) = OfContour(base, s)
    BY <1>1, <1>2, <1>3
  <2> QED BY <2>1, <2>2
<1> QED BY <1>3, <1>4 DEF Rings

\* One point changes, if it is one.
LEMMA OnePoint ==
  ASSUME NEW W, NEW base, NEW acc \in Points(W, base), NEW i, NEW r,
         i \in 1..Len(acc) => r \in PointRecs(W) /\ r.start = acc[i].start /\ r.prev = acc[i].prev
  PROVE  [acc EXCEPT ![i] = r] \in Points(W, base)
<1> DEFINE new == [acc EXCEPT ![i] = r]
<1>1. /\ acc \in Seq(PointRecs(W)) /\ Len(acc) = Len(base) /\ DOMAIN acc = 1..Len(base)
      /\ \A j \in 1..Len(base) : acc[j].start = base[j].start /\ acc[j].prev = base[j].prev
  BY DEF Points
<1>2. CASE i \in 1..Len(acc)
  <2>1. /\ new \in Seq(PointRecs(W)) /\ Len(new) = Len(acc) /\ new[i] = r
        /\ \A j \in 1..Len(acc) : j # i => new[j] = acc[j]
    BY <1>1, <1>2, Replaced
  <2> HIDE DEF new
  <2>2. \A j \in 1..Len(base) : new[j].start = base[j].start /\ new[j].prev = base[j].prev
    BY <1>1, <1>2, <2>1
  <2>3. new \in Points(W, base)
    BY <1>1, <2>1, <2>2 DEF Points
  <2> QED BY <2>3 DEF new
<1>3. CASE i \notin 1..Len(acc)
  <2>1. acc \in [1..Len(acc) -> PointRecs(W)]
    BY <1>1
  <2>2. new = acc
    BY <1>3, <2>1
  <2> QED BY <2>2
<1> QED BY <1>2, <1>3

\* A point becomes weak or strong.
LEMMA WeakField ==
  ASSUME NEW W, NEW r \in PointRecs(W), NEW b \in BOOLEAN
  PROVE  LET new == [r EXCEPT !.weak = b]
         IN new \in PointRecs(W) /\ new.start = r.start /\ new.prev = r.prev
BY DEF PointRecs

\* One point does.
LEMMA WeakPoint ==
  ASSUME NEW W, NEW base, NEW acc \in Points(W, base), NEW i, NEW b \in BOOLEAN
  PROVE  [acc EXCEPT ![i].weak = b] \in Points(W, base)
<1> DEFINE r == [acc[i] EXCEPT !.weak = b]
<1>1. i \in 1..Len(acc) => r \in PointRecs(W) /\ r.start = acc[i].start /\ r.prev = acc[i].prev
  <2>1. i \in 1..Len(acc) => acc[i] \in PointRecs(W)
    BY DEF Points
  <2> QED BY <2>1, WeakField
<1> HIDE DEF r
<1>2. [acc EXCEPT ![i] = r] \in Points(W, base)
  BY <1>1, OnePoint
<1> QED BY <1>2, Zenon DEF r

\* u of a point, for a while the point it leads to, changes.
LEMMA UField ==
  ASSUME NEW W, NEW r \in PointRecs(W), NEW x \in Int
  PROVE  LET new == [r EXCEPT !.u = x]
         IN new \in PointRecs(W) /\ new.start = r.start /\ new.prev = r.prev
BY DEF PointRecs

\* u changes for one point.
LEMMA UPoint ==
  ASSUME NEW W, NEW base, NEW acc \in Points(W, base), NEW i, NEW x \in Int
  PROVE  [acc EXCEPT ![i].u = x] \in Points(W, base)
<1> DEFINE r == [acc[i] EXCEPT !.u = x]
<1>1. i \in 1..Len(acc) => r \in PointRecs(W) /\ r.start = acc[i].start /\ r.prev = acc[i].prev
  <2>1. i \in 1..Len(acc) => acc[i] \in PointRecs(W)
    BY DEF Points
  <2> QED BY <2>1, UField
<1> HIDE DEF r
<1>2. [acc EXCEPT ![i] = r] \in Points(W, base)
  BY <1>1, OnePoint
<1> QED BY <1>2, Zenon DEF r

\* v of a point changes.
LEMMA VField ==
  ASSUME NEW W, NEW r \in PointRecs(W), NEW x \in Int
  PROVE  LET new == [r EXCEPT !.v = x]
         IN new \in PointRecs(W) /\ new.start = r.start /\ new.prev = r.prev
BY DEF PointRecs

\* v changes for one point.
LEMMA VPoint ==
  ASSUME NEW W, NEW base, NEW acc \in Points(W, base), NEW i, NEW x \in Int
  PROVE  [acc EXCEPT ![i].v = x] \in Points(W, base)
<1> DEFINE r == [acc[i] EXCEPT !.v = x]
<1>1. i \in 1..Len(acc) => r \in PointRecs(W) /\ r.start = acc[i].start /\ r.prev = acc[i].prev
  <2>1. i \in 1..Len(acc) => acc[i] \in PointRecs(W)
    BY DEF Points
  <2> QED BY <2>1, VField
<1> HIDE DEF r
<1>2. [acc EXCEPT ![i] = r] \in Points(W, base)
  BY <1>1, OnePoint
<1> QED BY <1>2, Zenon DEF r

Headed(r, a, b) == [r EXCEPT !.in = a, !.out = b]

\* The directions of a point change.
LEMMA TurnedField ==
  ASSUME NEW W, NEW r \in PointRecs(W), NEW a \in Int, NEW b \in Int
  PROVE  LET new == Headed(r, a, b)
         IN new \in PointRecs(W) /\ new.start = r.start /\ new.prev = r.prev
BY DEF PointRecs, Headed

\* The points and the sum of a walk along a contour are replaced.
LEMMA PartsReplaced ==
  ASSUME NEW A, NEW B, NEW C, NEW x \in [pts : A, from : B, sum : C], NEW q \in A, NEW z \in C
  PROVE  [x EXCEPT !.pts = q, !.sum = z] \in [pts : A, from : B, sum : C]
OBVIOUS

\* All points change.
LEMMA AllPoints ==
  ASSUME NEW W, NEW base, NEW acc \in Points(W, base), NEW f, DOMAIN f = 1..Len(acc),
         \A i \in 1..Len(acc) : f[i] \in PointRecs(W) /\ f[i].start = acc[i].start /\ f[i].prev = acc[i].prev,
         f = [i \in 1..Len(acc) |-> f[i]]
  PROVE  Written(f) \in Points(W, base)
<1>1. /\ acc \in Seq(PointRecs(W)) /\ Len(acc) = Len(base) /\ Len(acc) \in Nat
      /\ \A j \in 1..Len(base) : acc[j].start = base[j].start /\ acc[j].prev = base[j].prev
  BY DEF Points
<1>2. f \in [1..Len(acc) -> PointRecs(W)]
  OBVIOUS
<1>3. f \in Seq(PointRecs(W)) /\ Len(f) = Len(acc) /\ Written(f) = f
  BY <1>1, <1>2, WrittenOut
<1> QED BY <1>1, <1>3 DEF Points

\* A direction is a number.
LEMMA Directions == \A x : direction_compute(x) \in Int
BY DEF direction_compute, Up, Down, Left, Right, None

\* The way along a contour stays on it.
LEMMA AfterStays ==
  ASSUME NEW S, NEW pp \in Seq(S), Rings(pp), NEW i \in 1..Len(pp), NEW k \in Int
  PROVE  /\ After(pp, i, k) \in OfContour(pp, pp[i].start)
         /\ After(pp, i, k) \in 1..Len(pp)
<1> DEFINE s == pp[i].start
           c == Cardinality(OfContour(pp, s))
           step == (i - s + k) % c
<1>1. /\ c \in Nat /\ s \in 1..i /\ i <= s + c - 1
      /\ OfContour(pp, s) = s..(s + c - 1)
  BY DEF Rings
<1>2. After(pp, i, k) = s + step
  BY Zenon DEF After
<1>3. i \in Int /\ s \in Int /\ c > 0
  <2> HIDE DEF c, s
  <2> QED BY <1>1
<1>4. step \in 0..(c - 1)
  <2> HIDE DEF c, s
  <2> QED BY <1>1, <1>3
<1>5. OfContour(pp, s) \subseteq 1..Len(pp)
  BY DEF OfContour
<1> HIDE DEF c, s, step
<1>6. s + step \in s..(s + c - 1)
  BY <1>1, <1>3, <1>4
<1> QED BY <1>1, <1>2, <1>5, <1>6 DEF s

-----------------------------------------------------------------------------
(* Passes over the points *)

\* build_direction_chain starts at a point of the contour.
LEMMA ChainStarts ==
  ASSUME NEW S, NEW pp \in Seq(S), Rings(pp), NEW s \in 1..Len(pp), pp[s].start = s
  PROVE  ChainStart(pp, s) \in 1..Len(pp) /\ pp[ChainStart(pp, s)].start = s
<1> DEFINE n == Cardinality(OfContour(pp, s))
           Back(k) == After(pp, s, n - k)
           Stops(k) == \/ pp[Back(k)].prev = s
                       \/ Taxicab(Delta(pp, pp[Back(k)].prev, Back(k))) >= 2 * NearLimit - 1
           Q == {k \in 0..(n - 1) : Stops(k)}
           Chosen(k) == Stops(k) /\ \A j \in 0..(k - 1) : ~Stops(j)
           at == CHOOSE k \in 0..(n - 1) : Chosen(k)
<1>1. ChainStart(pp, s) = Back(at)
  BY Zenon DEF ChainStart
<1>2. n \in Nat /\ n > 0 /\ OfContour(pp, s) = s..(s + n - 1) /\ s \in Nat
  <2>1. /\ n \in Nat /\ s <= s + n - 1 /\ OfContour(pp, s) = s..(s + n - 1)
    BY DEF Rings
  <2> HIDE DEF n
  <2> QED BY <2>1
<1>3. Stops(n - 1)
  <2>1. n - (n - 1) = 1
    BY <1>2
  <2>2. Back(n - 1) = s + ((s - s + 1) % n)
    BY <2>1 DEF After
  <2>3. CASE n = 1
    <3>1. (s - s + 1) % n = 0
      BY <1>2, <2>3
    <3>2. Back(n - 1) = s
      BY <1>2, <2>2, <3>1
    <3>3. pp[s].prev = s + n - 1
      BY DEF Rings
    <3>4. s + n - 1 = s
      BY <1>2, <2>3
    <3> HIDE DEF Back, n
    <3> QED BY <3>2, <3>3, <3>4
  <2>4. CASE n # 1
    <3>1. (s - s + 1) % n = 1
      BY <1>2, <2>4
    <3>2. Back(n - 1) = s + 1
      BY <2>2, <3>1
    <3>3. s + 1 \in OfContour(pp, s)
      BY <1>2, <2>4
    <3>4. s + 1 \in 1..Len(pp) /\ pp[s + 1].start = s
      BY <3>3 DEF OfContour
    <3>5. pp[s + 1].prev = IF s + 1 = s THEN s + n - 1 ELSE s + 1 - 1
      BY <3>4 DEF Rings
    <3>6. pp[s + 1].prev = s
      <4> HIDE DEF n
      <4> QED BY <1>2, <3>5
    <3> HIDE DEF Back, n
    <3> QED BY <3>2, <3>6
  <2> QED BY <2>3, <2>4
<1> HIDE DEF Stops
<1>4. \E k \in 0..(n - 1) : Chosen(k)
  <2>1. Q \subseteq Nat /\ Q # {}
    BY <1>2, <1>3
  <2>2. PICK k \in Q : \A j \in Q : ~(j < k)
    <3> HIDE DEF Q
    <3> QED BY <2>1, Least
  <2>3. \A j \in 0..(k - 1) : ~Stops(j)
    BY <1>2, <2>2
  <2> QED BY <2>2, <2>3
<1>5. at \in 0..(n - 1)
  <2> HIDE DEF Chosen
  <2> QED BY <1>4, Zenon
<1> HIDE DEF at
<1>6. n - at \in Int
  BY <1>2, <1>5
<1> HIDE DEF n
<1>7. Back(at) \in OfContour(pp, s) /\ Back(at) \in 1..Len(pp)
  BY <1>6, AfterStays
<1> HIDE DEF Back
<1>8. pp[Back(at)].start = s
  BY <1>7 DEF OfContour
<1> QED BY <1>1, <1>7, <1>8

-----------------------------------------------------------------------------
(* The passes over an outline *)

\* build_direction_chain writes directions and no start or predecessor.
LEMMA Chained ==
  ASSUME NEW W, NEW base, Rings(base), DOMAIN base = 1..Len(base), NEW pp \in Points(W, base),
         NEW c0 \in 1..Len(base), base[c0].start = c0
  PROVE  build_direction_chain(pp, c0) \in Points(W, base)
<1> DEFINE first == ChainStart(pp, c0)
           n == Cardinality(OfContour(pp, c0))
           order == [k \in 1..n |-> k]
           none == <<0, 0>>
           start == [pts |-> pp, from |-> 0, sum |-> none]
           Curr(acc) == After(pp, first, acc.from)
           Next1(k) == After(pp, first, k)
           Out(k) == Delta(pp, After(pp, first, k - 1), Next1(k))
           Sum1(acc, k) == <<acc.sum[1] + Out(k)[1], acc.sum[2] + Out(k)[2]>>
           Dir(acc, k) == direction_compute(Sum1(acc, k))
           Mids(acc, k) == {After(pp, first, j) : j \in (acc.from + 1)..(k - 1)}
           Turn1(acc, k, i) == [acc.pts[i] EXCEPT !.in = IF i \in Mids(acc, k) \union {Next1(k)} THEN Dir(acc, k) ELSE @,
                                                  !.out = IF i \in Mids(acc, k) \union {Curr(acc)} THEN Dir(acc, k) ELSE @]
           TurnedTo(acc, k) == Written([i \in DOMAIN pp |-> Turn1(acc, k, i)])
           yes == TRUE
           Near1(acc, k) == Taxicab(Sum1(acc, k)) < NearLimit
           Weaker(acc, k) == [acc EXCEPT !.pts[Next1(k)].weak = yes, !.sum = Sum1(acc, k)]
           Chain1(acc, k) == [pts |-> [TurnedTo(acc, k) EXCEPT ![Curr(acc)].u = Next1(k), ![Next1(k)].v = Curr(acc),
                                                               ![Next1(k)].u = first, ![first].v = Next1(k)],
                              from |-> k, sum |-> none]
           Step1(acc, k) == IF Near1(acc, k) THEN Weaker(acc, k) ELSE Chain1(acc, k)
           T == [pts : Points(W, base), from : Nat, sum : Int \X Int]
           round == [k \in 1..n |-> [x \in T |-> Step1(x, order[k])]]
           Fold(f) == [q \in SUBSET (DOMAIN order) |->
                         IF q = {} THEN start ELSE Step1(f[q \ {Max(q)}], order[Max(q)])]
           fold == CHOOSE f : f = Fold(f)
<1>1. build_direction_chain(pp, c0) = fold[DOMAIN order].pts
  BY Zenon DEF build_direction_chain, FoldLeft, MapThenFoldSet
<1>2. n \in Nat /\ DOMAIN order = 1..n /\ \A k \in 1..n : order[k] = k
  <2>1. /\ Rings(pp) /\ pp[c0].start = c0 /\ c0 \in 1..Len(pp)
    BY RingsStay DEF Points
  <2>2. n \in Nat
    BY <2>1 DEF Rings
  <2> HIDE DEF n
  <2> QED BY <2>2
<1>3. start \in T
  OBVIOUS
<1>4. /\ Rings(pp) /\ pp[c0].start = c0 /\ c0 \in 1..Len(pp) /\ Len(pp) = Len(base)
      /\ pp \in Seq(PointRecs(W)) /\ DOMAIN pp = 1..Len(pp)
  BY RingsStay DEF Points
<1>5. first \in 1..Len(pp)
  BY <1>4, ChainStarts
<1> HIDE DEF first
<1>6. \A k \in Int : After(pp, first, k) \in 1..Len(pp)
  BY <1>4, <1>5, AfterStays
<1>7. \A i, j \in 1..Len(pp) : Delta(pp, i, j) \in Int \X Int
  <2> SUFFICES ASSUME NEW i \in 1..Len(pp), NEW j \in 1..Len(pp) PROVE Delta(pp, i, j) \in Int \X Int
    OBVIOUS
  <2>1. pp[i] \in PointRecs(W) /\ pp[j] \in PointRecs(W)
    BY <1>4
  <2>2. pp[i].f \in Int \X Int /\ pp[j].f \in Int \X Int
    BY <2>1 DEF PointRecs
  <2> QED BY SMTT(60), <2>2 DEF Delta
<1>8. yes \in BOOLEAN
  BY Zenon
<1> HIDE DEF yes
<1>9. ASSUME NEW k \in 1..n, NEW x \in T PROVE Step1(x, k) \in T
  <2>1. x.pts \in Points(W, base) /\ x.from \in Nat /\ x.sum \in Int \X Int
    OBVIOUS
  <2>2. Next1(k) \in 1..Len(pp) /\ Curr(x) \in 1..Len(pp) /\ After(pp, first, k - 1) \in 1..Len(pp)
    BY <1>2, <1>6, <2>1
  <2>3. Out(k) \in Int \X Int
    <3> HIDE DEF Next1
    <3> QED BY <1>7, <2>2
  <2>4. Sum1(x, k) \in Int \X Int
    <3> HIDE DEF Out
    <3> QED BY <2>1, <2>3
  <2>5. Dir(x, k) \in Int
    BY Directions
  <2> HIDE DEF Next1, Curr, Out, Sum1, Dir, Mids, Near1
  <2>6. Weaker(x, k) \in T
    <3> DEFINE q == [x.pts EXCEPT ![Next1(k)].weak = yes]
               z == Sum1(x, k)
               new == Weaker(x, k)
    <3>1. q \in Points(W, base)
      BY <1>8, <2>1, WeakPoint
    <3>2. new = [x EXCEPT !.pts = q, !.sum = z]
      BY Zenon
    <3>3. z \in Int \X Int
      BY <2>4
    <3> HIDE DEF q, z
    <3> HIDE DEF new, Weaker
    <3>4. [x EXCEPT !.pts = q, !.sum = z] \in T
      BY <3>1, <3>3, PartsReplaced
    <3> QED BY <3>2, <3>4 DEF new
  <2>7. TurnedTo(x, k) \in Points(W, base)
    <3> DEFINE f == [i \in DOMAIN pp |-> Turn1(x, k, i)]
    <3>1. ASSUME NEW i \in 1..Len(pp)
          PROVE  Turn1(x, k, i) \in PointRecs(W) /\ Turn1(x, k, i).start = x.pts[i].start
                                                 /\ Turn1(x, k, i).prev = x.pts[i].prev
      <4> DEFINE a == IF i \in Mids(x, k) \union {Next1(k)} THEN Dir(x, k) ELSE x.pts[i].in
                 b == IF i \in Mids(x, k) \union {Curr(x)} THEN Dir(x, k) ELSE x.pts[i].out
                 r == x.pts[i]
      <4>1. Turn1(x, k, i) = [r EXCEPT !.in = a, !.out = b]
        BY Zenon
      <4>2. r \in PointRecs(W)
        BY <1>4, <2>1 DEF Points
      <4>3. a \in Int /\ b \in Int
        <5>1. r.in \in Int /\ r.out \in Int
          BY <4>2 DEF PointRecs
        <5> HIDE DEF r
        <5> QED BY <2>5, <5>1 DEF r
      <4> HIDE DEF a, b, r, Turn1
      <4> DEFINE new == Headed(r, a, b)
      <4>4. new \in PointRecs(W) /\ new.start = r.start /\ new.prev = r.prev
        BY <4>2, <4>3, TurnedField
      <4> HIDE DEF new
      <4>5. Turn1(x, k, i) = new
        BY <4>1, Zenon DEF new, Headed
      <4> QED BY <4>4, <4>5 DEF r
    <3> HIDE DEF Turn1
    <3>2. DOMAIN f = 1..Len(x.pts) /\ f = [i \in 1..Len(x.pts) |-> f[i]]
      BY <1>4, <2>1 DEF Points
    <3>3. \A i \in 1..Len(x.pts) : f[i] = Turn1(x, k, i) /\ i \in 1..Len(pp)
      BY <1>4, <2>1 DEF Points
    <3>4. \A i \in 1..Len(x.pts) : f[i] \in PointRecs(W) /\ f[i].start = x.pts[i].start /\ f[i].prev = x.pts[i].prev
      BY <3>1, <3>3
    <3> HIDE DEF f
    <3>5. Written(f) \in Points(W, base)
      <4> DEFINE y == x.pts
      <4>1. /\ y \in Points(W, base) /\ DOMAIN f = 1..Len(y) /\ f = [i \in 1..Len(y) |-> f[i]]
            /\ \A i \in 1..Len(y) : f[i] \in PointRecs(W) /\ f[i].start = y[i].start /\ f[i].prev = y[i].prev
        BY <2>1, <3>2, <3>4
      <4> HIDE DEF y
      <4> QED BY <4>1, AllPoints
    <3> QED BY <3>5 DEF f
  <2> HIDE DEF TurnedTo
  <2>8. Chain1(x, k) \in T
    <3> DEFINE a == [TurnedTo(x, k) EXCEPT ![Curr(x)].u = Next1(k)]
               b == [a EXCEPT ![Next1(k)].v = Curr(x)]
               c == [b EXCEPT ![Next1(k)].u = first]
               e == [c EXCEPT ![first].v = Next1(k)]
    <3>1. Next1(k) \in Int /\ Curr(x) \in Int /\ first \in Int
      BY <1>5, <2>2
    <3>2. Chain1(x, k) = [pts |-> e, from |-> k, sum |-> none]
      BY Zenon
    <3>3. a \in Points(W, base)
      BY <2>7, <3>1, UPoint
    <3> HIDE DEF a
    <3>4. b \in Points(W, base)
      BY <3>1, <3>3, VPoint
    <3> HIDE DEF b
    <3>5. c \in Points(W, base)
      BY <3>1, <3>4, UPoint
    <3> HIDE DEF c
    <3>6. e \in Points(W, base)
      BY <3>1, <3>5, VPoint
    <3> HIDE DEF e, Chain1
    <3> QED BY <1>2, <3>2, <3>6
  <2> HIDE DEF Weaker, Chain1, T
  <2> QED BY <2>6, <2>8
<1> HIDE DEF T, start, Step1
<1>10. \A k \in 1..n : \A x \in T : Step1(x, order[k]) \in T
  BY <1>2, <1>9
<1>11. AreRounds(round, n, T) /\ \A k \in 1..n : \A x \in T : round[k][x] = Step1(x, order[k])
  BY <1>10 DEF AreRounds
<1> HIDE DEF round, order, n
<1>12. fold = Fold(fold)
  <2>1. PICK f \in [SUBSET (1..n) -> T] : IsFold(f, n, start, round)
    BY <1>2, <1>3, <1>11, FoldExists
  <2>2. \A s \in SUBSET (1..n) :
          (IF s = {} THEN start ELSE round[Max(s)][f[s \ {Max(s)}]])
            = (IF s = {} THEN start ELSE Step1(f[s \ {Max(s)}], order[Max(s)]))
    BY <1>2, <1>11, <2>1, WithoutGreatest
  <2>3. f = Fold(f)
    BY <1>2, <2>1, <2>2 DEF IsFold
  <2> HIDE DEF Fold
  <2> QED BY <2>3, Zenon
<1> HIDE DEF fold
<1>13. FoldsBy(fold, n, T, start, round)
  <2>1. \A s \in SUBSET (1..n) : fold[s] = IF s = {} THEN start ELSE Step1(fold[s \ {Max(s)}], order[Max(s)])
    BY <1>2, <1>12
  <2>2. fold[{}] = start
    BY <2>1
  <2>3. ASSUME NEW s \in SUBSET (1..n), s # {} /\ fold[s \ {Max(s)}] \in T
        PROVE  fold[s] = round[Max(s)][fold[s \ {Max(s)}]]
    <3>1. Max(s) \in 1..n /\ fold[s] = Step1(fold[s \ {Max(s)}], order[Max(s)])
      BY <1>2, <2>1, <2>3, WithoutGreatest
    <3> QED BY <1>11, <2>3, <3>1
  <2> QED BY <2>2, <2>3 DEF FoldsBy
<1>14. PICK g : IsLoop(g, n, T, start, round) /\ fold[1..n] = g[n]
  BY <1>2, <1>3, <1>11, <1>13, FoldRounds
<1>15. fold[1..n] \in T
  BY <1>2, <1>14 DEF IsLoop
<1>16. fold[1..n].pts \in Points(W, base)
  BY <1>15 DEF T
<1> QED BY <1>1, <1>2, <1>16

\* Skipped: a point is passed over; the contours stay.
LEMMA SkippedStays ==
  ASSUME NEW W, NEW base, NEW acc \in Points(W, base), NEW i \in 1..Len(base)
  PROVE  Skipped(acc, i) \in Points(W, base)
<1> DEFINE yes == TRUE
           u == acc[i].u
           v == acc[i].v
           a == [acc EXCEPT ![i].weak = yes]
           b == [a EXCEPT ![v].u = u]
           c == [b EXCEPT ![u].v = v]
<1>1. u \in Int /\ v \in Int
  <2>1. acc[i] \in PointRecs(W)
    BY DEF Points
  <2> QED BY <2>1 DEF PointRecs
<1>2. Skipped(acc, i) = c
  BY Zenon DEF Skipped
<1>3. yes \in BOOLEAN
  BY Zenon
<1> HIDE DEF yes, u, v
<1>4. a \in Points(W, base)
  BY <1>3, WeakPoint
<1> HIDE DEF a
<1>5. b \in Points(W, base)
  BY <1>1, <1>4, UPoint
<1> HIDE DEF b
<1>6. c \in Points(W, base)
  BY <1>1, <1>5, VPoint
<1> HIDE DEF c
<1> QED BY <1>2, <1>6

\* Simplified: points are passed over; the contours stay.
LEMMA SimplifiedStays ==
  ASSUME NEW W, NEW base, DOMAIN base = 1..Len(base), Len(base) \in Nat, NEW pp \in Points(W, base)
  PROVE  Simplified(pp) \in Points(W, base)
<1> DEFINE n == Len(base)
           start == pp
           order == [i \in DOMAIN pp |-> i]
           In(acc, i) == Delta(acc, acc[i].v, i)
           Out(acc, i) == Delta(acc, i, acc[i].u)
           Visit1(acc, i) == IF ~acc[i].weak /\ NoDirection(acc[i])
                                /\ SameSign(In(acc, i)[1], Out(acc, i)[1]) /\ SameSign(In(acc, i)[2], Out(acc, i)[2])
                             THEN Skipped(acc, i) ELSE acc
           T == Points(W, base)
           round == [k \in 1..n |-> [x \in T |-> Visit1(x, order[k])]]
           Fold(f) == [q \in SUBSET (DOMAIN order) |->
                         IF q = {} THEN start ELSE Visit1(f[q \ {Max(q)}], order[Max(q)])]
           fold == CHOOSE f : f = Fold(f)
<1>1. Simplified(pp) = fold[DOMAIN order]
  BY Zenon DEF Simplified, FoldLeft, MapThenFoldSet
<1>2. n \in Nat /\ DOMAIN order = 1..n /\ \A k \in 1..n : order[k] = k
  BY DEF Points
<1>3. start \in T
  OBVIOUS
<1>4. ASSUME NEW k \in 1..n, NEW x \in T PROVE Visit1(x, k) \in T
  <2>1. Skipped(x, k) \in T
    BY SkippedStays
  <2>2. Visit1(x, k) = Skipped(x, k) \/ Visit1(x, k) = x
    BY Zenon
  <2> HIDE DEF T, Visit1
  <2> QED BY <2>1, <2>2
<1> HIDE DEF T, start, Visit1
<1>5. \A k \in 1..n : \A x \in T : Visit1(x, order[k]) \in T
  BY <1>2, <1>4
<1>6. AreRounds(round, n, T) /\ \A k \in 1..n : \A x \in T : round[k][x] = Visit1(x, order[k])
  BY <1>5 DEF AreRounds
<1> HIDE DEF round, order, n
<1>7. fold = Fold(fold)
  <2>1. PICK f \in [SUBSET (1..n) -> T] : IsFold(f, n, start, round)
    BY <1>2, <1>3, <1>6, FoldExists
  <2>2. \A s \in SUBSET (1..n) :
          (IF s = {} THEN start ELSE round[Max(s)][f[s \ {Max(s)}]])
            = (IF s = {} THEN start ELSE Visit1(f[s \ {Max(s)}], order[Max(s)]))
    BY <1>2, <1>6, <2>1, WithoutGreatest
  <2>3. f = Fold(f)
    BY <1>2, <2>1, <2>2 DEF IsFold
  <2> HIDE DEF Fold
  <2> QED BY <2>3, Zenon
<1> HIDE DEF fold
<1>8. FoldsBy(fold, n, T, start, round)
  <2>1. \A s \in SUBSET (1..n) : fold[s] = IF s = {} THEN start ELSE Visit1(fold[s \ {Max(s)}], order[Max(s)])
    BY <1>2, <1>7
  <2>2. fold[{}] = start
    BY <2>1
  <2>3. ASSUME NEW s \in SUBSET (1..n), s # {} /\ fold[s \ {Max(s)}] \in T
        PROVE  fold[s] = round[Max(s)][fold[s \ {Max(s)}]]
    <3>1. Max(s) \in 1..n /\ fold[s] = Visit1(fold[s \ {Max(s)}], order[Max(s)])
      BY <1>2, <2>1, <2>3, WithoutGreatest
    <3> QED BY <1>6, <2>3, <3>1
  <2> QED BY <2>2, <2>3 DEF FoldsBy
<1>9. PICK g : IsLoop(g, n, T, start, round) /\ fold[1..n] = g[n]
  BY <1>2, <1>3, <1>6, <1>8, FoldRounds
<1>10. fold[1..n] \in Points(W, base)
  BY <1>2, <1>9 DEF IsLoop, T
<1> QED BY <1>1, <1>2, <1>10

\* Classified: points are found weak or strong; the contours stay.
LEMMA ClassifiedStays ==
  ASSUME NEW W, NEW base, DOMAIN base = 1..Len(base), Len(base) \in Nat, NEW pp \in Points(W, base)
  PROVE  Classified(pp) \in Points(W, base)
<1> DEFINE n == Len(base)
           start == pp
           order == [i \in DOMAIN pp |-> i]
           yes == TRUE
           line(pt) == pt.in = pt.out \/ pt.in = -pt.out
           Visit1(acc, i) ==
             LET pt == acc[i]
             IN CASE pt.weak -> acc
                  [] ~pt.weak /\ pt.ctl -> [acc EXCEPT ![i].weak = yes]
                  [] ~pt.weak /\ ~pt.ctl /\ NoDirection(pt) ->
                       IF corner_is_flat(Delta(acc, pt.v, i), Delta(acc, i, pt.u))
                       THEN Skipped(acc, i) ELSE acc
                  [] OTHER -> [acc EXCEPT ![i].weak = line(pt)]
           T == Points(W, base)
           round == [k \in 1..n |-> [x \in T |-> Visit1(x, order[k])]]
           Fold(f) == [q \in SUBSET (DOMAIN order) |->
                         IF q = {} THEN start ELSE Visit1(f[q \ {Max(q)}], order[Max(q)])]
           fold == CHOOSE f : f = Fold(f)
<1>1. Classified(pp) = fold[DOMAIN order]
  BY Zenon DEF Classified, FoldLeft, MapThenFoldSet
<1>2. n \in Nat /\ DOMAIN order = 1..n /\ \A k \in 1..n : order[k] = k
  BY DEF Points
<1>3. start \in T
  OBVIOUS
<1>4. ASSUME NEW k \in 1..n, NEW x \in T PROVE Visit1(x, k) \in T
  <2> DEFINE a == [x EXCEPT ![k].weak = yes]
             l == line(x[k])
             b == [x EXCEPT ![k].weak = l]
  <2>1. Skipped(x, k) \in T
    BY SkippedStays
  <2>2. yes \in BOOLEAN /\ l \in BOOLEAN
    BY Zenon
  <2>3. Visit1(x, k) = Skipped(x, k) \/ Visit1(x, k) = x \/ Visit1(x, k) = a \/ Visit1(x, k) = b
    <3>1. CASE x[k].weak
      BY <3>1, Zenon
    <3>2. CASE ~x[k].weak /\ x[k].ctl
      BY <3>2, Zenon
    <3>3. CASE ~x[k].weak /\ ~x[k].ctl /\ NoDirection(x[k])
      BY <3>3, Zenon
    <3>4. CASE ~x[k].weak /\ ~x[k].ctl /\ ~NoDirection(x[k])
      BY <3>4, Zenon
    <3> QED BY <3>1, <3>2, <3>3, <3>4, Zenon
  <2> HIDE DEF yes, l
  <2>4. a \in T /\ b \in T
    BY <2>2, WeakPoint
  <2> HIDE DEF T, Visit1, a, b
  <2> QED BY <2>1, <2>3, <2>4
<1> HIDE DEF T, start, Visit1
<1>5. \A k \in 1..n : \A x \in T : Visit1(x, order[k]) \in T
  BY <1>2, <1>4
<1>6. AreRounds(round, n, T) /\ \A k \in 1..n : \A x \in T : round[k][x] = Visit1(x, order[k])
  BY <1>5 DEF AreRounds
<1> HIDE DEF round, order, n
<1>7. fold = Fold(fold)
  <2>1. PICK f \in [SUBSET (1..n) -> T] : IsFold(f, n, start, round)
    BY <1>2, <1>3, <1>6, FoldExists
  <2>2. \A s \in SUBSET (1..n) :
          (IF s = {} THEN start ELSE round[Max(s)][f[s \ {Max(s)}]])
            = (IF s = {} THEN start ELSE Visit1(f[s \ {Max(s)}], order[Max(s)]))
    BY <1>2, <1>6, <2>1, WithoutGreatest
  <2>3. f = Fold(f)
    BY <1>2, <2>1, <2>2 DEF IsFold
  <2> HIDE DEF Fold
  <2> QED BY <2>3, Zenon
<1> HIDE DEF fold
<1>8. FoldsBy(fold, n, T, start, round)
  <2>1. \A s \in SUBSET (1..n) : fold[s] = IF s = {} THEN start ELSE Visit1(fold[s \ {Max(s)}], order[Max(s)])
    BY <1>2, <1>7
  <2>2. fold[{}] = start
    BY <2>1
  <2>3. ASSUME NEW s \in SUBSET (1..n), s # {} /\ fold[s \ {Max(s)}] \in T
        PROVE  fold[s] = round[Max(s)][fold[s \ {Max(s)}]]
    <3>1. Max(s) \in 1..n /\ fold[s] = Visit1(fold[s \ {Max(s)}], order[Max(s)])
      BY <1>2, <2>1, <2>3, WithoutGreatest
    <3> QED BY <1>6, <2>3, <3>1
  <2> QED BY <2>2, <2>3 DEF FoldsBy
<1>9. PICK g : IsLoop(g, n, T, start, round) /\ fold[1..n] = g[n]
  BY <1>2, <1>3, <1>6, <1>8, FoldRounds
<1>10. fold[1..n] \in Points(W, base)
  BY <1>2, <1>9 DEF IsLoop, T
<1> QED BY <1>1, <1>2, <1>10

-----------------------------------------------------------------------------
(* An outline is loaded *)

OutlinePoints == [at : Int \X Int, ctl : BOOLEAN]
Scaled1(at, scale) == <<MulFix(at[Horz], scale[Horz]), MulFix(at[Vert], scale[Vert])>>
Places(scale) == {{}} \union {Scaled1(at, scale) : at \in Int \X Int}

\* The point that is made of point k of a contour behind s others.
NewPoint(contour, scale, s, k) ==
  LET n == Len(contour)
  IN [f |-> contour[k].at, ctl |-> contour[k].ctl,
      o |-> Scaled1(contour[k].at, scale), p |-> Scaled1(contour[k].at, scale),
      next |-> s + 1 + (k % n), prev |-> IF k = 1 THEN s + n ELSE s + k - 1, start |-> s + 1,
      in |-> None, out |-> None, weak |-> FALSE, touched |-> {}, u |-> 0, v |-> 0]

RingSeqs(W) == {acc \in Seq(PointRecs(W)) : Rings(acc)}

\* A point that is loaded.
LEMMA NewPoints ==
  ASSUME NEW contour \in Seq(OutlinePoints), NEW scale, NEW s \in Nat, NEW k \in 1..Len(contour)
  PROVE  LET new == NewPoint(contour, scale, s, k)
         IN /\ new \in PointRecs(Places(scale)) /\ new.start = s + 1
            /\ new.prev = IF k = 1 THEN s + Len(contour) ELSE s + k - 1
<1> DEFINE W == Places(scale)
           n == Len(contour)
           no == FALSE
           at == contour[k].at
           ctl == contour[k].ctl
           next == s + 1 + (k % n)
           prev == IF k = 1 THEN s + n ELSE s + k - 1
           empty == {}
           to == Scaled1(at, scale)
           new == NewPoint(contour, scale, s, k)
<1>1. at \in Int \X Int /\ ctl \in BOOLEAN
  <2>1. contour[k] \in OutlinePoints
    OBVIOUS
  <2> QED BY <2>1 DEF OutlinePoints
<1>2. no \in BOOLEAN
  BY Zenon
<1>3. empty \in W /\ to \in W
  <2> HIDE DEF at
  <2> QED BY <1>1, Zenon DEF Places
<1>4. n \in Nat /\ k \in Int /\ n > 0 /\ None \in Int
  BY DEF None
<1>5. next \in Int /\ prev \in Int
  <2> HIDE DEF n
  <2> QED BY <1>4
<1>6. new = [f |-> at, ctl |-> ctl, o |-> to, p |-> to, next |-> next, prev |-> prev, start |-> s + 1,
             in |-> None, out |-> None, weak |-> no, touched |-> empty, u |-> 0, v |-> 0]
  BY Zenon DEF NewPoint
<1> HIDE DEF no, at, ctl, next, prev, empty, to, new, W
<1>7. new \in PointRecs(W) /\ new.start = s + 1 /\ new.prev = prev
  BY <1>1, <1>2, <1>3, <1>4, <1>5, <1>6 DEF PointRecs
<1> QED BY <1>7 DEF new, W, prev, n

\* A contour is added behind the others.
LEMMA RingAdded ==
  ASSUME NEW S, NEW pp \in Seq(S), Rings(pp), NEW new \in Seq(S),
         \A k \in 1..Len(new) : /\ new[k].start = Len(pp) + 1
                                /\ new[k].prev = IF k = 1 THEN Len(pp) + Len(new) ELSE Len(pp) + k - 1
  PROVE  Rings(pp \o new)
<1> DEFINE s == Len(pp)
           n == Len(new)
           all == pp \o new
<1>1. s \in Nat /\ n \in Nat /\ Len(all) = s + n /\ DOMAIN all = 1..(s + n) /\ DOMAIN pp = 1..s
  OBVIOUS
<1>2. (\A i \in 1..s : all[i] = pp[i]) /\ \A i \in (s + 1)..(s + n) : all[i] = new[i - s]
  BY <1>1
<1> HIDE DEF all
<1>3. \A i \in 1..s : pp[i].start \in 1..i
  BY DEF Rings
<1>4. \A i \in (s + 1)..(s + n) : all[i].start = s + 1 /\ i - s \in 1..n
  <2> SUFFICES ASSUME NEW i \in (s + 1)..(s + n) PROVE all[i].start = s + 1 /\ i - s \in 1..n
    OBVIOUS
  <2> DEFINE k == i - s
  <2>1. k \in 1..n /\ all[i] = new[k]
    <3> HIDE DEF s, n
    <3> QED BY <1>1, <1>2
  <2> HIDE DEF k
  <2>2. new[k].start = s + 1
    BY <2>1
  <2> QED BY <2>1, <2>2 DEF k
<1> SUFFICES ASSUME NEW i \in 1..Len(all)
             PROVE  LET b == all[i].start
                        c == Cardinality(OfContour(all, b))
                    IN /\ c \in Nat /\ b \in 1..i /\ i <= b + c - 1
                       /\ OfContour(all, b) = b..(b + c - 1)
                       /\ all[i].prev = IF i = b THEN b + c - 1 ELSE i - 1
  BY DEF Rings, all
<1>5. CASE i \in 1..s
  <2> DEFINE b == pp[i].start
             c == Cardinality(OfContour(pp, b))
  <2>1. /\ c \in Nat /\ b \in 1..i /\ i <= b + c - 1
        /\ OfContour(pp, b) = b..(b + c - 1)
        /\ pp[i].prev = IF i = b THEN b + c - 1 ELSE i - 1
    BY <1>5 DEF Rings
  <2> HIDE DEF c
  <2>2. OfContour(all, b) = OfContour(pp, b)
    <3>1. ASSUME NEW j \in OfContour(all, b) PROVE j \in OfContour(pp, b)
      <4>1. j \in 1..(s + n) /\ all[j].start = b
        BY <1>1 DEF OfContour
      <4>2. j \in 1..s
        <5> HIDE DEF b, s, n
        <5> QED BY <1>1, <1>4, <1>5, <2>1, <4>1
      <4> QED BY <1>1, <1>2, <4>1, <4>2 DEF OfContour
    <3>2. ASSUME NEW j \in OfContour(pp, b) PROVE j \in OfContour(all, b)
      <4>1. j \in 1..s /\ pp[j].start = b
        BY <1>1 DEF OfContour
      <4>2. all[j].start = b /\ j \in 1..(s + n)
        BY <1>1, <1>2, <4>1
      <4> QED BY <1>1, <4>2 DEF OfContour
    <3> QED BY <3>1, <3>2
  <2>3. all[i] = pp[i]
    BY <1>2, <1>5
  <2> QED BY <2>1, <2>2, <2>3 DEF c
<1>6. CASE i \in (s + 1)..(s + n)
  <2> DEFINE b == s + 1
             k == i - s
  <2>1. OfContour(all, b) = b..(s + n)
    <3>1. ASSUME NEW j \in OfContour(all, b) PROVE j \in b..(s + n)
      <4>1. j \in 1..(s + n) /\ all[j].start = b
        BY <1>1 DEF OfContour
      <4>2. j \notin 1..s
        <5>1. j \in 1..s => all[j].start \in 1..s
          BY <1>1, <1>2, <1>3
        <5> HIDE DEF s, n
        <5> QED BY <1>1, <4>1, <5>1
      <4> HIDE DEF s, n
      <4> QED BY <1>1, <4>1, <4>2
    <3>2. ASSUME NEW j \in b..(s + n) PROVE j \in OfContour(all, b)
      <4>1. j \in 1..(s + n) /\ all[j].start = b
        <5> HIDE DEF s, n
        <5> QED BY <1>1, <1>4
      <4> QED BY <1>1, <4>1 DEF OfContour
    <3> QED BY <3>1, <3>2
  <2>2. Cardinality(b..(s + n)) = n
    <3>1. b \in Int /\ s + n \in Int
      BY <1>1
    <3>2. Cardinality(b..(s + n)) = IF b > s + n THEN 0 ELSE (s + n) - b + 1
      BY <3>1, FS_Interval
    <3> HIDE DEF s, n
    <3> QED BY <1>1, <3>2
  <2>3. k \in 1..n /\ all[i] = new[k] /\ all[i].start = b
    <3>1. all[i] = new[i - s] /\ all[i].start = b /\ i - s \in 1..n
      BY <1>2, <1>4, <1>6
    <3> QED BY <3>1
  <2> HIDE DEF k
  <2>4. new[k].prev = IF k = 1 THEN s + n ELSE s + k - 1
    BY <2>3
  <2>5. all[i].prev = IF i = b THEN b + n - 1 ELSE i - 1
    <3>1. s + k = i
      <4> HIDE DEF s
      <4> QED BY <1>1 DEF k
    <3>2. all[i].prev = new[k].prev
      BY <2>3
    <3>3. i = b <=> k = 1
      <4> HIDE DEF s, n
      <4> QED BY <1>1, <1>6, <2>3, <3>1
    <3>4. i - 1 = s + k - 1 /\ b + n - 1 = s + n
      <4> HIDE DEF s, n
      <4> QED BY <1>1, <1>6, <2>3, <3>1
    <3> HIDE DEF s, n, b
    <3> QED BY <2>4, <3>2, <3>3, <3>4
  <2>6. b \in 1..i /\ i <= b + n - 1 /\ b..(s + n) = b..(b + n - 1)
    <3> HIDE DEF s, n
    <3> QED BY <1>1, <1>6
  <2>7. OfContour(all, b) = b..(b + n - 1) /\ Cardinality(OfContour(all, b)) = n
    BY <2>1, <2>2, <2>6
  <2>8. all[i].start = b
    BY <2>3
  <2> HIDE DEF s, n, b
  <2> QED BY <1>1, <2>5, <2>6, <2>7, <2>8
<1> QED
  <2> HIDE DEF s, n
  <2> QED BY <1>1, <1>5, <1>6

\* All contours are added, one behind the other.
LEMMA RingsLinked ==
  ASSUME NEW outline \in Seq(Seq(OutlinePoints)), NEW scale
  PROVE  Linked(outline, scale) \in RingSeqs(Places(scale))
<1> DEFINE W == Places(scale)
           n == Len(outline)
           start == <<>>
           order == outline
           Ring(contour, s) == [k \in 1..Len(contour) |-> NewPoint(contour, scale, s, k)]
           Add(acc, contour) == acc \o Ring(contour, Len(acc))
           T == RingSeqs(W)
           round == [k \in 1..n |-> [x \in T |-> Add(x, order[k])]]
           Fold(f) == [q \in SUBSET (DOMAIN order) |->
                         IF q = {} THEN start ELSE Add(f[q \ {Max(q)}], order[Max(q)])]
           fold == CHOOSE f : f = Fold(f)
<1>1. Linked(outline, scale) = fold[DOMAIN order]
  BY Zenon DEF Linked, FoldLeft, MapThenFoldSet, NewPoint, Scaled1
<1>2. n \in Nat /\ DOMAIN order = 1..n
  OBVIOUS
<1>3. start \in T
  <2>1. Rings(start)
    BY DEF Rings
  <2> QED BY <2>1 DEF RingSeqs
<1>4. ASSUME NEW k \in 1..n, NEW x \in T PROVE Add(x, order[k]) \in T
  <2> DEFINE contour == order[k]
             s == Len(x)
             ring == Ring(contour, s)
  <2>1. contour \in Seq(OutlinePoints) /\ x \in Seq(PointRecs(W)) /\ Rings(x) /\ s \in Nat
    BY DEF RingSeqs
  <2> HIDE DEF contour, s
  <2>2. Len(contour) \in Nat
    BY <2>1
  <2>3. \A i \in 1..Len(contour) : /\ ring[i] \in PointRecs(W) /\ ring[i].start = s + 1
                                   /\ ring[i].prev = IF i = 1 THEN s + Len(contour) ELSE s + i - 1
    <3> SUFFICES ASSUME NEW i \in 1..Len(contour)
                 PROVE  /\ ring[i] \in PointRecs(W) /\ ring[i].start = s + 1
                        /\ ring[i].prev = IF i = 1 THEN s + Len(contour) ELSE s + i - 1
      OBVIOUS
    <3> DEFINE y == NewPoint(contour, scale, s, i)
    <3>1. ring[i] = y
      OBVIOUS
    <3>2. y \in PointRecs(W) /\ y.start = s + 1 /\ y.prev = IF i = 1 THEN s + Len(contour) ELSE s + i - 1
      BY <2>1, NewPoints
    <3> HIDE DEF ring, y, W
    <3> QED BY <3>1, <3>2
  <2>4. ring \in [1..Len(contour) -> PointRecs(W)]
    <3>1. ring = [i \in 1..Len(contour) |-> ring[i]]
      OBVIOUS
    <3> HIDE DEF ring
    <3> QED BY <2>3, <3>1
  <2> HIDE DEF ring
  <2>5. ring \in Seq(PointRecs(W)) /\ Len(ring) = Len(contour)
    BY <2>2, <2>4, WrittenOut
  <2> HIDE DEF W
  <2>6. Rings(x \o ring)
    <3>1. \A i \in 1..Len(ring) : /\ ring[i].start = Len(x) + 1
                                  /\ ring[i].prev = IF i = 1 THEN Len(x) + Len(ring) ELSE Len(x) + i - 1
      BY <2>3, <2>5 DEF s
    <3> QED BY <2>1, <2>5, <3>1, RingAdded
  <2>7. x \o ring \in T
    BY <2>1, <2>5, <2>6 DEF RingSeqs
  <2> QED BY <2>7 DEF ring, contour, s
<1> HIDE DEF T, start, Add
<1>5. \A k \in 1..n : \A x \in T : Add(x, order[k]) \in T
  BY <1>4
<1>6. AreRounds(round, n, T) /\ \A k \in 1..n : \A x \in T : round[k][x] = Add(x, order[k])
  BY <1>5 DEF AreRounds
<1> HIDE DEF round, order, n
<1>7. fold = Fold(fold)
  <2>1. PICK f \in [SUBSET (1..n) -> T] : IsFold(f, n, start, round)
    BY <1>2, <1>3, <1>6, FoldExists
  <2>2. \A s \in SUBSET (1..n) :
          (IF s = {} THEN start ELSE round[Max(s)][f[s \ {Max(s)}]])
            = (IF s = {} THEN start ELSE Add(f[s \ {Max(s)}], order[Max(s)]))
    BY <1>2, <1>6, <2>1, WithoutGreatest
  <2>3. f = Fold(f)
    BY <1>2, <2>1, <2>2 DEF IsFold
  <2> HIDE DEF Fold
  <2> QED BY <2>3, Zenon
<1> HIDE DEF fold
<1>8. FoldsBy(fold, n, T, start, round)
  <2>1. \A s \in SUBSET (1..n) : fold[s] = IF s = {} THEN start ELSE Add(fold[s \ {Max(s)}], order[Max(s)])
    BY <1>2, <1>7
  <2>2. fold[{}] = start
    BY <2>1
  <2>3. ASSUME NEW s \in SUBSET (1..n), s # {} /\ fold[s \ {Max(s)}] \in T
        PROVE  fold[s] = round[Max(s)][fold[s \ {Max(s)}]]
    <3>1. Max(s) \in 1..n /\ fold[s] = Add(fold[s \ {Max(s)}], order[Max(s)])
      BY <1>2, <2>1, <2>3, WithoutGreatest
    <3> QED BY <1>6, <2>3, <3>1
  <2> QED BY <2>2, <2>3 DEF FoldsBy
<1>9. PICK g : IsLoop(g, n, T, start, round) /\ fold[1..n] = g[n]
  BY <1>2, <1>3, <1>6, <1>8, FoldRounds
<1>10. fold[1..n] \in T
  BY <1>2, <1>9 DEF IsLoop
<1> QED BY <1>1, <1>2, <1>10 DEF T, W

\* An outline is loaded: its points, in rings.
LEMMA Reloaded ==
  ASSUME NEW outline \in Seq(Seq(OutlinePoints)), NEW scale
  PROVE  reload(outline, scale) \in RingSeqs(Places(scale))
<1> DEFINE W == Places(scale)
           base == Linked(outline, scale)
           In(i) == direction_compute(Delta(base, base[i].prev, i))
           Out(i) == direction_compute(Delta(base, i, base[i].next))
           Turn1(i) == [base[i] EXCEPT !.in = In(i), !.out = Out(i), !.u = i, !.v = i]
           turned == [i \in DOMAIN base |-> Turn1(i)]
           n == Len(base)
           start == Written(turned)
           order == [i \in DOMAIN base |-> i]
           Chain(acc, i) == IF Begins(base, i) THEN build_direction_chain(acc, i) ELSE acc
           T == Points(W, base)
           round == [k \in 1..n |-> [x \in T |-> Chain(x, order[k])]]
           Fold(f) == [q \in SUBSET (DOMAIN order) |->
                         IF q = {} THEN start ELSE Chain(f[q \ {Max(q)}], order[Max(q)])]
           fold == CHOOSE f : f = Fold(f)
<1>1. reload(outline, scale) = Classified(Simplified(fold[DOMAIN order]))
  BY Zenon DEF reload, FoldLeft, MapThenFoldSet
<1>2. base \in Seq(PointRecs(W)) /\ Rings(base)
  BY RingsLinked DEF RingSeqs
<1> HIDE DEF base, W
<1>3. n \in Nat /\ DOMAIN base = 1..n /\ DOMAIN order = 1..n /\ \A k \in 1..n : order[k] = k
  BY <1>2
<1>4. base \in Points(W, base)
  BY <1>2 DEF Points
<1>5. start \in T
  <2>1. ASSUME NEW i \in 1..n
        PROVE  Turn1(i) \in PointRecs(W) /\ Turn1(i).start = base[i].start /\ Turn1(i).prev = base[i].prev
    <3> DEFINE r == base[i]
               a == In(i)
               b == Out(i)
               x == Headed(r, a, b)
               y == [x EXCEPT !.u = i]
               z == [y EXCEPT !.v = i]
    <3>1. r \in PointRecs(W) /\ a \in Int /\ b \in Int /\ i \in Int
      BY <1>2, Directions
    <3>2. Turn1(i) = z
      BY Zenon DEF Headed
    <3> HIDE DEF r, a, b, Turn1
    <3>3. x \in PointRecs(W) /\ x.start = r.start /\ x.prev = r.prev
      BY <3>1, TurnedField
    <3> HIDE DEF x
    <3>4. y \in PointRecs(W) /\ y.start = r.start /\ y.prev = r.prev
      BY <3>1, <3>3, UField
    <3> HIDE DEF y
    <3>5. z \in PointRecs(W) /\ z.start = r.start /\ z.prev = r.prev
      BY <3>1, <3>4, VField
    <3> HIDE DEF z
    <3> QED BY <3>2, <3>5 DEF r
  <2> HIDE DEF Turn1
  <2>2. DOMAIN turned = 1..Len(base) /\ turned = [i \in 1..Len(base) |-> turned[i]]
    BY <1>3
  <2>3. \A i \in 1..Len(base) : turned[i] \in PointRecs(W) /\ turned[i].start = base[i].start
                                                           /\ turned[i].prev = base[i].prev
    BY <1>3, <2>1
  <2> HIDE DEF turned
  <2>4. Written(turned) \in Points(W, base)
    BY <1>4, <2>2, <2>3, AllPoints
  <2> QED BY <2>4
<1>6. ASSUME NEW k \in 1..n, NEW x \in T PROVE Chain(x, k) \in T
  <2>1. base[k].start = k => build_direction_chain(x, k) \in T
    BY <1>2, <1>3, Chained
  <2> HIDE DEF T
  <2> QED BY <2>1 DEF Begins
<1> HIDE DEF T, start, Chain
<1>7. \A k \in 1..n : \A x \in T : Chain(x, order[k]) \in T
  BY <1>3, <1>6
<1>8. AreRounds(round, n, T) /\ \A k \in 1..n : \A x \in T : round[k][x] = Chain(x, order[k])
  BY <1>7 DEF AreRounds
<1> HIDE DEF round, order, n
<1>9. fold = Fold(fold)
  <2>1. PICK f \in [SUBSET (1..n) -> T] : IsFold(f, n, start, round)
    BY <1>3, <1>5, <1>8, FoldExists
  <2>2. \A s \in SUBSET (1..n) :
          (IF s = {} THEN start ELSE round[Max(s)][f[s \ {Max(s)}]])
            = (IF s = {} THEN start ELSE Chain(f[s \ {Max(s)}], order[Max(s)]))
    BY <1>3, <1>8, <2>1, WithoutGreatest
  <2>3. f = Fold(f)
    BY <1>3, <2>1, <2>2 DEF IsFold
  <2> HIDE DEF Fold
  <2> QED BY <2>3, Zenon
<1> HIDE DEF fold
<1>10. FoldsBy(fold, n, T, start, round)
  <2>1. \A s \in SUBSET (1..n) : fold[s] = IF s = {} THEN start ELSE Chain(fold[s \ {Max(s)}], order[Max(s)])
    BY <1>3, <1>9
  <2>2. fold[{}] = start
    BY <2>1
  <2>3. ASSUME NEW s \in SUBSET (1..n), s # {} /\ fold[s \ {Max(s)}] \in T
        PROVE  fold[s] = round[Max(s)][fold[s \ {Max(s)}]]
    <3>1. Max(s) \in 1..n /\ fold[s] = Chain(fold[s \ {Max(s)}], order[Max(s)])
      BY <1>3, <2>1, <2>3, WithoutGreatest
    <3> QED BY <1>8, <2>3, <3>1
  <2> QED BY <2>2, <2>3 DEF FoldsBy
<1>11. PICK g : IsLoop(g, n, T, start, round) /\ fold[1..n] = g[n]
  BY <1>3, <1>5, <1>8, <1>10, FoldRounds
<1> DEFINE chained == fold[1..n]
<1>12. chained \in Points(W, base)
  BY <1>3, <1>11 DEF IsLoop, T
<1> HIDE DEF chained
<1>13. Simplified(chained) \in Points(W, base)
  BY <1>3, <1>12, SimplifiedStays DEF n
<1>14. Classified(Simplified(chained)) \in Points(W, base)
  BY <1>3, <1>13, ClassifiedStays DEF n
<1>15. reload(outline, scale) = Classified(Simplified(chained))
  BY <1>1, <1>3 DEF chained
<1>16. reload(outline, scale) \in Points(W, base)
  BY <1>14, <1>15
<1> DEFINE pp == reload(outline, scale)
<1> HIDE DEF pp
<1>17. pp \in Points(W, base)
  BY <1>16 DEF pp
<1>18. Rings(pp) /\ pp \in Seq(PointRecs(W))
  BY <1>2, <1>3, <1>17, RingsStay DEF Points, n
<1> QED BY <1>18 DEF RingSeqs, W, pp

-----------------------------------------------------------------------------
(* Segments are found *)

\* A walk begins at a point of its contour.
LEMMA WalkStarts ==
  ASSUME NEW S, NEW pp \in Seq(S), Rings(pp), NEW c0 \in 1..Len(pp), pp[c0].start = c0, NEW d
  PROVE  WalkStart(pp, c0, d) \in 1..Len(pp)
<1> DEFINE n == Cardinality(OfContour(pp, c0))
           Before(k) == After(pp, c0, n - k)
           Al(k) == Along(pp[Before(k)], d)
           Chosen(k) == ~Al(k + 1) /\ \A j \in 0..k : Al(j)
           at == CHOOSE k \in 0..(n - 1) : Chosen(k)
           plain == ~Along(pp[c0], d) \/ \A i \in OfContour(pp, c0) : Along(pp[i], d)
<1>1. WalkStart(pp, c0, d) = IF plain THEN c0 ELSE Before(at)
  BY Zenon DEF WalkStart
<1>2. n \in Nat /\ n > 0 /\ OfContour(pp, c0) = c0..(c0 + n - 1) /\ c0 \in Nat
  <2>1. n \in Nat /\ c0 <= c0 + n - 1 /\ OfContour(pp, c0) = c0..(c0 + n - 1)
    BY DEF Rings
  <2> HIDE DEF n
  <2> QED BY <2>1
<1>3. \A k : Before(k) = c0 + ((c0 - c0 + (n - k)) % n)
  BY DEF After
<1>4. ASSUME ~plain PROVE \E k \in 0..(n - 1) : Chosen(k)
  <2>1. Along(pp[c0], d) /\ \E i \in OfContour(pp, c0) : ~Along(pp[i], d)
    BY <1>4
  <2>2. PICK i \in OfContour(pp, c0) : ~Along(pp[i], d)
    BY <2>1
  <2> DEFINE t == i - c0
             Q == {k \in 0..n : ~Al(k)}
  <2> HIDE DEF n, Before, plain
  <2>3. i \in c0..(c0 + n - 1)
    BY <1>2, <2>2
  <2>4. t \in 0..(n - 1) /\ n - t \in 0..n
    BY <1>2, <2>3
  <2>5. Before(n - t) = i
    <3>1. c0 - c0 + (n - (n - t)) = t
      BY <1>2, <2>4
    <3>2. t % n = t
      <4> HIDE DEF t
      <4> QED BY <1>2, <2>4
    <3>3. c0 + t = i
      BY <1>2, <2>3
    <3> QED BY <1>3, <3>1, <3>2, <3>3
  <2>6. Before(0) = c0
    <3>1. c0 - c0 + (n - 0) = n
      BY <1>2
    <3>2. n % n = 0
      BY <1>2
    <3> QED BY <1>2, <1>3, <3>1, <3>2
  <2>7. n - t \in Q /\ Q \subseteq Nat /\ 0 \notin Q
    BY <1>2, <2>1, <2>2, <2>4, <2>5, <2>6
  <2>8. PICK m \in Q : \A j \in Q : ~(j < m)
    <3> HIDE DEF Q
    <3> QED BY <2>7, Least
  <2>9. m \in 0..n /\ ~Al(m) /\ m # 0
    BY <2>7, <2>8
  <2> HIDE DEF Al
  <2>10. \A j \in 0..(m - 1) : Al(j)
    BY <1>2, <2>8, <2>9
  <2>11. m - 1 \in 0..(n - 1) /\ (m - 1) + 1 = m
    BY <1>2, <2>9
  <2> QED BY <2>9, <2>10, <2>11
<1>5. ASSUME ~plain PROVE Before(at) \in 1..Len(pp)
  <2>1. at \in 0..(n - 1)
    <3> HIDE DEF Chosen, plain
    <3> QED BY <1>4, <1>5, Zenon
  <2> HIDE DEF at
  <2>2. n - at \in Int
    <3> HIDE DEF n
    <3> QED BY <1>2, <2>1
  <2> HIDE DEF n
  <2> QED BY <2>2, AfterStays
<1> HIDE DEF plain, Before, at
<1> QED BY <1>1, <1>5

\* Of a run only the coordinates across it matter here.
RunRecs(A) ==
  [first : A, last : A, dir : A, low : Int, high : Int, min : A, max : A, bent : A, firm : A]

RunOf(pp, c0, d, k) ==
  LET n == Cardinality(OfContour(pp, c0))
      start == WalkStart(pp, c0, d)
      P(j) == After(pp, start, j)
      End(i) == CHOOSE j \in (i + 1)..n : /\ j = n \/ pp[P(j)].out # pp[P(i)].out
                                          /\ \A m \in (i + 1)..(j - 1) : pp[P(m)].out = pp[P(i)].out
  IN Run(pp, P(k), P(End(k)))

RunValues(pp, d) ==
  UNION {{r.first, r.last, r.dir, r.min, r.max, r.bent, r.firm} :
         r \in {RunOf(pp, z[1], d, z[2]) : z \in (1..Len(pp)) \X Int}}

\* A run from point a to point b of a contour.
LEMMA RunTyped ==
  ASSUME NEW S, NEW pp \in Seq(S), Rings(pp), NEW a \in 1..Len(pp), NEW b, \A i \in 1..Len(pp) : pp[i].u \in Int,
         NEW A, LET r == Run(pp, a, b)
                IN r.first \in A /\ r.last \in A /\ r.dir \in A /\ r.min \in A /\ r.max \in A /\ r.bent \in A /\ r.firm \in A
  PROVE  Run(pp, a, b) \in RunRecs(A)
<1> DEFINE on == Between(pp, a, b)
           U == {([j \in on |-> pp[j].u])[i] : i \in on}
           r == Run(pp, a, b)
<1>1. \E first, last, dir, min, max, bent, firm :
        r = [first |-> first, last |-> last, dir |-> dir, low |-> Min(U), high |-> Max(U), min |-> min, max |-> max,
             bent |-> bent, firm |-> firm]
  BY Zenon DEF Run
<1>2. on \subseteq 1..Len(pp)
  BY DEF Between, OfContour
<1>3. a \in on
  <2>1. a \in OfContour(pp, pp[a].start)
    BY DEF OfContour
  <2>2. a <= a
    OBVIOUS
  <2> QED BY <2>1, <2>2 DEF Between
<1> HIDE DEF on
<1>4. U \subseteq Int /\ U # {}
  <2>1. \A i \in on : ([j \in on |-> pp[j].u])[i] \in Int
    BY <1>2
  <2> QED BY <1>3, <2>1
<1>5. IsFiniteSet(U)
  <2>1. IsFiniteSet(on)
    <3>1. Len(pp) \in Int
      OBVIOUS
    <3>2. IsFiniteSet(1..Len(pp))
      BY <3>1, FS_Interval
    <3> QED BY <1>2, <3>2, FS_Subset
  <2> DEFINE F(i) == ([j \in on |-> pp[j].u])[i]
             f == [i \in on |-> F(i)]
  <2>2. f \in Surjection(on, U)
    BY DEF Surjection
  <2> HIDE DEF f, U
  <2> QED BY <2>1, <2>2, FS_Surjection
<1> HIDE DEF U
<1>6. Min(U) \in Int /\ Max(U) \in Int
  BY <1>4, <1>5, Extremes
<1>7. PICK first, last, dir, min, max, bent, firm :
        r = [first |-> first, last |-> last, dir |-> dir, low |-> Min(U), high |-> Max(U), min |-> min, max |-> max,
             bent |-> bent, firm |-> firm]
  BY <1>1
<1>8. r.first \in A /\ r.last \in A /\ r.dir \in A /\ r.min \in A /\ r.max \in A /\ r.bent \in A /\ r.firm \in A
  OBVIOUS
<1> HIDE DEF r
<1>9. first \in A /\ last \in A /\ dir \in A /\ min \in A /\ max \in A /\ bent \in A /\ firm \in A
  BY <1>7, <1>8
<1>10. r \in RunRecs(A)
  BY <1>6, <1>7, <1>9 DEF RunRecs
<1> QED BY <1>10 DEF r

\* Two runs that are merged are a run.
LEMMA MergedTyped ==
  ASSUME NEW A, NEW a \in RunRecs(A), NEW b \in RunRecs(A)
  PROVE  Merged(a, b) \in RunRecs(A)
<1> DEFINE one == IF a.max - a.min > b.max - b.min THEN a ELSE b
           low == Min({a.low, b.low})
           high == Max({a.high, b.high})
           last == b.last
<1>1. one \in RunRecs(A)
  <2>1. one = a \/ one = b
    BY Zenon
  <2> HIDE DEF one
  <2> QED BY <2>1
<1>2. a.low \in Int /\ b.low \in Int /\ a.high \in Int /\ b.high \in Int /\ last \in A
  BY DEF RunRecs
<1>3. low \in Int /\ high \in Int
  <2>1. {a.low, b.low} \subseteq Int /\ {a.high, b.high} \subseteq Int /\ {a.low, b.low} # {} /\ {a.high, b.high} # {}
    BY <1>2
  <2>2. IsFiniteSet({a.low, b.low}) /\ IsFiniteSet({a.high, b.high})
    <3>1. IsFiniteSet({a.low}) /\ IsFiniteSet({a.high})
      BY FS_Singleton
    <3>2. IsFiniteSet({a.low} \union {b.low}) /\ IsFiniteSet({a.high} \union {b.high})
      BY <3>1, FS_AddElement
    <3>3. {a.low} \union {b.low} = {a.low, b.low} /\ {a.high} \union {b.high} = {a.high, b.high}
      OBVIOUS
    <3> QED BY <3>2, <3>3
  <2> QED BY <2>1, <2>2, Extremes
<1>4. Merged(a, b) = [one EXCEPT !.last = last, !.low = low, !.high = high]
  BY Zenon DEF Merged
<1> HIDE DEF one, low, high, last
<1>5. [one EXCEPT !.last = last, !.low = low, !.high = high] \in RunRecs(A)
  BY <1>1, <1>2, <1>3 DEF RunRecs
<1> QED BY <1>4, <1>5

\* The runs of a contour are runs.
LEMMA RunsTyped ==
  ASSUME NEW W, NEW pp \in RingSeqs(W), NEW c0 \in 1..Len(pp), pp[c0].start = c0, NEW d
  PROVE  RunsOf(pp, c0, d) \in Seq(RunRecs(RunValues(pp, d)))
<1> DEFINE A == RunValues(pp, d)
           n == Cardinality(OfContour(pp, c0))
           walk == WalkStart(pp, c0, d)
           P(k) == After(pp, walk, k)
           Starts(k) == (Along(pp[P(k)], d) \/ n = 1) /\ (k = 0 \/ pp[P(k - 1)].out # pp[P(k)].out)
           Record(acc, k) ==
             IF ~Starts(k) THEN acc
             ELSE LET run == RunOf(pp, c0, d, k)
                  IN IF acc # <<>> /\ acc[Len(acc)].last = run.first
                     THEN [acc EXCEPT ![Len(acc)] = Merged(@, run)] ELSE Append(acc, run)
           start == <<>>
           order == [k \in 1..n |-> k - 1]
           T == Seq(RunRecs(A))
           round == [k \in 1..n |-> [x \in T |-> Record(x, order[k])]]
           Fold(f) == [q \in SUBSET (DOMAIN order) |->
                         IF q = {} THEN start ELSE Record(f[q \ {Max(q)}], order[Max(q)])]
           fold == CHOOSE f : f = Fold(f)
<1>1. RunsOf(pp, c0, d) = fold[DOMAIN order]
  BY Zenon DEF RunsOf, RunOf, FoldLeft, MapThenFoldSet
<1>2. /\ pp \in Seq(PointRecs(W)) /\ Rings(pp)
      /\ n \in Nat /\ DOMAIN order = 1..n /\ \A k \in 1..n : order[k] = k - 1
  <2>1. pp \in Seq(PointRecs(W)) /\ Rings(pp)
    BY DEF RingSeqs
  <2>2. n \in Nat
    BY <2>1 DEF Rings
  <2> HIDE DEF n
  <2> QED BY <2>1, <2>2
<1>3. start \in T
  OBVIOUS
<1>4. ASSUME NEW k \in Int PROVE RunOf(pp, c0, d, k) \in RunRecs(A)
  <2> DEFINE r == RunOf(pp, c0, d, k)
  <2>1. walk \in 1..Len(pp)
    BY <1>2, WalkStarts
  <2>2. P(k) \in 1..Len(pp)
    <3> HIDE DEF walk
    <3> QED BY <1>2, <2>1, AfterStays
  <2>3. \E b : r = Run(pp, P(k), b)
    BY Zenon DEF RunOf
  <2>4. PICK b : r = Run(pp, P(k), b)
    BY <2>3
  <2>5. r \in {RunOf(pp, z[1], d, z[2]) : z \in (1..Len(pp)) \X Int}
    <3>1. <<c0, k>> \in (1..Len(pp)) \X Int /\ <<c0, k>>[1] = c0 /\ <<c0, k>>[2] = k
      OBVIOUS
    <3> QED BY <3>1, Zenon
  <2> HIDE DEF r
  <2>6. r.first \in A /\ r.last \in A /\ r.dir \in A /\ r.min \in A /\ r.max \in A /\ r.bent \in A /\ r.firm \in A
    <3> DEFINE vals == {r.first, r.last, r.dir, r.min, r.max, r.bent, r.firm}
    <3>1. vals \subseteq A
      BY <2>5, Zenon DEF RunValues
    <3>2. r.first \in vals /\ r.last \in vals /\ r.dir \in vals /\ r.min \in vals /\ r.max \in vals /\ r.bent \in vals /\ r.firm \in vals
      BY Zenon
    <3> HIDE DEF vals, A
    <3> QED BY <3>1, <3>2
  <2>7. \A i \in 1..Len(pp) : pp[i].u \in Int
    <3>1. \A i \in 1..Len(pp) : pp[i] \in PointRecs(W)
      BY <1>2
    <3> QED BY <3>1 DEF PointRecs
  <2> HIDE DEF P, A
  <2> DEFINE a == P(k)
  <2>8. a \in 1..Len(pp) /\ r = Run(pp, a, b)
    BY <2>2, <2>4
  <2> HIDE DEF a
  <2>9. Run(pp, a, b) \in RunRecs(A)
    BY <1>2, <2>6, <2>7, <2>8, RunTyped
  <2> QED BY <2>8, <2>9 DEF r
<1> HIDE DEF A
<1>5. ASSUME NEW k \in Int, NEW x \in T PROVE Record(x, k) \in T
  <2> DEFINE run == RunOf(pp, c0, d, k)
             joined == [x EXCEPT ![Len(x)] = Merged(x[Len(x)], run)]
  <2>1. run \in RunRecs(A)
    BY <1>4
  <2>2. Record(x, k) = x \/ (x # <<>> /\ Record(x, k) = joined) \/ Record(x, k) = Append(x, run)
    BY Zenon
  <2> HIDE DEF run, Record
  <2>3. x # <<>> => joined \in T
    <3>1. x # <<>> => Len(x) \in DOMAIN x /\ x[Len(x)] \in RunRecs(A)
      OBVIOUS
    <3>2. x # <<>> => Merged(x[Len(x)], run) \in RunRecs(A)
      BY <2>1, <3>1, MergedTyped
    <3> QED BY <3>1, <3>2, Replaced
  <2>4. Append(x, run) \in T
    BY <2>1
  <2> HIDE DEF T, joined
  <2> QED BY <2>2, <2>3, <2>4
<1> HIDE DEF T, start, Record
<1>6. \A k \in 1..n : \A x \in T : Record(x, order[k]) \in T
  <2>1. \A k \in 1..n : order[k] \in Int
    BY <1>2
  <2> HIDE DEF order
  <2> QED BY <1>5, <2>1
<1>7. AreRounds(round, n, T) /\ \A k \in 1..n : \A x \in T : round[k][x] = Record(x, order[k])
  BY <1>6 DEF AreRounds
<1> HIDE DEF round, order, n
<1>8. fold = Fold(fold)
  <2>1. PICK f \in [SUBSET (1..n) -> T] : IsFold(f, n, start, round)
    BY <1>2, <1>3, <1>7, FoldExists
  <2>2. \A s \in SUBSET (1..n) :
          (IF s = {} THEN start ELSE round[Max(s)][f[s \ {Max(s)}]])
            = (IF s = {} THEN start ELSE Record(f[s \ {Max(s)}], order[Max(s)]))
    BY <1>2, <1>7, <2>1, WithoutGreatest
  <2>3. f = Fold(f)
    BY <1>2, <2>1, <2>2 DEF IsFold
  <2> HIDE DEF Fold
  <2> QED BY <2>3, Zenon
<1> HIDE DEF fold
<1>9. FoldsBy(fold, n, T, start, round)
  <2>1. \A s \in SUBSET (1..n) : fold[s] = IF s = {} THEN start ELSE Record(fold[s \ {Max(s)}], order[Max(s)])
    BY <1>2, <1>8
  <2>2. fold[{}] = start
    BY <2>1
  <2>3. ASSUME NEW s \in SUBSET (1..n), s # {} /\ fold[s \ {Max(s)}] \in T
        PROVE  fold[s] = round[Max(s)][fold[s \ {Max(s)}]]
    <3>1. Max(s) \in 1..n /\ fold[s] = Record(fold[s \ {Max(s)}], order[Max(s)])
      BY <1>2, <2>1, <2>3, WithoutGreatest
    <3> QED BY <1>7, <2>3, <3>1
  <2> QED BY <2>2, <2>3 DEF FoldsBy
<1>10. PICK g : IsLoop(g, n, T, start, round) /\ fold[1..n] = g[n]
  BY <1>2, <1>3, <1>7, <1>9, FoldRounds
<1>11. fold[1..n] \in T
  BY <1>2, <1>10 DEF IsLoop
<1> QED BY <1>1, <1>2, <1>11 DEF T, A

\* u and v are set for a dimension: the contours stay.
LEMMA TurnedRings ==
  ASSUME NEW W, NEW pp \in RingSeqs(W), NEW d \in Dims
  PROVE  /\ Turned(pp, d) \in RingSeqs(W) /\ Len(Turned(pp, d)) = Len(pp)
         /\ \A i \in 1..Len(pp) : Turned(pp, d)[i].start = pp[i].start
<1> DEFINE n == Len(pp)
           Turn1(i) == [pp[i] EXCEPT !.u = pp[i].f[d], !.v = pp[i].f[3 - d]]
           f == [i \in DOMAIN pp |-> Turn1(i)]
           new == Turned(pp, d)
<1>1. pp \in Seq(PointRecs(W)) /\ Rings(pp) /\ DOMAIN pp = 1..n /\ n \in Nat
  BY DEF RingSeqs
<1>2. pp \in Points(W, pp)
  BY <1>1 DEF Points
<1>3. ASSUME NEW i \in 1..n
      PROVE  Turn1(i) \in PointRecs(W) /\ Turn1(i).start = pp[i].start /\ Turn1(i).prev = pp[i].prev
  <2> DEFINE r == pp[i]
             a == r.f[d]
             b == r.f[3 - d]
             x == [r EXCEPT !.u = a]
             y == [x EXCEPT !.v = b]
  <2>1. r \in PointRecs(W)
    BY <1>1
  <2>2. a \in Int /\ b \in Int
    <3>1. r.f \in Int \X Int
      BY <2>1 DEF PointRecs
    <3>2. d \in {1, 2} /\ 3 - d \in {1, 2}
      BY DEF Dims, Horz, Vert
    <3>3. \A z \in Int \X Int : \A k \in {1, 2} : z[k] \in Int
      OBVIOUS
    <3> HIDE DEF r
    <3> QED BY <3>1, <3>2, <3>3
  <2>3. Turn1(i) = y
    BY Zenon
  <2> HIDE DEF r, a, b, Turn1
  <2>4. x \in PointRecs(W) /\ x.start = r.start /\ x.prev = r.prev
    BY <2>1, <2>2, UField
  <2> HIDE DEF x
  <2>5. y \in PointRecs(W) /\ y.start = r.start /\ y.prev = r.prev
    BY <2>2, <2>4, VField
  <2> HIDE DEF y
  <2> QED BY <2>3, <2>5 DEF r
<1> HIDE DEF Turn1
<1>4. DOMAIN f = 1..Len(pp) /\ f = [i \in 1..Len(pp) |-> f[i]]
  BY <1>1
<1>5. \A i \in 1..Len(pp) : f[i] \in PointRecs(W) /\ f[i].start = pp[i].start /\ f[i].prev = pp[i].prev
  BY <1>1, <1>3
<1>6. new = Written(f)
  BY Zenon DEF Turned, Turn1
<1> HIDE DEF f, new
<1>7. Written(f) \in Points(W, pp)
  BY <1>2, <1>4, <1>5, AllPoints
<1>8. Rings(new) /\ new \in Seq(PointRecs(W)) /\ Len(new) = n /\ \A i \in 1..n : new[i].start = pp[i].start
  <2>1. new \in Points(W, pp)
    BY <1>6, <1>7
  <2> QED BY <1>1, <2>1, RingsStay DEF Points
<1> QED BY <1>8 DEF RingSeqs, new

\* The segment of a run.
SegmentOf(turned, run) ==
  [first |-> run.first, last |-> run.last, dir |-> run.dir,
   pos |-> (run.low + run.high) \div 2, delta |-> (run.high - run.low) \div 2,
   min |-> run.min, max |-> run.max, height |-> run.max - run.min + Extra(turned, run),
   round |-> run.bent /\ run.firm < UnitsPerEm \div 14,
   edge |-> Nil, link |-> Nil, serif |-> Nil]

SegmentValues(turned, A) ==
  UNION {{s.first, s.last, s.dir, s.delta, s.min, s.max, s.height, s.round} :
         s \in {SegmentOf(turned, run) : run \in RunRecs(A)}}

Unplaced(V) == {seg \in SegmentRecs(V) : seg.edge = Nil /\ seg.link = Nil /\ seg.serif = Nil}

\* The segment of a run is in no edge and has no partner.
LEMMA SegmentTyped ==
  ASSUME NEW turned, NEW A, NEW run \in RunRecs(A)
  PROVE  SegmentOf(turned, run) \in Unplaced(SegmentValues(turned, A))
<1> DEFINE s == SegmentOf(turned, run)
           V == SegmentValues(turned, A)
           vals == {s.first, s.last, s.dir, s.delta, s.min, s.max, s.height, s.round}
<1>1. vals \subseteq V
  BY Zenon DEF SegmentValues
<1>2. /\ s.first \in vals /\ s.last \in vals /\ s.dir \in vals /\ s.delta \in vals /\ s.min \in vals /\ s.max \in vals
      /\ s.height \in vals /\ s.round \in vals
  BY Zenon
<1>3. \E first, last, dir, delta, min, max, height, round :
        s = [first |-> first, last |-> last, dir |-> dir, pos |-> (run.low + run.high) \div 2, delta |-> delta,
             min |-> min, max |-> max, height |-> height, round |-> round, edge |-> Nil, link |-> Nil, serif |-> Nil]
  BY Zenon DEF SegmentOf
<1> HIDE DEF s, vals, V
<1>4. PICK first, last, dir, delta, min, max, height, round :
        s = [first |-> first, last |-> last, dir |-> dir, pos |-> (run.low + run.high) \div 2, delta |-> delta,
             min |-> min, max |-> max, height |-> height, round |-> round, edge |-> Nil, link |-> Nil, serif |-> Nil]
  BY <1>3
<1>5. first \in V /\ last \in V /\ dir \in V /\ delta \in V /\ min \in V /\ max \in V /\ height \in V /\ round \in V
  BY <1>1, <1>2, <1>4
<1>6. (run.low + run.high) \div 2 \in Int /\ Nil \in Nat
  <2>1. run.low \in Int /\ run.high \in Int
    BY DEF RunRecs
  <2> QED BY <2>1 DEF Nil
<1>7. s \in SegmentRecs(V) /\ s.edge = Nil /\ s.link = Nil /\ s.serif = Nil
  BY <1>4, <1>5, <1>6 DEF SegmentRecs
<1> QED BY <1>7 DEF Unplaced, s, V

\* compute_segments finds segments that are in no edge and have no partner.
LEMMA SegmentsFound ==
  ASSUME NEW W, NEW pp \in RingSeqs(W), NEW d \in Dims
  PROVE  \E V : compute_segments(pp, d) \in Seq(SegmentRecs(V)) /\ Fresh(compute_segments(pp, d))
<1> DEFINE n == Len(pp)
           turned == Turned(pp, d)
           A == RunValues(turned, d)
           V == SegmentValues(turned, A)
           Of(runs) == [k \in DOMAIN runs |-> SegmentOf(turned, runs[k])]
           Add(acc, i) == IF Begins(pp, i) THEN acc \o Of(RunsOf(turned, i, d)) ELSE acc
           start == <<>>
           order == [i \in DOMAIN pp |-> i]
           T == Seq(Unplaced(V))
           round == [k \in 1..n |-> [x \in T |-> Add(x, order[k])]]
           Fold(f) == [q \in SUBSET (DOMAIN order) |->
                         IF q = {} THEN start ELSE Add(f[q \ {Max(q)}], order[Max(q)])]
           fold == CHOOSE f : f = Fold(f)
<1>1. compute_segments(pp, d) = fold[DOMAIN order]
  BY Zenon DEF compute_segments, SegmentOf, FoldLeft, MapThenFoldSet
<1>2. n \in Nat /\ DOMAIN order = 1..n /\ \A k \in 1..n : order[k] = k
  BY DEF RingSeqs
<1>3. start \in T
  OBVIOUS
<1>4. turned \in RingSeqs(W) /\ Len(turned) = n /\ \A i \in 1..n : turned[i].start = pp[i].start
  BY TurnedRings
<1> HIDE DEF turned
<1>5. ASSUME NEW k \in 1..n, NEW x \in T PROVE Add(x, k) \in T
  <2>1. CASE Begins(pp, k)
    <3> DEFINE runs == RunsOf(turned, k, d)
    <3>1. turned[k].start = k /\ k \in 1..Len(turned)
      BY <1>4, <2>1 DEF Begins
    <3>2. runs \in Seq(RunRecs(A))
      BY <1>4, <3>1, RunsTyped
    <3> HIDE DEF runs, A
    <3>3. \A j \in DOMAIN runs : SegmentOf(turned, runs[j]) \in Unplaced(V)
      <4>1. \A j \in DOMAIN runs : runs[j] \in RunRecs(A)
        BY <3>2
      <4> QED BY <4>1, SegmentTyped
    <3> HIDE DEF V
    <3>4. Of(runs) \in T
      <4>1. DOMAIN runs = 1..Len(runs) /\ Len(runs) \in Nat
        BY <3>2
      <4>2. Of(runs) \in [1..Len(runs) -> Unplaced(V)]
        BY <3>3, <4>1
      <4> QED BY <4>1, <4>2, WrittenOut
    <3>5. Add(x, k) = x \o Of(runs)
      BY <2>1, Zenon DEF runs
    <3> HIDE DEF Of, Add
    <3> QED BY <3>4, <3>5
  <2>2. CASE ~Begins(pp, k)
    BY <2>2
  <2> QED BY <2>1, <2>2
<1> HIDE DEF T, start, Add
<1>6. \A k \in 1..n : \A x \in T : Add(x, order[k]) \in T
  BY <1>2, <1>5
<1>7. AreRounds(round, n, T) /\ \A k \in 1..n : \A x \in T : round[k][x] = Add(x, order[k])
  BY <1>6 DEF AreRounds
<1> HIDE DEF round, order, n
<1>8. fold = Fold(fold)
  <2>1. PICK f \in [SUBSET (1..n) -> T] : IsFold(f, n, start, round)
    BY <1>2, <1>3, <1>7, FoldExists
  <2>2. \A s \in SUBSET (1..n) :
          (IF s = {} THEN start ELSE round[Max(s)][f[s \ {Max(s)}]])
            = (IF s = {} THEN start ELSE Add(f[s \ {Max(s)}], order[Max(s)]))
    BY <1>2, <1>7, <2>1, WithoutGreatest
  <2>3. f = Fold(f)
    BY <1>2, <2>1, <2>2 DEF IsFold
  <2> HIDE DEF Fold
  <2> QED BY <2>3, Zenon
<1> HIDE DEF fold
<1>9. FoldsBy(fold, n, T, start, round)
  <2>1. \A s \in SUBSET (1..n) : fold[s] = IF s = {} THEN start ELSE Add(fold[s \ {Max(s)}], order[Max(s)])
    BY <1>2, <1>8
  <2>2. fold[{}] = start
    BY <2>1
  <2>3. ASSUME NEW s \in SUBSET (1..n), s # {} /\ fold[s \ {Max(s)}] \in T
        PROVE  fold[s] = round[Max(s)][fold[s \ {Max(s)}]]
    <3>1. Max(s) \in 1..n /\ fold[s] = Add(fold[s \ {Max(s)}], order[Max(s)])
      BY <1>2, <2>1, <2>3, WithoutGreatest
    <3> QED BY <1>7, <2>3, <3>1
  <2> QED BY <2>2, <2>3 DEF FoldsBy
<1>10. PICK g : IsLoop(g, n, T, start, round) /\ fold[1..n] = g[n]
  BY <1>2, <1>3, <1>7, <1>9, FoldRounds
<1>11. fold[1..n] \in T
  BY <1>2, <1>10 DEF IsLoop
<1> DEFINE segs == compute_segments(pp, d)
<1>12. segs \in Seq(Unplaced(V))
  BY <1>1, <1>2, <1>11 DEF T
<1> HIDE DEF segs, V
<1>13. segs \in Seq(SegmentRecs(V)) /\ Fresh(segs)
  <2>1. Len(segs) \in Nat /\ \A i \in 1..Len(segs) : segs[i] \in Unplaced(V)
    BY <1>12
  <2>2. \A i \in 1..Len(segs) : /\ segs[i] \in SegmentRecs(V)
                                /\ segs[i].edge = Nil /\ segs[i].link = Nil /\ segs[i].serif = Nil
    BY <2>1 DEF Unplaced
  <2>3. segs \in Seq(SegmentRecs(V))
    BY <1>12, <2>2
  <2>4. Nil \in 0..Len(segs)
    BY <2>1 DEF Nil
  <2> QED BY <2>2, <2>3, <2>4 DEF Fresh
<1> QED BY <1>13 DEF segs

-----------------------------------------------------------------------------
(* Edges that are moved *)

SomeEdge(e) == \E V : e \in EdgeRecs(V)
SomeEdges(es) == \E V : es \in Seq(EdgeRecs(V))

\* Where an edge is placed is free; what it lists and leads to stays.
EdgeMoved(new, old) ==
  /\ new.fpos = old.fpos /\ new.segs = old.segs /\ new.link = old.link /\ new.serif = old.serif
  /\ old.done => new.done
  /\ new.blue = old.blue \/ new.blue = {}

Moved(new, old) ==
  /\ SomeEdges(new) /\ Len(new) = Len(old)
  /\ \A k \in 1..Len(old) : EdgeMoved(new[k], old[k])

\* Edges whose free fields have more values.
LEMMA EdgesGrow ==
  ASSUME NEW V, NEW U
  PROVE  EdgeRecs(V) \subseteq EdgeRecs(V \union U)
BY DEF EdgeRecs

\* Edges that are moved twice are moved.
LEMMA MovedTwice ==
  ASSUME NEW a, NEW b, NEW c, Moved(b, a), Moved(c, b)
  PROVE  Moved(c, a)
<1>1. /\ SomeEdges(c) /\ Len(c) = Len(a) /\ Len(b) = Len(a)
      /\ \A k \in 1..Len(a) : EdgeMoved(b[k], a[k]) /\ EdgeMoved(c[k], b[k])
  BY DEF Moved
<1>2. \A k \in 1..Len(a) : EdgeMoved(c[k], a[k])
  BY <1>1 DEF EdgeMoved
<1> QED BY <1>1, <1>2 DEF Moved

\* Or not at all.
LEMMA NotMoved ==
  ASSUME NEW es, SomeEdges(es)
  PROVE  Moved(es, es)
BY DEF Moved, EdgeMoved

\* The edges of a sequence of edges.
LEMMA EdgesTyped ==
  ASSUME NEW es, SomeEdges(es)
  PROVE  Len(es) \in Nat /\ DOMAIN es = 1..Len(es) /\ \A i \in 1..Len(es) : SomeEdge(es[i])
<1>1. PICK V : es \in Seq(EdgeRecs(V))
  BY DEF SomeEdges
<1>2. Len(es) \in Nat /\ DOMAIN es = 1..Len(es) /\ \A i \in 1..Len(es) : es[i] \in EdgeRecs(V)
  BY <1>1
<1> QED BY <1>2 DEF SomeEdge

\* One edge moves, if it is one.
LEMMA OneEdge ==
  ASSUME NEW es, SomeEdges(es), NEW i, NEW r,
         i \in 1..Len(es) => SomeEdge(r) /\ EdgeMoved(r, es[i])
  PROVE  LET new == [es EXCEPT ![i] = r]
         IN /\ Moved(new, es)
            /\ i \in 1..Len(es) => new[i] = r
            /\ \A k \in 1..Len(es) : k # i => new[k] = es[k]
<1> DEFINE new == [es EXCEPT ![i] = r]
<1>1. CASE i \in 1..Len(es)
  <2>1. PICK V : es \in Seq(EdgeRecs(V))
    BY DEF SomeEdges
  <2>2. PICK U : r \in EdgeRecs(U)
    BY <1>1 DEF SomeEdge
  <2> DEFINE B == V \union U
  <2>3. EdgeRecs(V) \subseteq EdgeRecs(B) /\ EdgeRecs(U) \subseteq EdgeRecs(B)
    <3>1. EdgeRecs(V) \subseteq EdgeRecs(V \union U)
      BY EdgesGrow
    <3>2. EdgeRecs(U) \subseteq EdgeRecs(U \union V)
      BY EdgesGrow
    <3>3. U \union V = V \union U
      OBVIOUS
    <3> QED BY <3>1, <3>2, <3>3
  <2> HIDE DEF B
  <2>4. es \in Seq(EdgeRecs(B)) /\ r \in EdgeRecs(B)
    BY <2>1, <2>2, <2>3
  <2>5. /\ new \in Seq(EdgeRecs(B)) /\ Len(new) = Len(es) /\ new[i] = r
        /\ \A k \in 1..Len(es) : k # i => new[k] = es[k]
    BY <1>1, <2>4, Replaced
  <2> HIDE DEF new
  <2>6. SomeEdges(new)
    BY <2>5 DEF SomeEdges
  <2>7. \A k \in 1..Len(es) : EdgeMoved(new[k], es[k])
    <3>1. \A k \in 1..Len(es) : k # i => EdgeMoved(new[k], es[k])
      BY <2>5 DEF EdgeMoved
    <3> QED BY <1>1, <2>5, <3>1
  <2> QED BY <1>1, <2>5, <2>6, <2>7 DEF Moved, new
<1>2. CASE i \notin 1..Len(es)
  <2>1. PICK V : es \in Seq(EdgeRecs(V))
    BY DEF SomeEdges
  <2>2. es \in [1..Len(es) -> EdgeRecs(V)]
    BY <2>1
  <2>3. new = es
    BY <1>2, <2>2
  <2> HIDE DEF new
  <2> QED BY <1>2, <2>3, NotMoved DEF new
<1> QED BY <1>1, <1>2

\* The position of an edge changes.
LEMMA PosField ==
  ASSUME NEW e, SomeEdge(e), NEW x
  PROVE  LET new == [e EXCEPT !.pos = x]
         IN SomeEdge(new) /\ EdgeMoved(new, e) /\ new.done = e.done /\ new.blue = e.blue
<1> DEFINE new == [e EXCEPT !.pos = x]
<1>1. PICK V : e \in EdgeRecs(V)
  BY DEF SomeEdge
<1> DEFINE B == V \union {x}
<1>2. e \in EdgeRecs(B) /\ x \in B
  BY <1>1, EdgesGrow
<1> HIDE DEF B
<1>3. /\ new \in EdgeRecs(B) /\ new.fpos = e.fpos /\ new.segs = e.segs /\ new.link = e.link /\ new.serif = e.serif
      /\ new.done = e.done /\ new.blue = e.blue
  BY <1>2 DEF EdgeRecs
<1> HIDE DEF new
<1> QED BY <1>3 DEF SomeEdge, EdgeMoved, new

\* Whether the zone of an edge is neutral changes.
LEMMA NeutralField ==
  ASSUME NEW e, SomeEdge(e), NEW x
  PROVE  LET new == [e EXCEPT !.neutral = x]
         IN SomeEdge(new) /\ EdgeMoved(new, e) /\ new.done = e.done /\ new.blue = e.blue
<1> DEFINE new == [e EXCEPT !.neutral = x]
<1>1. PICK V : e \in EdgeRecs(V)
  BY DEF SomeEdge
<1> DEFINE B == V \union {x}
<1>2. e \in EdgeRecs(B) /\ x \in B
  BY <1>1, EdgesGrow
<1> HIDE DEF B
<1>3. /\ new \in EdgeRecs(B) /\ new.fpos = e.fpos /\ new.segs = e.segs /\ new.link = e.link /\ new.serif = e.serif
      /\ new.done = e.done /\ new.blue = e.blue
  BY <1>2 DEF EdgeRecs
<1> HIDE DEF new
<1> QED BY <1>3 DEF SomeEdge, EdgeMoved, new

\* An edge loses its zone.
LEMMA BlueField ==
  ASSUME NEW e, SomeEdge(e)
  PROVE  LET new == [e EXCEPT !.blue = {}]
         IN SomeEdge(new) /\ EdgeMoved(new, e) /\ new.done = e.done /\ new.blue = {}
<1> DEFINE x == {}
           new == [e EXCEPT !.blue = x]
<1>1. PICK V : e \in EdgeRecs(V)
  BY DEF SomeEdge
<1> DEFINE B == V \union {x}
<1>2. e \in EdgeRecs(B) /\ x \in B
  BY <1>1, EdgesGrow
<1> HIDE DEF B, x
<1>3. /\ new \in EdgeRecs(B) /\ new.fpos = e.fpos /\ new.segs = e.segs /\ new.link = e.link /\ new.serif = e.serif
      /\ new.done = e.done /\ new.blue = x
  BY <1>2 DEF EdgeRecs
<1> HIDE DEF new
<1>4. SomeEdge(new) /\ EdgeMoved(new, e) /\ new.done = e.done /\ new.blue = x
  BY <1>3 DEF SomeEdge, EdgeMoved, x
<1> QED BY <1>4 DEF new, x

\* An edge is placed.
LEMMA DoneField ==
  ASSUME NEW e, SomeEdge(e), NEW b \in BOOLEAN, e.done => b
  PROVE  LET new == [e EXCEPT !.done = b]
         IN SomeEdge(new) /\ EdgeMoved(new, e) /\ new.done = b /\ new.blue = e.blue
<1> DEFINE new == [e EXCEPT !.done = b]
<1>1. PICK V : e \in EdgeRecs(V)
  BY DEF SomeEdge
<1>2. /\ new \in EdgeRecs(V) /\ new.fpos = e.fpos /\ new.segs = e.segs /\ new.link = e.link /\ new.serif = e.serif
      /\ new.done = b /\ new.blue = e.blue
  BY <1>1 DEF EdgeRecs
<1> HIDE DEF new
<1> QED BY <1>2 DEF SomeEdge, EdgeMoved, new

\* The same for an edge of a sequence.
PosAt(es, i, x) == [es EXCEPT ![i].pos = x]
NeutralAt(es, i, x) == [es EXCEPT ![i].neutral = x]
ZonesLost(es, i) == [es EXCEPT ![i].blue = {}]
DoneAt(es, i) == [es EXCEPT ![i].done = TRUE]

\* One edge gets another position.
LEMMA PosMoved ==
  ASSUME NEW es, SomeEdges(es), NEW i, NEW x
  PROVE  LET new == PosAt(es, i, x)
         IN /\ Moved(new, es)
            /\ \A k \in 1..Len(es) : new[k].done = es[k].done /\ new[k].blue = es[k].blue
<1> DEFINE r == [es[i] EXCEPT !.pos = x]
           new == [es EXCEPT ![i] = r]
<1>1. i \in 1..Len(es) => SomeEdge(r) /\ EdgeMoved(r, es[i]) /\ r.done = es[i].done /\ r.blue = es[i].blue
  BY EdgesTyped, PosField
<1> HIDE DEF r
<1>2. /\ Moved(new, es) /\ (i \in 1..Len(es) => new[i] = r)
      /\ \A k \in 1..Len(es) : k # i => new[k] = es[k]
  BY <1>1, OneEdge, SMTT(60)
<1>3. new = PosAt(es, i, x)
  BY Zenon DEF r, PosAt
<1> HIDE DEF new
<1> QED BY <1>1, <1>2, <1>3

\* The zone of one edge is neutral or not.
LEMMA NeutralMoved ==
  ASSUME NEW es, SomeEdges(es), NEW i, NEW x
  PROVE  LET new == NeutralAt(es, i, x)
         IN /\ Moved(new, es)
            /\ \A k \in 1..Len(es) : new[k].done = es[k].done /\ new[k].blue = es[k].blue
<1> DEFINE r == [es[i] EXCEPT !.neutral = x]
           new == [es EXCEPT ![i] = r]
<1>1. i \in 1..Len(es) => SomeEdge(r) /\ EdgeMoved(r, es[i]) /\ r.done = es[i].done /\ r.blue = es[i].blue
  BY EdgesTyped, NeutralField
<1> HIDE DEF r
<1>2. /\ Moved(new, es) /\ (i \in 1..Len(es) => new[i] = r)
      /\ \A k \in 1..Len(es) : k # i => new[k] = es[k]
  BY <1>1, OneEdge, SMTT(60)
<1>3. new = NeutralAt(es, i, x)
  BY Zenon DEF r, NeutralAt
<1> HIDE DEF new
<1> QED BY <1>1, <1>2, <1>3

\* One edge loses its zone.
LEMMA BlueMoved ==
  ASSUME NEW es, SomeEdges(es), NEW i
  PROVE  LET new == ZonesLost(es, i)
         IN Moved(new, es) /\ \A k \in 1..Len(es) : new[k].done = es[k].done
<1> DEFINE r == [es[i] EXCEPT !.blue = {}]
           new == [es EXCEPT ![i] = r]
<1>1. i \in 1..Len(es) => SomeEdge(r) /\ EdgeMoved(r, es[i]) /\ r.done = es[i].done
  BY EdgesTyped, BlueField
<1> HIDE DEF r
<1>2. /\ Moved(new, es) /\ (i \in 1..Len(es) => new[i] = r)
      /\ \A k \in 1..Len(es) : k # i => new[k] = es[k]
  BY <1>1, OneEdge
<1>3. new = ZonesLost(es, i)
  BY Zenon DEF r, ZonesLost
<1> HIDE DEF new
<1> QED BY <1>1, <1>2, <1>3

\* One edge is placed.
LEMMA DoneMoved ==
  ASSUME NEW es, SomeEdges(es), NEW i
  PROVE  LET new == DoneAt(es, i)
         IN /\ Moved(new, es)
            /\ i \in 1..Len(es) => new[i].done
            /\ \A k \in 1..Len(es) : new[k].blue = es[k].blue
<1> DEFINE yes == TRUE
           r == [es[i] EXCEPT !.done = yes]
           new == [es EXCEPT ![i] = r]
<1>1. yes \in BOOLEAN /\ yes
  BY Zenon
<1> HIDE DEF yes
<1>2. i \in 1..Len(es) => SomeEdge(r) /\ EdgeMoved(r, es[i]) /\ r.done = yes /\ r.blue = es[i].blue
  BY <1>1, EdgesTyped, DoneField
<1> HIDE DEF r
<1>3. /\ Moved(new, es) /\ (i \in 1..Len(es) => new[i] = r)
      /\ \A k \in 1..Len(es) : k # i => new[k] = es[k]
  <2>1. i \in 1..Len(es) => SomeEdge(r) /\ EdgeMoved(r, es[i])
    BY <1>2
  <2> QED BY <2>1, OneEdge
<1>4. new = DoneAt(es, i)
  BY Zenon DEF r, DoneAt, yes
<1> HIDE DEF new
<1>5. i \in 1..Len(es) => new[i].done
  BY <1>1, <1>2, <1>3
<1> QED BY <1>2, <1>3, <1>4, <1>5

-----------------------------------------------------------------------------
(* One dimension *)

\* The record of a dimension; its values are free.
AxisRec(h) == \E V : h \in [segs : V, edges : V, anchor : V, rest : V]

Kept(new, h) == AxisRec(new) /\ new.segs = h.segs /\ Moved(new.edges, h.edges)

\* The edges of a dimension are replaced.
LEMMA EdgesPut ==
  ASSUME NEW h, AxisRec(h), NEW x
  PROVE  LET new == [h EXCEPT !.edges = x]
         IN AxisRec(new) /\ new.edges = x /\ new.segs = h.segs
<1> DEFINE new == [h EXCEPT !.edges = x]
<1>1. PICK V : h \in [segs : V, edges : V, anchor : V, rest : V]
  BY DEF AxisRec
<1> DEFINE B == V \union {x}
<1>2. h \in [segs : B, edges : B, anchor : B, rest : B] /\ x \in B
  BY <1>1
<1> HIDE DEF B
<1>3. new \in [segs : B, edges : B, anchor : B, rest : B] /\ new.edges = x /\ new.segs = h.segs
  BY <1>2
<1> HIDE DEF new
<1> QED BY <1>3 DEF AxisRec, new

\* The anchor of a dimension is replaced.
LEMMA AnchorPut ==
  ASSUME NEW h, AxisRec(h), NEW x
  PROVE  LET new == [h EXCEPT !.anchor = x]
         IN AxisRec(new) /\ new.edges = h.edges /\ new.segs = h.segs
<1> DEFINE new == [h EXCEPT !.anchor = x]
<1>1. PICK V : h \in [segs : V, edges : V, anchor : V, rest : V]
  BY DEF AxisRec
<1> DEFINE B == V \union {x}
<1>2. h \in [segs : B, edges : B, anchor : B, rest : B] /\ x \in B
  BY <1>1
<1> HIDE DEF B
<1>3. new \in [segs : B, edges : B, anchor : B, rest : B] /\ new.edges = h.edges /\ new.segs = h.segs
  BY <1>2
<1> HIDE DEF new
<1> QED BY <1>3 DEF AxisRec, new

\* A dimension that is left alone.
LEMMA NotKept ==
  ASSUME NEW h, AxisRec(h), SomeEdges(h.edges)
  PROVE  Kept(h, h)
BY NotMoved DEF Kept

\* An edge waits for no edge in a blue zone.
Clear(es, i) == es[i].done \/ es[i].link = Nil \/ es[es[i].link].blue = {}

\* An edge that waits for no zone does not wait for one after others moved.
LEMMA ClearStays ==
  ASSUME NEW new, NEW old, Moved(new, old), NEW i \in 1..Len(old), old[i].link \in 0..Len(old), Clear(old, i)
  PROVE  Clear(new, i)
<1>1. \A k \in 1..Len(old) : EdgeMoved(new[k], old[k])
  BY DEF Moved
<1>2. (old[i].done => new[i].done) /\ new[i].link = old[i].link
  BY <1>1 DEF EdgeMoved
<1>3. SUFFICES ASSUME old[i].link # Nil, old[old[i].link].blue = {}
               PROVE  new[old[i].link].blue = {}
  BY <1>2 DEF Clear
<1> DEFINE j == old[i].link
<1>4. j \in 0..Len(old) /\ j # Nil /\ old[j].blue = {}
  BY <1>3
<1> HIDE DEF j
<1>5. j \in 1..Len(old)
  BY <1>4 DEF Nil
<1>6. new[j].blue = {}
  BY <1>1, <1>4, <1>5 DEF EdgeMoved
<1> QED BY <1>6 DEF j

\* Of two linked zones one is dropped.
LEMMA DedupedMoved ==
  ASSUME NEW es, SomeEdges(es), NEW i
  PROVE  Moved(Deduped(es, i), es) /\ \A k \in 1..Len(es) : Deduped(es, i)[k].done = es[k].done
<1> DEFINE j == es[i].link
           weaker == IF es[j].neutral THEN j ELSE i
           no == FALSE
           a == ZonesLost(es, weaker)
           b == NeutralAt(a, weaker, no)
<1>1. Deduped(es, i) = es \/ Deduped(es, i) = b
  BY Zenon DEF Deduped, ZonesLost, NeutralAt
<1> HIDE DEF weaker
<1>2. Moved(a, es) /\ \A k \in 1..Len(es) : a[k].done = es[k].done
  BY BlueMoved
<1> HIDE DEF a
<1>3. SomeEdges(a) /\ Len(a) = Len(es)
  BY <1>2 DEF Moved
<1> HIDE DEF no
<1>5. Moved(b, a) /\ \A k \in 1..Len(a) : b[k].done = a[k].done
  BY <1>3, NeutralMoved
<1> HIDE DEF b
<1>6. Moved(b, es) /\ \A k \in 1..Len(es) : b[k].done = es[k].done
  BY <1>2, <1>3, <1>5, MovedTwice
<1>7. Moved(es, es)
  BY NotMoved
<1> QED BY <1>1, <1>6, <1>7

\* One edge is placed at x.
PutAt(es, i, x) == [es EXCEPT ![i].pos = x, ![i].done = TRUE]

\* An edge is put somewhere: it is placed, and no zone changes.
LEMMA PutMoved ==
  ASSUME NEW es, SomeEdges(es), NEW i, NEW x
  PROVE  LET new == PutAt(es, i, x)
         IN /\ Moved(new, es)
            /\ i \in 1..Len(es) => new[i].done
            /\ \A k \in 1..Len(es) : new[k].blue = es[k].blue
<1> DEFINE a == PosAt(es, i, x)
           b == DoneAt(a, i)
<1>1. PutAt(es, i, x) = b
  BY Zenon DEF PutAt, PosAt, DoneAt
<1>2. Moved(a, es) /\ \A k \in 1..Len(es) : a[k].blue = es[k].blue
  BY PosMoved
<1> HIDE DEF a
<1>3. SomeEdges(a) /\ Len(a) = Len(es)
  BY <1>2 DEF Moved
<1>4. Moved(b, a) /\ (i \in 1..Len(a) => b[i].done) /\ \A k \in 1..Len(a) : b[k].blue = a[k].blue
  BY <1>3, DoneMoved
<1> HIDE DEF b
<1>5. Moved(b, es)
  BY <1>2, <1>4, MovedTwice
<1> QED BY <1>1, <1>2, <1>3, <1>4, <1>5

\* Phase 1 leaves its edge placed, or linked to none in a zone.
LEMMA BlueEdgeKept ==
  ASSUME NEW how, NEW d, NEW h, AxisRec(h), SomeEdges(h.edges), NEW i \in 1..Len(h.edges),
         h.edges[i].link \in 0..Len(h.edges)
  PROVE  LET new == BlueEdge(how, d, h, i)
         IN Kept(new, h) /\ Clear(new.edges, i)
<1> DEFINE edges == Deduped(h.edges, i)
           j == edges[i].link
           mine == edges[i].blue # {}
           e1 == IF mine THEN i ELSE j
           e2 == IF mine THEN j ELSE i
           x == CHOOSE b \in edges[e1].blue : TRUE
           zoned == PutAt(edges, e1, x)
           y == align_linked_edge(how, d, zoned[e1], zoned[e2])
           both == PutAt(zoned, e2, y)
           last == IF e2 = Nil \/ edges[e2].blue # {} THEN zoned ELSE both
           anchor == IF h.anchor = Nil THEN i ELSE h.anchor
           out == ~mine /\ (j = Nil \/ edges[j].blue = {})
           a == [h EXCEPT !.anchor = anchor]
           whole == [a EXCEPT !.edges = last]
           dedup == [h EXCEPT !.edges = edges]
           new == BlueEdge(how, d, h, i)
<1> SUFFICES Kept(new, h) /\ Clear(new.edges, i)
  OBVIOUS
<1>1. new = IF h.edges[i].done THEN h ELSE IF out THEN dedup ELSE whole
  BY Zenon DEF BlueEdge, PutAt
<1>2. /\ Moved(edges, h.edges) /\ SomeEdges(edges) /\ Len(edges) = Len(h.edges)
      /\ Len(h.edges) \in Nat /\ i \in 1..Len(edges)
  BY DedupedMoved, EdgesTyped DEF Moved
<1> HIDE DEF edges
<1>3. j \in 0..Len(edges) /\ i # Nil
  <2>1. edges[i].link = h.edges[i].link
    BY <1>2 DEF Moved, EdgeMoved
  <2> QED BY <1>2, <2>1 DEF Nil
<1> HIDE DEF j, x
<1>4. /\ Moved(zoned, edges) /\ SomeEdges(zoned) /\ Len(zoned) = Len(edges)
      /\ e1 \in 1..Len(edges) => zoned[e1].done
      /\ \A k \in 1..Len(edges) : zoned[k].blue = edges[k].blue
  <2> HIDE DEF e1
  <2> QED BY <1>2, PutMoved DEF Moved
<1> HIDE DEF zoned, y
<1>5. /\ Moved(both, zoned) /\ SomeEdges(both) /\ Len(both) = Len(edges)
      /\ e2 \in 1..Len(edges) => both[e2].done
  <2> HIDE DEF e2
  <2> QED BY <1>4, PutMoved DEF Moved
<1> HIDE DEF both
<1>6. Moved(zoned, h.edges) /\ Moved(both, h.edges)
  BY <1>2, <1>4, <1>5, MovedTwice
<1>7. CASE h.edges[i].done
  <2>1. new = h
    BY <1>1, <1>7
  <2> HIDE DEF new
  <2> QED BY <1>7, <2>1, NotKept DEF Clear
<1>8. CASE ~h.edges[i].done /\ out
  <2>1. new = dedup
    BY <1>1, <1>8
  <2>2. AxisRec(dedup) /\ dedup.edges = edges /\ dedup.segs = h.segs
    BY EdgesPut
  <2>3. Clear(edges, i)
    BY <1>8 DEF Clear, j
  <2> HIDE DEF new, dedup
  <2> QED BY <1>2, <2>1, <2>2, <2>3 DEF Kept
<1>9. CASE ~h.edges[i].done /\ ~out
  <2>1. new = whole
    BY <1>1, <1>9
  <2>2. AxisRec(whole) /\ whole.edges = last /\ whole.segs = h.segs
    <3>1. AxisRec(a) /\ a.segs = h.segs
      BY AnchorPut
    <3> HIDE DEF a, last
    <3> QED BY <3>1, EdgesPut
  <2>3. Moved(last, h.edges)
    BY <1>6
  <2>4. Clear(last, i)
    <3>1. CASE mine
      <4>1. e1 = i /\ zoned[i].done
        BY <1>2, <1>4, <3>1
      <4>2. both[i].done
        BY <1>2, <1>5, <4>1 DEF Moved, EdgeMoved
      <4>3. last[i].done
        BY <4>1, <4>2
      <4> QED BY <4>3 DEF Clear
    <3>2. CASE ~mine
      <4>1. e2 = i /\ edges[i].blue = {}
        BY <3>2
      <4>2. last = both
        BY <1>3, <4>1
      <4>3. both[i].done
        BY <1>2, <1>5, <4>1
      <4> QED BY <4>2, <4>3 DEF Clear
    <3> QED BY <3>1, <3>2
  <2> HIDE DEF new, whole, last
  <2> QED BY <2>1, <2>2, <2>3, <2>4 DEF Kept
<1> HIDE DEF new, out
<1> QED BY <1>7, <1>8, <1>9 DEF new

-----------------------------------------------------------------------------
(* The phases *)

\* An edge that is moved twice is moved.
LEMMA EdgeMovedTwice ==
  ASSUME NEW a, NEW b, NEW c, EdgeMoved(b, a), EdgeMoved(c, b)
  PROVE  EdgeMoved(c, a)
BY DEF EdgeMoved

\* Edges whose free fields have more values.
LEMMA EdgesWiden ==
  ASSUME NEW V, NEW U, V \subseteq U
  PROVE  EdgeRecs(V) \subseteq EdgeRecs(U)
<1>1. V \union U = U
  OBVIOUS
<1> QED BY <1>1, EdgesGrow

\* Edges that are typed one by one are typed together.
LEMMA AllEdges ==
  ASSUME NEW n \in Nat, NEW f, f = [k \in 1..n |-> f[k]], \A k \in 1..n : SomeEdge(f[k])
  PROVE  SomeEdges(f) /\ Len(f) = n
<1> DEFINE In(k) == CHOOSE V : f[k] \in EdgeRecs(V)
           B == UNION {In(k) : k \in 1..n}
<1>1. \A k \in 1..n : f[k] \in EdgeRecs(B)
  <2> SUFFICES ASSUME NEW k \in 1..n PROVE f[k] \in EdgeRecs(B)
    OBVIOUS
  <2>1. \E V : f[k] \in EdgeRecs(V)
    BY DEF SomeEdge
  <2>2. f[k] \in EdgeRecs(In(k))
    BY <2>1, Zenon
  <2>3. In(k) \subseteq B
    BY Zenon
  <2> HIDE DEF In, B
  <2> QED BY <2>2, <2>3, EdgesWiden
<1> HIDE DEF B
<1>2. f \in [1..n -> EdgeRecs(B)]
  BY <1>1
<1>3. f \in Seq(EdgeRecs(B)) /\ Len(f) = n
  BY <1>2, WrittenOut
<1> QED BY <1>3 DEF SomeEdges

\* An edge is placed somewhere.
LEMMA PlacedField ==
  ASSUME NEW e, SomeEdge(e), NEW x
  PROVE  LET new == [e EXCEPT !.done = TRUE, !.pos = x]
         IN SomeEdge(new) /\ EdgeMoved(new, e) /\ new.done
<1> DEFINE yes == TRUE
           a == [e EXCEPT !.done = yes]
           b == [a EXCEPT !.pos = x]
<1> SUFFICES SomeEdge(b) /\ EdgeMoved(b, e) /\ b.done
  BY Zenon
<1>1. yes \in BOOLEAN /\ yes
  BY Zenon
<1> HIDE DEF yes
<1>2. SomeEdge(a) /\ EdgeMoved(a, e) /\ a.done = yes
  BY <1>1, DoneField
<1> HIDE DEF a
<1>3. SomeEdge(b) /\ EdgeMoved(b, a) /\ b.done = a.done
  BY <1>2, PosField
<1> HIDE DEF b
<1>4. EdgeMoved(b, e)
  BY <1>2, <1>3, EdgeMovedTwice
<1>5. b.done
  BY <1>1, <1>2, <1>3
<1> QED BY <1>3, <1>4, <1>5

PlacedAt(e, x) == [e EXCEPT !.done = TRUE, !.pos = x]

\* The first stem: its edge is placed.
LEMMA AnchorStemKept ==
  ASSUME NEW how, NEW d, NEW h, AxisRec(h), SomeEdges(h.edges), NEW i \in 1..Len(h.edges), NEW len
  PROVE  LET new == AnchorStem(how, d, h, i, len)
         IN Kept(new, h) /\ new.edges[i].done
<1> DEFINE e == h.edges[i]
           j == e.link
           org == h.edges[j].opos - e.opos
           x == IF len < 96 THEN Centred(e.opos + org \div 2, len) - Quot(len, 2) ELSE PixRound(e.opos)
           placed == PlacedAt(e, x)
           y == align_linked_edge(how, d, placed, h.edges[j])
           a == [h EXCEPT !.anchor = i]
           mid == [a.edges EXCEPT ![i] = placed]
           b == [a EXCEPT !.edges = mid]
           last == PosAt(b.edges, j, y)
           c == [b EXCEPT !.edges = last]
           new == AnchorStem(how, d, h, i, len)
<1> SUFFICES Kept(new, h) /\ new.edges[i].done
  OBVIOUS
<1>1. new = c
  BY Zenon DEF AnchorStem, PlacedAt, PosAt
<1>2. i \in 1..Len(h.edges) => SomeEdge(e)
  BY EdgesTyped
<1> HIDE DEF j, x, y
<1>3. SomeEdge(placed) /\ EdgeMoved(placed, e) /\ placed.done
  <2> HIDE DEF e
  <2> QED BY <1>2, PlacedField DEF PlacedAt
<1> HIDE DEF placed
<1>4. AxisRec(a) /\ a.edges = h.edges /\ a.segs = h.segs
  BY AnchorPut
<1> HIDE DEF a
<1>5. Moved(mid, h.edges) /\ mid[i] = placed
  <2>1. i \in 1..Len(h.edges) => SomeEdge(placed) /\ EdgeMoved(placed, h.edges[i])
    BY <1>3
  <2>2. SomeEdges(h.edges) /\ mid = [h.edges EXCEPT ![i] = placed]
    BY <1>4
  <2> HIDE DEF mid
  <2> QED BY <2>1, <2>2, OneEdge
<1> HIDE DEF mid
<1>6. AxisRec(b) /\ b.edges = mid /\ b.segs = h.segs
  BY <1>4, EdgesPut
<1> HIDE DEF b
<1>7. Moved(last, mid) /\ \A k \in 1..Len(mid) : last[k].done = mid[k].done
  BY <1>5, <1>6, PosMoved DEF Moved
<1> HIDE DEF last
<1>8. AxisRec(c) /\ c.edges = last /\ c.segs = h.segs
  BY <1>6, EdgesPut
<1> HIDE DEF c
<1>9. Moved(last, h.edges)
  BY <1>5, <1>7, MovedTwice
<1>10. last[i].done
  <2>1. mid[i].done
    BY <1>3, <1>5
  <2>2. Len(mid) = Len(h.edges)
    BY <1>5 DEF Moved
  <2>3. EdgeMoved(last[i], mid[i])
    BY <1>7, <2>2 DEF Moved
  <2> QED BY <2>1, <2>3 DEF EdgeMoved
<1> HIDE DEF new
<1> QED BY <1>1, <1>8, <1>9, <1>10 DEF Kept

\* Another stem: its edge is placed, also when it is held back.
LEMMA RelativeStemKept ==
  ASSUME NEW h, AxisRec(h), SomeEdges(h.edges), NEW i \in 1..Len(h.edges), NEW len, NEW down
  PROVE  LET new == RelativeStem(h, i, len, down)
         IN Kept(new, h) /\ new.edges[i].done
<1> DEFINE j == h.edges[i].link
           new == RelativeStem(h, i, len, down)
<1> SUFFICES Kept(new, h) /\ new.edges[i].done
  OBVIOUS
<1>1. \E x, y : new = [h EXCEPT !.edges = Bound(PutAt(PutAt(h.edges, i, x), j, y), i, down)]
  BY Zenon DEF RelativeStem, PutAt
<1>2. PICK x, y : new = [h EXCEPT !.edges = Bound(PutAt(PutAt(h.edges, i, x), j, y), i, down)]
  BY <1>1
<1> DEFINE a == PutAt(h.edges, i, x)
           b == PutAt(a, j, y)
           z == b[i - 1].pos
           c == PosAt(b, i, z)
           last == Bound(b, i, down)
<1>3. last = b \/ last = c
  BY Zenon DEF Bound, PosAt
<1>4. new = [h EXCEPT !.edges = last]
  BY <1>2
<1> HIDE DEF new
<1>5. Moved(a, h.edges) /\ a[i].done
  BY PutMoved
<1> HIDE DEF a, j
<1>6. Moved(b, a)
  BY <1>5, PutMoved DEF Moved
<1> HIDE DEF b, z
<1>7. Moved(c, b)
  BY <1>6, PosMoved DEF Moved
<1> HIDE DEF c, last
<1>8. Moved(b, h.edges) /\ Moved(c, h.edges)
  BY <1>5, <1>6, <1>7, MovedTwice
<1>9. b[i].done /\ c[i].done
  BY <1>5, <1>6, <1>7 DEF Moved, EdgeMoved
<1>10. Moved(last, h.edges) /\ last[i].done
  BY <1>3, <1>8, <1>9
<1>11. AxisRec(new) /\ new.edges = last /\ new.segs = h.segs
  BY <1>4, EdgesPut
<1> QED BY <1>10, <1>11 DEF Kept

\* Phase 3 unplaces no edge.
LEMMA Symmetry3Kept ==
  ASSUME NEW h, AxisRec(h), SomeEdges(h.edges)
  PROVE  Kept(Symmetry3(h), h)
<1> DEFINE E == h.edges
           n == Len(h.edges)
           m == IF n = 6 THEN <<1, 3, 5>> ELSE <<2, 6, 10>>
           delta == E[m[3]].pos - (2 * E[m[2]].pos - E[m[1]].pos)
           stem == {m[3], E[m[3]].link} \ {Nil}
           Times(k) == (IF k \in stem THEN 1 ELSE 0) + (IF n = 12 /\ k \in {9, 12} THEN 1 ELSE 0)
           At1(k) == E[k].pos - Times(k) * delta
           Done1(k) == E[k].done \/ k \in stem
           f == [k \in 1..n |-> [E[k] EXCEPT !.pos = At1(k), !.done = Done1(k)]]
           new == [h EXCEPT !.edges = f]
<1>1. Symmetry3(h) = h \/ Symmetry3(h) = new
  BY Zenon DEF Symmetry3
<1>2. n \in Nat
  BY EdgesTyped
<1>3. ASSUME NEW k \in 1..n PROVE SomeEdge(f[k]) /\ EdgeMoved(f[k], E[k])
  <2> DEFINE e == E[k]
             x == At1(k)
             y == Done1(k)
             a == [e EXCEPT !.pos = x]
             b == [a EXCEPT !.done = y]
  <2>1. f[k] = b
    BY Zenon
  <2>2. SomeEdge(e)
    BY EdgesTyped
  <2>3. y \in BOOLEAN /\ (e.done => y)
    BY Zenon
  <2> HIDE DEF e, x, y, f
  <2>4. SomeEdge(a) /\ EdgeMoved(a, e) /\ a.done = e.done
    BY <2>2, PosField
  <2> HIDE DEF a
  <2>5. a.done => y
    BY <2>3, <2>4
  <2>6. SomeEdge(b) /\ EdgeMoved(b, a)
    BY <2>3, <2>4, <2>5, DoneField
  <2> HIDE DEF b
  <2>7. EdgeMoved(b, e)
    BY <2>4, <2>6, EdgeMovedTwice
  <2> QED BY <2>1, <2>6, <2>7 DEF e
<1>4. f = [k \in 1..n |-> f[k]]
  OBVIOUS
<1> HIDE DEF f
<1>5. SomeEdges(f) /\ Len(f) = n
  BY <1>2, <1>3, <1>4, AllEdges
<1>6. Moved(f, h.edges)
  BY <1>3, <1>5 DEF Moved
<1>7. AxisRec(new) /\ new.edges = f /\ new.segs = h.segs
  BY EdgesPut
<1> HIDE DEF new
<1>8. Kept(new, h)
  BY <1>6, <1>7 DEF Kept
<1> QED BY <1>1, <1>8, NotKept

\* Phase 4 unplaces no edge.
LEMMA SerifEdgeKept ==
  ASSUME NEW points, NEW segs, NEW h, AxisRec(h), SomeEdges(h.edges), NEW i
  PROVE  Kept(SerifEdge(points, segs, h, i), h)
<1> DEFINE new == SerifEdge(points, segs, h, i)
<1>1. \/ new = h
      \/ \E x, far : new = [h EXCEPT !.edges[i].pos = x, !.edges[i].done = TRUE,
                                     !.anchor = IF far /\ @ = Nil THEN i ELSE @]
  BY Zenon DEF SerifEdge
<1>2. CASE new = h
  BY <1>2, NotKept
<1>3. ASSUME NEW x, NEW far,
             new = [h EXCEPT !.edges[i].pos = x, !.edges[i].done = TRUE,
                             !.anchor = IF far /\ @ = Nil THEN i ELSE @]
      PROVE  Kept(new, h)
  <2> DEFINE p == PosAt(h.edges, i, x)
             a == [h EXCEPT !.edges = p]
             q == DoneAt(a.edges, i)
             b == [a EXCEPT !.edges = q]
             z == IF far /\ b.anchor = Nil THEN i ELSE b.anchor
             c == [b EXCEPT !.anchor = z]
  <2>1. new = c
    BY <1>3, Zenon DEF PosAt, DoneAt
  <2> HIDE DEF new, z
  <2>2. Moved(p, h.edges)
    BY PosMoved
  <2> HIDE DEF p
  <2>3. AxisRec(a) /\ a.edges = p /\ a.segs = h.segs
    BY EdgesPut
  <2> HIDE DEF a
  <2>4. Moved(q, p)
    BY <2>2, <2>3, DoneMoved DEF Moved
  <2> HIDE DEF q
  <2>5. AxisRec(b) /\ b.edges = q /\ b.segs = h.segs
    BY <2>3, EdgesPut
  <2> HIDE DEF b
  <2>6. AxisRec(c) /\ c.edges = q /\ c.segs = h.segs
    BY <2>5, AnchorPut
  <2> HIDE DEF c
  <2>7. Moved(q, h.edges)
    BY <2>2, <2>4, MovedTwice
  <2> QED BY <2>1, <2>6, <2>7 DEF Kept
<1> HIDE DEF new
<1> QED BY <1>1, <1>2, <1>3 DEF new

\* Zones change nothing else of an edge.
EdgeZoned(new, old) ==
  /\ new.fpos = old.fpos /\ new.segs = old.segs /\ new.link = old.link /\ new.serif = old.serif

\* An edge gets a zone.
LEMMA ZoneField ==
  ASSUME NEW e, SomeEdge(e), NEW x, NEW y
  PROVE  LET new == [e EXCEPT !.blue = x, !.neutral = y]
         IN SomeEdge(new) /\ EdgeZoned(new, e)
<1> DEFINE new == [e EXCEPT !.blue = x, !.neutral = y]
<1>1. PICK V : e \in EdgeRecs(V)
  BY DEF SomeEdge
<1> DEFINE B == V \union {x, y}
<1>2. e \in EdgeRecs(B) /\ x \in B /\ y \in B
  BY <1>1, EdgesGrow
<1> HIDE DEF B
<1>3. /\ new \in EdgeRecs(B) /\ new.fpos = e.fpos /\ new.segs = e.segs /\ new.link = e.link /\ new.serif = e.serif
  BY <1>2 DEF EdgeRecs
<1> HIDE DEF new
<1> QED BY <1>3 DEF SomeEdge, EdgeZoned, new

\* compute_blue_edges changes the zones alone.
LEMMA ZonesFound ==
  ASSUME NEW es, SomeEdges(es), NEW m, NEW major
  PROVE  LET new == compute_blue_edges(es, m, major)
         IN SomeEdges(new) /\ Len(new) = Len(es) /\ \A k \in 1..Len(es) : EdgeZoned(new[k], es[k])
<1> DEFINE new == compute_blue_edges(es, m, major)
           n == Len(es)
<1>1. n \in Nat /\ DOMAIN es = 1..n
  BY EdgesTyped
<1>2. \A k \in 1..n : \E x, y : new[k] = [es[k] EXCEPT !.blue = x, !.neutral = y]
  BY <1>1, Zenon DEF compute_blue_edges
<1>3. new = [k \in 1..n |-> new[k]]
  <2>1. DOMAIN new = 1..n
    BY <1>1, Zenon DEF compute_blue_edges
  <2>2. new = [k \in DOMAIN new |-> new[k]]
    BY Zenon DEF compute_blue_edges
  <2> HIDE DEF new
  <2> QED BY <2>1, <2>2
<1> HIDE DEF new
<1>4. \A k \in 1..n : SomeEdge(new[k]) /\ EdgeZoned(new[k], es[k])
  <2> SUFFICES ASSUME NEW k \in 1..n PROVE SomeEdge(new[k]) /\ EdgeZoned(new[k], es[k])
    OBVIOUS
  <2> DEFINE e == es[k]
  <2>1. PICK x, y : new[k] = [e EXCEPT !.blue = x, !.neutral = y]
    BY <1>2
  <2>2. SomeEdge(e)
    BY EdgesTyped
  <2> HIDE DEF e
  <2> DEFINE z == [e EXCEPT !.blue = x, !.neutral = y]
  <2>3. SomeEdge(z) /\ EdgeZoned(z, e)
    BY <2>2, ZoneField
  <2> HIDE DEF z
  <2>4. new[k] = z
    BY <2>1 DEF z
  <2> QED BY <2>3, <2>4 DEF e
<1>5. SomeEdges(new) /\ Len(new) = n
  BY <1>1, <1>3, <1>4, AllEdges
<1> QED BY <1>4, <1>5 DEF new

SomeSegs(segs) == \E V : segs \in Seq(SegmentRecs(V))

\* Segments whose free fields have more values.
LEMMA SegmentsWiden ==
  ASSUME NEW V, NEW U, V \subseteq U
  PROVE  SegmentRecs(V) \subseteq SegmentRecs(U)
BY DEF SegmentRecs

\* What holds of the edges of a dimension from when they are found.
Settled(ax, down) ==
  /\ Listed(ax)
  /\ IF down THEN SortedDown(ax.edges) ELSE SortedUp(ax.edges)
  /\ \A e \in 1..Len(ax.edges) :
       /\ ax.edges[e].link \in 0..Len(ax.edges) /\ ax.edges[e].link # e
       /\ ax.edges[e].serif \in 0..Len(ax.edges) /\ ax.edges[e].serif # e

\* What is settled stays so when edges are placed or get zones.
LEMMA SettledStays ==
  ASSUME NEW ax, NEW new, NEW down, Settled(ax, down), new.segs = ax.segs, Len(new.edges) = Len(ax.edges),
         \A k \in 1..Len(ax.edges) : EdgeZoned(new.edges[k], ax.edges[k])
  PROVE  Settled(new, down)
<1> DEFINE n == Len(ax.edges)
<1>1. \A k \in 1..n : /\ new.edges[k].fpos = ax.edges[k].fpos /\ new.edges[k].segs = ax.edges[k].segs
                      /\ new.edges[k].link = ax.edges[k].link /\ new.edges[k].serif = ax.edges[k].serif
  BY DEF EdgeZoned
<1>2. Listed(new)
  BY <1>1, SameLists DEF Settled
<1>3. IF down THEN SortedDown(new.edges) ELSE SortedUp(new.edges)
  BY <1>1 DEF Settled, SortedDown, SortedUp
<1>4. \A e \in 1..n : /\ new.edges[e].link \in 0..n /\ new.edges[e].link # e
                      /\ new.edges[e].serif \in 0..n /\ new.edges[e].serif # e
  BY <1>1 DEF Settled
<1> QED BY <1>2, <1>3, <1>4 DEF Settled

\* Before there are edges.
LEMMA SettledFresh ==
  ASSUME NEW ax, NEW down, ax.edges = <<>>, Len(ax.segs) \in Nat, \A s \in 1..Len(ax.segs) : ax.segs[s].edge = Nil
  PROVE  Settled(ax, down)
<1>1. Len(ax.edges) = 0 /\ 1..0 = {}
  OBVIOUS
<1>2. Listed(ax)
  BY <1>1 DEF Listed
<1>3. IF down THEN SortedDown(ax.edges) ELSE SortedUp(ax.edges)
  BY <1>1 DEF SortedDown, SortedUp
<1> QED BY <1>1, <1>2, <1>3 DEF Settled

\* Linking keeps segments without edge.
LEMMA LinkedSegments ==
  ASSUME NEW segs, SomeSegs(segs), Fresh(segs), NEW major, NEW w
  PROVE  LET new == link_segments_inner(segs, major, w)
         IN SomeSegs(new) /\ Fresh(new)
<1>1. PICK V : segs \in Seq(SegmentRecs(V))
  BY DEF SomeSegs
<1> DEFINE new == link_segments_inner(segs, major, w)
<1>2. new \in Seq(SegmentRecs(V)) /\ Fresh(new)
  BY <1>1, SegmentsLinked
<1> HIDE DEF new
<1> QED BY <1>2 DEF SomeSegs, new

\* The edges that are found are settled, and none lies in a zone.
LEMMA FoundEdges ==
  ASSUME NEW segs, SomeSegs(segs), Fresh(segs), NEW m, NEW d, NEW major, NEW down
  PROVE  LET ax == compute_edges(segs, m, d, major, down)
         IN /\ SomeSegs(ax.segs) /\ SomeEdges(ax.edges)
            /\ Settled(ax, down /\ d = Vert)
            /\ \A e \in 1..Len(ax.edges) : ax.edges[e].blue = {}
<1> DEFINE ax == compute_edges(segs, m, d, major, down)
           scale == m.scale[d]
           sideways == down /\ d = Vert
<1>1. PICK V0 : segs \in Seq(SegmentRecs(V0))
  BY DEF SomeSegs
<1> DEFINE V == V0 \union {{}, TRUE, FALSE} \union {MulFix(p, scale) : p \in Int}
<1>2. RoomFor(V, scale)
  BY Zenon DEF RoomFor
<1>3. V0 \subseteq V
  BY Zenon
<1> HIDE DEF V
<1>4. segs \in Seq(SegmentRecs(V))
  BY <1>1, <1>3, SegmentsWiden
<1>5. RoomFor(V, m.scale[d])
  BY <1>2
<1> HIDE DEF scale
<1>6. ax \in Axes(V) /\ Found(ax, segs, sideways)
  BY <1>4, <1>5, EdgesFound
<1> HIDE DEF ax, sideways
<1>7. SomeSegs(ax.segs) /\ SomeEdges(ax.edges)
  BY <1>6 DEF Axes, SomeSegs, SomeEdges
<1>8. Settled(ax, sideways) /\ \A e \in 1..Len(ax.edges) : ax.edges[e].blue = {}
  BY <1>6 DEF Found, Settled
<1> QED BY <1>7, <1>8 DEF ax, sideways

-----------------------------------------------------------------------------
(* The stages *)

Whats == {"standard", "widths", "load", "segments", "link", "edges", "zones", "blue", "stem", "symmetry", "serif",
          "edge_points", "strong_points", "weak_points", "phantom", "done"}

\* What holds of a dimension at every stage.
AxisSound(ax) == AxisRec(ax) /\ SomeSegs(ax.segs) /\ SomeEdges(ax.edges)

TypeInv ==
  /\ job \in [outline : Outlines, font : Fonts, ppem : Ppems, mode : Modes]
  /\ stage \in [what : Whats, dim : Dims, at : Nat \ {0}]
  /\ axis = [d \in Dims |-> axis[d]]
  /\ \A d \in Dims : AxisSound(axis[d])

EdgesSettled == \A d \in Dims : Settled(axis[d], Downward(d))

Set(es, i) == es[i].done \/ es[i].link = Nil

\* The edges of a dimension are found after its segments, the vertical ones first.
StillEmpty ==
  stage.what \in {"standard", "widths", "load", "segments", "link", "edges"}
    => /\ axis[Vert].edges = <<>>
       /\ stage.dim = Horz => axis[Horz].edges = <<>>

PointsLoaded ==
  /\ stage.what \in {"standard", "widths", "load"} => stage.dim = Horz
  /\ stage.what \in {"segments", "link", "edges"} => \E W : pts \in RingSeqs(W)
  /\ stage.what \in {"link", "edges"} => Fresh(axis[stage.dim].segs)

\* Only horizontal edges lie in zones.
NoZones == \A e \in 1..Len(axis[Horz].edges) : axis[Horz].edges[e].blue = {}

EdgesInTurn ==
  LET E == axis[stage.dim].edges
      n == Len(E)
  IN /\ stage.what \in {"zones", "blue"} => stage.dim = Vert
     /\ stage.what \in {"blue", "stem", "serif"} => E = <<>> \/ stage.at <= n
     /\ stage.what = "blue" => \A j \in 1..n : j < stage.at => Clear(E, j)
     /\ stage.what = "stem" => \A j \in 1..n : Clear(E, j) /\ (j < stage.at => Set(E, j))
     /\ stage.what \in {"symmetry", "serif"} => \A j \in 1..n : Set(E, j)

IInv == TypeInv /\ EdgesSettled /\ StillEmpty /\ PointsLoaded /\ NoZones /\ EdgesInTurn

\* What does not depend on the stage.
Sound == TypeInv /\ EdgesSettled /\ NoZones

-----------------------------------------------------------------------------

\* There are two dimensions.
LEMMA DimsAre == Horz \in Dims /\ Vert \in Dims /\ Horz # Vert /\ \A d \in Dims : d = Horz \/ d = Vert
BY DEF Dims, Horz, Vert

\* One dimension changes.
LEMMA AxisPut ==
  ASSUME NEW a, a = [d \in Dims |-> a[d]], NEW d \in Dims, NEW h
  PROVE  LET new == [a EXCEPT ![d] = h]
         IN /\ new = [c \in Dims |-> new[c]]
            /\ new[d] = h /\ \A c \in Dims : c # d => new[c] = a[c]
<1> DEFINE new == [a EXCEPT ![d] = h]
<1>1. DOMAIN a = Dims
  <2>1. DOMAIN [c \in Dims |-> a[c]] = Dims
    OBVIOUS
  <2> QED BY <2>1, Zenon
<1>2. DOMAIN new = Dims /\ new[d] = h /\ \A c \in Dims : c # d => new[c] = a[c]
  BY <1>1
<1>3. new = [c \in DOMAIN a |-> IF c = d THEN h ELSE a[c]]
  BY Zenon
<1>4. new = [c \in Dims |-> new[c]]
  <2>1. \A c \in Dims : new[c] = IF c = d THEN h ELSE a[c]
    BY <1>2
  <2> HIDE DEF new
  <2> QED BY <1>1, <1>3, <2>1
<1> QED BY <1>2, <1>4

\* One dimension is replaced by another sound one.
LEMMA SoundPut ==
  ASSUME TypeInv, EdgesSettled, NoZones, NEW d \in Dims, NEW h, AxisSound(h), Settled(h, Downward(d)),
         d = Horz => \A e \in 1..Len(h.edges) : h.edges[e].blue = {},
         axis' = [axis EXCEPT ![d] = h], job' = job
  PROVE  /\ axis' = [c \in Dims |-> axis'[c]] /\ \A c \in Dims : AxisSound(axis'[c])
         /\ EdgesSettled' /\ NoZones'
         /\ axis'[d] = h /\ \A c \in Dims : c # d => axis'[c] = axis[c]
<1>1. /\ axis' = [c \in Dims |-> axis'[c]]
      /\ axis'[d] = h /\ \A c \in Dims : c # d => axis'[c] = axis[c]
  <2> DEFINE new == [axis EXCEPT ![d] = h]
  <2>1. axis = [c \in Dims |-> axis[c]]
    BY DEF TypeInv
  <2>2. /\ new = [c \in Dims |-> new[c]]
        /\ new[d] = h /\ \A c \in Dims : c # d => new[c] = axis[c]
    BY <2>1, AxisPut
  <2>3. axis' = new
    OBVIOUS
  <2> HIDE DEF new
  <2> QED BY <2>2, <2>3
<1>2. \A c \in Dims : AxisSound(axis'[c])
  BY <1>1 DEF TypeInv
<1>3. \A c \in Dims : Downward(c)' <=> Downward(c)
  BY DEF Downward
<1>4. EdgesSettled'
  <2> SUFFICES ASSUME NEW c \in Dims PROVE Settled(axis'[c], Downward(c)')
    BY DEF EdgesSettled
  <2>1. Settled(axis'[c], Downward(c))
    BY <1>1 DEF EdgesSettled
  <2> QED BY <1>3, <2>1 DEF Settled
<1>5. NoZones'
  BY <1>1, DimsAre DEF NoZones
<1> QED BY <1>1, <1>2, <1>4, <1>5

\* A dimension whose edges are moved stays sound and settled.
LEMMA KeptSound ==
  ASSUME TypeInv, EdgesSettled, NoZones, NEW d \in Dims, NEW h, Kept(h, axis[d])
  PROVE  /\ AxisSound(h) /\ Settled(h, Downward(d))
         /\ d = Horz => \A e \in 1..Len(h.edges) : h.edges[e].blue = {}
         /\ Moved(h.edges, axis[d].edges)
<1> DEFINE ax == axis[d]
           down == Downward(d)
<1>1. AxisSound(ax) /\ Settled(ax, down)
  BY DEF TypeInv, EdgesSettled
<1>2. d = Horz => \A e \in 1..Len(ax.edges) : ax.edges[e].blue = {}
  BY DEF NoZones
<1>3. AxisRec(h) /\ h.segs = ax.segs /\ Moved(h.edges, ax.edges)
  BY DEF Kept
<1> HIDE DEF ax, down
<1>4. /\ SomeEdges(h.edges) /\ Len(h.edges) = Len(ax.edges)
      /\ \A k \in 1..Len(ax.edges) : EdgeMoved(h.edges[k], ax.edges[k])
  BY <1>3 DEF Moved
<1>5. AxisSound(h)
  BY <1>1, <1>3, <1>4 DEF AxisSound
<1>6. Settled(h, down)
  <2>1. \A k \in 1..Len(ax.edges) : EdgeZoned(h.edges[k], ax.edges[k])
    BY <1>4 DEF EdgeMoved, EdgeZoned
  <2> QED BY <1>1, <1>3, <1>4, <2>1, SettledStays
<1>7. d = Horz => \A e \in 1..Len(h.edges) : h.edges[e].blue = {}
  BY <1>2, <1>4 DEF EdgeMoved
<1> QED BY <1>3, <1>5, <1>6, <1>7 DEF ax, down

-----------------------------------------------------------------------------
(* The first stages *)

\* The segments of a dimension are replaced.
LEMMA SegsPut ==
  ASSUME NEW h, AxisRec(h), NEW x
  PROVE  LET new == [h EXCEPT !.segs = x]
         IN AxisRec(new) /\ new.segs = x /\ new.edges = h.edges
<1> DEFINE new == [h EXCEPT !.segs = x]
<1>1. PICK V : h \in [segs : V, edges : V, anchor : V, rest : V]
  BY DEF AxisRec
<1> DEFINE B == V \union {x}
<1>2. h \in [segs : B, edges : B, anchor : B, rest : B] /\ x \in B
  BY <1>1
<1> HIDE DEF B
<1>3. new \in [segs : B, edges : B, anchor : B, rest : B] /\ new.segs = x /\ new.edges = h.edges
  BY <1>2
<1> HIDE DEF new
<1> QED BY <1>3 DEF AxisRec, new

\* Whether edges outside stems were met changes.
LEMMA RestPut ==
  ASSUME NEW h, AxisRec(h), NEW x
  PROVE  LET new == [h EXCEPT !.rest = x]
         IN AxisRec(new) /\ new.segs = h.segs /\ new.edges = h.edges
<1> DEFINE new == [h EXCEPT !.rest = x]
<1>1. PICK V : h \in [segs : V, edges : V, anchor : V, rest : V]
  BY DEF AxisRec
<1> DEFINE B == V \union {x}
<1>2. h \in [segs : B, edges : B, anchor : B, rest : B] /\ x \in B
  BY <1>1
<1> HIDE DEF B
<1>3. new \in [segs : B, edges : B, anchor : B, rest : B] /\ new.segs = h.segs /\ new.edges = h.edges
  BY <1>2
<1> HIDE DEF new
<1> QED BY <1>3 DEF AxisRec, new

\* A stage begins.
LEMMA Staged ==
  ASSUME NEW w \in Whats, NEW d \in Dims
  PROVE  /\ At(w, d) \in [what : Whats, dim : Dims, at : Nat \ {0}]
         /\ At(w, d).what = w /\ At(w, d).dim = d /\ At(w, d).at = 1
BY DEF At

\* The records of the dimensions stay.
LEMMA AxisStays ==
  ASSUME TypeInv, EdgesSettled, NoZones, axis' = axis, job' = job
  PROVE  /\ axis' = [c \in Dims |-> axis'[c]] /\ \A c \in Dims : AxisSound(axis'[c])
         /\ EdgesSettled' /\ NoZones'
<1>1. axis' = [c \in Dims |-> axis'[c]] /\ \A c \in Dims : AxisSound(axis'[c])
  BY DEF TypeInv
<1>2. EdgesSettled'
  BY DEF EdgesSettled, Downward
<1>3. NoZones'
  BY DEF NoZones
<1> QED BY <1>1, <1>2, <1>3

\* At first there is neither segment nor edge.
LEMMA InitInv == Init => IInv
<1> SUFFICES ASSUME Init PROVE IInv
  OBVIOUS
<1> DEFINE h == [segs |-> <<>>, edges |-> <<>>, anchor |-> Nil, rest |-> FALSE]
<1>1. axis = [d \in Dims |-> h]
  BY Zenon DEF Init
<1>2. h.segs = <<>> /\ h.edges = <<>>
  OBVIOUS
<1>3. AxisRec(h)
  <2> DEFINE no == FALSE
             V == {<<>>, Nil, no}
             k == [segs |-> <<>>, edges |-> <<>>, anchor |-> Nil, rest |-> no]
  <2>1. <<>> \in V /\ Nil \in V /\ no \in V
    BY Zenon
  <2> HIDE DEF no, V
  <2>2. k \in [segs : V, edges : V, anchor : V, rest : V]
    BY <2>1
  <2>3. h = k
    BY Zenon DEF no
  <2> HIDE DEF h, k
  <2> QED BY <2>2, <2>3 DEF AxisRec
<1> HIDE DEF h
<1>4. \A d \in Dims : axis[d] = h
  BY <1>1
<1>5. AxisSound(h)
  <2>1. <<>> \in Seq(SegmentRecs({})) /\ <<>> \in Seq(EdgeRecs({}))
    OBVIOUS
  <2> QED BY <1>2, <1>3, <2>1 DEF AxisSound, SomeSegs, SomeEdges
<1>6. stage = At("standard", Horz)
  BY DEF Init
<1>7. /\ stage \in [what : Whats, dim : Dims, at : Nat \ {0}]
      /\ stage.what = "standard" /\ stage.dim = Horz
  BY <1>6, Staged, DimsAre DEF Whats
<1>8. TypeInv
  <2>1. axis = [d \in Dims |-> axis[d]]
    BY <1>1, <1>4
  <2> QED BY <1>4, <1>5, <1>7, <2>1 DEF TypeInv, Init
<1>9. EdgesSettled
  <2>1. Len(h.segs) = 0 /\ 1..0 = {}
    BY <1>2
  <2>2. \A d \in Dims : Settled(h, Downward(d))
    BY <1>2, <2>1, SettledFresh
  <2> QED BY <1>4, <2>2 DEF EdgesSettled
<1>10. NoZones
  <2>1. Len(axis[Horz].edges) = 0 /\ 1..0 = {}
    BY <1>2, <1>4, DimsAre
  <2> QED BY <2>1 DEF NoZones
<1>11. StillEmpty /\ PointsLoaded /\ EdgesInTurn
  BY <1>2, <1>4, <1>7, DimsAre DEF StillEmpty, PointsLoaded, EdgesInTurn
<1> QED BY <1>8, <1>9, <1>10, <1>11 DEF IInv

\* The standard glyph is loaded.
LEMMA StandardInv == IInv /\ Standard => IInv'
<1> SUFFICES ASSUME IInv, Standard PROVE IInv'
  OBVIOUS
<1>1. TypeInv /\ EdgesSettled /\ StillEmpty /\ PointsLoaded /\ NoZones
  BY DEF IInv
<1>2. stage.what = "standard" /\ stage' = At("widths", Horz) /\ axis' = axis /\ job' = job
  BY DEF Standard
<1>3. /\ stage' \in [what : Whats, dim : Dims, at : Nat \ {0}]
      /\ stage'.what = "widths" /\ stage'.dim = Horz
  BY <1>2, Staged, DimsAre DEF Whats
<1>4. /\ axis' = [c \in Dims |-> axis'[c]] /\ \A c \in Dims : AxisSound(axis'[c])
      /\ EdgesSettled' /\ NoZones'
  BY <1>1, <1>2, AxisStays
<1>5. TypeInv'
  BY <1>1, <1>2, <1>3, <1>4 DEF TypeInv
<1>6. StillEmpty' /\ PointsLoaded' /\ EdgesInTurn'
  BY <1>1, <1>2, <1>3 DEF StillEmpty, PointsLoaded, EdgesInTurn
<1> QED BY <1>4, <1>5, <1>6 DEF IInv

\* The metrics are found: no edge is involved.
LEMMA WidthsInv == IInv /\ Widths => IInv'
<1> SUFFICES ASSUME IInv, Widths PROVE IInv'
  OBVIOUS
<1>1. TypeInv /\ EdgesSettled /\ StillEmpty /\ PointsLoaded /\ NoZones
  BY DEF IInv
<1>2. stage.what = "widths" /\ stage' = At("load", Horz) /\ axis' = axis /\ job' = job
  BY Zenon DEF Widths
<1>3. /\ stage' \in [what : Whats, dim : Dims, at : Nat \ {0}]
      /\ stage'.what = "load" /\ stage'.dim = Horz
  BY <1>2, Staged, DimsAre DEF Whats
<1>4. /\ axis' = [c \in Dims |-> axis'[c]] /\ \A c \in Dims : AxisSound(axis'[c])
      /\ EdgesSettled' /\ NoZones'
  BY <1>1, <1>2, AxisStays
<1>5. TypeInv'
  BY <1>1, <1>2, <1>3, <1>4 DEF TypeInv
<1>6. StillEmpty' /\ PointsLoaded' /\ EdgesInTurn'
  BY <1>1, <1>2, <1>3 DEF StillEmpty, PointsLoaded, EdgesInTurn
<1> QED BY <1>4, <1>5, <1>6 DEF IInv

\* The points are loaded; here the contours become rings.
LEMMA LoadInv == IInv /\ Load => IInv'
<1> SUFFICES ASSUME IInv, Load PROVE IInv'
  OBVIOUS
<1>1. TypeInv /\ EdgesSettled /\ StillEmpty /\ PointsLoaded /\ NoZones
  BY DEF IInv
<1> DEFINE d == IF Flags.horizontal THEN Horz ELSE Vert
<1>2. /\ stage.what = "load" /\ stage' = At("segments", d) /\ axis' = axis /\ job' = job
      /\ pts' = reload(job.outline.contours, metrics.scale)
  BY Zenon DEF Load
<1>3. d \in Dims
  BY DimsAre
<1> HIDE DEF d
<1>4. /\ stage' \in [what : Whats, dim : Dims, at : Nat \ {0}]
      /\ stage'.what = "segments" /\ stage'.dim = d
  BY <1>2, <1>3, Staged DEF Whats
<1>5. /\ axis' = [c \in Dims |-> axis'[c]] /\ \A c \in Dims : AxisSound(axis'[c])
      /\ EdgesSettled' /\ NoZones'
  BY <1>1, <1>2, AxisStays
<1>6. TypeInv'
  BY <1>1, <1>2, <1>4, <1>5 DEF TypeInv
<1>7. \E W : pts' \in RingSeqs(W)
  <2>1. job.outline \in Outlines
    BY <1>1 DEF TypeInv
  <2> DEFINE outline == job.outline.contours
             scale == metrics.scale
  <2>2. outline \in Seq(Seq(OutlinePoints))
    BY <2>1, OutlineAssumption DEF OutlinePoints
  <2>3. pts' = reload(outline, scale)
    BY <1>2
  <2> HIDE DEF outline, scale
  <2>4. pts' \in RingSeqs(Places(scale))
    BY <2>2, <2>3, Reloaded
  <2> QED BY <2>4
<1>8. StillEmpty' /\ PointsLoaded' /\ EdgesInTurn'
  BY <1>1, <1>2, <1>4, <1>7 DEF StillEmpty, PointsLoaded, EdgesInTurn
<1> QED BY <1>5, <1>6, <1>8 DEF IInv

\* Segments are found for a dimension without edges.
LEMMA SegmentsInv == IInv /\ Segments => IInv'
<1> SUFFICES ASSUME IInv, Segments PROVE IInv'
  OBVIOUS
<1>1. TypeInv /\ EdgesSettled /\ StillEmpty /\ PointsLoaded /\ NoZones
  BY DEF IInv
<1> DEFINE d == stage.dim
           segs == compute_segments(pts, d)
           h == [axis[d] EXCEPT !.segs = segs]
<1>2. /\ stage.what = "segments" /\ stage' = At("link", d) /\ job' = job
      /\ pts' = Turned(pts, d) /\ axis' = [axis EXCEPT ![d] = h]
  BY Zenon DEF Segments
<1>3. d \in Dims
  BY <1>1 DEF TypeInv
<1>4. axis[Vert].edges = <<>> /\ (d = Horz => axis[Horz].edges = <<>>) /\ axis[d].edges = <<>>
  BY <1>1, <1>2, <1>3, DimsAre DEF StillEmpty
<1>5. PICK W : pts \in RingSeqs(W)
  BY <1>1, <1>2 DEF PointsLoaded
<1>6. AxisSound(axis[d])
  BY <1>1, <1>3 DEF TypeInv
<1> HIDE DEF d
<1>7. SomeSegs(segs) /\ Fresh(segs)
  BY <1>3, <1>5, SegmentsFound DEF SomeSegs
<1> HIDE DEF segs
<1>8. AxisRec(h) /\ h.segs = segs /\ h.edges = axis[d].edges
  BY <1>6, SegsPut DEF AxisSound
<1> HIDE DEF h
<1>9. AxisSound(h)
  BY <1>6, <1>7, <1>8 DEF AxisSound
<1>10. Settled(h, Downward(d))
  <2>1. Len(h.segs) \in Nat
    BY <1>7, <1>8 DEF SomeSegs
  <2>2. \A s \in 1..Len(h.segs) : h.segs[s].edge = Nil
    BY <1>7, <1>8 DEF Fresh
  <2> QED BY <1>4, <1>8, <2>1, <2>2, SettledFresh
<1>11. \A e \in 1..Len(h.edges) : h.edges[e].blue = {}
  <2>1. Len(h.edges) = 0 /\ 1..0 = {}
    BY <1>4, <1>8
  <2> QED BY <2>1
<1>12. /\ axis' = [c \in Dims |-> axis'[c]] /\ \A c \in Dims : AxisSound(axis'[c])
       /\ EdgesSettled' /\ NoZones'
       /\ axis'[d] = h /\ \A c \in Dims : c # d => axis'[c] = axis[c]
  BY <1>1, <1>2, <1>3, <1>9, <1>10, <1>11, SoundPut
<1>13. /\ stage' \in [what : Whats, dim : Dims, at : Nat \ {0}]
       /\ stage'.what = "link" /\ stage'.dim = d
  BY <1>2, <1>3, Staged DEF Whats
<1>14. TypeInv'
  BY <1>1, <1>2, <1>12, <1>13 DEF TypeInv
<1>15. \E U : pts' \in RingSeqs(U)
  BY <1>2, <1>3, <1>5, TurnedRings
<1>16. Fresh(axis'[d].segs)
  BY <1>7, <1>8, <1>12
<1>17. axis'[Vert].edges = <<>> /\ (d = Horz => axis'[Horz].edges = <<>>)
  BY <1>4, <1>8, <1>12, DimsAre
<1>18. StillEmpty' /\ PointsLoaded' /\ EdgesInTurn'
  BY <1>13, <1>15, <1>16, <1>17 DEF StillEmpty, PointsLoaded, EdgesInTurn
<1> QED BY <1>12, <1>14, <1>18 DEF IInv

\* They are linked.
LEMMA LinkInv == IInv /\ Link => IInv'
<1> SUFFICES ASSUME IInv, Link PROVE IInv'
  OBVIOUS
<1>1. TypeInv /\ EdgesSettled /\ StillEmpty /\ PointsLoaded /\ NoZones
  BY DEF IInv
<1> DEFINE d == stage.dim
           w == metrics.widths[d]
           widest == IF w = <<>> THEN 0 ELSE Last(w)
           segs == link_segments_inner(axis[d].segs, Major(d), widest)
           h == [axis[d] EXCEPT !.segs = segs]
<1>2. /\ stage.what = "link" /\ stage' = At("edges", d) /\ job' = job
      /\ pts' = pts /\ axis' = [axis EXCEPT ![d] = h]
  BY Zenon DEF Link
<1>3. d \in Dims
  BY <1>1 DEF TypeInv
<1>4. axis[Vert].edges = <<>> /\ (d = Horz => axis[Horz].edges = <<>>) /\ axis[d].edges = <<>>
  BY <1>1, <1>2, <1>3, DimsAre DEF StillEmpty
<1>5. Fresh(axis[d].segs) /\ \E W : pts \in RingSeqs(W)
  BY <1>1, <1>2 DEF PointsLoaded
<1>6. AxisSound(axis[d])
  BY <1>1, <1>3 DEF TypeInv
<1> HIDE DEF d, widest
<1>7. SomeSegs(segs) /\ Fresh(segs)
  BY <1>5, <1>6, LinkedSegments DEF AxisSound
<1> HIDE DEF segs
<1>8. AxisRec(h) /\ h.segs = segs /\ h.edges = axis[d].edges
  BY <1>6, SegsPut DEF AxisSound
<1> HIDE DEF h
<1>9. AxisSound(h)
  BY <1>6, <1>7, <1>8 DEF AxisSound
<1>10. Settled(h, Downward(d))
  <2>1. Len(h.segs) \in Nat
    BY <1>7, <1>8 DEF SomeSegs
  <2>2. \A s \in 1..Len(h.segs) : h.segs[s].edge = Nil
    BY <1>7, <1>8 DEF Fresh
  <2> QED BY <1>4, <1>8, <2>1, <2>2, SettledFresh
<1>11. \A e \in 1..Len(h.edges) : h.edges[e].blue = {}
  <2>1. Len(h.edges) = 0 /\ 1..0 = {}
    BY <1>4, <1>8
  <2> QED BY <2>1
<1>12. /\ axis' = [c \in Dims |-> axis'[c]] /\ \A c \in Dims : AxisSound(axis'[c])
       /\ EdgesSettled' /\ NoZones'
       /\ axis'[d] = h /\ \A c \in Dims : c # d => axis'[c] = axis[c]
  BY <1>1, <1>2, <1>3, <1>9, <1>10, <1>11, SoundPut
<1>13. /\ stage' \in [what : Whats, dim : Dims, at : Nat \ {0}]
       /\ stage'.what = "edges" /\ stage'.dim = d
  BY <1>2, <1>3, Staged DEF Whats
<1>14. TypeInv'
  BY <1>1, <1>2, <1>12, <1>13 DEF TypeInv
<1>15. \E U : pts' \in RingSeqs(U)
  BY <1>2, <1>5
<1>16. Fresh(axis'[d].segs)
  BY <1>7, <1>8, <1>12
<1>17. axis'[Vert].edges = <<>> /\ (d = Horz => axis'[Horz].edges = <<>>)
  BY <1>4, <1>8, <1>12, DimsAre
<1>18. StillEmpty' /\ PointsLoaded' /\ EdgesInTurn'
  BY <1>13, <1>15, <1>16, <1>17 DEF StillEmpty, PointsLoaded, EdgesInTurn
<1> QED BY <1>12, <1>14, <1>18 DEF IInv

\* Edges are made of them.
LEMMA EdgesInv == IInv /\ Edges => IInv'
<1> SUFFICES ASSUME IInv, Edges PROVE IInv'
  OBVIOUS
<1>1. TypeInv /\ EdgesSettled /\ StillEmpty /\ PointsLoaded /\ NoZones
  BY DEF IInv
<1> DEFINE d == stage.dim
           down == Downward(d)
           ax == compute_edges(axis[d].segs, metrics, d, Major(d), down)
           a == [axis[d] EXCEPT !.segs = ax.segs]
           h == [a EXCEPT !.edges = ax.edges]
<1>2. /\ stage.what = "edges" /\ job' = job /\ pts' = pts
      /\ stage' = IF d = Horz THEN At("segments", Vert) ELSE At("zones", Vert)
  BY Zenon DEF Edges
<1>3. d \in Dims
  BY <1>1 DEF TypeInv
<1>4. axis[Vert].edges = <<>>
  BY <1>1, <1>2, <1>3, DimsAre DEF StillEmpty
<1>5. Fresh(axis[d].segs) /\ \E W : pts \in RingSeqs(W)
  BY <1>1, <1>2 DEF PointsLoaded
<1>6. AxisSound(axis[d])
  BY <1>1, <1>3 DEF TypeInv
<1>7. axis' = [axis EXCEPT ![d] = h]
  <2>1. axis' = [axis EXCEPT ![d].segs = ax.segs, ![d].edges = ax.edges]
    BY Zenon DEF Edges
  <2> DEFINE b == [axis EXCEPT ![d] = a]
  <2>2. axis' = [b EXCEPT ![d].edges = ax.edges]
    BY <2>1, Zenon
  <2>3. axis' = [b EXCEPT ![d] = [b[d] EXCEPT !.edges = ax.edges]]
    BY <2>2, Zenon
  <2>4. axis = [c \in Dims |-> axis[c]]
    BY <1>1 DEF TypeInv
  <2> HIDE DEF a, d
  <2>5. /\ b = [c \in Dims |-> b[c]]
        /\ b[d] = a /\ \A c \in Dims : c # d => b[c] = axis[c]
    BY <1>3, <2>4, AxisPut
  <2>6. axis' = [b EXCEPT ![d] = h]
    BY <2>3, <2>5
  <2> HIDE DEF h
  <2>7. [b EXCEPT ![d] = h] = [axis EXCEPT ![d] = h]
    BY <1>3, <2>4
  <2> QED BY <2>6, <2>7
<1> HIDE DEF d
<1>8. /\ SomeSegs(ax.segs) /\ SomeEdges(ax.edges) /\ Settled(ax, down /\ d = Vert)
      /\ \A e \in 1..Len(ax.edges) : ax.edges[e].blue = {}
  <2> HIDE DEF down
  <2> QED BY <1>5, <1>6, FoundEdges DEF AxisSound
<1>9. Settled(ax, Downward(d))
  <2>1. Downward(d) => d = Vert
    BY DEF Downward
  <2> HIDE DEF ax
  <2> QED BY <1>8, <2>1 DEF Settled
<1> HIDE DEF ax, down
<1>10. AxisRec(a) /\ a.segs = ax.segs
  BY <1>6, SegsPut DEF AxisSound
<1> HIDE DEF a
<1>11. AxisRec(h) /\ h.segs = ax.segs /\ h.edges = ax.edges
  BY <1>10, EdgesPut
<1> HIDE DEF h
<1>12. AxisSound(h)
  BY <1>8, <1>11 DEF AxisSound
<1>13. Settled(h, Downward(d))
  BY <1>9, <1>11 DEF Settled, Listed
<1>14. \A e \in 1..Len(h.edges) : h.edges[e].blue = {}
  BY <1>8, <1>11
<1>15. /\ axis' = [c \in Dims |-> axis'[c]] /\ \A c \in Dims : AxisSound(axis'[c])
       /\ EdgesSettled' /\ NoZones'
       /\ axis'[d] = h /\ \A c \in Dims : c # d => axis'[c] = axis[c]
  BY <1>1, <1>2, <1>3, <1>7, <1>12, <1>13, <1>14, SoundPut
<1>16. /\ stage' \in [what : Whats, dim : Dims, at : Nat \ {0}]
       /\ stage'.what = (IF d = Horz THEN "segments" ELSE "zones") /\ stage'.dim = Vert
  <2>1. "segments" \in Whats /\ "zones" \in Whats /\ Vert \in Dims
    BY DimsAre DEF Whats
  <2> QED BY <1>2, <2>1, Staged
<1>17. TypeInv'
  BY <1>1, <1>2, <1>15, <1>16 DEF TypeInv
<1>18. d = Horz => axis'[Vert].edges = <<>>
  BY <1>4, <1>15, DimsAre
<1>19. StillEmpty' /\ PointsLoaded' /\ EdgesInTurn'
  BY <1>2, <1>5, <1>16, <1>18, DimsAre DEF StillEmpty, PointsLoaded, EdgesInTurn
<1> QED BY <1>15, <1>17, <1>19 DEF IInv

-----------------------------------------------------------------------------
(* The phases, step by step *)

\* A sequence of no edges is empty.
LEMMA NoEdges ==
  ASSUME NEW es, SomeEdges(es), Len(es) = 0
  PROVE  es = <<>>
<1>1. PICK V : es \in Seq(EdgeRecs(V))
  BY DEF SomeEdges
<1> DEFINE S == EdgeRecs(V)
<1>2. es \in Seq(S)
  BY <1>1
<1> HIDE DEF S
<1> QED BY <1>2

\* The stage after one edge of a phase.
LEMMA NextTurn ==
  ASSUME TypeInv, NEW what \in Whats, NEW next \in Whats, Turn(what, next)
  PROVE  LET n == Len(axis[stage.dim].edges)
         IN /\ stage.what = what /\ job' = job
            /\ stage' \in [what : Whats, dim : Dims, at : Nat \ {0}] /\ stage'.dim = stage.dim
            /\ stage.at < n => stage'.what = what /\ stage'.at = stage.at + 1
            /\ ~(stage.at < n) => stage'.what = next /\ stage'.at = 1
<1> DEFINE n == Len(axis[stage.dim].edges)
<1>1. stage.what = what /\ job' = job
  BY DEF Turn
<1>2. stage' = IF stage.at < n THEN [stage EXCEPT !.at = @ + 1] ELSE At(next, stage.dim)
  BY Zenon DEF Turn
<1>3. stage \in [what : Whats, dim : Dims, at : Nat \ {0}]
  BY DEF TypeInv
<1> HIDE DEF n
<1>4. ASSUME stage.at < n
      PROVE  /\ stage' \in [what : Whats, dim : Dims, at : Nat \ {0}] /\ stage'.dim = stage.dim
             /\ stage'.what = what /\ stage'.at = stage.at + 1
  <2>1. stage' = [stage EXCEPT !.at = stage.at + 1]
    BY <1>2, <1>4
  <2> QED BY <1>1, <1>3, <2>1
<1>5. ASSUME ~(stage.at < n)
      PROVE  /\ stage' \in [what : Whats, dim : Dims, at : Nat \ {0}] /\ stage'.dim = stage.dim
             /\ stage'.what = next /\ stage'.at = 1
  <2>1. stage' = At(next, stage.dim) /\ stage.dim \in Dims
    BY <1>2, <1>3, <1>5
  <2> QED BY <2>1, Staged
<1> QED BY <1>1, <1>4, <1>5 DEF n

\* A phase changes the edges of its dimension at most.
LEMMA FitSound ==
  ASSUME TypeInv, EdgesSettled, NoZones, NEW d \in Dims, NEW h, Kept(h, axis[d]),
         axis' = [axis EXCEPT ![d] = h], job' = job, stage' \in [what : Whats, dim : Dims, at : Nat \ {0}]
  PROVE  TypeInv' /\ EdgesSettled' /\ NoZones' /\ axis'[d] = h /\ Moved(h.edges, axis[d].edges)
<1>1. /\ AxisSound(h) /\ Settled(h, Downward(d))
      /\ d = Horz => \A e \in 1..Len(h.edges) : h.edges[e].blue = {}
      /\ Moved(h.edges, axis[d].edges)
  BY KeptSound
<1>2. /\ axis' = [c \in Dims |-> axis'[c]] /\ \A c \in Dims : AxisSound(axis'[c])
      /\ EdgesSettled' /\ NoZones'
      /\ axis'[d] = h /\ \A c \in Dims : c # d => axis'[c] = axis[c]
  BY <1>1, SoundPut
<1>3. TypeInv'
  BY <1>2 DEF TypeInv
<1> QED BY <1>1, <1>2, <1>3

\* What the phases start from.
LEMMA PhaseFacts ==
  ASSUME IInv, NEW d \in Dims
  PROVE  /\ AxisRec(axis[d]) /\ SomeEdges(axis[d].edges) /\ Len(axis[d].edges) \in Nat
         /\ Len(axis[d].edges) = 0 => axis[d].edges = <<>>
         /\ \A j \in 1..Len(axis[d].edges) : axis[d].edges[j].link \in 0..Len(axis[d].edges)
         /\ Kept(axis[d], axis[d])
<1>1. AxisRec(axis[d]) /\ SomeEdges(axis[d].edges)
  BY DEF IInv, TypeInv, AxisSound
<1>2. Len(axis[d].edges) \in Nat /\ (Len(axis[d].edges) = 0 => axis[d].edges = <<>>)
  BY <1>1, EdgesTyped, NoEdges
<1>3. \A j \in 1..Len(axis[d].edges) : axis[d].edges[j].link \in 0..Len(axis[d].edges)
  BY DEF IInv, EdgesSettled, Settled
<1>4. Kept(axis[d], axis[d])
  BY <1>1, NotKept
<1> QED BY <1>1, <1>2, <1>3, <1>4

\* An edge that is placed or unlinked stays so.
LEMMA SetStays ==
  ASSUME NEW new, NEW old, Moved(new, old), NEW i \in 1..Len(old), Set(old, i)
  PROVE  Set(new, i)
BY DEF Moved, EdgeMoved, Set

\* Only horizontal edges get zones; vertical ones are clear when their stems
\* are placed.
LEMMA ZonesInv == IInv /\ Zones => IInv'
<1> SUFFICES ASSUME IInv, Zones PROVE IInv'
  OBVIOUS
<1>1. TypeInv /\ EdgesSettled /\ NoZones /\ EdgesInTurn
  BY DEF IInv
<1> DEFINE es == compute_blue_edges(axis[Vert].edges, metrics, Major(Vert))
           h == [axis[Vert] EXCEPT !.edges = es]
<1>2. /\ stage.what = "zones" /\ job' = job
      /\ stage' = IF Flags.horizontal THEN At("stem", Horz) ELSE At("blue", Vert)
      /\ axis' = [axis EXCEPT ![Vert] = h]
  BY Zenon DEF Zones
<1>3. AxisSound(axis[Vert]) /\ Settled(axis[Vert], Downward(Vert)) /\ Vert \in Dims /\ Horz \in Dims /\ Horz # Vert
  BY <1>1, DimsAre DEF TypeInv, EdgesSettled
<1>4. /\ SomeEdges(es) /\ Len(es) = Len(axis[Vert].edges)
      /\ \A k \in 1..Len(axis[Vert].edges) : EdgeZoned(es[k], axis[Vert].edges[k])
  BY <1>3, ZonesFound DEF AxisSound
<1> HIDE DEF es
<1>5. AxisRec(h) /\ h.edges = es /\ h.segs = axis[Vert].segs
  BY <1>3, EdgesPut DEF AxisSound
<1> HIDE DEF h
<1>6. AxisSound(h)
  BY <1>3, <1>4, <1>5 DEF AxisSound
<1>7. Settled(h, Downward(Vert))
  BY <1>3, <1>4, <1>5, SettledStays
<1>8. /\ axis' = [c \in Dims |-> axis'[c]] /\ \A c \in Dims : AxisSound(axis'[c])
      /\ EdgesSettled' /\ NoZones'
      /\ axis'[Vert] = h /\ \A c \in Dims : c # Vert => axis'[c] = axis[c]
  BY <1>1, <1>2, <1>3, <1>6, <1>7, SoundPut
<1>9. /\ stage' \in [what : Whats, dim : Dims, at : Nat \ {0}] /\ stage'.at = 1
      /\ \/ stage'.what = "stem" /\ stage'.dim = Horz
         \/ stage'.what = "blue" /\ stage'.dim = Vert
  <2>1. "stem" \in Whats /\ "blue" \in Whats
    BY DEF Whats
  <2> QED BY <1>2, <1>3, <2>1, Staged
<1>10. TypeInv'
  BY <1>1, <1>2, <1>8, <1>9 DEF TypeInv
<1>11. \A c \in Dims : LET E == axis'[c].edges IN Len(E) \in Nat /\ (Len(E) = 0 => E = <<>>)
  BY <1>8, EdgesTyped, NoEdges DEF AxisSound
<1>12. ASSUME stage'.what = "stem"
       PROVE  \A j \in 1..Len(axis'[Horz].edges) : Clear(axis'[Horz].edges, j)
  <2> DEFINE E == axis'[Horz].edges
             n == Len(E)
  <2> SUFFICES ASSUME NEW j \in 1..n PROVE Clear(E, j)
    OBVIOUS
  <2>1. \A k \in 1..n : E[k].blue = {}
    BY <1>8 DEF NoZones
  <2>2. E[j].link \in 0..n /\ n \in Nat
    BY <1>3, <1>8, <1>11 DEF EdgesSettled, Settled
  <2> HIDE DEF E, n
  <2>3. E[j].link = 0 \/ E[j].link \in 1..n
    BY <2>2
  <2> QED BY <2>1, <2>3 DEF Clear, Nil
<1>13. EdgesInTurn'
  <2>1. CASE stage'.what = "stem" /\ stage'.dim = Horz
    BY <1>3, <1>9, <1>11, <1>12, <2>1 DEF EdgesInTurn
  <2>2. CASE stage'.what = "blue" /\ stage'.dim = Vert
    BY <1>3, <1>9, <1>11, <2>2 DEF EdgesInTurn
  <2> QED BY <1>9, <2>1, <2>2
<1>14. StillEmpty' /\ PointsLoaded'
  BY <1>9 DEF StillEmpty, PointsLoaded
<1> QED BY <1>8, <1>10, <1>13, <1>14 DEF IInv

\* After phase 1 no edge waits for one in a zone.
LEMMA HintBlueInv == IInv /\ HintBlue => IInv'
<1> SUFFICES ASSUME IInv, HintBlue PROVE IInv'
  OBVIOUS
<1>1. TypeInv /\ EdgesSettled /\ NoZones /\ EdgesInTurn
  BY DEF IInv
<1> DEFINE n == Len(axis[Vert].edges)
           h == IF axis[Vert].edges = <<>> THEN axis[Vert] ELSE BlueEdge(How(Vert), Vert, axis[Vert], stage.at)
<1>2. Turn("blue", "stem") /\ axis' = [axis EXCEPT ![Vert] = h]
  BY Zenon DEF HintBlue
<1>3. Vert \in Dims /\ "blue" \in Whats /\ "stem" \in Whats
  BY DimsAre DEF Whats
<1>4. stage.what = "blue" /\ stage.dim = Vert
  BY <1>1, <1>2 DEF Turn, EdgesInTurn
<1>5. /\ job' = job
      /\ stage' \in [what : Whats, dim : Dims, at : Nat \ {0}] /\ stage'.dim = Vert
      /\ stage.at < n => stage'.what = "blue" /\ stage'.at = stage.at + 1
      /\ ~(stage.at < n) => stage'.what = "stem" /\ stage'.at = 1
  BY <1>1, <1>2, <1>3, <1>4, NextTurn
<1>6. /\ axis[Vert].edges = <<>> \/ stage.at <= n
      /\ \A j \in 1..n : j < stage.at => Clear(axis[Vert].edges, j)
      /\ stage.at \in Nat \ {0}
  BY <1>1, <1>4 DEF EdgesInTurn, TypeInv
<1>7. /\ AxisRec(axis[Vert]) /\ SomeEdges(axis[Vert].edges) /\ n \in Nat
      /\ n = 0 => axis[Vert].edges = <<>>
      /\ \A j \in 1..n : axis[Vert].edges[j].link \in 0..n
      /\ Kept(axis[Vert], axis[Vert])
  BY <1>3, PhaseFacts
<1>8. axis[Vert].edges = <<>> => n = 0
  OBVIOUS
<1> DEFINE a == axis[Vert]
           i == stage.at
<1>9. Kept(h, a) /\ (i \in 1..n => Clear(h.edges, i))
  <2>1. CASE a.edges = <<>>
    BY <1>7, <1>8, <2>1
  <2>2. CASE a.edges # <<>>
    <3>1. i \in 1..n
      BY <1>6, <1>7, <2>2
    <3>2. h = BlueEdge(How(Vert), Vert, a, i)
      BY <2>2
    <3> HIDE DEF a, i, h
    <3>3. AxisRec(a) /\ SomeEdges(a.edges) /\ i \in 1..Len(a.edges) /\ a.edges[i].link \in 0..Len(a.edges)
      BY <1>7, <3>1 DEF a
    <3> QED BY <3>2, <3>3, BlueEdgeKept
  <2> QED BY <2>1, <2>2
<1> HIDE DEF h
<1>10. TypeInv' /\ EdgesSettled' /\ NoZones' /\ axis'[Vert] = h /\ Moved(h.edges, axis[Vert].edges)
  BY <1>1, <1>2, <1>3, <1>5, <1>9, FitSound
<1>11. Len(h.edges) = n /\ SomeEdges(h.edges)
  BY <1>10 DEF Moved
<1>12. \A j \in 1..n : j < i + 1 => Clear(h.edges, j)
  <2> SUFFICES ASSUME NEW j \in 1..n, j < i + 1 PROVE Clear(h.edges, j)
    OBVIOUS
  <2>1. CASE j = i
    BY <1>9, <2>1
  <2>2. CASE j < i
    BY <1>6, <1>7, <1>10, <2>2, ClearStays
  <2> QED BY <1>6, <2>1, <2>2
<1>13. n = 0 => h.edges = <<>>
  BY <1>11, NoEdges
<1>14. EdgesInTurn'
  <2>1. CASE i < n
    BY <1>5, <1>6, <1>7, <1>10, <1>11, <1>12, <2>1 DEF EdgesInTurn
  <2>2. CASE ~(i < n)
    <3>1. \A j \in 1..n : Clear(h.edges, j)
      BY <1>6, <1>7, <1>12, <2>2
    <3>2. \A j \in 1..n : ~(j < 1)
      BY <1>7
    <3>3. h.edges = <<>> \/ 1 <= n
      BY <1>7, <1>13
    <3> QED BY <1>5, <1>10, <1>11, <2>2, <3>1, <3>2, <3>3 DEF EdgesInTurn
  <2> QED BY <2>1, <2>2
<1>15. StillEmpty' /\ PointsLoaded'
  <2>1. stage'.what \in {"blue", "stem"}
    BY <1>5
  <2> QED BY <2>1 DEF StillEmpty, PointsLoaded
<1> QED BY <1>10, <1>14, <1>15 DEF IInv

\* What a step of the second phase makes of the dimension.
LEMMA StemStep ==
  ASSUME IInv, HintStem
  PROVE  \E h : /\ axis' = [axis EXCEPT ![stage.dim] = h]
                /\ Kept(h, axis[stage.dim])
                /\ stage.at \in 1..Len(axis[stage.dim].edges) => Set(h.edges, stage.at)
<1> DEFINE d == stage.dim
           a == axis[d]
           i == stage.at
           n == Len(a.edges)
<1>1. d \in Dims /\ TypeInv
  BY DEF IInv, TypeInv
<1>2. /\ AxisRec(a) /\ SomeEdges(a.edges) /\ n \in Nat
      /\ \A j \in 1..n : a.edges[j].link \in 0..n
      /\ Kept(a, a)
  BY <1>1, PhaseFacts
<1>3. i \in Nat \ {0} /\ (a.edges = <<>> \/ i <= n) /\ (a.edges = <<>> => n = 0)
  <2>1. stage.what = "stem"
    BY DEF HintStem, Turn
  <2> QED BY <2>1 DEF IInv, TypeInv, EdgesInTurn
<1>4. ASSUME a.edges # <<>> => a.edges[i].done, axis' = axis
      PROVE  axis' = [axis EXCEPT ![d] = a] /\ (i \in 1..n => Set(a.edges, i))
  <2>1. axis = [axis EXCEPT ![d] = axis[d]]
    <3>1. axis = [c \in Dims |-> axis[c]]
      BY <1>1 DEF TypeInv
    <3> QED BY <1>1, <3>1
  <2>2. i \in 1..n => a.edges[i].done
    BY <1>3, <1>4
  <2> QED BY <1>4, <2>1, <2>2 DEF Set
<1>5. ASSUME a.edges # <<>>, a.edges[i].link = Nil, axis' = [axis EXCEPT ![d].rest = TRUE]
      PROVE  \E h : axis' = [axis EXCEPT ![d] = h] /\ Kept(h, a) /\ (i \in 1..n => Set(h.edges, i))
  <2> DEFINE yes == TRUE
             h == [a EXCEPT !.rest = yes]
  <2>1. axis' = [axis EXCEPT ![d] = h]
    BY <1>5, Zenon
  <2> HIDE DEF yes, a
  <2>2. AxisRec(h) /\ h.segs = a.segs /\ h.edges = a.edges
    BY <1>2, RestPut
  <2> HIDE DEF h
  <2>3. Kept(h, a)
    BY <1>2, <2>2, NotMoved DEF Kept
  <2>4. Set(h.edges, i)
    BY <1>5, <2>2 DEF Set
  <2> QED BY <2>1, <2>3, <2>4
<1>6. ASSUME a.edges # <<>>, NEW len,
             axis' = [axis EXCEPT ![d] = IF a.anchor = Nil THEN AnchorStem(How(d), d, a, i, len)
                                         ELSE RelativeStem(a, i, len, Downward(d))]
      PROVE  \E h : axis' = [axis EXCEPT ![d] = h] /\ Kept(h, a) /\ (i \in 1..n => Set(h.edges, i))
  <2> DEFINE h == IF a.anchor = Nil THEN AnchorStem(How(d), d, a, i, len) ELSE RelativeStem(a, i, len, Downward(d))
  <2>1. axis' = [axis EXCEPT ![d] = h]
    BY <1>6
  <2>2. i \in 1..n
    BY <1>2, <1>3, <1>6
  <2> HIDE DEF a, i, n, d
  <2>3. i \in 1..Len(a.edges)
    BY <2>2 DEF n
  <2>4. LET new == AnchorStem(How(d), d, a, i, len) IN Kept(new, a) /\ new.edges[i].done
    BY <1>2, <2>3, AnchorStemKept
  <2>5. LET new == RelativeStem(a, i, len, Downward(d)) IN Kept(new, a) /\ new.edges[i].done
    BY <1>2, <2>3, RelativeStemKept
  <2>6. Kept(h, a) /\ h.edges[i].done
    BY <2>4, <2>5
  <2> HIDE DEF h
  <2> QED BY <2>1, <2>6 DEF Set
<1>7. \/ (a.edges # <<>> => a.edges[i].done) /\ axis' = axis
      \/ a.edges # <<>> /\ a.edges[i].link = Nil /\ axis' = [axis EXCEPT ![d].rest = TRUE]
      \/ /\ a.edges # <<>>
         /\ \E len : axis' = [axis EXCEPT ![d] = IF a.anchor = Nil THEN AnchorStem(How(d), d, a, i, len)
                                                 ELSE RelativeStem(a, i, len, Downward(d))]
  BY Zenon DEF HintStem
<1> SUFFICES \E h : axis' = [axis EXCEPT ![d] = h] /\ Kept(h, a) /\ (i \in 1..n => Set(h.edges, i))
  OBVIOUS
<1> HIDE DEF a, i, n, d
<1> QED BY <1>2, <1>4, <1>5, <1>6, <1>7

\* After phase 2 every linked edge is placed.
LEMMA HintStemInv == IInv /\ HintStem => IInv'
<1> SUFFICES ASSUME IInv, HintStem PROVE IInv'
  OBVIOUS
<1>1. TypeInv /\ EdgesSettled /\ NoZones /\ EdgesInTurn
  BY DEF IInv
<1> DEFINE d == stage.dim
           i == stage.at
           old == axis[d].edges
           n == Len(old)
<1>2. PICK h : /\ axis' = [axis EXCEPT ![d] = h] /\ Kept(h, axis[d])
               /\ i \in 1..n => Set(h.edges, i)
  BY StemStep
<1>3. d \in Dims /\ i \in Nat \ {0} /\ "stem" \in Whats /\ "symmetry" \in Whats
  BY <1>1 DEF TypeInv, Whats
<1>4. Turn("stem", "symmetry")
  BY DEF HintStem
<1>5. /\ stage.what = "stem" /\ job' = job
      /\ stage' \in [what : Whats, dim : Dims, at : Nat \ {0}] /\ stage'.dim = d
      /\ i < n => stage'.what = "stem" /\ stage'.at = i + 1
      /\ ~(i < n) => stage'.what = "symmetry" /\ stage'.at = 1
  BY <1>1, <1>3, <1>4, NextTurn
<1>6. \A j \in 1..n : Clear(old, j) /\ (j < i => Set(old, j))
  BY <1>1, <1>5 DEF EdgesInTurn
<1>7. n \in Nat /\ \A j \in 1..n : old[j].link \in 0..n
  BY <1>3, PhaseFacts
<1>8. TypeInv' /\ EdgesSettled' /\ NoZones' /\ axis'[d] = h /\ Moved(h.edges, old)
  BY <1>1, <1>2, <1>3, <1>5, FitSound
<1> HIDE DEF d, i, old
<1>9. Len(h.edges) = n
  BY <1>8 DEF Moved
<1>10. \A j \in 1..n : Clear(h.edges, j)
  BY <1>6, <1>7, <1>8, ClearStays
<1>11. \A j \in 1..n : j < i + 1 => Set(h.edges, j)
  <2> SUFFICES ASSUME NEW j \in 1..n, j < i + 1 PROVE Set(h.edges, j)
    OBVIOUS
  <2>1. CASE j = i
    BY <1>2, <2>1
  <2>2. CASE j < i
    BY <1>6, <1>8, <2>2, SetStays
  <2> QED BY <1>3, <2>1, <2>2
<1>12. EdgesInTurn'
  <2>1. CASE i < n
    BY <1>3, <1>5, <1>7, <1>8, <1>9, <1>10, <1>11, <2>1 DEF EdgesInTurn
  <2>2. CASE ~(i < n)
    <3>1. \A j \in 1..n : Set(h.edges, j)
      BY <1>3, <1>7, <1>11, <2>2
    <3> QED BY <1>5, <1>8, <1>9, <2>2, <3>1 DEF EdgesInTurn
  <2> QED BY <2>1, <2>2
<1>13. StillEmpty' /\ PointsLoaded'
  <2>1. stage'.what \in {"stem", "symmetry"}
    BY <1>5
  <2> QED BY <2>1 DEF StillEmpty, PointsLoaded
<1> QED BY <1>8, <1>12, <1>13 DEF IInv

\* It stays placed in phase 3.
LEMMA HintSymmetryInv == IInv /\ HintSymmetry => IInv'
<1> SUFFICES ASSUME IInv, HintSymmetry PROVE IInv'
  OBVIOUS
<1>1. TypeInv /\ EdgesSettled /\ NoZones /\ EdgesInTurn
  BY DEF IInv
<1> DEFINE d == stage.dim
           old == axis[d].edges
           n == Len(old)
           h == IF d = Horz THEN Symmetry3(axis[d]) ELSE axis[d]
<1>2. stage.what = "symmetry" /\ job' = job /\ stage' = At("serif", d) /\ axis' = [axis EXCEPT ![d] = h]
  BY Zenon DEF HintSymmetry
<1>3. d \in Dims
  BY <1>1 DEF TypeInv
<1>4. /\ stage' \in [what : Whats, dim : Dims, at : Nat \ {0}] /\ stage'.dim = d
      /\ stage'.what = "serif" /\ stage'.at = 1
  BY <1>2, <1>3, Staged DEF Whats
<1>5. /\ AxisRec(axis[d]) /\ SomeEdges(axis[d].edges) /\ n \in Nat /\ Kept(axis[d], axis[d])
  BY <1>3, PhaseFacts
<1>6. Kept(h, axis[d])
  BY <1>5, Symmetry3Kept
<1>7. \A j \in 1..n : Set(old, j)
  BY <1>1, <1>2 DEF EdgesInTurn
<1> HIDE DEF h
<1>8. TypeInv' /\ EdgesSettled' /\ NoZones' /\ axis'[d] = h /\ Moved(h.edges, old)
  BY <1>1, <1>2, <1>3, <1>4, <1>6, FitSound
<1> HIDE DEF d, old
<1>9. Len(h.edges) = n /\ SomeEdges(h.edges)
  BY <1>8 DEF Moved
<1>10. \A j \in 1..n : Set(h.edges, j)
  BY <1>7, <1>8, SetStays
<1>11. h.edges = <<>> \/ 1 <= n
  BY <1>5, <1>9, NoEdges DEF old
<1>12. EdgesInTurn'
  BY <1>4, <1>8, <1>9, <1>10, <1>11 DEF EdgesInTurn
<1>13. StillEmpty' /\ PointsLoaded'
  BY <1>4 DEF StillEmpty, PointsLoaded
<1> QED BY <1>8, <1>12, <1>13 DEF IInv

\* And in phase 4.
LEMMA HintSerifInv == IInv /\ HintSerif => IInv'
<1> SUFFICES ASSUME IInv, HintSerif PROVE IInv'
  OBVIOUS
<1>1. TypeInv /\ EdgesSettled /\ NoZones /\ EdgesInTurn
  BY DEF IInv
<1> DEFINE d == stage.dim
           i == stage.at
           old == axis[d].edges
           n == Len(old)
           h == IF axis[d].edges = <<>> \/ ~(axis[d].rest \/ axis[d].anchor = Nil) THEN axis[d]
                ELSE SerifEdge(pts, axis[d].segs, axis[d], stage.at)
<1>2. axis' = [axis EXCEPT ![d] = h] /\ Turn("serif", "edge_points")
  BY Zenon DEF HintSerif
<1>3. d \in Dims /\ i \in Nat \ {0} /\ "serif" \in Whats /\ "edge_points" \in Whats
  BY <1>1 DEF TypeInv, Whats
<1>4. /\ stage.what = "serif" /\ job' = job
      /\ stage' \in [what : Whats, dim : Dims, at : Nat \ {0}] /\ stage'.dim = d
      /\ i < n => stage'.what = "serif" /\ stage'.at = i + 1
      /\ ~(i < n) => stage'.what = "edge_points" /\ stage'.at = 1
  BY <1>1, <1>2, <1>3, NextTurn
<1>5. /\ AxisRec(axis[d]) /\ SomeEdges(axis[d].edges) /\ n \in Nat /\ Kept(axis[d], axis[d])
  BY <1>3, PhaseFacts
<1>6. Kept(h, axis[d])
  <2>1. Kept(SerifEdge(pts, axis[d].segs, axis[d], stage.at), axis[d])
    BY <1>5, SerifEdgeKept
  <2> QED BY <1>5, <2>1
<1>7. \A j \in 1..n : Set(old, j)
  BY <1>1, <1>4 DEF EdgesInTurn
<1> HIDE DEF h
<1>8. TypeInv' /\ EdgesSettled' /\ NoZones' /\ axis'[d] = h /\ Moved(h.edges, old)
  BY <1>1, <1>2, <1>3, <1>4, <1>6, FitSound
<1> HIDE DEF d, old, i
<1>9. Len(h.edges) = n
  BY <1>8 DEF Moved
<1>10. \A j \in 1..n : Set(h.edges, j)
  BY <1>7, <1>8, SetStays
<1>11. EdgesInTurn'
  <2>1. CASE i < n
    BY <1>3, <1>4, <1>5, <1>8, <1>9, <1>10, <2>1 DEF EdgesInTurn
  <2>2. CASE ~(i < n)
    BY <1>4, <1>8, <2>2 DEF EdgesInTurn
  <2> QED BY <2>1, <2>2
<1>12. StillEmpty' /\ PointsLoaded'
  <2>1. stage'.what \in {"serif", "edge_points"}
    BY <1>4
  <2> QED BY <2>1 DEF StillEmpty, PointsLoaded
<1> QED BY <1>8, <1>11, <1>12 DEF IInv

\* The stages after the edges are placed leave the edges alone.
LEMMA PointsMoved ==
  ASSUME IInv, axis' = axis, job' = job, NEW what \in Whats, NEW d \in Dims, stage' = At(what, d),
         what \in {"strong_points", "weak_points", "phantom", "done"} \/ (what = "blue" /\ d = Vert)
  PROVE  IInv'
<1>1. TypeInv /\ EdgesSettled /\ NoZones
  BY DEF IInv
<1>2. /\ stage' \in [what : Whats, dim : Dims, at : Nat \ {0}]
      /\ stage'.what = what /\ stage'.dim = d /\ stage'.at = 1
  BY Staged
<1>3. /\ axis' = [c \in Dims |-> axis'[c]] /\ \A c \in Dims : AxisSound(axis'[c])
      /\ EdgesSettled' /\ NoZones'
  BY <1>1, AxisStays
<1>4. TypeInv'
  BY <1>1, <1>2, <1>3 DEF TypeInv
<1>5. LET n == Len(axis[d].edges)
      IN n \in Nat /\ (n = 0 => axis[d].edges = <<>>)
  BY PhaseFacts
<1>6. EdgesInTurn'
  <2>1. CASE what = "blue" /\ d = Vert
    BY <1>2, <1>5, <2>1 DEF EdgesInTurn
  <2>2. CASE what \in {"strong_points", "weak_points", "phantom", "done"}
    BY <1>2, <2>2 DEF EdgesInTurn
  <2> QED BY <2>1, <2>2
<1>7. StillEmpty' /\ PointsLoaded'
  BY <1>2 DEF StillEmpty, PointsLoaded
<1> QED BY <1>3, <1>4, <1>6, <1>7 DEF IInv

\* Points follow the edges.
LEMMA AlignInv == IInv /\ Align => IInv'
<1> SUFFICES ASSUME IInv, Align PROVE IInv'
  OBVIOUS
<1>1. axis' = axis /\ job' = job /\ stage.dim \in Dims
  BY DEF Align, IInv, TypeInv
<1>2. \/ stage' = At("strong_points", stage.dim)
      \/ stage' = At("weak_points", stage.dim)
      \/ stage' = At("blue", Vert)
      \/ stage' = At("phantom", Horz)
  BY Zenon DEF Align
<1>3. {"strong_points", "weak_points", "phantom", "blue"} \subseteq Whats
  BY DEF Whats
<1>4. CASE stage' = At("strong_points", stage.dim)
  BY <1>1, <1>3, <1>4, PointsMoved
<1>5. CASE stage' = At("weak_points", stage.dim)
  BY <1>1, <1>3, <1>5, PointsMoved
<1>6. CASE stage' = At("blue", Vert)
  BY <1>1, <1>3, <1>6, PointsMoved, DimsAre
<1>7. CASE stage' = At("phantom", Horz)
  BY <1>1, <1>3, <1>7, PointsMoved, DimsAre
<1> QED BY <1>2, <1>4, <1>5, <1>6, <1>7

\* The glyph is moved to the origin.
LEMMA PhantomInv == IInv /\ Phantom => IInv'
<1> SUFFICES ASSUME IInv, Phantom PROVE IInv'
  OBVIOUS
<1>1. axis' = axis /\ job' = job /\ stage' = At("done", Horz)
  BY DEF Phantom
<1>2. "done" \in Whats
  BY DEF Whats
<1> QED BY <1>1, <1>2, PointsMoved, DimsAre

\* Every step keeps the invariant.
LEMMA NextInv == IInv /\ [Next]_vars => IInv'
<1> SUFFICES ASSUME IInv, [Next]_vars PROVE IInv'
  OBVIOUS
<1>1. CASE Standard
  BY <1>1, StandardInv
<1>2. CASE Widths
  BY <1>2, WidthsInv
<1>3. CASE Load
  BY <1>3, LoadInv
<1>4. CASE Segments
  BY <1>4, SegmentsInv
<1>5. CASE Link
  BY <1>5, LinkInv
<1>6. CASE Edges
  BY <1>6, EdgesInv
<1>7. CASE Zones
  BY <1>7, ZonesInv
<1>8. CASE HintBlue
  BY <1>8, HintBlueInv
<1>9. CASE HintStem
  BY <1>9, HintStemInv
<1>10. CASE HintSymmetry
  BY <1>10, HintSymmetryInv
<1>11. CASE HintSerif
  BY <1>11, HintSerifInv
<1>12. CASE Align
  BY <1>12, AlignInv
<1>13. CASE Phantom
  BY <1>13, PhantomInv
<1>14. CASE UNCHANGED vars
  <2>1. job' = job /\ axis' = axis /\ stage' = stage /\ pts' = pts
    BY <1>14 DEF vars
  <2>2. TypeInv' /\ EdgesSettled' /\ NoZones'
    BY <2>1 DEF IInv, TypeInv, EdgesSettled, NoZones, Downward
  <2>3. StillEmpty' /\ PointsLoaded' /\ EdgesInTurn'
    BY <2>1 DEF IInv, StillEmpty, PointsLoaded, EdgesInTurn
  <2> QED BY <2>2, <2>3 DEF IInv
<1> QED BY <1>1, <1>2, <1>3, <1>4, <1>5, <1>6, <1>7, <1>8, <1>9, <1>10, <1>11, <1>12, <1>13, <1>14 DEF Next

-----------------------------------------------------------------------------

\* A segment is listed once, or not at all.
LEMMA ListedOnce ==
  ASSUME NEW ax, SomeSegs(ax.segs), SomeEdges(ax.edges), Listed(ax),
         NEW s \in 1..Len(ax.segs), NEW e \in 1..Len(ax.edges)
  PROVE  Cardinality({k \in DOMAIN ax.edges[e].segs : ax.edges[e].segs[k] = s})
           = (IF ax.segs[s].edge = e THEN 1 ELSE 0)
<1> DEFINE list == ax.edges[e].segs
           K == {k \in DOMAIN list : list[k] = s}
<1>1. list \in Seq(Nat)
  <2>1. SomeEdge(ax.edges[e])
    BY EdgesTyped
  <2> QED BY <2>1 DEF SomeEdge, EdgeRecs
<1>2. DOMAIN list = 1..Len(list)
  BY <1>1
<1>3. /\ \A k \in 1..Len(list) : /\ list[k] \in 1..Len(ax.segs) /\ ax.segs[list[k]].edge = e
                                 /\ \A j \in 1..Len(list) : list[k] = list[j] => k = j
      /\ ax.segs[s].edge = e => \E k \in 1..Len(list) : list[k] = s
  <2>1. 1..Len(ax.edges) \subseteq Nat \ {0}
    BY DEF SomeEdges
  <2>2. e # Nil
    BY <2>1 DEF Nil
  <2> QED BY <2>2 DEF Listed
<1> HIDE DEF list
<1>4. CASE ax.segs[s].edge = e
  <2>1. PICK k \in 1..Len(list) : list[k] = s
    BY <1>3, <1>4
  <2>2. K = {k}
    BY <1>2, <1>3, <2>1
  <2>3. Cardinality({k}) = 1
    BY FS_Singleton
  <2> QED BY <1>4, <2>2, <2>3 DEF list
<1>5. CASE ax.segs[s].edge # e
  <2>1. K = {}
    BY <1>2, <1>3, <1>5
  <2>2. Cardinality({}) = 0
    BY FS_EmptySet
  <2> QED BY <1>5, <2>1, <2>2 DEF list
<1> QED BY <1>4, <1>5

\* EdgesSound is a part of it.
LEMMA SoundEdges == IInv => EdgesSound
<1> SUFFICES ASSUME IInv PROVE EdgesSound
  OBVIOUS
<1> SUFFICES ASSUME NEW d \in Dims
             PROVE  LET ax == axis[d]
                        E == DOMAIN ax.edges
                    IN /\ ax.edges # <<>> =>
                            \A s \in DOMAIN ax.segs, e \in E :
                              Cardinality({k \in DOMAIN ax.edges[e].segs : ax.edges[e].segs[k] = s})
                                = (IF ax.segs[s].edge = e THEN 1 ELSE 0)
                       /\ \A e, f \in E : e < f => IF Downward(d) THEN ax.edges[e].fpos >= ax.edges[f].fpos
                                                   ELSE ax.edges[e].fpos <= ax.edges[f].fpos
                       /\ \A e \in E : \A f \in {ax.edges[e].link, ax.edges[e].serif} : f = Nil \/ f \in E \ {e}
  BY DEF EdgesSound
<1> DEFINE ax == axis[d]
           E == DOMAIN ax.edges
<1>1. SomeSegs(ax.segs) /\ SomeEdges(ax.edges) /\ Settled(ax, Downward(d))
  BY DEF IInv, TypeInv, AxisSound, EdgesSettled
<1>2. DOMAIN ax.segs = 1..Len(ax.segs)
  BY <1>1 DEF SomeSegs
<1>3. E = 1..Len(ax.edges) /\ Len(ax.edges) \in Nat
  BY <1>1, EdgesTyped
<1>4. \A s \in DOMAIN ax.segs, e \in E :
        Cardinality({k \in DOMAIN ax.edges[e].segs : ax.edges[e].segs[k] = s})
          = (IF ax.segs[s].edge = e THEN 1 ELSE 0)
  BY <1>1, <1>2, <1>3, ListedOnce DEF Settled
<1>5. \A e, f \in E : e < f => IF Downward(d) THEN ax.edges[e].fpos >= ax.edges[f].fpos
                               ELSE ax.edges[e].fpos <= ax.edges[f].fpos
  BY <1>1, <1>3 DEF Settled, SortedDown, SortedUp
<1>6. \A e \in E : \A f \in {ax.edges[e].link, ax.edges[e].serif} : f = Nil \/ f \in E \ {e}
  BY <1>1, <1>3 DEF Settled, Nil
<1> QED BY <1>4, <1>5, <1>6

\* So is EdgesPlaced.
LEMMA PlacedEdges == IInv => EdgesPlaced
<1> SUFFICES ASSUME IInv PROVE EdgesPlaced
  OBVIOUS
<1> DEFINE E == axis[stage.dim].edges
<1>1. SomeEdges(E)
  BY DEF IInv, TypeInv, AxisSound
<1>2. DOMAIN E = 1..Len(E)
  BY <1>1, EdgesTyped
<1>3. stage.what = "stem" => \A i \in DOMAIN E : ~E[i].done /\ E[i].link # Nil => E[E[i].link].blue = {}
  BY <1>2 DEF IInv, EdgesInTurn, Clear
<1>4. stage.what = "serif" => \A i \in DOMAIN E : E[i].link # Nil => E[i].done
  BY <1>2 DEF IInv, EdgesInTurn, Set
<1> QED BY <1>3, <1>4 DEF EdgesPlaced

\* What holds of segments, edges and stages at every stage (hint_edges).
THEOREM HintingInvariant == Spec => []IInv
<1>1. Init => IInv
  BY InitInv
<1>2. IInv /\ [Next]_vars => IInv'
  BY NextInv
<1> QED BY <1>1, <1>2, PTL DEF Spec

\* compute_edges: each segment is listed by the edge it names and by no other,
\* edges are in the order of their positions and lead to other edges, in all
\* stages.
THEOREM EdgesStaySound == Spec => []EdgesSound
<1>1. IInv => EdgesSound
  BY SoundEdges
<1> QED BY <1>1, HintingInvariant, PTL

\* When a phase of hint_edges places an edge, what it relies on holds: no edge
\* waits for one in a zone when stems are placed, and every linked edge is
\* placed when serifs are.
THEOREM EdgesStayPlaced == Spec => []EdgesPlaced
<1>1. IInv => EdgesPlaced
  BY PlacedEdges
<1> QED BY <1>1, HintingInvariant, PTL
=============================================================================
