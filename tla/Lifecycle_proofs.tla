-------------------------- MODULE Lifecycle_proofs --------------------------
(***************************************************************************)
(* Proofs about Lifecycle: whatever the numbers of libraries, faces,       *)
(* streams and glyphs, and however the program's callbacks nest, streams   *)
(* and blocks are given back once, a face that lives is destroyed once,    *)
(* with its last reference or with its library.                            *)
(***************************************************************************)
EXTENDS Lifecycle, SeqLemmas, FiniteSetTheorems

-----------------------------------------------------------------------------
(* What is being destroyed *)

\* Dying and Dropping of a stack s.
InLeft(s, f) == \E k \in DOMAIN s : f \in ToSet(s[k].left)
Ends(s, l) == \E k \in DOMAIN s : s[k].lib = l

\* A face waits at one place only.
LeftOnce(s) ==
  \A k, m \in DOMAIN s : \A i \in DOMAIN s[k].left, j \in DOMAIN s[m].left :
    s[k].left[i] = s[m].left[j] => k = m /\ i = j

\* FT_Done_Face has its one face; a library is dropped once.
Shaped(s) == \A k \in DOMAIN s : s[k].lib = NoLib => \E f \in Face : s[k].left = <<f>>
EndsOnce(s) == \A k, m \in DOMAIN s : s[k].lib = s[m].lib /\ s[k].lib # NoLib => k = m

\* A library that is dropped is not live, and keeps no custom block for good.
Owes(s, lv, cu) ==
  \A k \in DOMAIN s : s[k].lib # NoLib => s[k].lib \notin lv /\ (s[k].free \/ ~cu[s[k].lib])

Sound(s) == LeftOnce(s) /\ Shaped(s) /\ EndsOnce(s)

LEMMA EndingType ==
  ASSUME NEW c \in Ending
  PROVE  /\ c.lib \in Lib \union {NoLib} /\ c.free \in BOOLEAN /\ c.left \in Seq(Face)
         /\ NoLib \notin Lib
         /\ DOMAIN c.left = 1..Len(c.left)
         /\ \A f : f \in ToSet(c.left) <=> \E i \in DOMAIN c.left : c.left[i] = f
         /\ ToSet(c.left) \subseteq Face
<1>1. c.lib \in Lib \union {NoLib} /\ c.free \in BOOLEAN /\ c.left \in Seq(Face) /\ NoLib \notin Lib
  BY LifeAssumption DEF Ending
<1> QED BY <1>1 DEF ToSet

\* A call begins to destroy faces that no other call destroys.
LEMMA EndingPushed ==
  ASSUME NEW s \in Seq(Ending), NEW c \in Ending, Sound(s),
         \A i, j \in DOMAIN c.left : c.left[i] = c.left[j] => i = j,
         \A f \in ToSet(c.left) : ~InLeft(s, f),
         c.lib = NoLib => \E f \in Face : c.left = <<f>>,
         c.lib # NoLib => ~Ends(s, c.lib)
  PROVE  LET t == <<c>> \o s IN
         /\ t \in Seq(Ending) /\ Sound(t)
         /\ \A f : InLeft(t, f) <=> InLeft(s, f) \/ f \in ToSet(c.left)
         /\ \A l : Ends(t, l) <=> Ends(s, l) \/ c.lib = l
         /\ \A k \in DOMAIN t : t[k] = c \/ \E m \in DOMAIN s : t[k] = s[m]
<1> DEFINE t == <<c>> \o s
<1>1. /\ t \in Seq(Ending) /\ DOMAIN t = 1..(Len(s) + 1) /\ t[1] = c /\ Len(s) \in Nat
      /\ \A k \in DOMAIN s : k + 1 \in DOMAIN t /\ t[k + 1] = s[k]
      /\ \A k \in DOMAIN t : k # 1 => k - 1 \in DOMAIN s /\ t[k] = s[k - 1]
  BY Stacked
<1> HIDE DEF t
<1>2. 1 \in DOMAIN t /\ \A k \in DOMAIN t : k \in Int
  BY <1>1
<1>3. \A f : InLeft(t, f) <=> InLeft(s, f) \/ f \in ToSet(c.left)
  BY <1>1, <1>2 DEF InLeft
<1>4. \A l : Ends(t, l) <=> Ends(s, l) \/ c.lib = l
  <2> SUFFICES ASSUME NEW l PROVE Ends(t, l) <=> Ends(s, l) \/ c.lib = l
    OBVIOUS
  <2>1. ASSUME NEW k \in DOMAIN t, t[k].lib = l PROVE Ends(s, l) \/ c.lib = l
    BY <1>1, <2>1 DEF Ends
  <2>2. ASSUME NEW k \in DOMAIN s, s[k].lib = l PROVE Ends(t, l)
    <3>1. k + 1 \in DOMAIN t /\ t[k + 1].lib = l
      BY <1>1, <2>2
    <3> QED BY <3>1 DEF Ends
  <2>3. ASSUME c.lib = l PROVE Ends(t, l)
    BY <1>1, <1>2, <2>3 DEF Ends
  <2> QED BY <2>1, <2>2, <2>3 DEF Ends
<1>5. \A k \in DOMAIN t : t[k] = c \/ \E m \in DOMAIN s : t[k] = s[m]
  BY <1>1
<1>6. LeftOnce(t)
  <2> SUFFICES ASSUME NEW k \in DOMAIN t, NEW m \in DOMAIN t,
                      NEW i \in DOMAIN t[k].left, NEW j \in DOMAIN t[m].left,
                      t[k].left[i] = t[m].left[j]
               PROVE  k = m /\ i = j
    BY DEF LeftOnce
  <2>1. CASE k = 1 /\ m = 1
    BY <1>1, <2>1
  <2>2. CASE k = 1 /\ m # 1
    <3>1. m - 1 \in DOMAIN s /\ t[m] = s[m - 1] /\ t[k] = c /\ s[m - 1] \in Ending
      BY <1>1, <2>2
    <3>2. c.left[i] \in ToSet(c.left) /\ s[m - 1].left[j] \in ToSet(s[m - 1].left)
      BY <3>1 DEF ToSet
    <3> QED BY <3>1, <3>2 DEF InLeft
  <2>3. CASE k # 1 /\ m = 1
    <3>1. k - 1 \in DOMAIN s /\ t[k] = s[k - 1] /\ t[m] = c /\ s[k - 1] \in Ending
      BY <1>1, <2>3
    <3>2. c.left[j] \in ToSet(c.left) /\ s[k - 1].left[i] \in ToSet(s[k - 1].left)
      BY <3>1 DEF ToSet
    <3> QED BY <3>1, <3>2 DEF InLeft
  <2>4. CASE k # 1 /\ m # 1
    <3>1. k - 1 \in DOMAIN s /\ t[k] = s[k - 1] /\ m - 1 \in DOMAIN s /\ t[m] = s[m - 1]
      BY <1>1, <2>4
    <3>2. k - 1 = m - 1 /\ i = j
      BY <3>1 DEF Sound, LeftOnce
    <3> QED BY <1>2, <3>2
  <2> QED BY <2>1, <2>2, <2>3, <2>4
<1>7. Shaped(t)
  BY <1>5 DEF Sound, Shaped
<1>8. EndsOnce(t)
  <2> SUFFICES ASSUME NEW k \in DOMAIN t, NEW m \in DOMAIN t, t[k].lib = t[m].lib, t[k].lib # NoLib
               PROVE  k = m
    BY DEF EndsOnce
  <2>1. CASE k = 1 \/ m = 1
    BY <1>1, <2>1 DEF Ends
  <2>2. CASE k # 1 /\ m # 1
    <3>1. k - 1 \in DOMAIN s /\ t[k] = s[k - 1] /\ m - 1 \in DOMAIN s /\ t[m] = s[m - 1]
      BY <1>1, <2>2
    <3>2. k - 1 = m - 1
      BY <3>1 DEF Sound, EndsOnce
    <3> QED BY <1>2, <3>2
  <2> QED BY <2>1, <2>2
<1> QED BY <1>1, <1>3, <1>4, <1>5, <1>6, <1>7, <1>8 DEF t, Sound

\* The stack once the innermost call has destroyed the first of its faces.
Advanced(s) == IF Head(s).lib = NoLib THEN Tail(s) ELSE [s EXCEPT ![1].left = Tail(@)]

LEMMA FaceEnded ==
  ASSUME NEW s \in Seq(Ending), Sound(s), s # <<>>, Head(s).left # <<>>,
         NEW t, t = Advanced(s)
  PROVE  LET f == Head(Head(s).left) IN
         /\ f \in Face /\ InLeft(s, f)
         /\ t \in Seq(Ending) /\ Sound(t)
         /\ \A g : InLeft(t, g) <=> InLeft(s, g) /\ g # f
         /\ \A l \in Lib : Ends(t, l) <=> Ends(s, l)
         /\ \A k \in DOMAIN t : t[k].lib # NoLib =>
              \E m \in DOMAIN s : t[k].lib = s[m].lib /\ t[k].free = s[m].free
<1> DEFINE c == Head(s)
           f == Head(c.left)
<1>1. /\ Tail(s) \in Seq(Ending) /\ 1 \in DOMAIN s /\ c = s[1] /\ c \in Ending
      /\ \A k \in DOMAIN Tail(s) : k + 1 \in DOMAIN s /\ Tail(s)[k] = s[k + 1] /\ k \in Nat \ {0}
      /\ \A k \in DOMAIN s : k # 1 => k - 1 \in DOMAIN Tail(s) /\ Tail(s)[k - 1] = s[k] /\ k \in Nat
  BY Unstacked
<1>2. c.left \in Seq(Face) /\ c.left # <<>>
  BY <1>1, EndingType
<1>3. /\ f \in Face /\ Tail(c.left) \in Seq(Face) /\ 1 \in DOMAIN c.left /\ f = c.left[1]
      /\ \A k \in DOMAIN Tail(c.left) :
           k + 1 \in DOMAIN c.left /\ Tail(c.left)[k] = c.left[k + 1] /\ k \in Nat \ {0}
      /\ ToSet(c.left) = ToSet(Tail(c.left)) \union {f}
  BY <1>2, Unstacked, UnstackedSet
<1>4. f \notin ToSet(Tail(c.left))
  <2> SUFFICES ASSUME NEW k \in DOMAIN Tail(c.left), Tail(c.left)[k] = f
               PROVE  FALSE
    BY DEF ToSet
  <2>1. k + 1 \in DOMAIN c.left /\ c.left[k + 1] = c.left[1] /\ k \in Nat \ {0}
    BY <1>3
  <2>2. k + 1 = 1
    BY <1>1, <1>3, <2>1 DEF Sound, LeftOnce
  <2> QED BY <2>1, <2>2
<1>5. ASSUME NEW k \in DOMAIN s, k # 1
      PROVE  f \notin ToSet(s[k].left)
  <2> SUFFICES ASSUME NEW j \in DOMAIN s[k].left, s[k].left[j] = f
               PROVE  FALSE
    <3>1. s[k].left \in Seq(Face)
      BY EndingType
    <3> QED BY <3>1 DEF ToSet
  <2> QED BY <1>1, <1>3, <1>5 DEF Sound, LeftOnce
<1>6. InLeft(s, f)
  BY <1>1, <1>3 DEF InLeft
<1>7. CASE c.lib = NoLib
  <2>1. t = Tail(s)
    BY <1>7 DEF Advanced
  <2>2. c.left = <<f>>
    BY <1>1, <1>3, <1>7 DEF Sound, Shaped
  <2>3. ToSet(c.left) = {f}
    BY <2>2, OneEntry
  <2>4. \A g : InLeft(t, g) <=> InLeft(s, g) /\ g # f
    <3> SUFFICES ASSUME NEW g PROVE InLeft(t, g) <=> InLeft(s, g) /\ g # f
      OBVIOUS
    <3>1. ASSUME InLeft(t, g) PROVE InLeft(s, g) /\ g # f
      <4>1. PICK k \in DOMAIN Tail(s) : g \in ToSet(Tail(s)[k].left)
        BY <2>1, <3>1 DEF InLeft
      <4>2. k + 1 \in DOMAIN s /\ g \in ToSet(s[k + 1].left) /\ k + 1 # 1
        BY <1>1, <4>1
      <4> QED BY <1>5, <4>2 DEF InLeft
    <3>2. ASSUME InLeft(s, g), g # f PROVE InLeft(t, g)
      <4>1. PICK k \in DOMAIN s : g \in ToSet(s[k].left)
        BY <3>2 DEF InLeft
      <4>2. k # 1
        BY <1>1, <2>3, <3>2, <4>1
      <4> QED BY <1>1, <2>1, <4>1, <4>2 DEF InLeft
    <3> QED BY <3>1, <3>2
  <2>5. \A l \in Lib : Ends(t, l) <=> Ends(s, l)
    <3> SUFFICES ASSUME NEW l \in Lib PROVE Ends(t, l) <=> Ends(s, l)
      OBVIOUS
    <3>1. ASSUME NEW k \in DOMAIN s, s[k].lib = l PROVE Ends(t, l)
      <4>1. k # 1
        BY <1>1, <1>7, <3>1, LifeAssumption
      <4> QED BY <1>1, <2>1, <3>1, <4>1 DEF Ends
    <3> QED BY <1>1, <2>1, <3>1 DEF Ends
  <2>6. Sound(t)
    <3> SUFFICES LeftOnce(t) /\ Shaped(t) /\ EndsOnce(t)
      BY DEF Sound
    <3>1. LeftOnce(t)
      <4> SUFFICES ASSUME NEW k \in DOMAIN t, NEW m \in DOMAIN t,
                          NEW i \in DOMAIN t[k].left, NEW j \in DOMAIN t[m].left,
                          t[k].left[i] = t[m].left[j]
                   PROVE  k = m /\ i = j
        BY DEF LeftOnce
      <4>1. k + 1 \in DOMAIN s /\ t[k] = s[k + 1] /\ m + 1 \in DOMAIN s /\ t[m] = s[m + 1] /\ k \in Nat /\ m \in Nat
        BY <1>1, <2>1
      <4>2. /\ i \in DOMAIN s[k + 1].left /\ j \in DOMAIN s[m + 1].left
            /\ s[k + 1].left[i] = s[m + 1].left[j]
        BY <4>1
      <4>3. k + 1 = m + 1 /\ i = j
        BY <4>1, <4>2 DEF Sound, LeftOnce
      <4> QED BY <4>1, <4>3
    <3>2. Shaped(t)
      BY <1>1, <2>1 DEF Sound, Shaped
    <3>3. EndsOnce(t)
      <4> SUFFICES ASSUME NEW k \in DOMAIN t, NEW m \in DOMAIN t, t[k].lib = t[m].lib, t[k].lib # NoLib
                   PROVE  k = m
        BY DEF EndsOnce
      <4>1. k + 1 \in DOMAIN s /\ t[k] = s[k + 1] /\ m + 1 \in DOMAIN s /\ t[m] = s[m + 1] /\ k \in Nat /\ m \in Nat
        BY <1>1, <2>1
      <4>2. k + 1 = m + 1
        BY <4>1 DEF Sound, EndsOnce
      <4> QED BY <4>1, <4>2
    <3> QED BY <3>1, <3>2, <3>3
  <2> QED BY <1>1, <1>3, <1>6, <2>1, <2>4, <2>5, <2>6
<1>8. CASE c.lib # NoLib
  <2> DEFINE d == [c EXCEPT !.left = Tail(c.left)]
  <2>1. d \in Ending /\ d.lib = c.lib /\ d.free = c.free /\ d.left = Tail(c.left)
    BY <1>1, <1>3 DEF Ending
  <2>2. t = [s EXCEPT ![1] = d]
    BY <1>1, <1>8 DEF Advanced
  <2> HIDE DEF d
  <2>3. t \in Seq(Ending) /\ DOMAIN t = DOMAIN s /\ t[1] = d /\ \A k \in DOMAIN s \ {1} : t[k] = s[k]
    <3> DEFINE u == [s EXCEPT ![1] = d]
    <3>1. u \in Seq(Ending) /\ DOMAIN u = DOMAIN s /\ u[1] = d /\ \A k \in DOMAIN s \ {1} : u[k] = s[k]
      BY <1>1, <2>1, Replaced
    <3>2. t = u
      BY <2>2
    <3> HIDE DEF u
    <3> QED BY <3>1, <3>2
  <2>4. \A g : InLeft(t, g) <=> InLeft(s, g) /\ g # f
    <3> SUFFICES ASSUME NEW g PROVE InLeft(t, g) <=> InLeft(s, g) /\ g # f
      OBVIOUS
    <3>1. ASSUME NEW k \in DOMAIN s PROVE g \in ToSet(t[k].left) <=> g \in ToSet(s[k].left) /\ g # f
      <4>1. CASE k = 1
        BY <1>1, <1>3, <1>4, <2>1, <2>3, <4>1
      <4>2. CASE k # 1
        BY <1>5, <2>3, <4>2
      <4> QED BY <4>1, <4>2
    <3> QED BY <2>3, <3>1 DEF InLeft
  <2>5. \A k \in DOMAIN s : t[k].lib = s[k].lib /\ t[k].free = s[k].free
    BY <1>1, <2>1, <2>3
  <2>6. \A l \in Lib : Ends(t, l) <=> Ends(s, l)
    BY <2>3, <2>5 DEF Ends
  <2>7. LeftOnce(t)
    <3> SUFFICES ASSUME NEW k \in DOMAIN s, NEW m \in DOMAIN s,
                        NEW i \in DOMAIN t[k].left, NEW j \in DOMAIN t[m].left,
                        t[k].left[i] = t[m].left[j]
                 PROVE  k = m /\ i = j
      BY <2>3 DEF LeftOnce
    <3>1. CASE k = 1 /\ m = 1
      <4>1. /\ i + 1 \in DOMAIN c.left /\ t[k].left[i] = c.left[i + 1] /\ i \in Nat
            /\ j + 1 \in DOMAIN c.left /\ t[m].left[j] = c.left[j + 1] /\ j \in Nat
        BY <1>3, <2>1, <2>3, <3>1
      <4>2. s[1].left[i + 1] = s[1].left[j + 1]
        BY <1>1, <4>1
      <4>3. i + 1 = j + 1
        BY <1>1, <4>1, <4>2 DEF Sound, LeftOnce
      <4> QED BY <3>1, <4>1, <4>3
    <3>2. CASE k = 1 /\ m # 1
      <4>1. i + 1 \in DOMAIN c.left /\ t[k].left[i] = c.left[i + 1] /\ t[m] = s[m]
        BY <1>3, <2>1, <2>3, <3>2
      <4> QED BY <1>1, <3>2, <4>1 DEF Sound, LeftOnce
    <3>3. CASE k # 1 /\ m = 1
      <4>1. j + 1 \in DOMAIN c.left /\ t[m].left[j] = c.left[j + 1] /\ t[k] = s[k]
        BY <1>3, <2>1, <2>3, <3>3
      <4> QED BY <1>1, <3>3, <4>1 DEF Sound, LeftOnce
    <3>4. CASE k # 1 /\ m # 1
      BY <2>3, <3>4 DEF Sound, LeftOnce
    <3> QED BY <3>1, <3>2, <3>3, <3>4
  <2>8. Shaped(t)
    BY <1>1, <1>8, <2>1, <2>3, <2>5 DEF Sound, Shaped
  <2>9. EndsOnce(t)
    BY <2>3, <2>5 DEF Sound, EndsOnce
  <2> QED BY <1>3, <1>6, <2>3, <2>4, <2>5, <2>6, <2>7, <2>8, <2>9 DEF Sound
<1> QED BY <1>7, <1>8

\* The innermost call has dropped its library.
LEMMA LibraryEnded ==
  ASSUME NEW s \in Seq(Ending), Sound(s), s # <<>>, Head(s).left = <<>>, Head(s).lib # NoLib
  PROVE  /\ Tail(s) \in Seq(Ending) /\ Sound(Tail(s))
         /\ Head(s).lib \in Lib /\ Ends(s, Head(s).lib) /\ 1 \in DOMAIN s /\ Head(s) = s[1]
         /\ \A g : InLeft(Tail(s), g) <=> InLeft(s, g)
         /\ \A l \in Lib : Ends(Tail(s), l) <=> Ends(s, l) /\ l # Head(s).lib
         /\ \A k \in DOMAIN Tail(s) : \E m \in DOMAIN s : m # 1 /\ Tail(s)[k] = s[m]
<1> DEFINE c == Head(s)
           t == Tail(s)
<1>1. /\ t \in Seq(Ending) /\ 1 \in DOMAIN s /\ c = s[1] /\ c \in Ending
      /\ \A k \in DOMAIN t : k + 1 \in DOMAIN s /\ t[k] = s[k + 1] /\ k \in Nat \ {0}
      /\ \A k \in DOMAIN s : k # 1 => k - 1 \in DOMAIN t /\ t[k - 1] = s[k] /\ k \in Nat
  BY Unstacked
<1>2. c.lib \in Lib /\ ToSet(c.left) = {}
  BY <1>1, EndingType, NoElements
<1> HIDE DEF t, c
<1>3. \A k \in DOMAIN t : \E m \in DOMAIN s : m # 1 /\ t[k] = s[m]
  BY <1>1
<1>4. \A g : InLeft(t, g) <=> InLeft(s, g)
  <2> SUFFICES ASSUME NEW g PROVE InLeft(t, g) <=> InLeft(s, g)
    OBVIOUS
  <2>1. ASSUME NEW k \in DOMAIN s, g \in ToSet(s[k].left) PROVE InLeft(t, g)
    <3>1. k # 1
      BY <1>1, <1>2, <2>1
    <3> QED BY <1>1, <2>1, <3>1 DEF InLeft
  <2> QED BY <1>3, <2>1 DEF InLeft
<1>5. \A l \in Lib : Ends(t, l) <=> Ends(s, l) /\ l # c.lib
  <2> SUFFICES ASSUME NEW l \in Lib PROVE Ends(t, l) <=> Ends(s, l) /\ l # c.lib
    OBVIOUS
  <2>1. ASSUME Ends(t, l) PROVE Ends(s, l) /\ l # c.lib
    <3>1. PICK m \in DOMAIN s : m # 1 /\ s[m].lib = l
      BY <1>3, <2>1 DEF Ends
    <3> QED BY <1>1, <1>2, <3>1, LifeAssumption DEF Ends, Sound, EndsOnce
  <2>2. ASSUME NEW k \in DOMAIN s, s[k].lib = l, l # c.lib PROVE Ends(t, l)
    <3>1. k # 1
      BY <1>1, <2>2
    <3> QED BY <1>1, <2>2, <3>1 DEF Ends
  <2> QED BY <2>1, <2>2 DEF Ends
<1>6. LeftOnce(t)
  <2> SUFFICES ASSUME NEW k \in DOMAIN t, NEW m \in DOMAIN t,
                      NEW i \in DOMAIN t[k].left, NEW j \in DOMAIN t[m].left,
                      t[k].left[i] = t[m].left[j]
               PROVE  k = m /\ i = j
    BY DEF LeftOnce
  <2>1. k + 1 \in DOMAIN s /\ t[k] = s[k + 1] /\ m + 1 \in DOMAIN s /\ t[m] = s[m + 1] /\ k \in Nat /\ m \in Nat
    BY <1>1
  <2>2. k + 1 = m + 1 /\ i = j
    BY <2>1 DEF Sound, LeftOnce
  <2> QED BY <2>1, <2>2
<1>7. EndsOnce(t)
  <2> SUFFICES ASSUME NEW k \in DOMAIN t, NEW m \in DOMAIN t, t[k].lib = t[m].lib, t[k].lib # NoLib
               PROVE  k = m
    BY DEF EndsOnce
  <2>1. k + 1 \in DOMAIN s /\ t[k] = s[k + 1] /\ m + 1 \in DOMAIN s /\ t[m] = s[m + 1] /\ k \in Nat /\ m \in Nat
    BY <1>1
  <2>2. k + 1 = m + 1
    BY <2>1 DEF Sound, EndsOnce
  <2> QED BY <2>1, <2>2
<1>8. Shaped(t)
  BY <1>3 DEF Sound, Shaped
<1>9. Ends(s, c.lib)
  BY <1>1 DEF Ends
<1> QED BY <1>1, <1>2, <1>3, <1>4, <1>5, <1>6, <1>7, <1>8, <1>9 DEF t, c, Sound

-----------------------------------------------------------------------------
(* Faces and the lists of libraries *)

\* FacesListedByOwner of lists fs, owners ow, live libraries lv and a stack s,
\* except that a face waits at one place only.
Placed(fs, ow, lv, s) ==
  /\ \A f \in Face : ow[f] # NoLib /\ ~InLeft(s, f) => ow[f] \in lv /\ f \in ToSet(fs[ow[f]])
  /\ \A l \in Lib : /\ l \notin lv => fs[l] = <<>>
                    /\ \A i, j \in DOMAIN fs[l] :
                         /\ ow[fs[l][i]] = l /\ ~InLeft(s, fs[l][i])
                         /\ fs[l][i] = fs[l][j] => i = j
  /\ \A f \in Face : InLeft(s, f) => ow[f] # NoLib

LEMMA DyingMeans ==
  /\ \A f : Dying(f) <=> InLeft(ending, f)
  /\ \A f : Dying(f)' <=> InLeft(ending', f)
  /\ \A l : Dropping(l) <=> Ends(ending, l)
  /\ \A l : Dropping(l)' <=> Ends(ending', l)
BY DEF Dying, Dropping, InLeft, Ends

LEMMA PlacedMeans ==
  ASSUME NEW fs, NEW ow, NEW lv, NEW s \in Seq(Ending), LeftOnce(s)
  PROVE  Placed(fs, ow, lv, s) <=>
           /\ \A f \in Face : ow[f] # NoLib /\ ~InLeft(s, f) =>
                ow[f] \in lv /\ f \in ToSet(fs[ow[f]])
           /\ \A l \in Lib : /\ l \notin lv => fs[l] = <<>>
                             /\ \A i, j \in DOMAIN fs[l] :
                                  /\ ow[fs[l][i]] = l /\ ~InLeft(s, fs[l][i])
                                  /\ fs[l][i] = fs[l][j] => i = j
           /\ \A k, m \in DOMAIN s : \A i \in DOMAIN s[k].left, j \in DOMAIN s[m].left :
                /\ ow[s[k].left[i]] # NoLib
                /\ s[k].left[i] = s[m].left[j] => k = m /\ i = j
<1>1. \A k \in DOMAIN s : s[k].left \in Seq(Face)
  BY EndingType
<1>2. ASSUME \A f \in Face : InLeft(s, f) => ow[f] # NoLib,
             NEW k \in DOMAIN s, NEW i \in DOMAIN s[k].left
      PROVE  ow[s[k].left[i]] # NoLib
  <2>1. s[k].left[i] \in Face /\ s[k].left[i] \in ToSet(s[k].left)
    BY <1>1 DEF ToSet
  <2> QED BY <1>2, <2>1 DEF InLeft
<1>3. ASSUME \A k \in DOMAIN s : \A i \in DOMAIN s[k].left : ow[s[k].left[i]] # NoLib,
             NEW f \in Face, InLeft(s, f)
      PROVE  ow[f] # NoLib
  BY <1>3 DEF InLeft, ToSet
<1>4. (\A f \in Face : InLeft(s, f) => ow[f] # NoLib) <=>
      \A k, m \in DOMAIN s : \A i \in DOMAIN s[k].left, j \in DOMAIN s[m].left :
        /\ ow[s[k].left[i]] # NoLib
        /\ s[k].left[i] = s[m].left[j] => k = m /\ i = j
  <2>1. ASSUME \A f \in Face : InLeft(s, f) => ow[f] # NoLib
        PROVE  \A k, m \in DOMAIN s : \A i \in DOMAIN s[k].left, j \in DOMAIN s[m].left :
                 /\ ow[s[k].left[i]] # NoLib
                 /\ s[k].left[i] = s[m].left[j] => k = m /\ i = j
    BY <1>2, <2>1 DEF LeftOnce
  <2>2. ASSUME \A k, m \in DOMAIN s : \A i \in DOMAIN s[k].left, j \in DOMAIN s[m].left :
                 /\ ow[s[k].left[i]] # NoLib
                 /\ s[k].left[i] = s[m].left[j] => k = m /\ i = j
        PROVE  \A f \in Face : InLeft(s, f) => ow[f] # NoLib
    <3>1. \A k \in DOMAIN s : \A i \in DOMAIN s[k].left : ow[s[k].left[i]] # NoLib
      BY <2>2
    <3> QED BY <1>3, <3>1
  <2> QED BY <2>1, <2>2
<1> QED BY <1>4 DEF Placed

LEMMA ListedMeans ==
  ASSUME ending \in Seq(Ending), LeftOnce(ending)
  PROVE  FacesListedByOwner <=> Placed(faces, owner, live, ending)
BY PlacedMeans, DyingMeans DEF FacesListedByOwner, Alive

LEMMA ListedMeansNext ==
  ASSUME ending' \in Seq(Ending), LeftOnce(ending')
  PROVE  FacesListedByOwner' <=> Placed(faces', owner', live', ending')
BY PlacedMeans, DyingMeans DEF FacesListedByOwner, Alive

\* The property says itself that a face waits at one place.
LEMMA ListedOnce == FacesListedByOwner => LeftOnce(ending)
BY DEF FacesListedByOwner, LeftOnce

\* A new library lists nothing.
LEMMA PlacedLibrary ==
  ASSUME NEW fs, NEW ow, NEW lv, NEW s, NEW l \in Lib, Placed(fs, ow, lv, s)
  PROVE  Placed(fs, ow, lv \union {l}, s)
BY DEF Placed

\* A new face is at the end of its library's list.
LEMMA PlacedFace ==
  ASSUME NEW fs \in [Lib -> Seq(Face)], NEW ow \in [Face -> Lib \union {NoLib}],
         NEW lv \in SUBSET Lib, NEW s, Placed(fs, ow, lv, s),
         NEW f \in Face, ow[f] = NoLib, NEW l \in lv
  PROVE  Placed([fs EXCEPT ![l] = Append(@, f)], [ow EXCEPT ![f] = l], lv, s)
<1> DEFINE gs == [fs EXCEPT ![l] = Append(@, f)]
           pw == [ow EXCEPT ![f] = l]
<1>1. ~InLeft(s, f) /\ l \in Lib /\ NoLib \notin Lib
  BY LifeAssumption DEF Placed
<1>2. /\ pw[f] = l /\ \A g \in Face \ {f} : pw[g] = ow[g]
      /\ \A k \in Lib \ {l} : gs[k] = fs[k]
      /\ gs[l] = Append(fs[l], f)
  BY <1>1
<1>3. /\ Len(fs[l]) \in Nat /\ DOMAIN fs[l] = 1..Len(fs[l])
      /\ \A i \in DOMAIN fs[l] : gs[l][i] = fs[l][i] /\ fs[l][i] \in Face
      /\ gs[l][Len(fs[l]) + 1] = f
      /\ ToSet(gs[l]) = ToSet(fs[l]) \union {f}
      /\ DOMAIN gs[l] = 1..(Len(fs[l]) + 1)
  <2>1. fs[l] \in Seq(Face)
    BY <1>1
  <2> QED BY <1>2, <2>1, Appended
<1>4. \A i \in DOMAIN fs[l] : fs[l][i] # f
  BY <1>1 DEF Placed
<1> HIDE DEF gs, pw
<1>5. ASSUME NEW g \in Face, pw[g] # NoLib, ~InLeft(s, g)
      PROVE  pw[g] \in lv /\ g \in ToSet(gs[pw[g]])
  <2>1. CASE g = f
    BY <1>2, <1>3, <2>1
  <2>2. CASE g # f
    <3>1. ow[g] \in lv /\ g \in ToSet(fs[ow[g]]) /\ pw[g] = ow[g]
      BY <1>2, <1>5, <2>2 DEF Placed
    <3>2. CASE ow[g] = l
      BY <1>3, <3>1, <3>2
    <3>3. CASE ow[g] # l
      <4>1. ow[g] \in Lib \ {l}
        BY <3>1, <3>3
      <4> QED BY <1>2, <3>1, <4>1
    <3> QED BY <3>2, <3>3
  <2> QED BY <2>1, <2>2
<1>6. ASSUME NEW k \in Lib, NEW i \in DOMAIN gs[k], NEW j \in DOMAIN gs[k]
      PROVE  /\ pw[gs[k][i]] = k /\ ~InLeft(s, gs[k][i])
             /\ gs[k][i] = gs[k][j] => i = j
  <2>1. CASE k # l
    <3>1. gs[k] = fs[k] /\ ow[fs[k][i]] = k /\ ~InLeft(s, fs[k][i])
      BY <1>2, <1>6, <2>1 DEF Placed
    <3>2. fs[k][i] \in Face
      BY <1>6, <3>1
    <3>3. fs[k][i] # f
      BY <1>1, <3>1
    <3> QED BY <1>2, <1>6, <3>1, <3>2, <3>3 DEF Placed
  <2>2. CASE k = l
    <3>1. ASSUME NEW h \in DOMAIN gs[l]
          PROVE  \/ h \in DOMAIN fs[l] /\ gs[l][h] = fs[l][h] /\ fs[l][h] \in Face /\ fs[l][h] # f
                 \/ h = Len(fs[l]) + 1 /\ gs[l][h] = f
      BY <1>3, <1>4, <3>1
    <3>2. \A h \in DOMAIN fs[l] : ow[fs[l][h]] = l /\ ~InLeft(s, fs[l][h])
      BY <1>1 DEF Placed
    <3>3. pw[gs[k][i]] = k /\ ~InLeft(s, gs[k][i])
      <4>1. CASE gs[l][i] = f
        BY <1>1, <1>2, <2>2, <4>1
      <4>2. CASE gs[l][i] # f
        <5>1. gs[l][i] = fs[l][i] /\ i \in DOMAIN fs[l] /\ fs[l][i] \in Face /\ fs[l][i] # f
          BY <1>6, <2>2, <3>1, <4>2
        <5> QED BY <1>2, <2>2, <3>2, <5>1
      <4> QED BY <4>1, <4>2
    <3>4. gs[k][i] = gs[k][j] => i = j
      BY <1>1, <1>6, <2>2, <3>1 DEF Placed
    <3> QED BY <3>3, <3>4
  <2> QED BY <2>1, <2>2
<1>7. \A k \in Lib : k \notin lv => gs[k] = <<>>
  BY <1>2 DEF Placed
<1>8. \A g \in Face : InLeft(s, g) => pw[g] # NoLib
  BY <1>1, <1>2 DEF Placed
<1>9. Placed(gs, pw, lv, s)
  BY <1>5, <1>6, <1>7, <1>8 DEF Placed
<1> QED BY <1>9 DEF gs, pw

\* position finds the face in a list without repetitions.
LEMMA UnlistedFace ==
  ASSUME NEW fs \in Seq(Face), NEW f \in Face, f \in ToSet(fs),
         \A i, j \in DOMAIN fs : fs[i] = fs[j] => i = j
  PROVE  /\ unlisted(fs, f) \in Seq(Face)
         /\ ToSet(unlisted(fs, f)) = ToSet(fs) \ {f}
         /\ \A i, j \in DOMAIN unlisted(fs, f) : unlisted(fs, f)[i] = unlisted(fs, f)[j] => i = j
<1> DEFINE p == position(fs, f)
<1>1. DOMAIN fs = 1..Len(fs) /\ Len(fs) \in Nat
  OBVIOUS
<1>2. PICK i \in DOMAIN fs : fs[i] = f
  BY DEF ToSet
<1>3. \A j \in 1..(i - 1) : fs[j] # f
  <2> SUFFICES ASSUME NEW j \in 1..(i - 1), fs[j] = f PROVE FALSE
    OBVIOUS
  <2>1. j \in DOMAIN fs /\ j # i
    BY <1>1
  <2> QED BY <1>2, <2>1
<1>4. p \in DOMAIN fs /\ fs[p] = f
  BY <1>2, <1>3 DEF position
<1>5. unlisted(fs, f) = RemoveAt(fs, p)
  BY DEF unlisted
<1> HIDE DEF p
<1>6. p \in 1..Len(fs) /\ \A j, k \in 1..Len(fs) : fs[j] = fs[k] => j = k
  BY <1>1, <1>4
<1>7. /\ RemoveAt(fs, p) \in Seq(Face)
      /\ ToSet(RemoveAt(fs, p)) = ToSet(fs) \ {fs[p]}
      /\ \A j, k \in 1..Len(RemoveAt(fs, p)) : RemoveAt(fs, p)[j] = RemoveAt(fs, p)[k] => j = k
  BY <1>6, Shortened, ShortenedDistinct
<1>8. DOMAIN RemoveAt(fs, p) = 1..Len(RemoveAt(fs, p))
  BY <1>7
<1> QED BY <1>4, <1>5, <1>7, <1>8

\* FT_Done_Face moves a face from the list of its library to the stack.
LEMMA PlacedUnlisted ==
  ASSUME NEW fs \in [Lib -> Seq(Face)], NEW ow \in [Face -> Lib \union {NoLib}],
         NEW lv \in SUBSET Lib, NEW s, Placed(fs, ow, lv, s),
         NEW f \in Face, ow[f] # NoLib, ~InLeft(s, f),
         NEW t, \A g : InLeft(t, g) <=> InLeft(s, g) \/ g = f
  PROVE  /\ [fs EXCEPT ![ow[f]] = unlisted(fs[ow[f]], f)] \in [Lib -> Seq(Face)]
         /\ Placed([fs EXCEPT ![ow[f]] = unlisted(fs[ow[f]], f)], ow, lv, t)
<1> DEFINE l == ow[f]
           u == unlisted(fs[l], f)
           gs == [fs EXCEPT ![l] = u]
<1>1. l \in Lib /\ l \in lv /\ f \in ToSet(fs[l]) /\ fs[l] \in Seq(Face)
  BY DEF Placed
<1>2. \A i, j \in DOMAIN fs[l] : fs[l][i] = fs[l][j] => i = j
  BY <1>1 DEF Placed
<1>3. /\ u \in Seq(Face) /\ ToSet(u) = ToSet(fs[l]) \ {f}
      /\ \A i, j \in DOMAIN u : u[i] = u[j] => i = j
  BY <1>1, <1>2, UnlistedFace
<1>4. gs \in [Lib -> Seq(Face)] /\ gs[l] = u /\ \A k \in Lib \ {l} : gs[k] = fs[k]
  BY <1>1, <1>3
<1> HIDE DEF u, gs
<1>5. ASSUME NEW g \in Face, ow[g] # NoLib, ~InLeft(t, g)
      PROVE  ow[g] \in lv /\ g \in ToSet(gs[ow[g]])
  <2>1. g # f /\ ow[g] \in lv /\ g \in ToSet(fs[ow[g]]) /\ ow[g] \in Lib
    BY <1>5 DEF Placed
  <2> QED BY <1>3, <1>4, <2>1
<1>6. ASSUME NEW k \in Lib, NEW i \in DOMAIN gs[k], NEW j \in DOMAIN gs[k]
      PROVE  /\ ow[gs[k][i]] = k /\ ~InLeft(t, gs[k][i])
             /\ gs[k][i] = gs[k][j] => i = j
  <2>1. CASE k # l
    <3>1. gs[k] = fs[k] /\ ow[fs[k][i]] = k /\ ~InLeft(s, fs[k][i])
      BY <1>4, <1>6, <2>1 DEF Placed
    <3>2. fs[k][i] # f
      BY <2>1, <3>1
    <3> QED BY <1>6, <3>1, <3>2 DEF Placed
  <2>2. CASE k = l
    <3>1. gs[k] = u /\ u[i] \in ToSet(fs[l]) \ {f}
      BY <1>3, <1>4, <1>6, <2>2 DEF ToSet
    <3>2. PICK h \in DOMAIN fs[l] : fs[l][h] = u[i] /\ u[i] # f
      BY <3>1 DEF ToSet
    <3>3. ow[u[i]] = l /\ ~InLeft(s, u[i])
      BY <1>1, <3>2 DEF Placed
    <3> QED BY <1>3, <1>6, <2>2, <3>1, <3>2, <3>3
  <2> QED BY <2>1, <2>2
<1>7. \A k \in Lib : k \notin lv => gs[k] = <<>>
  BY <1>1, <1>4 DEF Placed
<1>8. \A g \in Face : InLeft(t, g) => ow[g] # NoLib
  BY DEF Placed
<1>9. Placed(gs, ow, lv, t)
  BY <1>5, <1>6, <1>7, <1>8 DEF Placed
<1> QED BY <1>4, <1>9 DEF gs, u

\* drop_library_rec moves all faces of a library to the stack.
LEMMA PlacedDrained ==
  ASSUME NEW fs \in [Lib -> Seq(Face)], NEW ow \in [Face -> Lib \union {NoLib}],
         NEW lv \in SUBSET Lib, NEW s, Placed(fs, ow, lv, s), NEW l \in lv,
         NEW t, \A g : InLeft(t, g) <=> InLeft(s, g) \/ g \in ToSet(fs[l])
  PROVE  Placed([fs EXCEPT ![l] = <<>>], ow, lv \ {l}, t)
<1> DEFINE gs == [fs EXCEPT ![l] = <<>>]
<1>1. l \in Lib /\ gs[l] = <<>> /\ \A k \in Lib \ {l} : gs[k] = fs[k]
  OBVIOUS
<1>2. \A g \in ToSet(fs[l]) : g \in Face /\ ow[g] = l /\ l # NoLib
  BY <1>1, LifeAssumption DEF Placed, ToSet
<1> HIDE DEF gs
<1>3. ASSUME NEW g \in Face, ow[g] # NoLib, ~InLeft(t, g)
      PROVE  ow[g] \in lv \ {l} /\ g \in ToSet(gs[ow[g]])
  <2>1. ow[g] \in lv /\ g \in ToSet(fs[ow[g]]) /\ g \notin ToSet(fs[l])
    BY <1>3 DEF Placed
  <2> QED BY <1>1, <2>1
<1>4. ASSUME NEW k \in Lib, NEW i \in DOMAIN gs[k], NEW j \in DOMAIN gs[k]
      PROVE  /\ ow[gs[k][i]] = k /\ ~InLeft(t, gs[k][i])
             /\ gs[k][i] = gs[k][j] => i = j
  <2>1. k # l /\ gs[k] = fs[k]
    BY <1>1, <1>4
  <2>2. ow[fs[k][i]] = k /\ ~InLeft(s, fs[k][i])
    BY <1>4, <2>1 DEF Placed
  <2>3. fs[k][i] \notin ToSet(fs[l])
    BY <1>2, <2>1, <2>2
  <2> QED BY <1>4, <2>1, <2>2, <2>3 DEF Placed
<1>5. \A k \in Lib : k \notin lv \ {l} => gs[k] = <<>>
  BY <1>1 DEF Placed
<1>6. \A g \in Face : InLeft(t, g) => ow[g] # NoLib
  BY <1>2 DEF Placed
<1>7. Placed(gs, ow, lv \ {l}, t)
  BY <1>3, <1>4, <1>5, <1>6 DEF Placed
<1> QED BY <1>7 DEF gs

\* A face that waited is gone.
LEMMA PlacedGone ==
  ASSUME NEW fs, NEW ow \in [Face -> Lib \union {NoLib}],
         NEW lv, NEW s, Placed(fs, ow, lv, s), NEW f \in Face, InLeft(s, f),
         NEW t, \A g : InLeft(t, g) <=> InLeft(s, g) /\ g # f,
         fs \in [Lib -> Seq(Face)]
  PROVE  Placed(fs, [ow EXCEPT ![f] = NoLib], lv, t)
<1> DEFINE pw == [ow EXCEPT ![f] = NoLib]
<1>1. pw[f] = NoLib /\ \A g \in Face \ {f} : pw[g] = ow[g]
  OBVIOUS
<1> HIDE DEF pw
<1>2. ASSUME NEW g \in Face, pw[g] # NoLib, ~InLeft(t, g)
      PROVE  pw[g] \in lv /\ g \in ToSet(fs[pw[g]])
  <2>1. g # f /\ pw[g] = ow[g] /\ ~InLeft(s, g)
    BY <1>1, <1>2
  <2> QED BY <1>2, <2>1 DEF Placed
<1>3. ASSUME NEW k \in Lib, NEW i \in DOMAIN fs[k], NEW j \in DOMAIN fs[k]
      PROVE  /\ pw[fs[k][i]] = k /\ ~InLeft(t, fs[k][i])
             /\ fs[k][i] = fs[k][j] => i = j
  <2>1. ow[fs[k][i]] = k /\ ~InLeft(s, fs[k][i]) /\ fs[k][i] \in Face
    BY <1>3 DEF Placed
  <2> QED BY <1>1, <1>3, <2>1 DEF Placed
<1>4. Placed(fs, pw, lv, t)
  BY <1>1, <1>2, <1>3 DEF Placed
<1> QED BY <1>4 DEF pw

\* Only what InLeft says of the stack counts.
LEMMA PlacedSame ==
  ASSUME NEW fs, NEW ow, NEW lv, NEW s, Placed(fs, ow, lv, s),
         NEW t, \A g : InLeft(t, g) <=> InLeft(s, g)
  PROVE  Placed(fs, ow, lv, t)
BY DEF Placed

-----------------------------------------------------------------------------
(* The invariant *)

\* StreamsClosedOnce without counting: a stream is being read, or has one face,
\* or is closed.
StreamsUsed ==
  \A s \in Stream :
    /\ reading[s] # NoLib => closes[s] = 0 /\ \A f \in Face : stream[f] # s
    /\ \A f \in Face : stream[f] = s => closes[s] = 0 /\ Alive(f)
    /\ \A f, g \in Face : stream[f] = s /\ stream[g] = s => f = g

\* The library counts the references the program has; so does a face until its
\* last one is given back or its library goes.
CountsHeld ==
  /\ \A l \in Lib : libRefs[l] = libHeld[l]
  /\ \A f \in Face : ~Dying(f) => faceRefs[f] = faceHeld[f]

LibBlocks ==
  \A l \in Lib :
    /\ blocks[<<"library", l>>] = IF (l \in live \/ Dropping(l)) /\ custom[l] THEN 1 ELSE 0
    /\ blocks[<<"modules", l>>] > 0 => (l \in live \/ Dropping(l)) /\ custom[l]

FaceBlocks ==
  \A f \in Face :
    /\ blocks[<<"face", f>>] = IF Alive(f) /\ memory[f] THEN 1 ELSE 0
    /\ Alive(f) /\ ~Dying(f) => memory[f] = custom[owner[f]]

GlyphBlocks ==
  \A g \in Glyph :
    LET has == glyph[g] # NoGlyph /\ glyph[g].memory IN
    /\ blocks[<<"record", g>>] = IF has THEN 1 ELSE 0
    /\ blocks[<<"payload", g>>] = IF has /\ glyph[g].shape = "filled" THEN 1 ELSE 0

LifeInv ==
  /\ LifeTypeOK
  /\ StreamsUsed
  /\ FacesListedByOwner
  /\ BlocksBalanced
  /\ AliveWhileReferenced
  /\ CountsHeld
  /\ Sound(ending)
  /\ Owes(ending, live, custom)

LEMMA BalancedParts == BlocksBalanced <=> LibBlocks /\ FaceBlocks /\ GlyphBlocks
BY DEF BlocksBalanced, LibBlocks, FaceBlocks, GlyphBlocks

LEMMA BalancedPartsNext == BlocksBalanced' <=> LibBlocks' /\ FaceBlocks' /\ GlyphBlocks'
BY DEF BlocksBalanced, LibBlocks, FaceBlocks, GlyphBlocks

LEMMA BlockKinds ==
  /\ \A l \in Lib : <<"library", l>> \in Block /\ <<"modules", l>> \in Block
  /\ \A f \in Face : <<"face", f>> \in Block
  /\ \A g \in Glyph : <<"record", g>> \in Block /\ <<"payload", g>> \in Block
BY DEF Block

LEMMA TypeReady ==
  ASSUME LifeTypeOK
  PROVE  /\ live \subseteq Lib /\ custom \in [Lib -> BOOLEAN]
         /\ libRefs \in [Lib -> Nat] /\ libHeld \in [Lib -> Nat]
         /\ faces \in [Lib -> Seq(Face)] /\ owner \in [Face -> Lib \union {NoLib}]
         /\ faceRefs \in [Face -> Nat] /\ faceHeld \in [Face -> Nat]
         /\ memory \in [Face -> BOOLEAN]
         /\ blocks \in [Block -> Nat] /\ ending \in Seq(Ending)
BY DEF LifeTypeOK

\* At most one face has a stream, so that counting them gives none or one.
LEMMA CountedOnce ==
  ASSUME NEW S, \A x, y \in S : x = y
  PROVE  Cardinality(S) = IF S = {} THEN 0 ELSE 1
<1>1. CASE S = {}
  BY <1>1, FS_EmptySet
<1>2. CASE S # {}
  <2>1. PICK x : S = {x}
    BY <1>2
  <2> QED BY <1>2, <2>1, FS_Singleton
<1> QED BY <1>1, <1>2

LEMMA UsedIsClosedOnce ==
  ASSUME LifeTypeOK, StreamsUsed
  PROVE  StreamsClosedOnce
<1> SUFFICES ASSUME NEW s \in Stream
             PROVE  Cardinality({f \in Face : Alive(f) /\ stream[f] = s}) + closes[s]
                      + (IF reading[s] # NoLib THEN 1 ELSE 0) <= 1
  BY DEF StreamsClosedOnce
<1> DEFINE users == {f \in Face : Alive(f) /\ stream[f] = s}
<1>1. \A f, g \in users : f = g
  BY DEF StreamsUsed
<1>2. Cardinality(users) = IF users = {} THEN 0 ELSE 1
  BY <1>1, CountedOnce
<1>3. closes[s] \in 0..1
  BY DEF LifeTypeOK
<1>4. users # {} => closes[s] = 0 /\ reading[s] = NoLib
  BY DEF StreamsUsed
<1>5. reading[s] # NoLib => closes[s] = 0
  BY DEF StreamsUsed
<1> HIDE DEF users
<1>6. Cardinality(users) + closes[s] + (IF reading[s] # NoLib THEN 1 ELSE 0) <= 1
  BY <1>2, <1>3, <1>4, <1>5
<1> QED BY <1>6 DEF users

LEMMA LifeInit == Init => LifeInv
<1> SUFFICES ASSUME Init PROVE LifeInv
  OBVIOUS
<1> USE DEF Init
<1>1. /\ NoLib \notin Lib /\ NoStream \notin Stream /\ Modules \in Nat /\ MaxRefs \in Nat
      /\ ending = <<>> /\ DOMAIN ending = {} /\ ending \in Seq(Ending)
  BY LifeAssumption
<1>2. LifeTypeOK
  <2>1. <<>> \in Seq(Face)
    OBVIOUS
  <2> QED BY <1>1, <2>1 DEF LifeTypeOK
<1>3. StreamsUsed
  BY <1>1 DEF StreamsUsed
<1>4. Sound(ending) /\ Owes(ending, live, custom)
  BY <1>1 DEF Sound, LeftOnce, Shaped, EndsOnce, Owes
<1>5. FacesListedByOwner
  <2>1. \A l \in Lib : faces[l] = <<>> /\ DOMAIN faces[l] = {}
    OBVIOUS
  <2> QED BY <1>1, <2>1 DEF FacesListedByOwner, Alive
<1>6. BlocksBalanced
  <2>1. \A b \in Block : blocks[b] = 0
    OBVIOUS
  <2>2. \A f \in Face : ~Alive(f)
    BY DEF Alive
  <2>3. \A l \in Lib : custom[l] = FALSE
    OBVIOUS
  <2>4. \A g \in Glyph : glyph[g] = NoGlyph
    OBVIOUS
  <2> HIDE DEF Init
  <2>5. LibBlocks
    <3> SUFFICES ASSUME NEW l \in Lib
                 PROVE  /\ blocks[<<"library", l>>] =
                             IF (l \in live \/ Dropping(l)) /\ custom[l] THEN 1 ELSE 0
                        /\ ~(blocks[<<"modules", l>>] > 0)
      BY DEF LibBlocks
    <3>1. blocks[<<"library", l>>] = 0 /\ blocks[<<"modules", l>>] = 0 /\ ~custom[l]
      BY <2>1, <2>3, BlockKinds
    <3> QED BY <3>1
  <2>6. FaceBlocks
    BY <2>1, <2>2, BlockKinds DEF FaceBlocks
  <2>7. GlyphBlocks
    BY <2>1, <2>4, BlockKinds DEF GlyphBlocks
  <2> QED BY <2>5, <2>6, <2>7, BalancedParts
<1>7. AliveWhileReferenced /\ CountsHeld
  BY <1>1 DEF AliveWhileReferenced, CountsHeld, Alive, Dying
<1> QED BY <1>2, <1>3, <1>4, <1>5, <1>6, <1>7 DEF LifeInv

-----------------------------------------------------------------------------
(* What a step leaves alone *)

LEMMA SameStreams ==
  ASSUME StreamsUsed, UNCHANGED <<reading, closes, stream, owner>>
  PROVE  StreamsUsed'
BY DEF StreamsUsed, Alive

LEMMA SameLists ==
  ASSUME FacesListedByOwner, UNCHANGED <<live, faces, owner, ending>>
  PROVE  FacesListedByOwner'
BY DEF FacesListedByOwner, Alive, Dying

LEMMA SameEndings ==
  ASSUME Sound(ending), Owes(ending, live, custom), UNCHANGED <<live, custom, ending>>
  PROVE  Sound(ending') /\ Owes(ending', live', custom')
OBVIOUS

LEMMA SameCounts ==
  ASSUME CountsHeld, AliveWhileReferenced,
         UNCHANGED <<live, libRefs, libHeld, owner, faceRefs, faceHeld, ending>>
  PROVE  CountsHeld' /\ AliveWhileReferenced'
BY DEF CountsHeld, AliveWhileReferenced, Alive, Dying

LEMMA SameBlocks ==
  ASSUME BlocksBalanced, UNCHANGED <<live, custom, owner, memory, glyph, blocks, ending>>
  PROVE  BlocksBalanced'
BY DEF BlocksBalanced, Alive, Dying, Dropping

-----------------------------------------------------------------------------
(* Libraries *)

LEMMA NewLibraryStep ==
  ASSUME LifeInv, NEW l \in Lib, NEW callbacks \in BOOLEAN, into_library_handle(l, callbacks)
  PROVE  LifeInv'
<1>1. /\ l \notin live /\ ~Dropping(l)
      /\ live' = live \union {l}
      /\ custom' = [custom EXCEPT ![l] = callbacks]
      /\ libRefs' = [libRefs EXCEPT ![l] = 1]
      /\ libHeld' = [libHeld EXCEPT ![l] = 1]
      /\ blocks' = custom_memory_block(blocks, callbacks, <<"library", l>>)
      /\ UNCHANGED <<faces, faceVars, reading, closes, glyph, ending>>
  BY DEF into_library_handle
<1>2. UNCHANGED <<owner, faceRefs, memory, stream, faceHeld>>
  BY <1>1 DEF faceVars
<1>3. LifeTypeOK /\ Sound(ending) /\ ending \in Seq(Ending) /\ MaxRefs \in Nat \ {0} /\ Modules \in Nat
  BY LifeAssumption DEF LifeInv, LifeTypeOK
<1>4. blocks[<<"library", l>>] = 0 /\ blocks[<<"modules", l>>] = 0
  <2>1. blocks[<<"modules", l>>] \in Nat
    BY <1>3, BlockKinds, TypeReady
  <2> QED BY <1>1, <2>1 DEF LifeInv, BlocksBalanced
<1>5. /\ blocks'[<<"library", l>>] = IF callbacks THEN 1 ELSE 0
      /\ \A b \in Block : b # <<"library", l>> => blocks'[b] = blocks[b]
      /\ blocks' \in [Block -> 0..Modules + 1]
  BY <1>1, <1>3, <1>4, BlockKinds DEF custom_memory_block, LifeTypeOK
<1>6. LifeTypeOK'
  <2>1. live' \subseteq Lib
    BY <1>1, <1>3 DEF LifeTypeOK
  <2>2. custom' \in [Lib -> BOOLEAN]
    BY <1>1, <1>3 DEF LifeTypeOK
  <2>3. libRefs' \in [Lib -> 0..MaxRefs] /\ libHeld' \in [Lib -> 0..MaxRefs]
    <3>1. 1 \in 0..MaxRefs
      BY <1>3
    <3> QED BY <1>1, <1>3, <3>1 DEF LifeTypeOK
  <2> HIDE DEF Ending, GlyphRec
  <2> QED BY <1>1, <1>2, <1>3, <1>5, <2>1, <2>2, <2>3 DEF LifeTypeOK
<1>7. StreamsUsed'
  BY <1>1, <1>2, SameStreams DEF LifeInv
<1>8. FacesListedByOwner'
  <2>1. Placed(faces, owner, live, ending)
    BY <1>3, ListedMeans DEF LifeInv, Sound
  <2> QED BY <1>1, <1>2, <1>3, <2>1, PlacedLibrary, ListedMeansNext DEF Sound
<1>9. \A k \in Lib \ {l} : custom'[k] = custom[k] /\ (k \in live' <=> k \in live)
  BY <1>1, <1>3, TypeReady
<1>10. \A k \in Lib : Dropping(k)' <=> Dropping(k)
  BY <1>1 DEF Dropping
<1>11. BlocksBalanced'
  <2>1. LibBlocks'
    <3> SUFFICES ASSUME NEW k \in Lib
                 PROVE  /\ blocks'[<<"library", k>>] =
                             IF (k \in live' \/ Dropping(k)') /\ custom'[k] THEN 1 ELSE 0
                        /\ blocks'[<<"modules", k>>] > 0 => (k \in live' \/ Dropping(k)') /\ custom'[k]
      BY DEF LibBlocks
    <3>1. CASE k = l
      <4>1. l \in live' /\ custom'[l] = callbacks /\ blocks'[<<"modules", l>>] = 0
        BY <1>1, <1>3, <1>4, <1>5, BlockKinds, TypeReady
      <4> QED BY <1>5, <3>1, <4>1
    <3>2. CASE k # l
      <4>1. blocks'[<<"library", k>>] = blocks[<<"library", k>>]
            /\ blocks'[<<"modules", k>>] = blocks[<<"modules", k>>]
        BY <1>5, <3>2, BlockKinds
      <4>2. LibBlocks
        BY BalancedParts DEF LifeInv
      <4>3. (k \in live' <=> k \in live) /\ custom'[k] = custom[k] /\ (Dropping(k)' <=> Dropping(k))
        BY <1>9, <1>10, <3>2
      <4> HIDE DEF LibBlocks
      <4> QED BY <4>1, <4>2, <4>3 DEF LibBlocks
    <3> QED BY <3>1, <3>2
  <2>2. FaceBlocks'
    <3> SUFFICES ASSUME NEW f \in Face
                 PROVE  /\ blocks'[<<"face", f>>] = IF Alive(f)' /\ memory'[f] THEN 1 ELSE 0
                        /\ Alive(f)' /\ ~Dying(f)' => memory'[f] = custom'[owner'[f]]
      BY DEF FaceBlocks
    <3>1. FaceBlocks /\ (Alive(f)' <=> Alive(f)) /\ (Dying(f)' <=> Dying(f))
      BY <1>1, <1>2, BalancedParts DEF LifeInv, Alive, Dying
    <3>2. Alive(f) /\ ~Dying(f) => owner[f] \in live /\ owner[f] \in Lib \ {l}
      BY <1>1, <1>3, TypeReady DEF LifeInv, FacesListedByOwner
    <3>3. blocks'[<<"face", f>>] = blocks[<<"face", f>>]
      BY <1>5, BlockKinds
    <3> QED BY <1>2, <1>9, <3>1, <3>2, <3>3 DEF FaceBlocks
  <2>3. GlyphBlocks'
    <3>1. GlyphBlocks
      BY BalancedParts DEF LifeInv
    <3> QED BY <1>1, <1>5, <3>1, BlockKinds DEF GlyphBlocks
  <2> QED BY <2>1, <2>2, <2>3, BalancedPartsNext
<1>12. AliveWhileReferenced' /\ CountsHeld'
  <2>1. \A f \in Face : (Alive(f)' <=> Alive(f)) /\ (Dying(f)' <=> Dying(f))
    BY <1>1, <1>2 DEF Alive, Dying
  <2>2. \A k \in Lib : libRefs'[k] = IF k = l THEN 1 ELSE libRefs[k]
    BY <1>1, <1>3, TypeReady
  <2>3. \A k \in Lib : libHeld'[k] = IF k = l THEN 1 ELSE libHeld[k]
    BY <1>1, <1>3, TypeReady
  <2> QED BY <1>1, <1>2, <2>1, <2>2, <2>3 DEF LifeInv, AliveWhileReferenced, CountsHeld
<1>13. Sound(ending') /\ Owes(ending', live', custom')
  <2>1. \A k \in DOMAIN ending : ending[k].lib # NoLib => ending[k].lib \in Lib \ {l}
    BY <1>1, <1>3, EndingType DEF Dropping
  <2> QED BY <1>1, <1>3, <1>9, <2>1 DEF LifeInv, Owes
<1> QED BY <1>6, <1>7, <1>8, <1>11, <1>12, <1>13 DEF LifeInv

LEMMA ModulesStep ==
  ASSUME LifeInv, NEW l \in Lib, FT_Add_Default_Modules(l)
  PROVE  LifeInv'
<1>1. PICK n \in 0..Modules :
        /\ l \in live /\ custom[l]
        /\ blocks' = [blocks EXCEPT ![<<"modules", l>>] = n]
        /\ UNCHANGED <<libVars, faces, faceVars, reading, closes, glyph, ending>>
  BY DEF FT_Add_Default_Modules
<1>2. UNCHANGED <<live, custom, libRefs, libHeld, faces, owner, faceRefs, memory, stream,
                  faceHeld, reading, closes, glyph, ending>>
  BY <1>1 DEF libVars, faceVars
<1>3. LifeTypeOK /\ Modules \in Nat /\ blocks \in [Block -> 0..Modules + 1]
  BY LifeAssumption DEF LifeInv, LifeTypeOK
<1>4. blocks' \in [Block -> 0..Modules + 1]
      /\ \A b \in Block : b # <<"modules", l>> => blocks'[b] = blocks[b]
  <2>1. n \in 0..Modules + 1
    BY <1>3
  <2>2. blocks' = [blocks EXCEPT ![<<"modules", l>>] = n]
    BY <1>1
  <2> QED BY <1>3, <2>1, <2>2
<1>5. LifeTypeOK'
  BY <1>2, <1>3, <1>4 DEF LifeTypeOK
<1>6. BlocksBalanced'
  <2>1. \A k \in Lib : Dropping(k)' <=> Dropping(k)
    BY <1>2 DEF Dropping
  <2>2. \A f \in Face : (Alive(f)' <=> Alive(f)) /\ (Dying(f)' <=> Dying(f))
    BY <1>2 DEF Alive, Dying
  <2>3. LibBlocks /\ FaceBlocks /\ GlyphBlocks
    BY BalancedParts DEF LifeInv
  <2>4. LibBlocks'
    <3> SUFFICES ASSUME NEW k \in Lib
                 PROVE  /\ blocks'[<<"library", k>>] = blocks[<<"library", k>>]
                        /\ k # l => blocks'[<<"modules", k>>] = blocks[<<"modules", k>>]
      BY <1>1, <1>2, <2>1, <2>3 DEF LibBlocks
    <3> QED BY <1>4, BlockKinds
  <2>5. FaceBlocks'
    BY <1>2, <1>4, <2>2, <2>3, BlockKinds DEF FaceBlocks
  <2>6. GlyphBlocks'
    BY <1>2, <1>4, <2>3, BlockKinds DEF GlyphBlocks
  <2> QED BY <2>4, <2>5, <2>6, BalancedPartsNext
<1> QED BY <1>2, <1>5, <1>6, SameStreams, SameLists, SameEndings, SameCounts DEF LifeInv

\* FT_Reference_Library, and FT_Done_Library while other references are left.
LEMMA LibraryCountStep ==
  ASSUME LifeInv, NEW l \in live, NEW n \in 1..MaxRefs,
         libRefs' = [libRefs EXCEPT ![l] = n], libHeld' = [libHeld EXCEPT ![l] = n],
         UNCHANGED <<live, custom, faces, faceVars, reading, closes, glyph, blocks, ending>>
  PROVE  LifeInv'
<1>1. UNCHANGED <<live, custom, faces, owner, faceRefs, memory, stream,
                  faceHeld, reading, closes, glyph, blocks, ending>>
  BY DEF faceVars
<1>2. LifeTypeOK /\ MaxRefs \in Nat /\ l \in Lib
  BY LifeAssumption, TypeReady DEF LifeInv
<1>3. LifeTypeOK'
  BY <1>1, <1>2 DEF LifeTypeOK
<1>4. AliveWhileReferenced' /\ CountsHeld'
  <2>1. \A f \in Face : (Alive(f)' <=> Alive(f)) /\ (Dying(f)' <=> Dying(f))
    BY <1>1 DEF Alive, Dying
  <2>2. \A k \in Lib : /\ libRefs'[k] = IF k = l THEN n ELSE libRefs[k]
                       /\ libHeld'[k] = IF k = l THEN n ELSE libHeld[k]
    BY <1>2, TypeReady
  <2> QED BY <1>1, <1>2, <2>1, <2>2 DEF LifeInv, AliveWhileReferenced, CountsHeld
<1> QED BY <1>1, <1>3, <1>4, SameStreams, SameLists, SameEndings, SameBlocks DEF LifeInv

LEMMA DropLibraryStep ==
  ASSUME LifeInv, NEW l \in live, NEW free \in BOOLEAN, drop_library_rec(l, free),
         free \/ ~custom[l]
  PROVE  LifeInv'
<1> DEFINE c == [lib |-> l, free |-> free, left |-> faces[l]]
<1>1. /\ live' = live \ {l}
      /\ libRefs' = [libRefs EXCEPT ![l] = 0]
      /\ libHeld' = [libHeld EXCEPT ![l] = 0]
      /\ faces' = [faces EXCEPT ![l] = <<>>]
      /\ faceHeld' = [f \in Face |-> IF f \in ToSet(faces[l]) THEN 0 ELSE faceHeld[f]]
      /\ ending' = <<c>> \o ending
      /\ UNCHANGED <<custom, owner, faceRefs, memory, stream, reading, closes, glyph, blocks>>
  BY DEF drop_library_rec
<1>2. LifeTypeOK /\ Sound(ending) /\ Owes(ending, live, custom) /\ ending \in Seq(Ending) /\ l \in Lib
      /\ live \in SUBSET Lib /\ NoLib \notin Lib /\ faces \in [Lib -> Seq(Face)]
      /\ owner \in [Face -> Lib \union {NoLib}]
  BY LifeAssumption, TypeReady DEF LifeInv
<1>3. c \in Ending /\ c.lib = l /\ c.free = free /\ c.left = faces[l]
  BY <1>2 DEF Ending
<1> HIDE DEF c
<1>4. Placed(faces, owner, live, ending)
  BY <1>2, ListedMeans DEF LifeInv, Sound
<1>5. /\ \A i, j \in DOMAIN c.left : c.left[i] = c.left[j] => i = j
      /\ \A f \in ToSet(c.left) : f \in Face /\ ~InLeft(ending, f) /\ owner[f] = l
      /\ ~Ends(ending, l)
  <2>1. \A i, j \in DOMAIN faces[l] : faces[l][i] = faces[l][j] => i = j
    BY <1>2, <1>4 DEF Placed
  <2>2. \A i \in DOMAIN faces[l] : faces[l][i] \in Face /\ ~InLeft(ending, faces[l][i]) /\ owner[faces[l][i]] = l
    BY <1>2, <1>4 DEF Placed
  <2>3. ~Ends(ending, l)
    BY <1>2 DEF Owes, Ends
  <2> QED BY <1>3, <2>1, <2>2, <2>3 DEF ToSet
<1>6. /\ ending' \in Seq(Ending) /\ Sound(ending')
      /\ \A f : InLeft(ending', f) <=> InLeft(ending, f) \/ f \in ToSet(faces[l])
      /\ \A k : Ends(ending', k) <=> Ends(ending, k) \/ l = k
      /\ \A k \in DOMAIN ending' : ending'[k] = c \/ \E m \in DOMAIN ending : ending'[k] = ending[m]
  <2> DEFINE t == <<c>> \o ending
  <2>1. c.lib # NoLib /\ ~Ends(ending, c.lib)
    BY <1>2, <1>3, <1>5
  <2>2. c.lib = NoLib => \E f \in Face : c.left = <<f>>
    BY <2>1
  <2>3. /\ t \in Seq(Ending) /\ Sound(t)
        /\ \A f : InLeft(t, f) <=> InLeft(ending, f) \/ f \in ToSet(c.left)
        /\ \A k : Ends(t, k) <=> Ends(ending, k) \/ c.lib = k
        /\ \A k \in DOMAIN t : t[k] = c \/ \E m \in DOMAIN ending : t[k] = ending[m]
    BY <1>2, <1>3, <1>5, <2>1, <2>2, EndingPushed
  <2>4. ending' = t
    BY <1>1
  <2> HIDE DEF t
  <2> QED BY <1>3, <2>3, <2>4
<1>7. /\ \A f \in Face : Dying(f)' <=> Dying(f) \/ f \in ToSet(faces[l])
      /\ \A k \in Lib : Dropping(k)' <=> Dropping(k) \/ k = l
      /\ \A f \in Face : Alive(f)' <=> Alive(f)
      /\ \A k \in Lib : (k \in live' \/ Dropping(k)') <=> (k \in live \/ Dropping(k))
  BY <1>1, <1>6, DyingMeans DEF Alive
<1>8. LifeTypeOK'
  <2>1. live' \subseteq Lib /\ libRefs' \in [Lib -> 0..MaxRefs] /\ libHeld' \in [Lib -> 0..MaxRefs]
        /\ faceHeld' \in [Face -> 0..MaxRefs]
    <3>1. MaxRefs \in Nat
      BY LifeAssumption
    <3> QED BY <1>1, <1>2, <3>1 DEF LifeTypeOK
  <2>2. faces' \in [Lib -> Seq(Face)]
    BY <1>1, <1>2
  <2> QED BY <1>1, <1>2, <1>6, <2>1, <2>2 DEF LifeTypeOK
<1>9. StreamsUsed'
  BY <1>1, SameStreams DEF LifeInv
<1>10. FacesListedByOwner'
  <2>1. Placed(faces', owner, live', ending')
    BY <1>1, <1>2, <1>4, <1>6, PlacedDrained
  <2> QED BY <1>1, <1>6, <2>1, ListedMeansNext DEF Sound
<1>11. BlocksBalanced'
  <2>1. LibBlocks /\ FaceBlocks /\ GlyphBlocks
    BY BalancedParts DEF LifeInv
  <2>2. LibBlocks'
    BY <1>1, <1>7, <2>1 DEF LibBlocks
  <2>3. FaceBlocks'
    BY <1>1, <1>7, <2>1 DEF FaceBlocks
  <2>4. GlyphBlocks'
    BY <1>1, <2>1 DEF GlyphBlocks
  <2> QED BY <2>2, <2>3, <2>4, BalancedPartsNext
<1>12. AliveWhileReferenced' /\ CountsHeld'
  <2>1. \A k \in Lib : /\ libRefs'[k] = IF k = l THEN 0 ELSE libRefs[k]
                       /\ libHeld'[k] = IF k = l THEN 0 ELSE libHeld[k]
                       /\ k \in live' <=> k \in live /\ k # l
    BY <1>1, <1>2, TypeReady
  <2>2. \A f \in Face : faceHeld'[f] = IF f \in ToSet(faces[l]) THEN 0 ELSE faceHeld[f]
    BY <1>1
  <2>3. AliveWhileReferenced'
    BY <1>7, <2>1, <2>2 DEF LifeInv, AliveWhileReferenced
  <2>4. CountsHeld'
    BY <1>1, <1>7, <2>1, <2>2 DEF LifeInv, CountsHeld
  <2> QED BY <2>3, <2>4
<1>13. Owes(ending', live', custom')
  BY <1>1, <1>2, <1>3, <1>6 DEF Owes
<1> QED BY <1>6, <1>8, <1>9, <1>10, <1>11, <1>12, <1>13 DEF LifeInv

LEMMA LibraryEndsStep ==
  ASSUME LifeInv, drop_library_rec_ends
  PROVE  LifeInv'
<1> DEFINE l == Head(ending).lib
<1>1. /\ ending # <<>> /\ l # NoLib /\ Head(ending).left = <<>>
      /\ blocks' = [b \in Block |->
           IF Head(ending).free /\ b \in {"library", "modules"} \X {l} THEN 0 ELSE blocks[b]]
      /\ custom' = [custom EXCEPT ![l] = FALSE]
      /\ ending' = Tail(ending)
      /\ UNCHANGED <<live, libRefs, libHeld, faces, faceVars, reading, closes, glyph>>
  BY DEF drop_library_rec_ends
<1>2. UNCHANGED <<owner, faceRefs, memory, stream, faceHeld>>
  BY <1>1 DEF faceVars
<1>3. LifeTypeOK /\ Sound(ending) /\ Owes(ending, live, custom) /\ ending \in Seq(Ending)
      /\ custom \in [Lib -> BOOLEAN] /\ Modules \in Nat
  BY LifeAssumption, TypeReady DEF LifeInv
<1>4. /\ ending' \in Seq(Ending) /\ Sound(ending')
      /\ l \in Lib /\ Ends(ending, l) /\ 1 \in DOMAIN ending /\ Head(ending) = ending[1]
      /\ \A g : InLeft(ending', g) <=> InLeft(ending, g)
      /\ \A k \in Lib : Ends(ending', k) <=> Ends(ending, k) /\ k # l
      /\ \A k \in DOMAIN ending' : \E m \in DOMAIN ending : m # 1 /\ ending'[k] = ending[m]
  BY <1>1, <1>3, LibraryEnded
<1>5. l \notin live /\ (Head(ending).free \/ ~custom[l])
  BY <1>1, <1>3, <1>4 DEF Owes
<1>6. /\ \A f \in Face : Dying(f)' <=> Dying(f)
      /\ \A k \in Lib : Dropping(k)' <=> Dropping(k) /\ k # l
      /\ \A f \in Face : Alive(f)' <=> Alive(f)
      /\ \A k \in Lib : custom'[k] = IF k = l THEN FALSE ELSE custom[k]
  BY <1>2, <1>4, <1>1, <1>3, DyingMeans DEF Alive
<1>7. /\ \A k \in Lib : k # l => /\ blocks'[<<"library", k>>] = blocks[<<"library", k>>]
                                /\ blocks'[<<"modules", k>>] = blocks[<<"modules", k>>]
      /\ \A f \in Face : blocks'[<<"face", f>>] = blocks[<<"face", f>>]
      /\ \A g \in Glyph : /\ blocks'[<<"record", g>>] = blocks[<<"record", g>>]
                          /\ blocks'[<<"payload", g>>] = blocks[<<"payload", g>>]
  BY <1>1, BlockKinds
<1>8. blocks'[<<"library", l>>] = 0 /\ blocks'[<<"modules", l>>] = 0
  <2>1. /\ ~custom[l] => blocks[<<"library", l>>] = 0
        /\ ~custom[l] => ~(blocks[<<"modules", l>>] > 0)
        /\ blocks[<<"modules", l>>] \in Nat
    BY <1>3, <1>4, BlockKinds, TypeReady DEF LifeInv, BlocksBalanced
  <2>2. <<"library", l>> \in Block /\ <<"modules", l>> \in Block
    BY <1>4, BlockKinds
  <2>3. CASE Head(ending).free
    BY <1>1, <2>2, <2>3
  <2>4. CASE ~Head(ending).free
    <3>1. ~custom[l] /\ blocks' = [b \in Block |-> blocks[b]]
      BY <1>1, <1>5, <2>4
    <3> QED BY <2>1, <2>2, <3>1
  <2> QED BY <2>3, <2>4
<1> HIDE DEF l
<1>9. LifeTypeOK'
  <2>1. blocks' \in [Block -> 0..Modules + 1]
    BY <1>1, <1>3 DEF LifeTypeOK
  <2>2. custom' \in [Lib -> BOOLEAN]
    BY <1>1, <1>3
  <2> QED BY <1>1, <1>2, <1>3, <1>4, <2>1, <2>2 DEF LifeTypeOK
<1>10. StreamsUsed'
  BY <1>1, <1>2, SameStreams DEF LifeInv
<1>11. FacesListedByOwner'
  <2>1. Placed(faces, owner, live, ending)
    BY <1>3, ListedMeans DEF LifeInv, Sound
  <2>2. Placed(faces, owner, live, ending')
    BY <1>4, <2>1, PlacedSame
  <2> QED BY <1>1, <1>2, <1>4, <2>2, ListedMeansNext DEF Sound
<1>12. BlocksBalanced'
  <2>1. LibBlocks /\ FaceBlocks /\ GlyphBlocks
    BY BalancedParts DEF LifeInv
  <2>2. LibBlocks'
    <3> SUFFICES ASSUME NEW k \in Lib
                 PROVE  /\ blocks'[<<"library", k>>] =
                             IF (k \in live' \/ Dropping(k)') /\ custom'[k] THEN 1 ELSE 0
                        /\ blocks'[<<"modules", k>>] > 0 => (k \in live' \/ Dropping(k)') /\ custom'[k]
      BY DEF LibBlocks
    <3>1. CASE k = l
      <4>1. ~custom'[k] /\ blocks'[<<"library", k>>] = 0 /\ blocks'[<<"modules", k>>] = 0
        BY <1>6, <1>8, <3>1
      <4>2. ~(0 > 0)
        OBVIOUS
      <4> QED BY <4>1, <4>2
    <3>2. CASE k # l
      BY <1>1, <1>6, <1>7, <2>1, <3>2 DEF LibBlocks
    <3> QED BY <3>1, <3>2
  <2>3. FaceBlocks'
    <3> SUFFICES ASSUME NEW f \in Face
                 PROVE  /\ blocks'[<<"face", f>>] = IF Alive(f)' /\ memory'[f] THEN 1 ELSE 0
                        /\ Alive(f)' /\ ~Dying(f)' => memory'[f] = custom'[owner'[f]]
      BY DEF FaceBlocks
    <3>1. Alive(f) /\ ~Dying(f) => owner[f] \in live /\ owner[f] \in Lib /\ owner[f] # l
      BY <1>3, <1>5, TypeReady DEF LifeInv, FacesListedByOwner
    <3> QED BY <1>2, <1>6, <1>7, <2>1, <3>1 DEF FaceBlocks
  <2>4. GlyphBlocks'
    BY <1>1, <1>7, <2>1 DEF GlyphBlocks
  <2> QED BY <2>2, <2>3, <2>4, BalancedPartsNext
<1>13. AliveWhileReferenced' /\ CountsHeld'
  BY <1>1, <1>2, <1>6 DEF LifeInv, AliveWhileReferenced, CountsHeld
<1>14. Owes(ending', live', custom')
  <2>1. \A m \in DOMAIN ending : m # 1 => ending[m].lib # l
    BY <1>1, <1>3, <1>4 DEF Sound, EndsOnce, l
  <2>2. \A m \in DOMAIN ending : ending[m].lib \in Lib \union {NoLib}
    BY <1>3, EndingType
  <2> QED BY <1>1, <1>3, <1>4, <1>6, <2>1, <2>2 DEF Owes
<1> QED BY <1>4, <1>9, <1>10, <1>11, <1>12, <1>13, <1>14 DEF LifeInv


-----------------------------------------------------------------------------
(* Faces *)

LEMMA NotDying == \A f \in Face : LifeInv /\ Dying(f) => Alive(f) /\ faceHeld[f] = 0
<1> SUFFICES ASSUME NEW f \in Face, LifeInv, Dying(f) PROVE Alive(f) /\ faceHeld[f] = 0
  OBVIOUS
<1>1. ending \in Seq(Ending) /\ Sound(ending) /\ FacesListedByOwner
  BY TypeReady DEF LifeInv
<1>2. Placed(faces, owner, live, ending)
  BY <1>1, ListedMeans DEF Sound
<1>3. faceHeld[f] \in Nat /\ ~(faceHeld[f] > 0)
  BY TypeReady DEF LifeInv, AliveWhileReferenced
<1> QED BY <1>2, <1>3, DyingMeans DEF Placed, Alive

\* What opening a face does besides what it does to streams.
LEMMA StoreStep ==
  ASSUME LifeInv, NEW l \in live, NEW f \in Face, NEW s \in Stream \union {NoStream},
         ft_store_opened_face(l, f, s),
         UNCHANGED <<libVars, closes, glyph, ending>>,
         reading' \in [Stream -> Lib \union {NoLib}],
         StreamsUsed'
  PROVE  LifeInv'
<1>1. /\ owner[f] = NoLib
      /\ owner' = [owner EXCEPT ![f] = l]
      /\ faceRefs' = [faceRefs EXCEPT ![f] = 1]
      /\ memory' = [memory EXCEPT ![f] = custom[l]]
      /\ faceHeld' = [faceHeld EXCEPT ![f] = 1]
      /\ stream' = [stream EXCEPT ![f] = s]
      /\ faces' = [faces EXCEPT ![l] = Append(@, f)]
      /\ blocks' = custom_memory_block(blocks, custom[l], <<"face", f>>)
  BY DEF ft_store_opened_face, Alive
<1>2. UNCHANGED <<live, custom, libRefs, libHeld, closes, glyph, ending>>
  BY DEF libVars
<1>3. /\ LifeTypeOK /\ Sound(ending) /\ ending \in Seq(Ending) /\ l \in Lib /\ live \in SUBSET Lib
      /\ MaxRefs \in Nat \ {0} /\ Modules \in Nat /\ NoLib \notin Lib
      /\ custom \in [Lib -> BOOLEAN] /\ faces \in [Lib -> Seq(Face)]
      /\ owner \in [Face -> Lib \union {NoLib}] /\ memory \in [Face -> BOOLEAN]
  BY LifeAssumption, TypeReady DEF LifeInv
<1>4. Placed(faces, owner, live, ending)
  BY <1>3, ListedMeans DEF LifeInv, Sound
<1>5. ~InLeft(ending, f)
  BY <1>1, <1>4 DEF Placed
<1>6. blocks[<<"face", f>>] = 0
  BY <1>1 DEF LifeInv, BlocksBalanced, Alive
<1>7. /\ blocks'[<<"face", f>>] = IF custom[l] THEN 1 ELSE 0
      /\ \A b \in Block : b # <<"face", f>> => blocks'[b] = blocks[b]
      /\ blocks' \in [Block -> 0..Modules + 1]
  BY <1>1, <1>3, <1>6, BlockKinds DEF custom_memory_block, LifeTypeOK
<1>8. \A g \in Face : /\ owner'[g] = IF g = f THEN l ELSE owner[g]
                      /\ memory'[g] = IF g = f THEN custom[l] ELSE memory[g]
  BY <1>1, <1>3
<1>9. \A g \in Face : /\ faceRefs'[g] = IF g = f THEN 1 ELSE faceRefs[g]
                      /\ faceHeld'[g] = IF g = f THEN 1 ELSE faceHeld[g]
  BY <1>1, <1>3, TypeReady
<1>10. /\ \A g \in Face : Dying(g)' <=> Dying(g)
       /\ \A k \in Lib : Dropping(k)' <=> Dropping(k)
       /\ \A g \in Face : Alive(g)' <=> Alive(g) \/ g = f
       /\ ~Dying(f)
  BY <1>2, <1>3, <1>5, <1>8, DyingMeans DEF Alive
<1>11. LifeTypeOK'
  <2>1. owner' \in [Face -> Lib \union {NoLib}] /\ memory' \in [Face -> BOOLEAN]
    BY <1>1, <1>3
  <2>2. faceRefs' \in [Face -> 0..MaxRefs] /\ faceHeld' \in [Face -> 0..MaxRefs]
    <3>1. 1 \in 0..MaxRefs
      BY <1>3
    <3> QED BY <1>1, <1>3, <3>1 DEF LifeTypeOK
  <2>3. stream' \in [Face -> Stream \union {NoStream}]
    BY <1>1, <1>3 DEF LifeTypeOK
  <2>4. faces' \in [Lib -> Seq(Face)]
    BY <1>1, <1>3
  <2> QED BY <1>2, <1>3, <1>7, <2>1, <2>2, <2>3, <2>4 DEF LifeTypeOK
<1>12. FacesListedByOwner'
  <2>1. Placed(faces', owner', live, ending)
    BY <1>1, <1>3, <1>4, PlacedFace
  <2> QED BY <1>2, <1>3, <2>1, ListedMeansNext DEF Sound
<1>13. BlocksBalanced'
  <2>1. LibBlocks /\ FaceBlocks /\ GlyphBlocks
    BY BalancedParts DEF LifeInv
  <2>2. LibBlocks'
    <3> SUFFICES ASSUME NEW k \in Lib
                 PROVE  /\ blocks'[<<"library", k>>] = blocks[<<"library", k>>]
                        /\ blocks'[<<"modules", k>>] = blocks[<<"modules", k>>]
      BY <1>2, <1>10, <2>1 DEF LibBlocks
    <3> QED BY <1>7, BlockKinds
  <2>3. FaceBlocks'
    <3> SUFFICES ASSUME NEW g \in Face
                 PROVE  /\ blocks'[<<"face", g>>] = IF Alive(g)' /\ memory'[g] THEN 1 ELSE 0
                        /\ Alive(g)' /\ ~Dying(g)' => memory'[g] = custom'[owner'[g]]
      BY DEF FaceBlocks
    <3>1. CASE g = f
      BY <1>2, <1>7, <1>8, <1>10, <3>1
    <3>2. CASE g # f
      <4>1. blocks'[<<"face", g>>] = blocks[<<"face", g>>]
        BY <1>7, <3>2, BlockKinds
      <4> QED BY <1>2, <1>8, <1>10, <2>1, <3>2, <4>1 DEF FaceBlocks
    <3> QED BY <3>1, <3>2
  <2>4. GlyphBlocks'
    BY <1>2, <1>7, <2>1, BlockKinds DEF GlyphBlocks
  <2> QED BY <2>2, <2>3, <2>4, BalancedPartsNext
<1>14. AliveWhileReferenced' /\ CountsHeld'
  BY <1>2, <1>9, <1>10 DEF LifeInv, AliveWhileReferenced, CountsHeld
<1>15. Sound(ending') /\ Owes(ending', live', custom')
  BY <1>2 DEF LifeInv
<1> QED BY <1>11, <1>12, <1>13, <1>14, <1>15 DEF LifeInv

LEMMA NewFaceStep ==
  ASSUME LifeInv, NEW l \in Lib, NEW f \in Face, FT_New_Memory_Face(l, f)
  PROVE  LifeInv'
<1>1. /\ l \in live /\ ft_store_opened_face(l, f, NoStream)
      /\ UNCHANGED <<libVars, reading, closes, glyph, ending>>
  BY DEF FT_New_Memory_Face
<1>2. /\ stream' = [stream EXCEPT ![f] = NoStream] /\ owner' = [owner EXCEPT ![f] = l]
      /\ l # NoLib /\ NoStream \notin Stream
  BY <1>1, LifeAssumption DEF ft_store_opened_face
<1>3. /\ stream \in [Face -> Stream \union {NoStream}] /\ owner \in [Face -> Lib \union {NoLib}]
      /\ reading' \in [Stream -> Lib \union {NoLib}]
  BY <1>1 DEF LifeInv, LifeTypeOK
<1>4. \A g \in Face : /\ stream'[g] = IF g = f THEN NoStream ELSE stream[g]
                      /\ Alive(g)' <=> Alive(g) \/ g = f
  BY <1>2, <1>3 DEF Alive
<1>5. StreamsUsed'
  BY <1>1, <1>2, <1>4 DEF LifeInv, StreamsUsed
<1> QED BY <1>1, <1>3, <1>5, StoreStep

\* Between two calls the stream is the program's; then the face's.
LEMMA OpenReadStep ==
  ASSUME LifeInv, NEW l \in Lib, NEW s \in Stream, FT_Open_Face_read(l, s)
  PROVE  LifeInv'
<1>1. /\ Fresh(s) /\ reading' = [reading EXCEPT ![s] = l]
      /\ UNCHANGED <<libVars, faces, faceVars, closes, glyph, blocks, ending>>
  BY DEF FT_Open_Face_read
<1>2. UNCHANGED <<live, custom, libRefs, libHeld, faces, owner, faceRefs, memory, stream,
                  faceHeld, closes, glyph, blocks, ending>>
  BY <1>1 DEF libVars, faceVars
<1>3. LifeTypeOK /\ reading \in [Stream -> Lib \union {NoLib}]
  BY DEF LifeInv, LifeTypeOK
<1>4. \A t \in Stream : reading'[t] = IF t = s THEN l ELSE reading[t]
  BY <1>1, <1>3
<1>5. LifeTypeOK'
  <2>1. reading' \in [Stream -> Lib \union {NoLib}]
    BY <1>1, <1>3
  <2> QED BY <1>2, <1>3, <2>1 DEF LifeTypeOK
<1>6. StreamsUsed'
  BY <1>1, <1>2, <1>4 DEF LifeInv, StreamsUsed, Fresh, Alive
<1> QED BY <1>2, <1>5, <1>6, SameLists, SameEndings, SameCounts, SameBlocks DEF LifeInv

LEMMA OpenFailsStep ==
  ASSUME LifeInv, NEW s \in Stream, FT_Open_Face_fails(s)
  PROVE  LifeInv'
<1>1. /\ reading[s] # NoLib /\ reading' = [reading EXCEPT ![s] = NoLib]
      /\ closes' = [closes EXCEPT ![s] = @ + 1]
      /\ UNCHANGED <<libVars, faces, faceVars, glyph, blocks, ending>>
  BY DEF FT_Open_Face_fails
<1>2. UNCHANGED <<live, custom, libRefs, libHeld, faces, owner, faceRefs, memory, stream,
                  faceHeld, glyph, blocks, ending>>
  BY <1>1 DEF libVars, faceVars
<1>3. LifeTypeOK /\ reading \in [Stream -> Lib \union {NoLib}] /\ closes \in [Stream -> 0..1]
  BY DEF LifeInv, LifeTypeOK
<1>4. closes[s] = 0 /\ \A f \in Face : stream[f] # s
  BY <1>1 DEF LifeInv, StreamsUsed
<1>5. \A t \in Stream : /\ reading'[t] = IF t = s THEN NoLib ELSE reading[t]
                        /\ closes'[t] = IF t = s THEN 1 ELSE closes[t]
  BY <1>1, <1>3, <1>4
<1>6. LifeTypeOK'
  <2>1. reading' \in [Stream -> Lib \union {NoLib}] /\ closes' \in [Stream -> 0..1]
    BY <1>1, <1>3, <1>4
  <2> QED BY <1>2, <1>3, <2>1 DEF LifeTypeOK
<1>7. StreamsUsed'
  BY <1>2, <1>4, <1>5 DEF LifeInv, StreamsUsed, Alive
<1> QED BY <1>2, <1>6, <1>7, SameLists, SameEndings, SameCounts, SameBlocks DEF LifeInv

LEMMA OpenSucceedsStep ==
  ASSUME LifeInv, NEW s \in Stream, NEW f \in Face, FT_Open_Face_succeeds(s, f)
  PROVE  LifeInv'
<1> DEFINE l == reading[s]
<1>1. /\ l \in live /\ ft_store_opened_face(l, f, s)
      /\ reading' = [reading EXCEPT ![s] = NoLib]
      /\ UNCHANGED <<libVars, closes, glyph, ending>>
  BY DEF FT_Open_Face_succeeds
<1>2. /\ reading \in [Stream -> Lib \union {NoLib}] /\ live \subseteq Lib /\ NoLib \notin Lib
      /\ stream \in [Face -> Stream \union {NoStream}] /\ owner \in [Face -> Lib \union {NoLib}]
  BY LifeAssumption DEF LifeInv, LifeTypeOK
<1>3. l \in Lib /\ l # NoLib
  BY <1>1, <1>2
<1>4. closes[s] = 0 /\ \A g \in Face : stream[g] # s
  BY <1>3 DEF LifeInv, StreamsUsed
<1>5. stream' = [stream EXCEPT ![f] = s] /\ owner' = [owner EXCEPT ![f] = l]
  BY <1>1 DEF ft_store_opened_face
<1> HIDE DEF l
<1>6. \A g \in Face : /\ stream'[g] = IF g = f THEN s ELSE stream[g]
                      /\ Alive(g)' <=> Alive(g) \/ g = f
  BY <1>2, <1>3, <1>5 DEF Alive
<1>7. \A t \in Stream : reading'[t] = IF t = s THEN NoLib ELSE reading[t]
  BY <1>1, <1>2
<1>8. reading' \in [Stream -> Lib \union {NoLib}]
  BY <1>1, <1>2
<1>9. StreamsUsed'
  <2>1. UNCHANGED closes /\ StreamsUsed /\ ~Alive(f)
    BY <1>1 DEF LifeInv, ft_store_opened_face
  <2> QED BY <1>4, <1>6, <1>7, <2>1 DEF StreamsUsed
<1>10. UNCHANGED <<libVars, closes, glyph, ending>>
  BY <1>1
<1> QED BY <1>1, <1>8, <1>9, <1>10, StoreStep

\* FT_Reference_Face, and FT_Done_Face while other references are left.
LEMMA FaceCountStep ==
  ASSUME LifeInv, NEW f \in Face, Alive(f), ~Dying(f), NEW n \in 1..MaxRefs,
         faceRefs' = [faceRefs EXCEPT ![f] = n], faceHeld' = [faceHeld EXCEPT ![f] = n],
         UNCHANGED <<libVars, faces, owner, memory, stream, reading, closes, glyph, blocks, ending>>
  PROVE  LifeInv'
<1>1. UNCHANGED <<live, custom, libRefs, libHeld, faces, owner, memory, stream, reading, closes,
                  glyph, blocks, ending>>
  BY DEF libVars
<1>2. LifeTypeOK /\ MaxRefs \in Nat
  BY LifeAssumption DEF LifeInv
<1>3. LifeTypeOK'
  BY <1>1, <1>2 DEF LifeTypeOK
<1>4. AliveWhileReferenced' /\ CountsHeld'
  <2>1. \A g \in Face : (Alive(g)' <=> Alive(g)) /\ (Dying(g)' <=> Dying(g))
    BY <1>1 DEF Alive, Dying
  <2>2. \A g \in Face : /\ faceRefs'[g] = IF g = f THEN n ELSE faceRefs[g]
                        /\ faceHeld'[g] = IF g = f THEN n ELSE faceHeld[g]
    BY <1>2, TypeReady
  <2> QED BY <1>1, <1>2, <2>1, <2>2 DEF LifeInv, AliveWhileReferenced, CountsHeld
<1> QED BY <1>1, <1>3, <1>4, SameStreams, SameLists, SameEndings, SameBlocks DEF LifeInv

LEMMA LastReferenceStep ==
  ASSUME LifeInv, NEW f \in Face, Alive(f), ~Dying(f),
         last_reference(f, unlisted(faces[owner[f]], f))
  PROVE  LifeInv'
<1> DEFINE c == [lib |-> NoLib, free |-> FALSE, left |-> <<f>>]
<1>1. /\ faces' = [faces EXCEPT ![owner[f]] = unlisted(faces[owner[f]], f)]
      /\ faceHeld' = [faceHeld EXCEPT ![f] = 0]
      /\ ending' = <<c>> \o ending
      /\ UNCHANGED <<libVars, owner, faceRefs, memory, stream, reading, closes, glyph, blocks>>
  BY DEF last_reference
<1>2. UNCHANGED <<live, custom, libRefs, libHeld>>
  BY <1>1 DEF libVars
<1>3. /\ LifeTypeOK /\ Sound(ending) /\ Owes(ending, live, custom) /\ ending \in Seq(Ending)
      /\ live \in SUBSET Lib /\ NoLib \notin Lib /\ faces \in [Lib -> Seq(Face)]
      /\ owner \in [Face -> Lib \union {NoLib}] /\ MaxRefs \in Nat
  BY LifeAssumption, TypeReady DEF LifeInv
<1>4. c \in Ending /\ c.lib = NoLib /\ c.left = <<f>> /\ DOMAIN c.left = {1} /\ ToSet(c.left) = {f}
  BY OneEntry DEF Ending
<1> HIDE DEF c
<1>5. Placed(faces, owner, live, ending) /\ ~InLeft(ending, f) /\ owner[f] # NoLib
  BY <1>3, ListedMeans, DyingMeans DEF LifeInv, Sound, Alive
<1>6. /\ ending' \in Seq(Ending) /\ Sound(ending')
      /\ \A g : InLeft(ending', g) <=> InLeft(ending, g) \/ g = f
      /\ \A k : Ends(ending', k) <=> Ends(ending, k) \/ k = NoLib
      /\ \A k \in DOMAIN ending' : ending'[k] = c \/ \E m \in DOMAIN ending : ending'[k] = ending[m]
  <2> DEFINE t == <<c>> \o ending
  <2>1. /\ \A i, j \in DOMAIN c.left : c.left[i] = c.left[j] => i = j
        /\ \A g \in ToSet(c.left) : ~InLeft(ending, g)
        /\ c.lib = NoLib => \E g \in Face : c.left = <<g>>
        /\ c.lib # NoLib => ~Ends(ending, c.lib)
    BY <1>4, <1>5
  <2>2. /\ t \in Seq(Ending) /\ Sound(t)
        /\ \A g : InLeft(t, g) <=> InLeft(ending, g) \/ g \in ToSet(c.left)
        /\ \A k : Ends(t, k) <=> Ends(ending, k) \/ c.lib = k
        /\ \A k \in DOMAIN t : t[k] = c \/ \E m \in DOMAIN ending : t[k] = ending[m]
    BY <1>3, <1>4, <2>1, EndingPushed
  <2>3. ending' = t
    BY <1>1
  <2> HIDE DEF t
  <2> QED BY <1>4, <2>2, <2>3
<1>7. /\ \A g \in Face : Dying(g)' <=> Dying(g) \/ g = f
      /\ \A k \in Lib : Dropping(k)' <=> Dropping(k)
      /\ \A g \in Face : Alive(g)' <=> Alive(g)
  BY <1>1, <1>3, <1>6, DyingMeans DEF Alive
<1>8. /\ faces' \in [Lib -> Seq(Face)] /\ Placed(faces', owner, live, ending')
  BY <1>1, <1>3, <1>5, <1>6, PlacedUnlisted
<1>9. LifeTypeOK'
  <2>1. faceHeld' \in [Face -> 0..MaxRefs]
    BY <1>1, <1>3 DEF LifeTypeOK
  <2> QED BY <1>1, <1>2, <1>3, <1>6, <1>8, <2>1 DEF LifeTypeOK
<1>10. StreamsUsed'
  BY <1>1, SameStreams DEF LifeInv
<1>11. FacesListedByOwner'
  BY <1>1, <1>2, <1>6, <1>8, ListedMeansNext DEF Sound
<1>12. BlocksBalanced'
  <2>1. LibBlocks /\ FaceBlocks /\ GlyphBlocks
    BY BalancedParts DEF LifeInv
  <2>2. LibBlocks'
    BY <1>1, <1>2, <1>7, <2>1 DEF LibBlocks
  <2>3. FaceBlocks'
    BY <1>1, <1>2, <1>7, <2>1 DEF FaceBlocks
  <2>4. GlyphBlocks'
    BY <1>1, <2>1 DEF GlyphBlocks
  <2> QED BY <2>2, <2>3, <2>4, BalancedPartsNext
<1>13. AliveWhileReferenced' /\ CountsHeld'
  <2>1. \A g \in Face : faceHeld'[g] = IF g = f THEN 0 ELSE faceHeld[g]
    BY <1>1, TypeReady, <1>3
  <2>2. AliveWhileReferenced'
    BY <1>2, <1>7, <2>1 DEF LifeInv, AliveWhileReferenced
  <2>3. CountsHeld'
    BY <1>1, <1>2, <1>7, <2>1 DEF LifeInv, CountsHeld
  <2> QED BY <2>2, <2>3
<1>14. Owes(ending', live', custom')
  BY <1>2, <1>3, <1>4, <1>6 DEF Owes
<1> QED BY <1>6, <1>9, <1>10, <1>11, <1>12, <1>13, <1>14 DEF LifeInv

LEMMA DropFaceStep ==
  ASSUME LifeInv, drop_face_record
  PROVE  LifeInv'
<1> DEFINE f == Head(Head(ending).left)
<1>1. /\ ending # <<>> /\ Head(ending).left # <<>>
      /\ owner' = [owner EXCEPT ![f] = NoLib]
      /\ faceRefs' = [faceRefs EXCEPT ![f] = 0]
      /\ memory' = [memory EXCEPT ![f] = FALSE]
      /\ stream' = [stream EXCEPT ![f] = NoStream]
      /\ closes' = IF stream[f] = NoStream THEN closes ELSE [closes EXCEPT ![stream[f]] = @ + 1]
      /\ blocks' = free_custom_memory_block(blocks, memory[f], <<"face", f>>)
      /\ ending' = Advanced(ending)
      /\ UNCHANGED <<libVars, faces, faceHeld, reading, glyph>>
  BY DEF drop_face_record, Advanced
<1>2. UNCHANGED <<live, custom, libRefs, libHeld>>
  BY <1>1 DEF libVars
<1>3. /\ LifeTypeOK /\ Sound(ending) /\ Owes(ending, live, custom) /\ ending \in Seq(Ending)
      /\ live \in SUBSET Lib /\ NoLib \notin Lib /\ NoStream \notin Stream
      /\ faces \in [Lib -> Seq(Face)] /\ memory \in [Face -> BOOLEAN]
      /\ owner \in [Face -> Lib \union {NoLib}] /\ MaxRefs \in Nat /\ Modules \in Nat
  BY LifeAssumption, TypeReady DEF LifeInv
<1>4. /\ f \in Face /\ InLeft(ending, f)
      /\ ending' \in Seq(Ending) /\ Sound(ending')
      /\ \A g : InLeft(ending', g) <=> InLeft(ending, g) /\ g # f
      /\ \A l \in Lib : Ends(ending', l) <=> Ends(ending, l)
      /\ \A k \in DOMAIN ending' : ending'[k].lib # NoLib =>
           \E m \in DOMAIN ending : ending'[k].lib = ending[m].lib /\ ending'[k].free = ending[m].free
  <2>1. ending \in Seq(Ending) /\ Sound(ending) /\ ending # <<>> /\ Head(ending).left # <<>>
        /\ ending' = Advanced(ending)
    BY <1>1, <1>3
  <2> QED BY <2>1, FaceEnded, SMTT(60)
<1> HIDE DEF f
<1>5. Dying(f) /\ Alive(f) /\ faceHeld[f] = 0
  BY <1>4, NotDying, DyingMeans
<1>6. \A g \in Face : /\ owner'[g] = IF g = f THEN NoLib ELSE owner[g]
                      /\ memory'[g] = IF g = f THEN FALSE ELSE memory[g]
  BY <1>1, <1>3
<1>7. \A g \in Face : /\ faceRefs'[g] = IF g = f THEN 0 ELSE faceRefs[g]
                      /\ stream'[g] = IF g = f THEN NoStream ELSE stream[g]
  BY <1>1, <1>3 DEF LifeTypeOK
<1>8. /\ \A g \in Face : Dying(g)' <=> Dying(g) /\ g # f
      /\ \A k \in Lib : Dropping(k)' <=> Dropping(k)
      /\ \A g \in Face : Alive(g)' <=> Alive(g) /\ g # f
  BY <1>4, <1>6, DyingMeans DEF Alive
<1>9. blocks[<<"face", f>>] = IF memory[f] THEN 1 ELSE 0
  BY <1>4, <1>5 DEF LifeInv, BlocksBalanced
<1>10. /\ blocks'[<<"face", f>>] = 0
       /\ \A b \in Block : b # <<"face", f>> => blocks'[b] = blocks[b]
       /\ blocks' \in [Block -> 0..Modules + 1]
  BY <1>1, <1>3, <1>4, <1>9, BlockKinds DEF free_custom_memory_block, LifeTypeOK
<1>11. \A s \in Stream : closes'[s] = IF stream[f] = s THEN 1 ELSE closes[s]
  <2>1. closes \in [Stream -> 0..1] /\ stream[f] \in Stream \union {NoStream}
    BY <1>3, <1>4 DEF LifeTypeOK
  <2>2. stream[f] \in Stream => closes[stream[f]] = 0
    BY <1>4 DEF LifeInv, StreamsUsed
  <2> QED BY <1>1, <1>3, <2>1, <2>2
<1>12. LifeTypeOK'
  <2>1. owner' \in [Face -> Lib \union {NoLib}] /\ memory' \in [Face -> BOOLEAN]
    BY <1>1, <1>3
  <2>2. faceRefs' \in [Face -> 0..MaxRefs]
    <3>1. 0 \in 0..MaxRefs /\ faceRefs \in [Face -> 0..MaxRefs]
      BY <1>3 DEF LifeTypeOK
    <3>2. faceRefs' = [faceRefs EXCEPT ![f] = 0]
      BY <1>1
    <3> QED BY <3>1, <3>2
  <2>3. stream' \in [Face -> Stream \union {NoStream}]
    BY <1>1, <1>3 DEF LifeTypeOK
  <2>4. closes' \in [Stream -> 0..1]
    <3>1. closes \in [Stream -> 0..1] /\ DOMAIN closes' = Stream /\ closes' = [s \in Stream |-> closes'[s]]
      BY <1>1, <1>3 DEF LifeTypeOK
    <3>2. \A s \in Stream : closes'[s] \in 0..1
      BY <1>11, <3>1
    <3> QED BY <3>1, <3>2
  <2> QED BY <1>1, <1>2, <1>3, <1>4, <1>10, <2>1, <2>2, <2>3, <2>4 DEF LifeTypeOK
<1>13. StreamsUsed'
  <2> SUFFICES ASSUME NEW s \in Stream
               PROVE  /\ reading'[s] # NoLib => closes'[s] = 0 /\ \A g \in Face : stream'[g] # s
                      /\ \A g \in Face : stream'[g] = s => closes'[s] = 0 /\ Alive(g)'
                      /\ \A g, h \in Face : stream'[g] = s /\ stream'[h] = s => g = h
    BY DEF StreamsUsed
  <2>1. \A g \in Face : stream'[g] = s => g # f /\ stream[g] = s
    BY <1>3, <1>7
  <2>2. /\ reading[s] # NoLib => closes[s] = 0 /\ \A g \in Face : stream[g] # s
        /\ \A g \in Face : stream[g] = s => closes[s] = 0 /\ Alive(g)
        /\ \A g, h \in Face : stream[g] = s /\ stream[h] = s => g = h
    BY DEF LifeInv, StreamsUsed
  <2> QED BY <1>1, <1>4, <1>8, <1>11, <2>1, <2>2
<1>14. FacesListedByOwner'
  <2>1. Placed(faces, owner, live, ending)
    BY <1>3, ListedMeans DEF LifeInv, Sound
  <2>2. Placed(faces, owner', live, ending')
    BY <1>1, <1>3, <1>4, <2>1, PlacedGone
  <2> QED BY <1>1, <1>2, <1>4, <2>2, ListedMeansNext DEF Sound
<1>15. BlocksBalanced'
  <2>1. LibBlocks /\ FaceBlocks /\ GlyphBlocks
    BY BalancedParts DEF LifeInv
  <2>2. LibBlocks'
    <3> SUFFICES ASSUME NEW k \in Lib
                 PROVE  /\ blocks'[<<"library", k>>] = blocks[<<"library", k>>]
                        /\ blocks'[<<"modules", k>>] = blocks[<<"modules", k>>]
      BY <1>2, <1>8, <2>1 DEF LibBlocks
    <3> QED BY <1>10, BlockKinds
  <2>3. FaceBlocks'
    <3> SUFFICES ASSUME NEW g \in Face
                 PROVE  /\ blocks'[<<"face", g>>] = IF Alive(g)' /\ memory'[g] THEN 1 ELSE 0
                        /\ Alive(g)' /\ ~Dying(g)' => memory'[g] = custom'[owner'[g]]
      BY DEF FaceBlocks
    <3>1. CASE g = f
      BY <1>8, <1>10, <3>1
    <3>2. CASE g # f
      <4>1. blocks'[<<"face", g>>] = blocks[<<"face", g>>]
        BY <1>10, <3>2, BlockKinds
      <4> QED BY <1>2, <1>6, <1>8, <2>1, <3>2, <4>1 DEF FaceBlocks
    <3> QED BY <3>1, <3>2
  <2>4. GlyphBlocks'
    BY <1>1, <1>10, <2>1, BlockKinds DEF GlyphBlocks
  <2> QED BY <2>2, <2>3, <2>4, BalancedPartsNext
<1>16. AliveWhileReferenced' /\ CountsHeld'
  <2>1. faceHeld' = faceHeld
    BY <1>1
  <2>2. AliveWhileReferenced'
    BY <1>2, <1>5, <1>8, <2>1 DEF LifeInv, AliveWhileReferenced
  <2>3. CountsHeld'
    BY <1>2, <1>5, <1>7, <1>8, <2>1 DEF LifeInv, CountsHeld
  <2> QED BY <2>2, <2>3
<1>17. Owes(ending', live', custom')
  BY <1>2, <1>3, <1>4 DEF Owes
<1> QED BY <1>4, <1>12, <1>13, <1>14, <1>15, <1>16, <1>17 DEF LifeInv

-----------------------------------------------------------------------------
(* Glyphs *)

\* A glyph call touches one glyph and its two blocks.
LEMMA GlyphStep ==
  ASSUME LifeInv, NEW g \in Glyph,
         UNCHANGED <<libVars, faces, faceVars, reading, closes, ending>>,
         NEW r \in GlyphRec \union {NoGlyph}, glyph' = [glyph EXCEPT ![g] = r],
         blocks' \in [Block -> 0..Modules + 1],
         \A b \in Block : b # <<"record", g>> /\ b # <<"payload", g>> => blocks'[b] = blocks[b],
         blocks'[<<"record", g>>] = IF r # NoGlyph /\ r.memory THEN 1 ELSE 0,
         blocks'[<<"payload", g>>] = IF r # NoGlyph /\ r.memory /\ r.shape = "filled" THEN 1 ELSE 0
  PROVE  LifeInv'
<1>1. UNCHANGED <<live, custom, libRefs, libHeld, faces, owner, faceRefs, memory, stream,
                  faceHeld, reading, closes, ending>>
  BY DEF libVars, faceVars
<1>2. LifeTypeOK /\ glyph \in [Glyph -> GlyphRec \union {NoGlyph}]
  BY DEF LifeInv, LifeTypeOK
<1>3. LifeTypeOK'
  <2>1. glyph' \in [Glyph -> GlyphRec \union {NoGlyph}]
    BY <1>2
  <2> QED BY <1>1, <1>2, <2>1 DEF LifeTypeOK
<1>4. BlocksBalanced'
  <2>1. LibBlocks /\ FaceBlocks /\ GlyphBlocks
    BY BalancedParts DEF LifeInv
  <2>2. \A l \in Lib : /\ blocks'[<<"library", l>>] = blocks[<<"library", l>>]
                       /\ blocks'[<<"modules", l>>] = blocks[<<"modules", l>>]
    BY BlockKinds
  <2>3. \A f \in Face : blocks'[<<"face", f>>] = blocks[<<"face", f>>]
    BY BlockKinds
  <2>4. /\ \A l \in Lib : Dropping(l)' <=> Dropping(l)
        /\ \A f \in Face : (Alive(f)' <=> Alive(f)) /\ (Dying(f)' <=> Dying(f))
    BY <1>1 DEF Alive, Dying, Dropping
  <2>5. LibBlocks'
    BY <1>1, <2>1, <2>2, <2>4 DEF LibBlocks
  <2>6. FaceBlocks'
    BY <1>1, <2>1, <2>3, <2>4 DEF FaceBlocks
  <2>7. GlyphBlocks'
    <3> SUFFICES ASSUME NEW h \in Glyph
                 PROVE  /\ blocks'[<<"record", h>>] =
                             IF glyph'[h] # NoGlyph /\ glyph'[h].memory THEN 1 ELSE 0
                        /\ blocks'[<<"payload", h>>] =
                             IF glyph'[h] # NoGlyph /\ glyph'[h].memory /\ glyph'[h].shape = "filled"
                             THEN 1 ELSE 0
      BY DEF GlyphBlocks
    <3>1. CASE h = g
      <4>1. glyph'[h] = r
        BY <1>2, <3>1
      <4> QED BY <3>1, <4>1
    <3>2. CASE h # g
      <4>1. glyph'[h] = glyph[h]
        BY <1>2, <3>2
      <4>2. blocks'[<<"record", h>>] = blocks[<<"record", h>>]
            /\ blocks'[<<"payload", h>>] = blocks[<<"payload", h>>]
        BY <3>2, BlockKinds
      <4> QED BY <2>1, <4>1, <4>2 DEF GlyphBlocks
    <3> QED BY <3>1, <3>2
  <2> QED BY <2>5, <2>6, <2>7, BalancedPartsNext
<1> QED BY <1>1, <1>3, <1>4, SameStreams, SameLists, SameEndings, SameCounts DEF LifeInv

LEMMA NewGlyphStep ==
  ASSUME LifeInv, NEW l \in live, NEW g \in Glyph, NEW shape \in {"outline", "empty", "filled"},
         glyph_allocation_tokens(l, g, shape)
  PROVE  LifeInv'
<1> DEFINE payload == shape = "filled"
           record == custom_memory_block(blocks, custom[l], <<"record", g>>)
           both == custom_memory_block(record, custom[l] /\ payload, <<"payload", g>>)
           r == [library |-> l, memory |-> custom[l], shape |-> shape]
<1>1. /\ glyph[g] = NoGlyph
      /\ \/ glyph' = [glyph EXCEPT ![g] = r] /\ blocks' = both
         \/ /\ payload /\ UNCHANGED glyph
            /\ blocks' = free_custom_memory_block(record, custom[l], <<"record", g>>)
      /\ UNCHANGED <<libVars, faces, faceVars, reading, closes, ending>>
  BY DEF glyph_allocation_tokens
<1>2. /\ LifeTypeOK /\ l \in Lib /\ custom[l] \in BOOLEAN /\ Modules \in Nat
      /\ blocks \in [Block -> 0..Modules + 1] /\ glyph \in [Glyph -> GlyphRec \union {NoGlyph}]
      /\ NoGlyph \notin GlyphRec
  BY LifeAssumption DEF LifeInv, LifeTypeOK, GlyphRec
<1>3. blocks[<<"record", g>>] = 0 /\ blocks[<<"payload", g>>] = 0
  BY <1>1 DEF LifeInv, BlocksBalanced
<1>4. <<"record", g>> \in Block /\ <<"payload", g>> \in Block /\ <<"record", g>> # <<"payload", g>>
  BY BlockKinds
<1>5. /\ record \in [Block -> 0..Modules + 1]
      /\ record[<<"record", g>>] = IF custom[l] THEN 1 ELSE 0
      /\ record[<<"payload", g>>] = 0
      /\ \A b \in Block : b # <<"record", g>> => record[b] = blocks[b]
  BY <1>2, <1>3, <1>4 DEF custom_memory_block
<1> HIDE DEF record
<1>6. /\ both \in [Block -> 0..Modules + 1]
      /\ both[<<"record", g>>] = IF custom[l] THEN 1 ELSE 0
      /\ both[<<"payload", g>>] = IF custom[l] /\ payload THEN 1 ELSE 0
      /\ \A b \in Block : b # <<"record", g>> /\ b # <<"payload", g>> => both[b] = blocks[b]
  BY <1>2, <1>4, <1>5 DEF custom_memory_block
<1>7. CASE glyph' = [glyph EXCEPT ![g] = r] /\ blocks' = both
  <2>1. r \in GlyphRec /\ r.memory = custom[l] /\ r.shape = shape
    BY <1>2 DEF GlyphRec
  <2>2. r # NoGlyph
    BY <1>2, <2>1
  <2> HIDE DEF r, both
  <2> QED BY <1>1, <1>6, <1>7, <2>1, <2>2, GlyphStep
<1>8. CASE /\ UNCHANGED glyph
           /\ blocks' = free_custom_memory_block(record, custom[l], <<"record", g>>)
  <2>1. /\ blocks' \in [Block -> 0..Modules + 1]
        /\ blocks'[<<"record", g>>] = 0 /\ blocks'[<<"payload", g>>] = 0
        /\ \A b \in Block : b # <<"record", g>> /\ b # <<"payload", g>> => blocks'[b] = blocks[b]
    BY <1>2, <1>4, <1>5, <1>8 DEF free_custom_memory_block
  <2>2. glyph' = [glyph EXCEPT ![g] = NoGlyph]
    BY <1>1, <1>2, <1>8
  <2> QED BY <1>1, <2>1, <2>2, GlyphStep
<1> QED BY <1>1, <1>7, <1>8

LEMMA OutlineCopyStep ==
  ASSUME LifeInv, NEW l \in Lib, NEW g \in Glyph, outline_copy(l, g)
  PROVE  LifeInv'
<1> DEFINE r == [library |-> l, memory |-> FALSE, shape |-> "outline"]
<1>1. /\ glyph[g] = NoGlyph /\ glyph' = [glyph EXCEPT ![g] = r] /\ blocks' = blocks
      /\ UNCHANGED <<libVars, faces, faceVars, reading, closes, ending>>
  BY DEF outline_copy
<1>2. r \in GlyphRec /\ ~r.memory
  BY DEF GlyphRec
<1>3. blocks' \in [Block -> 0..Modules + 1]
  BY <1>1 DEF LifeInv, LifeTypeOK
<1>4. blocks'[<<"record", g>>] = 0 /\ blocks'[<<"payload", g>>] = 0
  BY <1>1 DEF LifeInv, BlocksBalanced
<1> HIDE DEF r
<1> QED BY <1>1, <1>2, <1>3, <1>4, GlyphStep

LEMMA DoneGlyphStep ==
  ASSUME LifeInv, NEW g \in Glyph, FT_Done_Glyph(g)
  PROVE  LifeInv'
<1> DEFINE r == glyph[g]
           left == free_custom_memory_block(blocks, r.memory, <<"record", g>>)
<1>1. /\ r # NoGlyph /\ glyph' = [glyph EXCEPT ![g] = NoGlyph]
      /\ blocks' = free_custom_memory_block(left, r.memory /\ r.shape = "filled", <<"payload", g>>)
      /\ UNCHANGED <<libVars, faces, faceVars, reading, closes, ending>>
  BY DEF FT_Done_Glyph
<1>2. blocks \in [Block -> 0..Modules + 1] /\ Modules \in Nat /\ r.memory \in BOOLEAN
  <2>1. r \in GlyphRec
    BY <1>1 DEF LifeInv, LifeTypeOK
  <2> QED BY <2>1, LifeAssumption DEF LifeInv, LifeTypeOK, GlyphRec
<1>3. /\ blocks[<<"record", g>>] = IF r.memory THEN 1 ELSE 0
      /\ blocks[<<"payload", g>>] = IF r.memory /\ r.shape = "filled" THEN 1 ELSE 0
  BY <1>1 DEF LifeInv, BlocksBalanced
<1>4. <<"record", g>> \in Block /\ <<"payload", g>> \in Block /\ <<"record", g>> # <<"payload", g>>
  BY BlockKinds
<1> HIDE DEF r
<1>5. /\ left \in [Block -> 0..Modules + 1]
      /\ left[<<"record", g>>] = 0
      /\ left[<<"payload", g>>] = blocks[<<"payload", g>>]
      /\ \A b \in Block : b # <<"record", g>> => left[b] = blocks[b]
  BY <1>2, <1>3, <1>4 DEF free_custom_memory_block
<1> HIDE DEF left
<1>6. /\ blocks' \in [Block -> 0..Modules + 1]
      /\ blocks'[<<"record", g>>] = 0 /\ blocks'[<<"payload", g>>] = 0
      /\ \A b \in Block : b # <<"record", g>> /\ b # <<"payload", g>> => blocks'[b] = blocks[b]
  BY <1>1, <1>2, <1>3, <1>4, <1>5 DEF free_custom_memory_block
<1> QED BY <1>1, <1>6, GlyphStep

-----------------------------------------------------------------------------
(* The invariant holds in every state *)

LEMMA LibraryStep ==
  ASSUME LifeInv, NEW l \in Lib,
         \/ FT_Init_FreeType(l) \/ FT_New_Library(l) \/ FT_Add_Default_Modules(l)
         \/ FT_Reference_Library(l) \/ FT_Done_Library(l) \/ FT_Done_FreeType(l)
  PROVE  LifeInv'
<1>1. CASE FT_Init_FreeType(l)
  BY <1>1, NewLibraryStep DEF FT_Init_FreeType
<1>2. CASE FT_New_Library(l)
  BY <1>2, NewLibraryStep DEF FT_New_Library
<1>3. CASE FT_Add_Default_Modules(l)
  BY <1>3, ModulesStep
<1> DEFINE n == libRefs[l]
<1>4. /\ n \in 0..MaxRefs /\ libHeld[l] = n /\ MaxRefs \in Nat /\ (l \in live <=> n > 0)
      /\ libHeld \in [Lib -> Nat]
  BY LifeAssumption, TypeReady DEF LifeInv, LifeTypeOK, CountsHeld, AliveWhileReferenced
<1>5. CASE FT_Reference_Library(l)
  <2>1. /\ l \in live /\ n < MaxRefs /\ libRefs' = [libRefs EXCEPT ![l] = n + 1]
        /\ libHeld' = [libHeld EXCEPT ![l] = n + 1]
        /\ UNCHANGED <<live, custom, faces, faceVars, reading, closes, glyph, blocks, ending>>
    BY <1>4, <1>5 DEF FT_Reference_Library
  <2>2. n + 1 \in 1..MaxRefs
    BY <1>4, <2>1
  <2> HIDE DEF n
  <2> QED BY <2>1, <2>2, LibraryCountStep
<1>6. CASE FT_Done_Library(l)
  <2>1. CASE n = 1
    BY <1>6, <2>1, DropLibraryStep DEF FT_Done_Library
  <2>2. CASE n # 1
    <3>1. /\ l \in live /\ libRefs' = [libRefs EXCEPT ![l] = n - 1]
          /\ libHeld' = [libHeld EXCEPT ![l] = n - 1]
          /\ UNCHANGED <<live, custom, faces, faceVars, reading, closes, glyph, blocks, ending>>
      BY <1>4, <1>6, <2>2 DEF FT_Done_Library
    <3>2. n - 1 \in 1..MaxRefs
      BY <1>4, <2>2, <3>1
    <3> HIDE DEF n
    <3> QED BY <3>1, <3>2, LibraryCountStep
  <2> QED BY <2>1, <2>2
<1>7. CASE FT_Done_FreeType(l)
  BY <1>7, DropLibraryStep DEF FT_Done_FreeType
<1> QED BY <1>1, <1>2, <1>3, <1>5, <1>6, <1>7

LEMMA FaceStep ==
  ASSUME LifeInv, NEW f \in Face, FT_Reference_Face(f) \/ FT_Done_Face(f)
  PROVE  LifeInv'
<1> DEFINE n == faceRefs[f]
<1>1. Alive(f) /\ ~Dying(f)
  BY DEF FT_Reference_Face, FT_Done_Face
<1>2. n \in 0..MaxRefs /\ faceHeld[f] = n /\ MaxRefs \in Nat /\ n > 0
  BY <1>1, LifeAssumption DEF LifeInv, LifeTypeOK, CountsHeld, AliveWhileReferenced
<1>3. CASE FT_Reference_Face(f)
  <2>1. /\ n < MaxRefs /\ faceRefs' = [faceRefs EXCEPT ![f] = n + 1]
        /\ faceHeld' = [faceHeld EXCEPT ![f] = n + 1]
        /\ UNCHANGED <<libVars, faces, owner, memory, stream, reading, closes, glyph, blocks, ending>>
    BY <1>2, <1>3 DEF FT_Reference_Face
  <2>2. n + 1 \in 1..MaxRefs
    BY <1>2, <2>1
  <2> HIDE DEF n
  <2> QED BY <1>1, <2>1, <2>2, FaceCountStep
<1>4. CASE FT_Done_Face(f)
  <2>1. CASE n > 1
    <3>1. /\ faceRefs' = [faceRefs EXCEPT ![f] = n - 1]
          /\ faceHeld' = [faceHeld EXCEPT ![f] = n - 1]
          /\ UNCHANGED <<libVars, faces, owner, memory, stream, reading, closes, glyph, blocks, ending>>
      BY <1>2, <1>4, <2>1 DEF FT_Done_Face, one_reference_less
    <3>2. n - 1 \in 1..MaxRefs
      BY <1>2, <2>1
    <3> HIDE DEF n
    <3> QED BY <1>1, <3>1, <3>2, FaceCountStep
  <2>2. CASE ~(n > 1)
    <3>1. last_reference(f, unlisted(faces[owner[f]], f))
      BY <1>4, <2>2 DEF FT_Done_Face
    <3> QED BY <1>1, <3>1, LastReferenceStep
  <2> QED BY <2>1, <2>2
<1> QED BY <1>3, <1>4

LEMMA AnyGlyphStep ==
  ASSUME LifeInv,
         \/ \E l \in Lib, g \in Glyph : FT_New_Glyph(l, g)
         \/ \E f \in Face, g \in Glyph : FT_Get_Glyph(f, g)
         \/ \E g \in Glyph : FT_Done_Glyph(g)
         \/ \E g, h \in Glyph : FT_Glyph_Copy(g, h)
  PROVE  LifeInv'
<1>1. CASE \E l \in Lib, g \in Glyph : FT_New_Glyph(l, g)
  BY <1>1, NewGlyphStep DEF FT_New_Glyph
<1>2. ASSUME NEW f \in Face, NEW g \in Glyph, FT_Get_Glyph(f, g) PROVE LifeInv'
  <2>1. owner[f] \in Lib
    BY <1>2 DEF FT_Get_Glyph, Alive, LifeInv, LifeTypeOK
  <2> QED BY <1>2, <2>1, OutlineCopyStep, NewGlyphStep DEF FT_Get_Glyph
<1>3. CASE \E g \in Glyph : FT_Done_Glyph(g)
  BY <1>3, DoneGlyphStep
<1>4. ASSUME NEW g \in Glyph, NEW h \in Glyph, FT_Glyph_Copy(g, h) PROVE LifeInv'
  <2>1. glyph[g] \in GlyphRec
    BY <1>4 DEF FT_Glyph_Copy, LifeInv, LifeTypeOK
  <2>2. glyph[g].library \in Lib /\ glyph[g].shape \in {"outline", "empty", "filled"}
    BY <2>1 DEF GlyphRec
  <2> QED BY <1>4, <2>2, OutlineCopyStep, NewGlyphStep DEF FT_Glyph_Copy
<1> QED BY <1>1, <1>2, <1>3, <1>4

LEMMA LifeStep == LifeInv /\ [Next]_vars => LifeInv'
<1> SUFFICES ASSUME LifeInv, [Next]_vars PROVE LifeInv'
  OBVIOUS
<1>1. CASE \E l \in Lib : \/ FT_Init_FreeType(l) \/ FT_New_Library(l)
                          \/ FT_Add_Default_Modules(l) \/ FT_Reference_Library(l)
                          \/ FT_Done_Library(l) \/ FT_Done_FreeType(l)
  BY <1>1, LibraryStep
<1>2. CASE \E l \in Lib, f \in Face : FT_New_Memory_Face(l, f)
  BY <1>2, NewFaceStep
<1>3. CASE \E l \in Lib, s \in Stream : FT_Open_Face_read(l, s)
  BY <1>3, OpenReadStep
<1>4. CASE \E s \in Stream : FT_Open_Face_fails(s)
  BY <1>4, OpenFailsStep
<1>5. CASE \E s \in Stream, f \in Face : FT_Open_Face_succeeds(s, f)
  BY <1>5, OpenSucceedsStep
<1>6. CASE \E f \in Face : FT_Reference_Face(f) \/ FT_Done_Face(f)
  BY <1>6, FaceStep
<1>7. CASE \/ \E l \in Lib, g \in Glyph : FT_New_Glyph(l, g)
           \/ \E f \in Face, g \in Glyph : FT_Get_Glyph(f, g)
           \/ \E g \in Glyph : FT_Done_Glyph(g)
           \/ \E g, h \in Glyph : FT_Glyph_Copy(g, h)
  BY <1>7, AnyGlyphStep
<1>8. CASE drop_face_record
  BY <1>8, DropFaceStep
<1>9. CASE drop_library_rec_ends
  BY <1>9, LibraryEndsStep
<1>10. CASE UNCHANGED vars
  <2>1. UNCHANGED <<live, custom, libRefs, libHeld, faces, owner, faceRefs, memory, stream,
                    faceHeld, reading, closes, glyph, blocks, ending>>
    BY <1>10 DEF vars, libVars, faceVars
  <2>2. LifeTypeOK'
    BY <2>1 DEF LifeInv, LifeTypeOK
  <2> QED BY <2>1, <2>2, SameStreams, SameLists, SameEndings, SameCounts, SameBlocks DEF LifeInv
<1> QED BY <1>1, <1>2, <1>3, <1>4, <1>5, <1>6, <1>7, <1>8, <1>9, <1>10 DEF Next

\* Whatever the program and its callbacks do, in whatever order, the types, the
\* streams, the lists, the blocks, the references and the stack of what is being
\* destroyed agree in every state.
THEOREM LifeInvariance == Spec => []LifeInv
<1>1. Init => LifeInv
  BY LifeInit
<1>2. LifeInv /\ [Next]_vars => LifeInv'
  BY LifeStep
<1> QED BY <1>1, <1>2, PTL DEF Spec

\* No stream handed to FT_Open_Face is closed twice, by the failing call and a
\* face or by two faces: at most one of them has it at any moment.
THEOREM StreamsStayClosedOnce == Spec => []StreamsClosedOnce
<1>1. LifeInv => StreamsClosedOnce
  BY UsedIsClosedOnce DEF LifeInv
<1> QED BY <1>1, LifeInvariance, PTL

\* A living face is always where it will be destroyed from, and only there: in
\* the list of its live library or on the stack of FT_Done_Face and
\* drop_library_rec calls.
THEOREM FacesStayListed == Spec => []FacesListedByOwner
<1>1. LifeInv => FacesListedByOwner
  BY DEF LifeInv
<1> QED BY <1>1, LifeInvariance, PTL

\* The callbacks of a custom FT_Memory are never asked to free a block twice, and
\* every block goes with its object, also when allocations failed on the way.
THEOREM BlocksStayBalanced == Spec => []BlocksBalanced
<1>1. LifeInv => BlocksBalanced
  BY DEF LifeInv
<1> QED BY <1>1, LifeInvariance, PTL

\* No library or face goes while the program has references to it (but a face
\* goes with its library), and none outlives the last.
THEOREM AliveStaysReferenced == Spec => []AliveWhileReferenced
<1>1. LifeInv => AliveWhileReferenced
  BY DEF LifeInv
<1> QED BY <1>1, LifeInvariance, PTL

-----------------------------------------------------------------------------
(* Streams are not forgotten *)

\* Steps that open no face, close no stream and destroy no face.
LEMMA SameUse ==
  ASSUME NEW s \in Stream, ~Fresh(s), UNCHANGED <<closes, reading, stream>>
  PROVE  ~Fresh(s)'
BY DEF Fresh

LEMMA StreamsStep == LifeInv /\ [Next]_vars => \A s \in Stream : ~Fresh(s) => ~Fresh(s)'
<1> SUFFICES ASSUME LifeInv, [Next]_vars, NEW s \in Stream, ~Fresh(s) PROVE ~Fresh(s)'
  OBVIOUS
<1>1. /\ closes \in [Stream -> 0..1] /\ reading \in [Stream -> Lib \union {NoLib}]
      /\ stream \in [Face -> Stream \union {NoStream}] /\ NoLib \notin Lib /\ NoStream \notin Stream
      /\ live \subseteq Lib /\ owner \in [Face -> Lib \union {NoLib}]
  BY LifeAssumption DEF LifeInv, LifeTypeOK
<1>2. \A t \in Stream, f \in Face : stream[f] = t => closes[t] = 0 /\ Alive(f)
  BY DEF LifeInv, StreamsUsed
<1>3. ASSUME NEW l \in Lib, NEW t \in Stream, FT_Open_Face_read(l, t) PROVE ~Fresh(s)'
  <2>1. /\ reading' = [reading EXCEPT ![t] = l] /\ closes' = closes /\ stream' = stream
    BY <1>3 DEF FT_Open_Face_read, faceVars
  <2>2. reading'[s] = NoLib => reading[s] = NoLib
    BY <1>1, <2>1
  <2> QED BY <2>1, <2>2 DEF Fresh
<1>4. ASSUME NEW t \in Stream, FT_Open_Face_fails(t) PROVE ~Fresh(s)'
  <2>1. /\ reading' = [reading EXCEPT ![t] = NoLib] /\ closes' = [closes EXCEPT ![t] = @ + 1]
        /\ stream' = stream
    BY <1>4 DEF FT_Open_Face_fails, faceVars
  <2>2. CASE s = t
    <3>1. closes'[s] = closes[s] + 1 /\ closes[s] \in 0..1
      BY <1>1, <2>1, <2>2
    <3>2. closes'[s] # 0
      BY <3>1
    <3> QED BY <3>2 DEF Fresh
  <2>3. CASE s # t
    <3>1. closes'[s] = closes[s] /\ reading'[s] = reading[s]
      BY <1>1, <2>1, <2>3
    <3> QED BY <2>1, <3>1 DEF Fresh
  <2> QED BY <2>2, <2>3
<1>5. ASSUME NEW l, NEW f \in Face, NEW t, ft_store_opened_face(l, f, t), closes' = closes,
             reading' = reading \/ (t \in Stream /\ reading' = [reading EXCEPT ![t] = NoLib])
      PROVE  ~Fresh(s)'
  <2>1. ~Alive(f) /\ stream' = [stream EXCEPT ![f] = t]
    BY <1>5 DEF ft_store_opened_face
  <2>2. stream[f] # s
    BY <1>2, <2>1
  <2>3. stream'[f] = t /\ \A g \in Face \ {f} : stream'[g] = stream[g]
    BY <1>1, <2>1
  <2>4. \A g \in Face : stream[g] = s => stream'[g] = s
    BY <2>2, <2>3
  <2>5. reading[s] # NoLib => reading'[s] # NoLib \/ s = t
    BY <1>1, <1>5
  <2> QED BY <1>5, <2>3, <2>4, <2>5 DEF Fresh
<1>6. CASE \E l \in Lib, f \in Face : FT_New_Memory_Face(l, f)
  BY <1>5, <1>6 DEF FT_New_Memory_Face
<1>7. CASE \E t \in Stream, f \in Face : FT_Open_Face_succeeds(t, f)
  BY <1>5, <1>7 DEF FT_Open_Face_succeeds
<1>8. CASE drop_face_record
  <2> DEFINE f == Head(Head(ending).left)
  <2>1. /\ stream' = [stream EXCEPT ![f] = NoStream] /\ reading' = reading
        /\ closes' = IF stream[f] = NoStream THEN closes ELSE [closes EXCEPT ![stream[f]] = @ + 1]
        /\ ending # <<>> /\ Head(ending).left # <<>>
    BY <1>8 DEF drop_face_record
  <2>2. f \in Face
    <3>1. ending \in Seq(Ending) /\ Sound(ending)
      BY TypeReady DEF LifeInv
    <3>2. Head(ending) \in Ending
      BY <2>1, <3>1, Unstacked
    <3>3. Head(ending).left \in Seq(Face)
      BY <3>2, EndingType
    <3> QED BY <2>1, <3>3, Unstacked
  <2> HIDE DEF f
  <2>3. CASE stream[f] = s
    <3>1. closes' = [closes EXCEPT ![s] = @ + 1]
      BY <1>1, <2>1, <2>3
    <3>2. closes'[s] = closes[s] + 1 /\ closes[s] \in 0..1
      BY <1>1, <3>1
    <3>3. closes'[s] # 0
      BY <3>2
    <3> QED BY <3>3 DEF Fresh
  <2>4. CASE stream[f] # s
    <3>1. closes'[s] = closes[s]
      BY <1>1, <2>1, <2>2, <2>4
    <3>2. \A g \in Face : stream[g] = s => stream'[g] = s
      BY <1>1, <2>1, <2>4
    <3> QED BY <2>1, <3>1, <3>2 DEF Fresh
  <2> QED BY <2>3, <2>4
<1>9. CASE \E l \in Lib : \/ FT_Init_FreeType(l) \/ FT_New_Library(l)
                          \/ FT_Add_Default_Modules(l) \/ FT_Reference_Library(l)
                          \/ FT_Done_Library(l) \/ FT_Done_FreeType(l)
  <2>1. UNCHANGED <<closes, reading, stream>>
    BY <1>9 DEF FT_Init_FreeType, FT_New_Library, into_library_handle, FT_Add_Default_Modules,
                FT_Reference_Library, FT_Done_Library, FT_Done_FreeType, drop_library_rec, faceVars
  <2> QED BY <2>1, SameUse
<1>10. CASE \E f \in Face : FT_Reference_Face(f) \/ FT_Done_Face(f)
  <2>1. UNCHANGED <<closes, reading, stream>>
    BY <1>10 DEF FT_Reference_Face, FT_Done_Face, one_reference_less, last_reference
  <2> QED BY <2>1, SameUse
<1>11. CASE \/ \E l \in Lib, g \in Glyph : FT_New_Glyph(l, g)
            \/ \E f \in Face, g \in Glyph : FT_Get_Glyph(f, g)
            \/ \E g \in Glyph : FT_Done_Glyph(g)
            \/ \E g, h \in Glyph : FT_Glyph_Copy(g, h)
  <2>1. UNCHANGED <<closes, reading, stream>>
    BY <1>11 DEF FT_New_Glyph, FT_Get_Glyph, FT_Done_Glyph, FT_Glyph_Copy, outline_copy,
                 glyph_allocation_tokens, faceVars
  <2> QED BY <2>1, SameUse
<1>12. CASE drop_library_rec_ends
  <2>1. UNCHANGED <<closes, reading, stream>>
    BY <1>12 DEF drop_library_rec_ends, faceVars
  <2> QED BY <2>1, SameUse
<1>13. CASE UNCHANGED vars
  <2>1. UNCHANGED <<closes, reading, stream>>
    BY <1>13 DEF vars, faceVars
  <2> QED BY <2>1, SameUse
<1> QED BY <1>3, <1>4, <1>6, <1>7, <1>8, <1>9, <1>10, <1>11, <1>12, <1>13 DEF Next

\* A stream that was handed over stays in use until it is closed: no call of the
\* program, no callback and no error path just forgets it.
THEOREM StreamsAreNotForgotten == Spec => StreamsNotForgotten
<1>1. LifeInv /\ [Next]_vars => [\A s \in Stream : ~Fresh(s) => ~Fresh(s)']_vars
  BY StreamsStep
<1> QED BY <1>1, LifeInvariance, PTL DEF Spec, StreamsNotForgotten
=============================================================================
