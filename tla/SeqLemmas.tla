----------------------------- MODULE SeqLemmas ------------------------------
(***************************************************************************)
(* Lemmas about sequences as the code uses them: lists of handles that are *)
(* pushed to and removed from (Vec), and stacks of calls that wait for a   *)
(* callback; and about loops that count, scans that read on to the end,   *)
(* and folds.                                                              *)
(***************************************************************************)
EXTENDS Integers, SequencesExt, WellFoundedInduction, TLAPS

-----------------------------------------------------------------------------
(* Loops *)

\* A loop counter reaches n: what holds at the start and after each round holds
\* at the end.
LEMMA UpTo ==
  ASSUME NEW n \in Nat, NEW P, 0 \in P, \A k \in 1..n : k - 1 \in P => k \in P
  PROVE  0..n \subseteq P
<1> DEFINE Q == (0..n) \ P
<1> SUFFICES ASSUME Q # {} PROVE FALSE
  OBVIOUS
<1>1. PICK i \in Q : \A j \in Q : <<j, i>> \notin OpToRel(<, Nat)
  <2>1. Q \subseteq Nat
    OBVIOUS
  <2> HIDE DEF Q
  <2> QED BY <2>1, NatLessThanWellFounded, WFMin
<1>2. i \in 1..n
  OBVIOUS
<1>3. i - 1 \notin Q
  <2>1. i - 1 \in Nat /\ i \in Nat /\ i - 1 < i
    BY <1>2
  <2>2. <<i - 1, i>> \in OpToRel(<, Nat)
    BY <2>1 DEF OpToRel
  <2> QED BY <1>1, <2>2
<1>4. i - 1 \in P
  BY <1>2, <1>3
<1> QED BY <1>2, <1>4

\* A loop of n rounds, each of which makes a state of a state, has a state after
\* each round.
AreRounds(round, n, S) == round \in [1..n -> [S -> S]]
IsLoop(g, n, S, start, round) ==
  /\ g \in [0..n -> S]
  /\ g[0] = start
  /\ \A k \in 1..n : g[k] = round[k][g[k - 1]]

LEMMA Rounds ==
  ASSUME NEW n \in Nat, NEW S, NEW start \in S, NEW round, AreRounds(round, n, S)
  PROVE  \E g : IsLoop(g, n, S, start, round)
<1> USE DEF AreRounds
<1> DEFINE Ran(m, g) == g[0] = start /\ \A k \in 1..m : g[k] = round[k][g[k - 1]]
           P == {m \in 0..n : \E g \in [0..m -> S] : Ran(m, g)}
<1>1. 0 \in P
  <2> DEFINE g == [k \in 0..0 |-> start]
  <2>1. g \in [0..0 -> S] /\ g[0] = start
    OBVIOUS
  <2>2. Ran(0, g)
    BY <2>1
  <2> HIDE DEF g, Ran
  <2> QED BY <2>1, <2>2
<1>2. ASSUME NEW m \in 1..n, m - 1 \in P
      PROVE  m \in P
  <2>1. PICK g \in [0..(m - 1) -> S] : Ran(m - 1, g)
    BY <1>2
  <2> DEFINE last == round[m][g[m - 1]]
             h == [k \in 0..m |-> IF k < m THEN g[k] ELSE last]
  <2>2. g[m - 1] \in S
    BY <2>1
  <2>3. last \in S
    BY <2>2
  <2> HIDE DEF last
  <2>4. h \in [0..m -> S] /\ h[m] = last /\ \A k \in 0..(m - 1) : h[k] = g[k]
    BY <2>1, <2>3
  <2> HIDE DEF h
  <2>5. h[0] = start
    BY <2>1, <2>4
  <2>6. ASSUME NEW k \in 1..m PROVE h[k] = round[k][h[k - 1]]
    <3>1. h[k - 1] = g[k - 1]
      BY <2>4
    <3>2. CASE k = m
      BY <2>4, <3>1, <3>2 DEF last
    <3>3. CASE k < m
      <4>1. k \in 1..(m - 1)
        BY <3>3
      <4>2. h[k] = g[k] /\ g[k] = round[k][g[k - 1]]
        BY <2>1, <2>4, <4>1
      <4> QED BY <3>1, <4>2
    <3> QED BY <3>2, <3>3
  <2>7. Ran(m, h)
    BY <2>5, <2>6
  <2> HIDE DEF Ran
  <2> QED BY <2>4, <2>7
<1> HIDE DEF P
<1>3. 0..n \subseteq P
  BY <1>1, <1>2, UpTo
<1>4. n \in P
  BY <1>3
<1> QED BY <1>4 DEF P, IsLoop

\* A set of numbers has a least one.
LEMMA Least ==
  ASSUME NEW Q, Q \subseteq Nat, Q # {}
  PROVE  \E k \in Q : \A j \in Q : ~(j < k)
<1>1. PICK k \in Q : \A j \in Q : <<j, k>> \notin OpToRel(<, Nat)
  BY NatLessThanWellFounded, WFMin
<1>2. ASSUME NEW j \in Q PROVE ~(j < k)
  <2>1. <<j, k>> \notin OpToRel(<, Nat) /\ j \in Nat /\ k \in Nat
    BY <1>1, <1>2
  <2> QED BY <2>1 DEF OpToRel
<1> QED BY <1>2

\* What holds at an offset when it holds at all later ones holds everywhere; from
\* n on nothing is later.
LEMMA Backwards ==
  ASSUME NEW n \in Nat, NEW P,
         \A ip \in Nat : (\A j \in Nat : ip < j /\ ip < n => j \in P) => ip \in P
  PROVE  \A ip \in Nat : ip \in P
<1> DEFINE Q == {k \in 0..n : n - k \notin P}
<1>1. ASSUME NEW ip \in Nat, ip >= n PROVE ip \in P
  <2>1. \A j \in Nat : ip < j /\ ip < n => j \in P
    BY <1>1
  <2> QED BY <2>1
<1> SUFFICES ASSUME Q # {} PROVE FALSE
  <2>1. ASSUME NEW ip \in Nat, ip \notin P PROVE Q # {}
    <3>1. ip < n
      BY <1>1, <2>1
    <3>2. n - ip \in 0..n /\ n - (n - ip) = ip
      BY <3>1
    <3>3. n - ip \in Q
      BY <2>1, <3>2
    <3> QED BY <3>3
  <2> QED BY <2>1
<1>2. PICK k \in Q : \A j \in Q : ~(j < k)
  <2>1. Q \subseteq Nat
    OBVIOUS
  <2> HIDE DEF Q
  <2> QED BY <2>1, Least
<1>3. k \in 0..n /\ n - k \in Nat /\ n - k \notin P
  OBVIOUS
<1>4. ASSUME NEW j \in Nat, n - k < j PROVE j \in P
  <2>1. CASE j >= n
    BY <1>1, <2>1
  <2>2. CASE j < n
    <3>1. n - j \in 0..n /\ n - j < k /\ n - (n - j) = j
      BY <1>3, <1>4, <2>2
    <3>2. n - j \in Q => FALSE
      <4> HIDE DEF Q
      <4> QED BY <1>2, <3>1
    <3> QED BY <3>1, <3>2
  <2> QED BY <2>1, <2>2
<1> QED BY <1>3, <1>4

\* At the end a scan finds end; before it, the step at an offset makes
\* something of what is found from leads[ip] on.
IsScan(g, n, S, end, leads, step) ==
  /\ g \in [Nat -> S]
  /\ \A ip \in Nat : g[ip] = IF ip >= n THEN end ELSE step[ip][g[leads[ip]]]

LEMMA Scans ==
  ASSUME NEW n \in Nat, NEW S, NEW end \in S,
         NEW leads \in [Nat -> Nat], \A ip \in Nat : ip < n => leads[ip] > ip,
         NEW step \in [Nat -> [S -> S]]
  PROVE  \E g : IsScan(g, n, S, end, leads, step)
<1> DEFINE Found(g, ip) == g[ip] = IF ip >= n THEN end ELSE step[ip][g[leads[ip]]]
           P == {i \in Nat : \E g \in [Nat -> S] : \A ip \in Nat : ip >= i => Found(g, ip)}
<1>1. ASSUME NEW i \in Nat, \A j \in Nat : i < j /\ i < n => j \in P
      PROVE  i \in P
  <2>1. CASE i >= n
    <3> DEFINE g == [ip \in Nat |-> end]
    <3>1. g \in [Nat -> S] /\ \A ip \in Nat : ip >= i => Found(g, ip)
      BY <2>1
    <3> QED BY <3>1
  <2>2. CASE i < n
    <3>1. i + 1 \in P
      <4>1. i + 1 \in Nat /\ i < i + 1 /\ i < n
        BY <2>2
      <4> HIDE DEF P
      <4> QED BY <1>1, <4>1
    <3>2. PICK g \in [Nat -> S] : \A ip \in Nat : ip >= i + 1 => Found(g, ip)
      BY <3>1
    <3> DEFINE h == [ip \in Nat |-> IF ip = i THEN step[i][g[leads[i]]] ELSE g[ip]]
    <3>3. step[i] \in [S -> S] /\ leads[i] \in Nat /\ g[leads[i]] \in S
      OBVIOUS
    <3>4. h \in [Nat -> S]
      <4>1. step[i][g[leads[i]]] \in S
        BY <3>3
      <4> HIDE DEF Found
      <4> QED BY <4>1
    <3>5. ASSUME NEW ip \in Nat, ip >= i PROVE Found(h, ip)
      <4>1. ip < n => leads[ip] \in Nat /\ leads[ip] > i
        BY <3>5
      <4>2. ip < n => h[leads[ip]] = g[leads[ip]]
        BY <4>1
      <4>3. CASE ip = i
        BY <2>2, <4>2, <4>3
      <4>4. CASE ip # i
        <5>1. Found(g, ip) /\ h[ip] = g[ip]
          BY <3>2, <3>5, <4>4
        <5> QED BY <4>2, <5>1
      <4> QED BY <4>3, <4>4
    <3> HIDE DEF h, Found
    <3> QED BY <3>4, <3>5
  <2> QED BY <2>1, <2>2
<1> HIDE DEF P
<1>2. 0 \in P
  BY <1>1, Backwards
<1>3. PICK g \in [Nat -> S] : \A ip \in Nat : ip >= 0 => Found(g, ip)
  BY <1>2 DEF P
<1>4. \A ip \in Nat : Found(g, ip)
  BY <1>3
<1> HIDE DEF Found
<1> QED BY <1>4 DEF IsScan, Found

-----------------------------------------------------------------------------
(* Folds *)

\* The greatest number of a finite set of counters.
LEMMA Greatest ==
  ASSUME NEW n \in Nat, NEW s \in SUBSET (1..n), s # {}
  PROVE  Max(s) \in s /\ \A j \in s : j <= Max(s)
<1> DEFINE Q == {n - k : k \in s}
<1>0. \A j \in s : j \in 1..n
  OBVIOUS
<1>1. PICK q \in Q : \A j \in Q : ~(j < q)
  <2>1. Q \subseteq Nat
    BY <1>0
  <2>2. Q # {}
    <3>1. PICK k \in s : TRUE
      OBVIOUS
    <3>2. n - k \in Q
      OBVIOUS
    <3> QED BY <3>2
  <2> HIDE DEF Q
  <2> QED BY <2>1, <2>2, Least
<1>2. PICK k \in s : q = n - k
  OBVIOUS
<1>3. ASSUME NEW j \in s PROVE k >= j
  <2>1. n - j \in Q
    OBVIOUS
  <2>2. ~(n - j < q) /\ k \in 1..n /\ j \in 1..n
    BY <1>0, <1>1, <2>1
  <2> QED BY <1>2, <2>2
<1>4. \E x \in s : \A y \in s : x >= y
  BY <1>3
<1>5. Max(s) \in s /\ \A y \in s : Max(s) >= y
  BY <1>4, Zenon DEF Max
<1>6. ASSUME NEW j \in s PROVE j <= Max(s)
  <2>1. Max(s) >= j /\ Max(s) \in 1..n /\ j \in 1..n
    BY <1>0, <1>5
  <2> QED BY <2>1
<1> QED BY <1>5, <1>6

LEMMA WithoutGreatest ==
  ASSUME NEW n \in Nat
  PROVE  \A s \in SUBSET (1..n) : s # {} => Max(s) \in 1..n /\ s \ {Max(s)} \in SUBSET (1..n)
<1> SUFFICES ASSUME NEW s \in SUBSET (1..n), s # {}
             PROVE  Max(s) \in 1..n /\ s \ {Max(s)} \in SUBSET (1..n)
  OBVIOUS
<1>1. Max(s) \in s
  BY Greatest
<1> QED BY <1>1

LEMMA GreatestUpTo ==
  ASSUME NEW n \in Nat, NEW k \in 1..n
  PROVE  Max(1..k) = k /\ (1..k) \ {k} = 1..(k - 1) /\ 1..k # {} /\ 1..k \in SUBSET (1..n)
<1>1. 1..k \in SUBSET (1..n) /\ 1..k # {} /\ k \in 1..k
  OBVIOUS
<1>2. Max(1..k) \in 1..k /\ k <= Max(1..k)
  BY <1>1, Greatest
<1>3. Max(1..k) = k
  BY <1>2
<1> QED BY <1>1, <1>3

\* FoldLeft over a sequence of n entries is a loop of n rounds: what it folds with
\* exists ...
IsFold(f, n, start, round) ==
  f = [s \in SUBSET (1..n) |-> IF s = {} THEN start ELSE round[Max(s)][f[s \ {Max(s)}]]]

LEMMA FoldExists ==
  ASSUME NEW n \in Nat, NEW S, NEW start \in S, NEW round, AreRounds(round, n, S)
  PROVE  \E f \in [SUBSET (1..n) -> S] : IsFold(f, n, start, round)
<1> USE DEF AreRounds
<1> DEFINE Below(k) == SUBSET (1..k)
           Fold(k, f) == \A s \in Below(k) : f[s] = IF s = {} THEN start ELSE round[Max(s)][f[s \ {Max(s)}]]
           P == {k \in 0..n : \E f \in [Below(k) -> S] : Fold(k, f)}
<1>1. 0 \in P
  <2> DEFINE f == [s \in Below(0) |-> start]
  <2>1. 1..0 = {}
    OBVIOUS
  <2>2. Below(0) = {{}}
    BY <2>1
  <2>3. f \in [Below(0) -> S]
    OBVIOUS
  <2>4. ASSUME NEW b \in Below(0) PROVE f[b] = IF b = {} THEN start ELSE round[Max(b)][f[b \ {Max(b)}]]
    BY <2>2
  <2> HIDE DEF f, Below
  <2>5. \E h \in [Below(0) -> S] : Fold(0, h)
    BY <2>3, <2>4, Zenon
  <2> HIDE DEF Fold
  <2> QED BY <2>5
<1>2. ASSUME NEW k \in 1..n, k - 1 \in P PROVE k \in P
  <2>1. PICK f \in [Below(k - 1) -> S] : Fold(k - 1, f)
    BY <1>2
  <2> DEFINE Value(s) == IF s \in Below(k - 1) THEN f[s] ELSE round[k][f[s \ {k}]]
             h == [s \in Below(k) |-> Value(s)]
  <2>2. ASSUME NEW s \in Below(k), s \notin Below(k - 1)
        PROVE  Max(s) = k /\ s \ {k} \in Below(k - 1) /\ s # {}
    <3>1. k \in s
      <4>1. PICK j \in s : j \notin 1..(k - 1)
        BY <2>2
      <4> QED BY <4>1
    <3>2. Max(s) \in s /\ k <= Max(s)
      <4>1. s \in SUBSET (1..k) /\ s # {} /\ k \in Nat
        BY <3>1
      <4> QED BY <3>1, <4>1, Greatest
    <3>3. Max(s) = k
      <4>1. Max(s) \in 1..k
        BY <3>2
      <4> QED BY <3>2, <4>1
    <3>4. \A j \in s \ {k} : j \in 1..(k - 1)
      OBVIOUS
    <3> QED BY <3>1, <3>3, <3>4
  <2>3. ASSUME NEW s \in Below(k - 1) PROVE s \in Below(k) /\ s \ {Max(s)} \in Below(k - 1)
    <3>1. 1..(k - 1) \subseteq 1..k
      OBVIOUS
    <3> QED BY <3>1
  <2>4. \A s \in Below(k) : s \notin Below(k - 1) => round[k][f[s \ {k}]] \in S
    BY <2>1, <2>2
  <2>5. h \in [Below(k) -> S]
    <3> HIDE DEF Below, Fold
    <3> QED BY <2>1, <2>4
  <2>6. \A s \in Below(k) : h[s] = Value(s)
    <3> HIDE DEF Below, Value
    <3> QED OBVIOUS
  <2> HIDE DEF h
  <2>7. ASSUME NEW s \in Below(k)
        PROVE  h[s] = IF s = {} THEN start ELSE round[Max(s)][h[s \ {Max(s)}]]
    <3>1. CASE s \in Below(k - 1)
      <4>1. h[s] = f[s] /\ h[s \ {Max(s)}] = f[s \ {Max(s)}]
        <5> HIDE DEF Below
        <5> QED BY <2>3, <2>6, <3>1
      <4>2. f[s] = IF s = {} THEN start ELSE round[Max(s)][f[s \ {Max(s)}]]
        <5> HIDE DEF Below
        <5> QED BY <2>1, <3>1
      <4> QED BY <4>1, <4>2
    <3>2. CASE s \notin Below(k - 1)
      <4>1. Max(s) = k /\ s \ {k} \in Below(k - 1) /\ s # {}
        BY <2>2, <3>2
      <4>2. h[s] = round[k][f[s \ {k}]]
        <5> HIDE DEF Below
        <5> QED BY <2>6, <3>2
      <4>3. h[s \ {k}] = f[s \ {k}]
        <5> HIDE DEF Below
        <5> QED BY <2>3, <2>6, <4>1
      <4> QED BY <4>1, <4>2, <4>3
    <3> QED BY <3>1, <3>2
  <2>8. \E a \in [Below(k) -> S] : Fold(k, a)
    <3> HIDE DEF Below
    <3> QED BY <2>5, <2>7, Zenon
  <2> HIDE DEF Fold, Below
  <2> QED BY <2>8
<1> HIDE DEF P
<1>3. n \in P
  <2>1. 0..n \subseteq P
    BY <1>1, <1>2, UpTo
  <2> QED BY <2>1
<1>4. PICK f \in [Below(n) -> S] : Fold(n, f)
  BY <1>3 DEF P
<1>5. f = [s \in SUBSET (1..n) |-> f[s]]
  BY <1>4
<1>6. f = [s \in SUBSET (1..n) |-> IF s = {} THEN start ELSE round[Max(s)][f[s \ {Max(s)}]]]
  BY <1>4, <1>5, Zenon
<1> QED BY <1>4, <1>6 DEF IsFold

\* ... and is met round by round.
FoldsBy(f, n, S, start, round) ==
  /\ f[{}] = start
  /\ \A s \in SUBSET (1..n) :
       s # {} /\ f[s \ {Max(s)}] \in S => f[s] = round[Max(s)][f[s \ {Max(s)}]]

LEMMA FoldRounds ==
  ASSUME NEW n \in Nat, NEW S, NEW start \in S, NEW round, AreRounds(round, n, S),
         NEW f, FoldsBy(f, n, S, start, round)
  PROVE  \E g : IsLoop(g, n, S, start, round) /\ f[1..n] = g[n]
<1>0. /\ f[{}] = start
      /\ \A s \in SUBSET (1..n) :
           s # {} /\ f[s \ {Max(s)}] \in S => f[s] = round[Max(s)][f[s \ {Max(s)}]]
  BY DEF FoldsBy
<1> DEFINE P == {k \in 0..n : f[1..k] \in S}
           g == [k \in 0..n |-> f[1..k]]
<1>1. f[1..0] = start
  <2>1. 1..0 = {}
    OBVIOUS
  <2> QED BY <1>0, <2>1
<1>2. ASSUME NEW k \in 1..n, f[1..(k - 1)] \in S
      PROVE  f[1..k] = round[k][f[1..(k - 1)]] /\ f[1..k] \in S
  <2>1. f[1..k] = round[k][f[1..(k - 1)]]
    BY <1>0, <1>2, GreatestUpTo
  <2> QED BY <1>2, <2>1 DEF AreRounds
<1>3. 0..n \subseteq P
  <2>1. 0 \in P
    BY <1>1
  <2>2. ASSUME NEW k \in 1..n, k - 1 \in P PROVE k \in P
    BY <1>2, <2>2
  <2> HIDE DEF P
  <2> QED BY <2>1, <2>2, UpTo
<1>4. \A k \in 0..n : f[1..k] \in S
  BY <1>3
<1>5. g \in [0..n -> S] /\ g[0] = start /\ g[n] = f[1..n]
  BY <1>1, <1>4
<1>6. ASSUME NEW k \in 1..n PROVE g[k] = round[k][g[k - 1]]
  BY <1>2, <1>4
<1> HIDE DEF g
<1> QED BY <1>5, <1>6 DEF IsLoop

-----------------------------------------------------------------------------
(* Lists *)

\* Vec::push: an entry at the end.
LEMMA Appended ==
  ASSUME NEW S, NEW es \in Seq(S), NEW a \in S
  PROVE  /\ Append(es, a) \in Seq(S)
         /\ Len(Append(es, a)) = Len(es) + 1
         /\ \A i \in 1..Len(es) : Append(es, a)[i] = es[i]
         /\ Append(es, a)[Len(es) + 1] = a
         /\ ToSet(Append(es, a)) = ToSet(es) \union {a}
<1>1. /\ Append(es, a) \in Seq(S)
      /\ Len(Append(es, a)) = Len(es) + 1
      /\ \A i \in 1..Len(es) : Append(es, a)[i] = es[i]
      /\ Append(es, a)[Len(es) + 1] = a
  OBVIOUS
<1>2. DOMAIN es = 1..Len(es) /\ DOMAIN Append(es, a) = 1..(Len(es) + 1) /\ Len(es) \in Nat
  BY <1>1
<1>3. ToSet(Append(es, a)) = ToSet(es) \union {a}
  BY <1>1, <1>2 DEF ToSet
<1> QED BY <1>1, <1>3

\* The entries of a concatenation, by position.
LEMMA Concatenation ==
  ASSUME NEW S, NEW s \in Seq(S), NEW t \in Seq(S)
  PROVE  /\ s \o t \in Seq(S)
         /\ Len(s \o t) = Len(s) + Len(t)
         /\ \A j \in 1..(Len(s) + Len(t)) :
              (s \o t)[j] = IF j <= Len(s) THEN s[j] ELSE t[j - Len(s)]
OBVIOUS

\* Vec::remove: the entries behind the removed one move up by one.
LEMMA Shortened ==
  ASSUME NEW S, NEW es \in Seq(S), NEW i \in 1..Len(es)
  PROVE  /\ RemoveAt(es, i) \in Seq(S)
         /\ Len(RemoveAt(es, i)) = Len(es) - 1
         /\ \A j \in 1..(Len(es) - 1) :
              RemoveAt(es, i)[j] = IF j < i THEN es[j] ELSE es[j + 1]
<1> DEFINE l == SubSeq(es, 1, i - 1)
           r == SubSeq(es, i + 1, Len(es))
<1>1. l \in Seq(S) /\ Len(l) = i - 1 /\ \A j \in 1..(i - 1) : l[j] = es[j]
  OBVIOUS
<1>2. r \in Seq(S) /\ Len(r) = Len(es) - i /\ \A j \in 1..(Len(es) - i) : r[j] = es[i + j]
  OBVIOUS
<1>3. RemoveAt(es, i) = l \o r
  BY DEF RemoveAt
<1> HIDE DEF l, r
<1>4. /\ l \o r \in Seq(S)
      /\ Len(l \o r) = Len(es) - 1
      /\ \A j \in 1..(Len(es) - 1) : (l \o r)[j] = IF j < i THEN l[j] ELSE r[j - (i - 1)]
  <2>1. l \o r \in Seq(S) /\ Len(l \o r) = Len(l) + Len(r)
    BY <1>1, <1>2, Concatenation
  <2>2. \A j \in 1..(Len(l) + Len(r)) :
          (l \o r)[j] = IF j <= Len(l) THEN l[j] ELSE r[j - Len(l)]
    BY <1>1, <1>2, Concatenation
  <2>3. Len(l) + Len(r) = Len(es) - 1
    BY <1>1, <1>2
  <2>4. \A j \in 1..(Len(es) - 1) : j <= Len(l) <=> j < i
    BY <1>1
  <2> QED BY <1>1, <2>1, <2>2, <2>3, <2>4
<1>5. \A j \in 1..(Len(es) - 1) : (l \o r)[j] = IF j < i THEN es[j] ELSE es[j + 1]
  <2> SUFFICES ASSUME NEW j \in 1..(Len(es) - 1)
               PROVE  (l \o r)[j] = IF j < i THEN es[j] ELSE es[j + 1]
    OBVIOUS
  <2>1. CASE j < i
    BY <1>1, <1>4, <2>1
  <2>2. CASE ~(j < i)
    <3>1. j - (i - 1) \in 1..(Len(es) - i) /\ i + (j - (i - 1)) = j + 1
      BY <2>2
    <3> QED BY <1>2, <1>4, <2>2, <3>1
  <2> QED BY <2>1, <2>2
<1> QED BY <1>3, <1>4, <1>5

\* In a list without repetitions, removal takes away the entry and no other.
LEMMA ShortenedDistinct ==
  ASSUME NEW S, NEW es \in Seq(S), NEW i \in 1..Len(es),
         \A j, k \in 1..Len(es) : es[j] = es[k] => j = k
  PROVE  /\ ToSet(RemoveAt(es, i)) = ToSet(es) \ {es[i]}
         /\ \A j, k \in 1..Len(RemoveAt(es, i)) :
              RemoveAt(es, i)[j] = RemoveAt(es, i)[k] => j = k
<1> DEFINE left == RemoveAt(es, i)
<1>1. /\ left \in Seq(S)
      /\ Len(left) = Len(es) - 1
      /\ \A j \in 1..(Len(es) - 1) : left[j] = IF j < i THEN es[j] ELSE es[j + 1]
  BY Shortened
<1> HIDE DEF left
<1>2. ToSet(left) \subseteq ToSet(es) \ {es[i]}
  <2> SUFFICES ASSUME NEW j \in 1..(Len(es) - 1)
               PROVE  left[j] \in ToSet(es) \ {es[i]}
    BY <1>1 DEF ToSet
  <2>1. CASE j < i
    BY <1>1, <2>1 DEF ToSet
  <2>2. CASE ~(j < i)
    BY <1>1, <2>2 DEF ToSet
  <2> QED BY <2>1, <2>2
<1>3. ToSet(es) \ {es[i]} \subseteq ToSet(left)
  <2> SUFFICES ASSUME NEW k \in 1..Len(es), k # i
               PROVE  es[k] \in ToSet(left)
    BY DEF ToSet
  <2>1. CASE k < i
    <3>1. k \in 1..(Len(es) - 1) /\ left[k] = es[k]
      BY <1>1, <2>1
    <3> QED BY <1>1, <3>1 DEF ToSet
  <2>2. CASE ~(k < i)
    <3>1. k - 1 \in 1..(Len(es) - 1) /\ ~(k - 1 < i) /\ (k - 1) + 1 = k
      BY <2>2
    <3>2. left[k - 1] = es[k]
      BY <1>1, <3>1
    <3> QED BY <1>1, <3>1, <3>2 DEF ToSet
  <2> QED BY <2>1, <2>2
<1>4. \A j, k \in 1..Len(left) : left[j] = left[k] => j = k
  BY <1>1
<1> QED BY <1>2, <1>3, <1>4 DEF left

\* An empty list lists nothing.
LEMMA NoElements == ToSet(<<>>) = {}
BY DEF ToSet

\* A list of one entry lists it.
LEMMA OneEntry ==
  ASSUME NEW a
  PROVE  ToSet(<<a>>) = {a}
BY DEF ToSet

\* One entry is replaced by another.
LEMMA Replaced ==
  ASSUME NEW S, NEW s \in Seq(S), NEW i \in DOMAIN s, NEW e \in S
  PROVE  LET t == [s EXCEPT ![i] = e] IN
         /\ t \in Seq(S) /\ Len(t) = Len(s) /\ DOMAIN t = DOMAIN s /\ t[i] = e
         /\ \A k \in DOMAIN s \ {i} : t[k] = s[k]
<1> DEFINE t == [s EXCEPT ![i] = e]
<1>1. DOMAIN s = 1..Len(s) /\ Len(s) \in Nat /\ s \in [1..Len(s) -> S]
  OBVIOUS
<1>2. t \in [1..Len(s) -> S]
  BY <1>1
<1>3. DOMAIN t = DOMAIN s /\ t[i] = e /\ \A k \in DOMAIN s \ {i} : t[k] = s[k]
  OBVIOUS
<1> HIDE DEF t
<1>4. t \in Seq(S) /\ Len(t) = Len(s)
  BY <1>1, <1>2
<1> QED BY <1>3, <1>4 DEF t

-----------------------------------------------------------------------------
(* Stacks *)

\* A call begins: it lies on top, and each call below moves down by one.
LEMMA Stacked ==
  ASSUME NEW S, NEW s \in Seq(S), NEW c \in S
  PROVE  LET t == <<c>> \o s IN
         /\ t \in Seq(S) /\ Len(t) = Len(s) + 1
         /\ DOMAIN t = 1..(Len(s) + 1) /\ t[1] = c
         /\ \A k \in DOMAIN s : k + 1 \in DOMAIN t /\ t[k + 1] = s[k]
         /\ \A k \in DOMAIN t : k # 1 => k - 1 \in DOMAIN s /\ t[k] = s[k - 1]
<1> DEFINE t == <<c>> \o s
<1>1. <<c>> \in Seq(S) /\ Len(<<c>>) = 1 /\ Len(s) \in Nat /\ DOMAIN s = 1..Len(s)
  OBVIOUS
<1>2. t \in Seq(S) /\ Len(t) = Len(s) + 1 /\ t[1] = c
  BY <1>1
<1>3. DOMAIN t = 1..(Len(s) + 1)
  BY <1>2
<1>4. \A k \in 2..(Len(s) + 1) : t[k] = s[k - 1]
  BY <1>1, SMTT(30)
<1> HIDE DEF t
<1>5. \A k \in DOMAIN s : k + 1 \in DOMAIN t /\ t[k + 1] = s[k]
  <2> SUFFICES ASSUME NEW k \in DOMAIN s
               PROVE  k + 1 \in DOMAIN t /\ t[k + 1] = s[k]
    OBVIOUS
  <2>1. k + 1 \in 2..(Len(s) + 1) /\ (k + 1) - 1 = k
    BY <1>1
  <2> QED BY <1>3, <1>4, <2>1
<1>6. \A k \in DOMAIN t : k # 1 => k - 1 \in DOMAIN s /\ t[k] = s[k - 1]
  BY <1>1, <1>3, <1>4
<1> QED BY <1>2, <1>3, <1>5, <1>6 DEF t

\* The innermost call ends.
LEMMA Unstacked ==
  ASSUME NEW S, NEW s \in Seq(S), s # <<>>
  PROVE  /\ Tail(s) \in Seq(S) /\ Len(Tail(s)) = Len(s) - 1
         /\ 1 \in DOMAIN s /\ Head(s) = s[1] /\ s[1] \in S
         /\ \A k \in DOMAIN Tail(s) : k + 1 \in DOMAIN s /\ Tail(s)[k] = s[k + 1]
         /\ \A k \in DOMAIN s : k # 1 => k - 1 \in DOMAIN Tail(s) /\ Tail(s)[k - 1] = s[k]
<1>1. Len(s) \in Nat \ {0} /\ DOMAIN s = 1..Len(s)
  OBVIOUS
<1>2. Tail(s) \in Seq(S) /\ Len(Tail(s)) = Len(s) - 1
  BY <1>1
<1>3. DOMAIN Tail(s) = 1..(Len(s) - 1)
  BY <1>1, <1>2
<1>4. \A k \in 1..(Len(s) - 1) : Tail(s)[k] = s[k + 1]
  BY <1>1
<1>5. 1 \in DOMAIN s /\ Head(s) = s[1] /\ s[1] \in S
  BY <1>1
<1>6. \A k \in DOMAIN Tail(s) : k + 1 \in DOMAIN s /\ Tail(s)[k] = s[k + 1]
  BY <1>1, <1>3, <1>4
<1>7. \A k \in DOMAIN s : k # 1 => k - 1 \in DOMAIN Tail(s) /\ Tail(s)[k - 1] = s[k]
  <2> SUFFICES ASSUME NEW k \in DOMAIN s, k # 1
               PROVE  k - 1 \in DOMAIN Tail(s) /\ Tail(s)[k - 1] = s[k]
    OBVIOUS
  <2>1. k - 1 \in 1..(Len(s) - 1) /\ (k - 1) + 1 = k
    BY <1>1
  <2> QED BY <1>3, <1>4, <2>1
<1> QED BY <1>2, <1>5, <1>6, <1>7

\* The calls that wait, in any order.
LEMMA StackedSet ==
  ASSUME NEW S, NEW s \in Seq(S), NEW c \in S
  PROVE  ToSet(<<c>> \o s) = ToSet(s) \union {c}
<1> DEFINE t == <<c>> \o s
<1>1. /\ DOMAIN t = 1..(Len(s) + 1) /\ Len(s) \in Nat /\ t[1] = c
      /\ \A k \in DOMAIN s : k + 1 \in DOMAIN t /\ t[k + 1] = s[k]
      /\ \A k \in DOMAIN t : k # 1 => k - 1 \in DOMAIN s /\ t[k] = s[k - 1]
  BY Stacked
<1> HIDE DEF t
<1>2. 1 \in DOMAIN t
  BY <1>1
<1>3. ASSUME NEW x \in ToSet(s)
      PROVE  x \in ToSet(t)
  <2>1. PICK k \in DOMAIN s : x = s[k]
    BY <1>3 DEF ToSet
  <2>2. k + 1 \in DOMAIN t /\ x = t[k + 1]
    BY <1>1, <2>1
  <2> QED BY <2>2 DEF ToSet
<1>4. ASSUME NEW x \in ToSet(t), x # c
      PROVE  x \in ToSet(s)
  <2>1. PICK k \in DOMAIN t : x = t[k]
    BY <1>4 DEF ToSet
  <2>2. k - 1 \in DOMAIN s /\ x = s[k - 1]
    BY <1>1, <1>4, <2>1
  <2> QED BY <2>2 DEF ToSet
<1>5. c \in ToSet(t)
  BY <1>1, <1>2 DEF ToSet
<1> QED BY <1>3, <1>4, <1>5 DEF t

LEMMA UnstackedSet ==
  ASSUME NEW S, NEW s \in Seq(S), s # <<>>
  PROVE  ToSet(s) = ToSet(Tail(s)) \union {Head(s)}
<1>1. /\ 1 \in DOMAIN s /\ Head(s) = s[1]
      /\ \A k \in DOMAIN Tail(s) : k + 1 \in DOMAIN s /\ Tail(s)[k] = s[k + 1]
      /\ \A k \in DOMAIN s : k # 1 => k - 1 \in DOMAIN Tail(s) /\ Tail(s)[k - 1] = s[k]
  BY Unstacked
<1>2. ASSUME NEW x \in ToSet(Tail(s))
      PROVE  x \in ToSet(s)
  <2>1. PICK k \in DOMAIN Tail(s) : x = Tail(s)[k]
    BY <1>2 DEF ToSet
  <2>2. k + 1 \in DOMAIN s /\ x = s[k + 1]
    BY <1>1, <2>1
  <2> QED BY <2>2 DEF ToSet
<1>3. ASSUME NEW x \in ToSet(s), x # Head(s)
      PROVE  x \in ToSet(Tail(s))
  <2>1. PICK k \in DOMAIN s : x = s[k]
    BY <1>3 DEF ToSet
  <2>2. k - 1 \in DOMAIN Tail(s) /\ x = Tail(s)[k - 1]
    BY <1>1, <1>3, <2>1
  <2> QED BY <2>2 DEF ToSet
<1>4. Head(s) \in ToSet(s)
  BY <1>1 DEF ToSet
<1> QED BY <1>2, <1>3, <1>4
=============================================================================
