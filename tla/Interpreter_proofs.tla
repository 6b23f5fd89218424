------------------------- MODULE Interpreter_proofs -------------------------
(***************************************************************************)
(* Proofs about Interpreter: whatever the programs are, no run gets past   *)
(* the limits on operands, calls, steps and jumps back, and a glyph        *)
(* program leaves the definitions alone; a definition ends with its own    *)
(* ENDF, and control stays where reading the code in order meets an        *)
(* instruction, until a program jumps.  What moves the points, and the     *)
(* values on the stack, have no part in any of it.                         *)
(***************************************************************************)
EXTENDS Interpreter, SeqLemmas, FiniteSetTheorems, TLAPS

-----------------------------------------------------------------------------
(* Instructions that leave the control state alone *)

IsSeq(s) == \E S : s \in Seq(S)

Fields == {"stack", "ip", "range", "initial", "calls", "funs", "idefs", "storage", "cvt",
           "gs", "twilight", "zone", "contours", "compat", "iups", "pedantic",
           "composite", "scale", "steps", "back", "err"}

Machine(mm) == DOMAIN mm = Fields /\ IsSeq(mm.stack)

\* From a to b calls, counters and definitions stay as they are, and the place.
Keeps(a, b) ==
  /\ Machine(b)
  /\ b.ip = a.ip /\ b.range = a.range /\ b.calls = a.calls /\ b.steps = a.steps /\ b.back = a.back
  /\ b.initial = a.initial /\ b.funs = a.funs /\ b.idefs = a.idefs

LEMMA KeepsItself ==
  ASSUME NEW mm, Machine(mm)
  PROVE  Keeps(mm, mm)
BY DEF Keeps

\* The fields that are written freely.
LEMMA KeepsField ==
  ASSUME NEW c, NEW mm, Keeps(c, mm), NEW v,
         NEW f \in {"storage", "cvt", "gs", "twilight", "zone", "contours",
                    "compat", "iups", "pedantic", "composite", "scale", "err"}
  PROVE  Keeps(c, [mm EXCEPT ![f] = v])
BY Zenon DEF Keeps, Machine, Fields

LEMMA KeepsStack ==
  ASSUME NEW c, NEW mm, Keeps(c, mm), NEW s, IsSeq(s)
  PROVE  Keeps(c, [mm EXCEPT !.stack = s])
BY Zenon DEF Keeps, Machine, Fields

LEMMA Sequences ==
  ASSUME NEW s, IsSeq(s)
  PROVE  /\ Len(s) \in Nat
         /\ \A v : IsSeq(Append(s, v)) /\ Len(Append(s, v)) = Len(s) + 1
         /\ \A n \in Nat : n < Len(s) => IsSeq(SubSeq(s, 1, Len(s) - n))
<1>1. PICK S : s \in Seq(S)
  BY DEF IsSeq
<1>2. ASSUME NEW v
      PROVE  IsSeq(Append(s, v)) /\ Len(Append(s, v)) = Len(s) + 1
  <2>1. s \in Seq(S \union {v}) /\ v \in S \union {v}
    BY <1>1
  <2>2. Append(s, v) \in Seq(S \union {v}) /\ Len(Append(s, v)) = Len(s) + 1
    BY <2>1
  <2> QED BY <2>2 DEF IsSeq
<1>3. ASSUME NEW n \in Nat, n < Len(s)
      PROVE  IsSeq(SubSeq(s, 1, Len(s) - n))
  <2>1. SubSeq(s, 1, Len(s) - n) \in Seq(S)
    BY <1>1, <1>3
  <2> QED BY <2>1 DEF IsSeq
<1> QED BY <1>1, <1>2, <1>3

LEMMA NoSequence == IsSeq(<<>>)
<1>1. <<>> \in Seq({})
  OBVIOUS
<1> QED BY <1>1 DEF IsSeq

\* What is known of the stack of a machine.
LEMMA OnStack ==
  ASSUME NEW c, NEW mm, Keeps(c, mm)
  PROVE  Machine(mm) /\ IsSeq(mm.stack) /\ Len(mm.stack) \in Nat
BY Sequences DEF Keeps, Machine

LEMMA KeepsFail ==
  ASSUME NEW c, NEW mm, Keeps(c, mm), NEW e
  PROVE  Keeps(c, Fail(mm, e))
BY KeepsField DEF Fail

LEMMA KeepsRefuse ==
  ASSUME NEW c, NEW mm, Keeps(c, mm)
  PROVE  Keeps(c, Refuse(mm))
BY KeepsFail DEF Refuse

LEMMA KeepsDrop ==
  ASSUME NEW c, NEW mm, Keeps(c, mm), NEW n \in Nat
  PROVE  Keeps(c, Drop(mm, n))
<1> DEFINE s == mm.stack
           t == IF n >= Len(s) THEN <<>> ELSE SubSeq(s, 1, Len(s) - n)
<1>1. IsSeq(t)
  BY OnStack, NoSequence, Sequences
<1>2. Drop(mm, n) = IF n > Len(s) /\ mm.pedantic THEN Fail(mm, "TooFewArguments")
                    ELSE [mm EXCEPT !.stack = t]
  BY Zenon DEF Drop
<1> HIDE DEF t
<1>3. Keeps(c, [mm EXCEPT !.stack = t])
  BY <1>1, KeepsStack
<1> QED BY <1>2, <1>3, KeepsFail

LEMMA KeepsPush ==
  ASSUME NEW c, NEW mm, Keeps(c, mm), NEW v
  PROVE  Keeps(c, Push(mm, v))
<1>1. IsSeq(Append(mm.stack, v))
  BY OnStack, Sequences
<1> QED BY <1>1, KeepsStack DEF Push

LEMMA KeepsReplace ==
  ASSUME NEW c, NEW mm, Keeps(c, mm), NEW n \in Nat, NEW v
  PROVE  Keeps(c, Replace(mm, n, v))
BY KeepsDrop, KeepsPush DEF Replace

-----------------------------------------------------------------------------
(* Points *)

LEMMA KeepsSetCur ==
  ASSUME NEW c, NEW mm, Keeps(c, mm), NEW zp, NEW p, NEW xy
  PROVE  Keeps(c, SetCur(mm, zp, p, xy))
<1>1. Keeps(c, [mm EXCEPT !.twilight.cur[p + 1] = xy])
  BY KeepsField
<1>2. Keeps(c, [mm EXCEPT !.zone.cur[p + 1] = Compat(mm, @, xy)])
  BY KeepsField
<1> QED BY <1>1, <1>2, Zenon DEF SetCur

LEMMA KeepsSetOrg ==
  ASSUME NEW c, NEW mm, Keeps(c, mm), NEW zp, NEW p, NEW xy
  PROVE  Keeps(c, SetOrg(mm, zp, p, xy))
<1>1. Keeps(c, [mm EXCEPT !.twilight.org[p + 1] = xy])
  BY KeepsField
<1>2. Keeps(c, [mm EXCEPT !.zone.org[p + 1] = xy])
  BY KeepsField
<1> QED BY <1>1, <1>2, Zenon DEF SetOrg

LEMMA KeepsSetTags ==
  ASSUME NEW c, NEW mm, Keeps(c, mm), NEW zp, NEW p, NEW tags
  PROVE  Keeps(c, SetTags(mm, zp, p, tags))
<1>1. Keeps(c, [mm EXCEPT !.twilight.tag[p + 1] = tags])
  BY KeepsField
<1>2. Keeps(c, [mm EXCEPT !.zone.tag[p + 1] = tags])
  BY KeepsField
<1> QED BY <1>1, <1>2, Zenon DEF SetTags

LEMMA KeepsTouch ==
  ASSUME NEW c, NEW mm, Keeps(c, mm), NEW zp, NEW p
  PROVE  Keeps(c, Touch(mm, zp, p)) /\ Keeps(c, Untouch(mm, zp, p))
BY KeepsSetTags DEF Touch, Untouch

LEMMA KeepsShift ==
  ASSUME NEW c, NEW mm, Keeps(c, mm), NEW zp, NEW p, NEW d
  PROVE  Keeps(c, Shift(mm, zp, p, d))
BY KeepsSetCur, KeepsTouch DEF Shift

LEMMA KeepsSetRp ==
  ASSUME NEW c, NEW mm, Keeps(c, mm), NEW rp0, NEW rp1, NEW rp2
  PROVE  Keeps(c, SetRp(mm, rp0, rp1, rp2))
<1>1. Keeps(c, [mm EXCEPT !.gs.rp = <<rp0, rp1, rp2>>])
  BY KeepsField
<1> QED BY <1>1, Zenon DEF SetRp

\* A point that is placed anew in the twilight zone.
LEMMA KeepsPlaced ==
  ASSUME NEW c, NEW mm, Keeps(c, mm), NEW p, NEW xy
  PROVE  Keeps(c, SetCur(SetOrg(mm, 0, p, xy), 0, p, xy))
BY KeepsSetOrg, KeepsSetCur

\* Loops over points take their operands and move points, however they do it.
LEMMA KeepsLoopPoints ==
  ASSUME NEW c, NEW mm, Keeps(c, mm), NEW n \in Nat \union {Endless}, NEW moved
  PROVE  Keeps(c, LoopPoints(mm, n, moved))
<1>1. CASE n = Endless
  BY <1>1, KeepsFail DEF LoopPoints
<1>2. CASE n # Endless
  <2> DEFINE done == Drop(mm, n)
             w == [done EXCEPT !.zone = moved.zone]
             x == [w EXCEPT !.twilight = moved.twilight]
             y == [x EXCEPT !.err = moved.err]
             z == [y EXCEPT !.gs.loop = 1]
  <2>1. Keeps(c, done)
    BY <1>2, KeepsDrop
  <2>2. LoopPoints(mm, n, moved) = IF done.err # "none" THEN done ELSE z
    BY <1>2, Zenon DEF LoopPoints
  <2> HIDE DEF done
  <2>3. Keeps(c, w)
    BY <2>1, KeepsField
  <2> HIDE DEF w
  <2>4. Keeps(c, x)
    BY <2>3, KeepsField
  <2> HIDE DEF x
  <2>5. Keeps(c, y)
    BY <2>4, KeepsField
  <2> HIDE DEF y
  <2>6. Keeps(c, z)
    BY <2>5, KeepsField
  <2> HIDE DEF z
  <2> QED BY <2>1, <2>2, <2>6
<1> QED BY <1>1, <1>2

LEMMA Loops ==
  ASSUME NEW mm
  PROVE  /\ Repeats(mm) \in Nat /\ Repeats(mm) \in Nat \union {Endless}
         /\ UnsignedRepeats(mm) \in Nat \union {Endless}
BY DEF Repeats, UnsignedRepeats

LEMMA KeepsDeltas ==
  ASSUME NEW c, NEW mm, Keeps(c, mm), NEW first, NEW changed
  PROVE  Keeps(c, ForDeltas(mm, first, changed))
<1> DEFINE rest == Drop(mm, 1)
           done == WithoutDeltas(mm)
           w == [done EXCEPT !.zone = changed.zone]
           x == [w EXCEPT !.cvt = changed.cvt]
           y == [x EXCEPT !.err = changed.err]
<1>1. Keeps(c, rest)
  BY KeepsDrop
<1>2. DeltaPairs(mm) \in Nat
  <2> DEFINE len == Len(rest.stack)
             most == len \div 2
  <2>1. DeltaPairs(mm) = IF Arg(mm, 1) \in 0..most THEN Arg(mm, 1) ELSE most
    BY DEF DeltaPairs
  <2>2. len \in Nat
    <3> HIDE DEF rest
    <3> QED BY <1>1, OnStack
  <2> HIDE DEF len
  <2>3. most \in Nat
    BY <2>2
  <2> HIDE DEF most
  <2> QED BY <2>1, <2>3
<1>3. Keeps(c, done)
  <2>1. 2 * DeltaPairs(mm) \in Nat
    BY <1>2
  <2>2. done = Drop(rest, 2 * DeltaPairs(mm))
    BY DEF WithoutDeltas
  <2> HIDE DEF rest, done
  <2> QED BY <1>1, <2>1, <2>2, KeepsDrop
<1>4. ForDeltas(mm, first, changed) = IF DeltaRange(mm, first) \in 0..15 THEN y ELSE done
  BY Zenon DEF ForDeltas
<1> HIDE DEF done
<1>5. Keeps(c, w)
  BY <1>3, KeepsField
<1> HIDE DEF w
<1>6. Keeps(c, x)
  BY <1>5, KeepsField
<1> HIDE DEF x
<1>7. Keeps(c, y)
  BY <1>6, KeepsField
<1> HIDE DEF y
<1> QED BY <1>3, <1>4, <1>7

LEMMA KeepsShiftAll ==
  ASSUME NEW c, NEW mm, Keeps(c, mm), NEW ps, NEW d, NEW touches
  PROVE  Keeps(c, ShiftAll(mm, ps, d, touches))
<1> DEFINE shifted == ShiftedAll(mm, ps, d, touches)
           x == [mm EXCEPT !.zone = shifted.zone]
           y == [x EXCEPT !.twilight = shifted.twilight]
<1>1. ShiftAll(mm, ps, d, touches) = y
  BY Zenon DEF ShiftAll
<1> HIDE DEF shifted
<1>2. Keeps(c, x)
  BY KeepsField
<1> HIDE DEF x
<1>3. Keeps(c, y)
  BY <1>2, KeepsField
<1> HIDE DEF y
<1> QED BY <1>1, <1>3

-----------------------------------------------------------------------------
(* The groups of instructions that move data *)

LEMMA KeepsMoveToTop ==
  ASSUME NEW c, NEW mm, Keeps(c, mm), NEW i \in 1..Len(mm.stack)
  PROVE  Keeps(c, [mm EXCEPT !.stack = Append(RemoveAt(@, i), @[i])])
<1> DEFINE s == mm.stack
           t == Append(RemoveAt(s, i), s[i])
<1>1. IsSeq(s)
  BY OnStack
<1>2. IsSeq(t)
  <2> HIDE DEF s
  <2>1. PICK S : s \in Seq(S)
    BY <1>1 DEF IsSeq
  <2>2. i \in 1..Len(s)
    BY DEF s
  <2>3. SubSeq(s, 1, i - 1) \in Seq(S) /\ SubSeq(s, i + 1, Len(s)) \in Seq(S) /\ s[i] \in S
    BY <2>1, <2>2
  <2>4. SubSeq(s, 1, i - 1) \o SubSeq(s, i + 1, Len(s)) \in Seq(S)
    BY <2>3
  <2>5. RemoveAt(s, i) \in Seq(S)
    BY <2>4 DEF RemoveAt
  <2>6. t \in Seq(S)
    BY <2>3, <2>5
  <2> QED BY <2>6 DEF IsSeq
<1>3. [mm EXCEPT !.stack = Append(RemoveAt(@, i), @[i])] = [mm EXCEPT !.stack = t]
  BY Zenon
<1> HIDE DEF t
<1> QED BY <1>2, <1>3, KeepsStack

LEMMA KeepsDoStack ==
  ASSUME NEW c, NEW mm, Keeps(c, mm), NEW op
  PROVE  Keeps(c, DoStack(mm, op))
<1> DEFINE k == Arg(mm, 1)
           rest == Drop(mm, 1)
           n == Len(rest.stack)
           inside == k \in 1..n
           cleared == [mm EXCEPT !.stack = <<>>]
           top == IF inside THEN rest.stack[n - k + 1] ELSE 0
           mindex == [rest EXCEPT !.stack = Append(RemoveAt(@, n - k + 1), @[n - k + 1])]
           swap == Push(Push(Drop(mm, 2), k), Arg(mm, 2))
           roll == Push(Push(Push(Drop(mm, 3), Arg(mm, 2)), k), Arg(mm, 3))
<1>1. Keeps(c, rest) /\ Keeps(c, Drop(mm, 2)) /\ Keeps(c, Drop(mm, 3))
  BY KeepsDrop
<1>2. Keeps(c, swap) /\ Keeps(c, roll)
  BY <1>1, KeepsPush
<1>3. Keeps(c, cleared)
  BY NoSequence, KeepsStack
<1>4. ASSUME inside
      PROVE  Keeps(c, mindex)
  <2> HIDE DEF k, rest
  <2>1. n \in Nat
    BY <1>1, OnStack
  <2>2. n - k + 1 \in 1..Len(rest.stack)
    BY <2>1, <1>4
  <2> QED BY <1>1, <2>2, KeepsMoveToTop
<1>5. Keeps(c, Push(mm, k)) /\ Keeps(c, Push(mm, Len(mm.stack))) /\ Keeps(c, Push(rest, top))
  BY <1>1, KeepsPush
<1>6. DoStack(mm, op) \in {Push(mm, k), rest, cleared, swap, Push(mm, Len(mm.stack)),
                           Push(rest, top), IF inside THEN mindex ELSE rest, roll}
  BY Zenon DEF DoStack
<1> HIDE DEF rest, cleared, top, mindex, swap, roll, inside
<1> QED BY <1>1, <1>2, <1>3, <1>4, <1>5, <1>6

LEMMA KeepsDoArithmetic ==
  ASSUME NEW c, NEW mm, Keeps(c, mm), NEW op
  PROVE  Keeps(c, DoArithmetic(mm, op))
<1>1. \A v : Keeps(c, Replace(mm, 1, v)) /\ Keeps(c, Replace(mm, 2, v))
  BY KeepsReplace
<1>2. Keeps(c, Fail(mm, "DivideByZero"))
  BY KeepsFail
<1> QED BY <1>1, <1>2, Zenon DEF DoArithmetic

LEMMA KeepsDoMemory ==
  ASSUME NEW c, NEW mm, Keeps(c, mm), NEW op
  PROVE  Keeps(c, DoMemory(mm, op))
<1> DEFINE rest == Drop(mm, 2)
           i == Arg(mm, 2)
           write == [rest EXCEPT !.storage[i + 1] = Arg(mm, 1)]
<1>1. Keeps(c, rest)
  BY KeepsDrop
<1>2. Keeps(c, write)
  BY <1>1, KeepsField
<1>3. \A s : Keeps(c, ReadFrom(mm, s))
  <2>1. \A v : Keeps(c, Replace(mm, 1, v))
    BY KeepsReplace
  <2> QED BY <2>1, KeepsRefuse DEF ReadFrom
<1>4. \A j, v : Keeps(c, SetCvt(rest, j, v))
  <2> HIDE DEF rest
  <2> TAKE j, v
  <2>1. Keeps(c, [rest EXCEPT !.cvt[j + 1] = v])
    BY <1>1, KeepsField
  <2>2. Keeps(c, Refuse(rest))
    BY <1>1, KeepsRefuse
  <2> QED BY <2>1, <2>2, Zenon DEF SetCvt
<1>5. \A first : Keeps(c, DeltaC(mm, first))
  BY KeepsDeltas DEF DeltaC
<1>6. Keeps(c, Refuse(rest))
  BY <1>1, KeepsRefuse
<1> QED BY <1>2, <1>3, <1>4, <1>5, <1>6, Zenon DEF DoMemory

LEMMA KeepsDoMeasure ==
  ASSUME NEW c, NEW mm, Keeps(c, mm), NEW op
  PROVE  Keeps(c, DoMeasure(mm, op))
<1> DEFINE rest == Drop(mm, 2)
<1>1. Keeps(c, rest)
  BY KeepsDrop
<1>2. \A v : Keeps(c, Replace(mm, 1, v)) /\ Keeps(c, Replace(mm, 2, v))
  BY KeepsReplace
<1>3. \A zp, q, d : Keeps(c, Shift(rest, zp, q, d))
  BY <1>1, KeepsShift
<1>4. \A zp, q, d, xy : Keeps(c, SetOrg(Shift(rest, zp, q, d), 0, q, xy))
  BY <1>3, KeepsSetOrg
<1>5. Keeps(c, Refuse(rest))
  BY <1>1, KeepsRefuse
<1> QED BY <1>2, <1>3, <1>4, <1>5, Zenon DEF DoMeasure

LEMMA KeepsMoveAbsolute ==
  ASSUME NEW c, NEW mm, Keeps(c, mm), NEW op
  PROVE  Keeps(c, MoveAbsolute(mm, op))
<1> DEFINE zp == mm.gs.zp[1]
           indirect == op \in {\h3E, \h3F}
           p == Arg(mm, IF indirect THEN 2 ELSE 1)
           rest == Drop(mm, IF indirect THEN 2 ELSE 1)
           xy == Times(mm.gs.free, SafeGet(mm.cvt, Arg(mm, 1)))
           placed == IF indirect /\ zp = 0
                     THEN SetCur(SetOrg(rest, 0, p, xy), 0, p, xy) ELSE rest
           moved(d) == SetRp(Shift(placed, zp, p, d), p, p, mm.gs.rp[3])
<1>1. Keeps(c, rest)
  BY KeepsDrop
<1>2. Keeps(c, placed)
  <2> HIDE DEF rest
  <2> QED BY <1>1, KeepsPlaced
<1>3. \A d : Keeps(c, moved(d))
  <2> HIDE DEF placed
  <2> QED BY <1>2, KeepsShift, KeepsSetRp
<1>4. \E d : MoveAbsolute(mm, op) \in {Fail(mm, "InvalidReference"), moved(d)}
  BY Zenon DEF MoveAbsolute
<1> HIDE DEF moved
<1> QED BY <1>3, <1>4, KeepsFail


LEMMA KeepsMoveRelative ==
  ASSUME NEW c, NEW mm, Keeps(c, mm), NEW op
  PROVE  Keeps(c, MoveRelative(mm, op))
<1> DEFINE gs == mm.gs
           zq == gs.zp[1]
           zp == gs.zp[2]
           q == gs.rp[1]
           indirect == op \in \hE0..\hFF
           p == Arg(mm, IF indirect THEN 2 ELSE 1)
           entry == Arg(mm, 1)
           rest == Drop(mm, IF indirect THEN 2 ELSE 1)
           direct == OriginalDistance(mm, zq, q, zp, p)
           nearWidth == gs.widthCutIn > 0 /\ Abs(direct - gs.width) < gs.widthCutIn
           read == SafeGet(mm.cvt, entry)
           value == IF Abs(read - gs.width) < gs.widthCutIn THEN SingleWidth(gs, read) ELSE read
           xy == Plus(Org(mm, zq, q), Along(gs, value))
           placed == IF indirect /\ zp = 0
                     THEN SetCur(SetOrg(rest, 0, p, xy), 0, p, xy) ELSE rest
           org == IF indirect THEN Dot(Minus(Org(placed, zp, p), Org(placed, zq, q)), gs.dual)
                  ELSE IF nearWidth THEN SingleWidth(gs, direct) ELSE direct
           flipped == IF gs.autoFlip /\ (org < 0) # (value < 0) THEN -value ELSE value
           cut == IF Bit(op, 4) /\ zq = zp /\ Abs(flipped - org) > gs.cutIn THEN org ELSE flipped
           wanted == IF indirect THEN cut ELSE org
           rounded == IF Bit(op, 4) THEN Round(gs, wanted) ELSE wanted
           distance == IF Bit(op, 8) THEN AtLeast(gs, org, rounded) ELSE rounded
           now == Dot(Minus(Cur(placed, zp, p), Cur(placed, zq, q)), gs.proj)
           moved(d) == SetRp(Shift(placed, zp, p, d), IF Bit(op, 16) THEN p ELSE q, q, p)
<1>1. Keeps(c, rest)
  BY KeepsDrop
<1>2. Keeps(c, placed)
  <2> HIDE DEF rest, xy
  <2> QED BY <1>1, KeepsPlaced
<1>3. \A d : Keeps(c, moved(d))
  <2> HIDE DEF placed
  <2> QED BY <1>2, KeepsShift, KeepsSetRp
<1>4. MoveRelative(mm, op) = IF indirect /\ entry >= Len(mm.cvt) /\ mm.pedantic
                             THEN Fail(mm, "InvalidReference") ELSE moved(distance - now)
  BY Zenon DEF MoveRelative
<1> HIDE DEF moved, distance, now
<1> QED BY <1>3, <1>4, KeepsFail

LEMMA KeepsMoveStackRelative ==
  ASSUME NEW c, NEW mm, Keeps(c, mm), NEW op
  PROVE  Keeps(c, MoveStackRelative(mm, op))
<1> DEFINE p == Arg(mm, 2)
           q == mm.gs.rp[1]
           zp == mm.gs.zp[2]
           rest == Drop(mm, 2)
           xy == Plus(Org(mm, mm.gs.zp[1], q), Times(mm.gs.free, Arg(mm, 1)))
           placed == IF zp = 0 THEN SetCur(SetOrg(rest, 0, p, xy), 0, p, xy) ELSE rest
           moved(d) == SetRp(Shift(placed, zp, p, d), IF op = \h3B THEN p ELSE q, q, p)
<1>1. Keeps(c, rest)
  BY KeepsDrop
<1>2. Keeps(c, placed)
  <2> HIDE DEF rest, xy
  <2> QED BY <1>1, KeepsPlaced
<1>3. \A d : Keeps(c, moved(d))
  <2> HIDE DEF placed
  <2> QED BY <1>2, KeepsShift, KeepsSetRp
<1>4. \E d : MoveStackRelative(mm, op) = moved(d)
  BY Zenon DEF MoveStackRelative
<1> HIDE DEF moved
<1> QED BY <1>3, <1>4

LEMMA KeepsDoShift ==
  ASSUME NEW c, NEW mm, Keeps(c, mm), NEW op
  PROVE  Keeps(c, DoShift(mm, op))
<1> DEFINE d == Displacement(mm, op)
           zp == mm.gs.zp[3]
           rest == IF op \in {\h32, \h33} THEN mm ELSE Drop(mm, 1)
           e == Arg(mm, 1)
           contour == (IF e = 0 THEN 0 ELSE mm.contours[e] + 1)..mm.contours[e + 1]
           all == 0..(CASE zp = 0 -> Points(mm, 0) - 1
                        [] mm.contours # <<>> -> Points(mm, 1) - 5
                        [] OTHER -> -1)
<1>1. Keeps(c, rest)
  BY KeepsDrop
<1>2. Keeps(c, LoopPoints(rest, UnsignedRepeats(rest), ShiftedPoints(rest, d)))
  <2> HIDE DEF rest, d
  <2> QED BY <1>1, Loops, KeepsLoopPoints
<1>3. \A ps, touches : Keeps(c, ShiftAll(rest, ps, d, touches))
  <2> HIDE DEF rest, d
  <2> QED BY <1>1, KeepsShiftAll
<1>4. Keeps(c, Refuse(rest))
  <2> HIDE DEF rest
  <2> QED BY <1>1, KeepsRefuse
<1>5. DoShift(mm, op) =
        IF op \in {\h34, \h35} /\ ~Inside(mm.contours, e) THEN rest
        ELSE IF ~d.valid THEN Refuse(rest)
        ELSE CASE op \in {\h32, \h33} ->
                    LoopPoints(rest, UnsignedRepeats(rest), ShiftedPoints(rest, d))
               [] op \in {\h34, \h35} -> ShiftAll(rest, contour, d, TRUE)
               [] OTHER -> ShiftAll(rest, all, d, FALSE)
  BY Zenon DEF DoShift
<1> HIDE DEF rest, d, contour, all
<1> QED BY <1>1, <1>2, <1>3, <1>4, <1>5

LEMMA KeepsPointLoops ==
  ASSUME NEW c, NEW mm, Keeps(c, mm)
  PROVE  /\ Keeps(c, SHPIX(mm)) /\ Keeps(c, ALIGNRP(mm)) /\ Keeps(c, IP(mm))
         /\ Keeps(c, LoopPoints(mm, Repeats(mm), Flipped(mm)))
         /\ \A first : Keeps(c, DELTAP(mm, first))
<1>1. Keeps(c, Drop(mm, 1))
  BY KeepsDrop
<1>2. Keeps(c, SHPIX(mm))
  BY <1>1, Loops, KeepsLoopPoints DEF SHPIX
<1>3. Keeps(c, ALIGNRP(mm)) /\ Keeps(c, IP(mm))
      /\ Keeps(c, LoopPoints(mm, Repeats(mm), Flipped(mm)))
  BY Loops, KeepsLoopPoints DEF ALIGNRP, IP
<1>4. \A first : Keeps(c, DELTAP(mm, first))
  BY KeepsDeltas DEF DELTAP
<1> QED BY <1>2, <1>3, <1>4

LEMMA KeepsALIGNPTS ==
  ASSUME NEW c, NEW mm, Keeps(c, mm)
  PROVE  Keeps(c, ALIGNPTS(mm))
<1>1. Keeps(c, Drop(mm, 2))
  BY KeepsDrop
<1>2. \A z, p, xy : Keeps(c, SetCur(Drop(mm, 2), z, p, xy))
  BY <1>1, KeepsSetCur
<1>3. \A z1, p1, v1, z2, p2, v2 :
        Keeps(c, SetCur(SetCur(Drop(mm, 2), z1, p1, v1), z2, p2, v2))
  BY <1>2, KeepsSetCur
<1>4. \A z1, p1, v1, z2, p2, v2 :
        Keeps(c, Touch(Touch(SetCur(SetCur(Drop(mm, 2), z1, p1, v1), z2, p2, v2), z1, p1), z2, p2))
  BY <1>3, KeepsTouch
<1> QED BY <1>4, Zenon DEF ALIGNPTS

LEMMA KeepsISECT ==
  ASSUME NEW c, NEW mm, Keeps(c, mm)
  PROVE  Keeps(c, ISECT(mm))
<1> DEFINE rest == Drop(mm, 5)
           p == Arg(mm, 5)
           a(xy) == [rest EXCEPT !.twilight.cur[p + 1] = xy]
           b(xy) == [rest EXCEPT !.zone.cur[p + 1] = xy]
<1>1. Keeps(c, rest)
  BY KeepsDrop
<1>2. \A xy : Keeps(c, a(xy)) /\ Keeps(c, b(xy))
  <2> HIDE DEF rest
  <2> QED BY <1>1, KeepsField
<1>3. \A xy, z : /\ Keeps(c, SetTags(a(xy), z, p, Axis))
                 /\ Keeps(c, SetTags(b(xy), z, p, Axis))
  <2> HIDE DEF a, b
  <2> QED BY <1>2, KeepsSetTags
<1> QED BY <1>1, <1>3, Zenon DEF ISECT

LEMMA KeepsIUP ==
  ASSUME NEW c, NEW mm, Keeps(c, mm), NEW axis
  PROVE  Keeps(c, IUP(mm, axis))
<1> DEFINE x == [mm EXCEPT !.zone = IupZone(mm, axis)]
           y == [x EXCEPT !.iups = IF mm.compat THEN mm.iups \union {axis} ELSE mm.iups]
<1>1. Keeps(c, x)
  BY KeepsField
<1>2. Keeps(c, y)
  <2> HIDE DEF x
  <2> QED BY <1>1, KeepsField
<1>3. y = [mm EXCEPT !.zone = IupZone(mm, axis),
                     !.iups = IF mm.compat THEN @ \union {axis} ELSE @]
  BY Zenon DEF Keeps, Machine, Fields
<1> HIDE DEF y
<1> QED BY <1>2, <1>3 DEF IUP

LEMMA KeepsDoPoint ==
  ASSUME NEW c, NEW mm, Keeps(c, mm), NEW op
  PROVE  Keeps(c, DoPoint(mm, op))
<1>1. Keeps(c, Drop(mm, 1)) /\ Keeps(c, Drop(mm, 2)) /\ Keeps(c, Fail(mm, "InvalidReference"))
  BY KeepsDrop, KeepsFail
<1>2. \A zp, p : Keeps(c, Untouch(Drop(mm, 1), zp, p))
  BY <1>1, KeepsTouch
<1>3. /\ Keeps(c, MoveAbsolute(mm, op)) /\ Keeps(c, MoveRelative(mm, op))
      /\ Keeps(c, DoShift(mm, op)) /\ Keeps(c, MoveStackRelative(mm, op))
  BY KeepsMoveAbsolute, KeepsMoveRelative, KeepsDoShift, KeepsMoveStackRelative
<1>4. /\ Keeps(c, ISECT(mm)) /\ Keeps(c, ALIGNPTS(mm))
      /\ Keeps(c, IUP(mm, "x")) /\ Keeps(c, IUP(mm, "y"))
  BY KeepsISECT, KeepsALIGNPTS, KeepsIUP
<1>5. /\ Keeps(c, SHPIX(mm)) /\ Keeps(c, ALIGNRP(mm)) /\ Keeps(c, IP(mm))
      /\ Keeps(c, LoopPoints(mm, Repeats(mm), Flipped(mm)))
      /\ \A first : Keeps(c, DELTAP(mm, first))
  BY KeepsPointLoops
<1> QED BY <1>1, <1>2, <1>3, <1>4, <1>5, Zenon DEF DoPoint


LEMMA KeepsDoVector ==
  ASSUME NEW c, NEW mm, Keeps(c, mm), NEW op
  PROVE  Keeps(c, DoVector(mm, op))
<1> DEFINE gs == mm.gs
           axis == IF op % 2 = 0 THEN <<0, 1>> ELSE <<1, 0>>
           line == LineVector(Minus(Cur(mm, gs.zp[2], Arg(mm, 1)), Cur(mm, gs.zp[3], Arg(mm, 2))), op)
           given == <<Arg(mm, 2), Arg(mm, 1)>>
           original == LineVector(Minus(Org(mm, 1, Arg(mm, 1)), Org(mm, 1, Arg(mm, 2))), op)
           rest == Drop(mm, 2)
           proj(x, v) == [x EXCEPT !.gs.proj = v]
           free(x, v) == [x EXCEPT !.gs.free = v]
           dual(x, v) == [x EXCEPT !.gs.dual = v]
           both(x, v) == [x EXCEPT !.gs.proj = v, !.gs.dual = v]
           all(x, v) == [both(x, v) EXCEPT !.gs.free = v]
           pushed(v) == Push(Push(mm, UnitLength * v[1]), UnitLength * v[2])
<1>1. Keeps(c, rest)
  BY KeepsDrop
<1>2. \A x, v : Keeps(c, x) => Keeps(c, proj(x, v)) /\ Keeps(c, free(x, v)) /\ Keeps(c, dual(x, v))
  BY KeepsField
<1>3. \A x, v : both(x, v) = dual(proj(x, v), v)
  BY Zenon
<1> HIDE DEF proj, free, dual, both, rest
<1>4. \A x, v : Keeps(c, x) => Keeps(c, both(x, v))
  BY <1>2, <1>3
<1>5. \A x, v : Keeps(c, x) => Keeps(c, all(x, v))
  BY <1>2, <1>4 DEF free
<1>6. \A v : Keeps(c, pushed(v))
  BY KeepsPush
<1>7. \A v : /\ Keeps(c, all(mm, v)) /\ Keeps(c, proj(mm, v)) /\ Keeps(c, free(mm, v))
             /\ Keeps(c, both(rest, v)) /\ Keeps(c, free(rest, v)) /\ Keeps(c, dual(rest, v))
  <2> HIDE DEF all
  <2> QED BY <1>1, <1>2, <1>4, <1>5, KeepsItself
<1>8. DoVector(mm, op) =
        CASE op \in {\h00, \h01} -> all(mm, axis)
          [] op \in {\h02, \h03} -> proj(mm, axis)
          [] op \in {\h04, \h05} -> free(mm, axis)
          [] op \in {\h06, \h07} -> both(rest, line)
          [] op \in {\h08, \h09} -> free(rest, line)
          [] op = \h0A -> both(rest, Axial(given, gs.proj))
          [] op = \h0B -> [rest EXCEPT !.gs.free = Axial(given, @)]
          [] op = \h0C -> pushed(gs.proj)
          [] op = \h0D -> pushed(gs.free)
          [] op = \h0E -> free(mm, gs.proj)
          [] OTHER -> dual(rest, original)
  BY Zenon DEF DoVector, all, proj, free, both, dual, rest
<1>9. Keeps(c, [rest EXCEPT !.gs.free = Axial(given, @)])
  <2> HIDE DEF given
  <2> QED BY <1>1, KeepsField
<1> HIDE DEF all, pushed, axis, line, given, gs, original
<1> QED BY <1>6, <1>7, <1>8, <1>9

LEMMA KeepsSCANCTRL ==
  ASSUME NEW c, NEW mm, Keeps(c, mm)
  PROVE  Keeps(c, SCANCTRL(mm))
<1> DEFINE rest == Drop(mm, 1)
           v == Arg(mm, 1)
           threshold == LowByte(v)
           on == \/ threshold = 255
                 \/ threshold # 0 /\ Bit(v, 256) /\ Ppem <= threshold
           off == \/ threshold = 0
                  \/ threshold # 255 /\ Bit(v, 2048) /\ Ppem > threshold
           scanned == [rest EXCEPT !.gs.scan = IF off THEN FALSE ELSE IF on THEN TRUE ELSE @]
<1>1. Keeps(c, rest)
  BY KeepsDrop
<1>2. Keeps(c, scanned)
  <2> HIDE DEF rest, on, off
  <2> QED BY <1>1, KeepsField
<1>3. SCANCTRL(mm) = scanned
  BY Zenon DEF SCANCTRL
<1> HIDE DEF scanned
<1> QED BY <1>2, <1>3

LEMMA KeepsINSTCTRL ==
  ASSUME NEW c, NEW mm, Keeps(c, mm)
  PROVE  Keeps(c, INSTCTRL(mm))
<1> DEFINE rest == Drop(mm, 2)
           value == Arg(mm, 2)
           controlled(v) == [rest EXCEPT !.gs.control = v]
           part == [rest EXCEPT !.compat = (value = 0)]
           both == [part EXCEPT !.iups = {}]
<1>1. Keeps(c, rest)
  BY KeepsDrop
<1>2. Keeps(c, Refuse(rest))
  BY <1>1, KeepsRefuse
<1>3. \A v : Keeps(c, controlled(v))
  <2> HIDE DEF rest
  <2> QED BY <1>1, KeepsField
<1>4. Keeps(c, part)
  <2> HIDE DEF rest
  <2> QED BY <1>1, KeepsField
<1>5. Keeps(c, both)
  <2> HIDE DEF part
  <2> QED BY <1>4, KeepsField
<1>6. \E v : INSTCTRL(mm) \in {Refuse(rest), controlled(v), both}
  BY Zenon DEF INSTCTRL
<1> HIDE DEF rest, controlled, both
<1> QED BY <1>2, <1>3, <1>5, <1>6

LEMMA KeepsSetRound ==
  ASSUME NEW c, NEW mm, Keeps(c, mm), NEW op
  PROVE  Keeps(c, SetRound(mm, op))
<1> DEFINE rest == Drop(mm, 1)
<1>1. Keeps(c, rest)
  BY KeepsDrop
<1>2. \A w : Keeps(c, [mm EXCEPT !.gs.round = w])
  BY KeepsField
<1>3. \A w : Keeps(c, [rest EXCEPT !.gs = w])
  <2> HIDE DEF rest
  <2> QED BY <1>1, KeepsField
<1> QED BY <1>2, <1>3, Zenon DEF SetRound

LEMMA KeepsDoState ==
  ASSUME NEW c, NEW mm, Keeps(c, mm), NEW op
  PROVE  Keeps(c, DoState(mm, op))
<1> DEFINE rest == Drop(mm, 1)
           v == Arg(mm, 1)
<1>1. Keeps(c, rest)
  BY KeepsDrop
<1>2. \A w : Keeps(c, Push(mm, w)) /\ Keeps(c, Replace(mm, 1, w))
  BY KeepsPush, KeepsReplace
<1>3. Keeps(c, SCANCTRL(mm)) /\ Keeps(c, INSTCTRL(mm))
  BY KeepsSCANCTRL, KeepsINSTCTRL
<1>4. Keeps(c, SetRound(mm, op)) /\ \A w : Keeps(c, [mm EXCEPT !.gs.autoFlip = w])
  BY KeepsField, KeepsSetRound
<1>5. /\ \A i, w : Keeps(c, [rest EXCEPT !.gs.rp[i] = w]) /\ Keeps(c, [rest EXCEPT !.gs.zp[i] = w])
      /\ \A w : Keeps(c, [rest EXCEPT !.gs.zp = w]) /\ Keeps(c, [rest EXCEPT !.gs.loop = w])
  <2> HIDE DEF rest
  <2> QED BY <1>1, KeepsField
<1>6. \A w : /\ Keeps(c, [rest EXCEPT !.gs.minDist = w]) /\ Keeps(c, [rest EXCEPT !.gs.cutIn = w])
             /\ Keeps(c, [rest EXCEPT !.gs.widthCutIn = w]) /\ Keeps(c, [rest EXCEPT !.gs.width = w])
             /\ Keeps(c, [rest EXCEPT !.gs.deltaBase = w]) /\ Keeps(c, [rest EXCEPT !.gs.deltaShift = w])
  <2> HIDE DEF rest
  <2> QED BY <1>1, KeepsField
<1>7. Keeps(c, [rest EXCEPT !.gs.scanType = IF v >= 0 THEN LowByte(v) ELSE @])
  <2> HIDE DEF rest, v
  <2> QED BY <1>1, KeepsField
<1> QED BY <1>1, <1>2, <1>3, <1>4, <1>5, <1>6, <1>7, Zenon DEF DoState


-----------------------------------------------------------------------------
(* The limits *)

Sound(mm) ==
  /\ Machine(mm)
  /\ IsSeq(mm.calls) /\ Len(mm.calls) <= MaxCallDepth
  /\ mm.steps \in 0..MaxSteps /\ mm.back \in Nat
  /\ mm.err = "none" => mm.back <= NegativeJumpLimit(mm)
  /\ IsFiniteSet(DOMAIN mm.funs) /\ Cardinality(DOMAIN mm.funs) <= FunctionBudget
  /\ IsFiniteSet(DOMAIN mm.idefs) /\ Cardinality(DOMAIN mm.idefs) <= InstructionBudget

\* What an instruction makes of a machine that is Sound.
Obeys(a, b) ==
  /\ Sound(b) /\ b.initial = a.initial
  /\ a.initial = 2 => b.funs = a.funs /\ b.idefs = a.idefs

LEMMA Bounds ==
  /\ StackLimit \in Nat /\ MaxCallDepth \in Nat /\ MaxSteps \in Nat /\ NumGlyphs \in Nat
  /\ FunctionBudget \in Nat /\ InstructionBudget \in Nat /\ Len(InitialCvt) \in Nat
BY InterpreterAssumption

LEMMA SameLimit ==
  ASSUME NEW a, NEW b, a.initial = b.initial
  PROVE  NegativeJumpLimit(a) = NegativeJumpLimit(b)
BY Zenon DEF NegativeJumpLimit

LEMMA LimitIsNatural ==
  ASSUME job \in Jobs, NEW mm
  PROVE  NegativeJumpLimit(mm) \in Nat
<1> DEFINE n == IF mm.initial = 2 THEN Len(job.points) ELSE 0
           cvt == Len(InitialCvt)
           AtLeast50(k) == IF k < 50 THEN 50 ELSE k
           own == IF n > 0 THEN AtLeast50(10 * n) + AtLeast50(cvt \div 10) ELSE 300 + 22 * cvt
           most == 100 * NumGlyphs
<1>1. n \in Nat /\ cvt \in Nat
  BY JobsAssumption, Bounds DEF JobType
<1>2. own \in Nat /\ most \in Nat
  <2> HIDE DEF n, cvt
  <2> QED BY <1>1, Bounds
<1>3. NegativeJumpLimit(mm) = Min({own, most})
  BY DEF NegativeJumpLimit
<1> HIDE DEF own, most
<1>4. Min({own, most}) \in {own, most}
  <2>1. CASE own <= most
    <3>1. own \in {own, most} /\ \A y \in {own, most} : own <= y
      BY <1>2, <2>1
    <3> QED BY <3>1, Zenon DEF Min
  <2>2. CASE most <= own
    <3>1. most \in {own, most} /\ \A y \in {own, most} : most <= y
      BY <1>2, <2>2
    <3> QED BY <3>1, Zenon DEF Min
  <2> QED BY <1>2, <2>1, <2>2
<1> QED BY <1>2, <1>3, <1>4

LEMMA KeptIsObeyed ==
  ASSUME NEW a, NEW b, Sound(a), a.err = "none", Keeps(a, b)
  PROVE  Obeys(a, b)
<1>1. NegativeJumpLimit(a) = NegativeJumpLimit(b)
  BY SameLimit DEF Keeps
<1> QED BY <1>1 DEF Obeys, Sound, Keeps

LEMMA ObeysItself ==
  ASSUME NEW a, Sound(a)
  PROVE  Obeys(a, a)
BY DEF Obeys

LEMMA ObeysThen ==
  ASSUME NEW a, NEW b, NEW c, Obeys(a, b), Obeys(b, c)
  PROVE  Obeys(a, c)
BY DEF Obeys

\* A sequence of any values.
LEMMA Enumerated ==
  ASSUME NEW n \in Nat, NEW f, f = [i \in 1..n |-> f[i]]
  PROVE  IsSeq(f)
<1> DEFINE S == {f[i] : i \in 1..n}
<1>1. f \in [1..n -> S]
  OBVIOUS
<1> HIDE DEF S
<1>2. f \in Seq(S)
  BY <1>1
<1> QED BY <1>2 DEF IsSeq

LEMMA Joined ==
  ASSUME NEW s, NEW t, IsSeq(s), IsSeq(t)
  PROVE  IsSeq(s \o t)
<1>1. PICK S : s \in Seq(S)
  BY DEF IsSeq
<1>2. PICK T : t \in Seq(T)
  BY DEF IsSeq
<1>3. s \in Seq(S \union T) /\ t \in Seq(S \union T)
  BY <1>1, <1>2
<1>4. s \o t \in Seq(S \union T)
  BY <1>3
<1> QED BY <1>4 DEF IsSeq

LEMMA Coded ==
  ASSUME job \in Jobs, NEW mm
  PROVE  Code(mm) \in Seq(Byte)
BY JobsAssumption DEF JobType, Code

LEMMA Elements ==
  ASSUME NEW S, NEW s \in Seq(S)
  PROVE  Len(s) \in Nat /\ \A i \in 1..Len(s) : s[i] \in S
OBVIOUS

LEMMA Bytes == \A b \in Byte : b \in 0..255 /\ b \in Nat
BY DEF Byte

LEMMA SpanCount ==
  ASSUME NEW code \in Seq(Byte), NEW ip \in 0..(Len(code) - 1)
  PROVE  PushSpan(code, ip).count \in Nat
<1> DEFINE op == code[ip + 1]
           next == code[ip + 2]
           many == IF ip + 1 < Len(code) THEN next ELSE Len(code)
           bytes == [from |-> ip + 1, count |-> op - \hB0 + 1, width |-> 1]
           words == [from |-> ip + 1, count |-> op - \hB8 + 1, width |-> 2]
           counted == [from |-> ip + 2, width |-> op - \h3F, count |-> many]
<1>1. op \in 0..255 /\ many \in Nat
  <2>1. Len(code) \in Nat /\ \A i \in 1..Len(code) : code[i] \in Byte
    BY Elements
  <2>2. ip + 1 \in 1..Len(code) /\ (ip + 1 < Len(code) => ip + 2 \in 1..Len(code))
    BY <2>1
  <2>3. op \in Byte /\ (ip + 1 < Len(code) => next \in Byte)
    BY <2>1, <2>2
  <2>4. Len(code) \in Nat
    BY <2>1
  <2> HIDE DEF op, next
  <2> QED BY <2>3, <2>4, Bytes
<1>2. PushSpan(code, ip) = CASE op \in \hB0..\hB7 -> bytes
                             [] op \in \hB8..\hBF -> words
                             [] OTHER -> counted
  BY DEF PushSpan
<1> HIDE DEF op, many
<1>3. op \in \hB0..\hB7 => bytes.count \in Nat
  BY <1>1
<1>4. op \in \hB8..\hBF => words.count \in Nat
  BY <1>1
<1>5. counted.count \in Nat
  BY <1>1
<1> HIDE DEF bytes, words, counted
<1> QED BY <1>2, <1>3, <1>4, <1>5

-----------------------------------------------------------------------------
(* Control flow *)

LEMMA PopCounts == \A op \in Byte : PopCount[op] \in Nat
BY DEF PopCount, Byte

LEMMA KeepsPrepare ==
  ASSUME NEW c, NEW mm, Keeps(c, mm), NEW op \in Byte
  PROVE  Keeps(c, Prepare(mm, op))
<1> DEFINE zeros == [i \in 1..PopCount[op] |-> 0]
<1>1. IsSeq(zeros)
  <2>1. PopCount[op] \in Nat
    BY PopCounts
  <2> QED BY <2>1, Enumerated
<1> HIDE DEF zeros
<1>2. Keeps(c, [mm EXCEPT !.stack = zeros])
  BY <1>1, KeepsStack
<1> QED BY <1>2, KeepsFail, Zenon DEF Prepare, zeros

\* What writing the registers of the control state does to it.
LEMMA SetIp ==
  ASSUME NEW a, NEW mm, Obeys(a, mm), NEW v
  PROVE  Obeys(a, [mm EXCEPT !.ip = v])
<1> DEFINE b == [mm EXCEPT !.ip = v]
<1>1. Machine(mm)
  BY DEF Obeys, Sound
<1>2. /\ DOMAIN b = Fields /\ b.calls = mm.calls /\ b.stack = mm.stack /\ b.steps = mm.steps
      /\ b.back = mm.back /\ b.err = mm.err /\ b.initial = mm.initial
      /\ b.funs = mm.funs /\ b.idefs = mm.idefs
  BY <1>1, Zenon DEF Machine, Fields
<1> HIDE DEF b
<1>3. NegativeJumpLimit(mm) = NegativeJumpLimit(b)
  BY <1>2, SameLimit
<1> QED BY <1>1, <1>2, <1>3 DEF Obeys, Sound, Machine, b

LEMMA SetRange ==
  ASSUME NEW a, NEW mm, Obeys(a, mm), NEW v
  PROVE  Obeys(a, [mm EXCEPT !.range = v])
<1> DEFINE b == [mm EXCEPT !.range = v]
<1>1. Machine(mm)
  BY DEF Obeys, Sound
<1>2. /\ DOMAIN b = Fields /\ b.calls = mm.calls /\ b.stack = mm.stack /\ b.steps = mm.steps
      /\ b.back = mm.back /\ b.err = mm.err /\ b.initial = mm.initial
      /\ b.funs = mm.funs /\ b.idefs = mm.idefs
  BY <1>1, Zenon DEF Machine, Fields
<1> HIDE DEF b
<1>3. NegativeJumpLimit(mm) = NegativeJumpLimit(b)
  BY <1>2, SameLimit
<1> QED BY <1>1, <1>2, <1>3 DEF Obeys, Sound, Machine, b

LEMMA SetErr ==
  ASSUME NEW a, NEW mm, Obeys(a, mm), NEW e, e # "none"
  PROVE  Obeys(a, Fail(mm, e))
<1> DEFINE b == Fail(mm, e)
<1>1. Keeps(mm, b)
  BY KeepsItself, KeepsFail DEF Obeys, Sound
<1>2. b.err = e
  BY Zenon DEF Fail, Obeys, Sound, Machine, Fields
<1> HIDE DEF b
<1> QED BY <1>1, <1>2 DEF Obeys, Sound, Keeps, b

\* A push adds its operands to the stack and goes on behind them.
LEMMA ObeysDoPush ==
  ASSUME job \in Jobs, NEW mm, Sound(mm), mm.err = "none", mm.ip \in 1..Len(Code(mm)), NEW op
  PROVE  Obeys(mm, DoPush(mm, op))
<1> DEFINE code == Code(mm)
           at == mm.ip - 1
           s == PushSpan(code, at)
           pushed == Pushed(code, at)
           end == PushEnd(code, at)
           x == [mm EXCEPT !.stack = @ \o pushed]
           y == [x EXCEPT !.ip = end]
<1>1. s.count \in Nat
  <2>1. code \in Seq(Byte) /\ Len(code) \in Nat
    BY Coded, Elements
  <2>2. at \in 0..(Len(code) - 1)
    <3> HIDE DEF code
    <3>1. mm.ip \in 1..Len(code)
      BY DEF code
    <3> QED BY <2>1, <3>1
  <2> HIDE DEF code, at
  <2> QED BY <2>1, <2>2, SpanCount
<1>2. IsSeq(pushed)
  <2>1. pushed = [i \in 1..s.count |-> pushed[i]]
    BY Zenon DEF Pushed
  <2> HIDE DEF pushed, s
  <2> QED BY <1>1, <2>1, Enumerated
<1>3. DoPush(mm, op) = IF end > Len(code) THEN Fail(mm, "CodeOverflow") ELSE y
  BY Zenon DEF DoPush
<1> HIDE DEF pushed, end, code
<1>4. IsSeq(mm.stack \o pushed)
  BY <1>2, Joined DEF Sound, Machine
<1>5. Keeps(mm, x)
  BY <1>4, KeepsItself, KeepsStack DEF Sound
<1> HIDE DEF x
<1>6. Obeys(mm, x)
  BY <1>5, KeptIsObeyed
<1>7. Obeys(mm, y)
  BY <1>6, SetIp
<1> HIDE DEF y
<1> QED BY <1>3, <1>7, ObeysItself, SetErr

LEMMA SetCalls ==
  ASSUME NEW a, NEW mm, Obeys(a, mm), NEW s, IsSeq(s), Len(s) <= MaxCallDepth
  PROVE  Obeys(a, [mm EXCEPT !.calls = s])
<1> DEFINE b == [mm EXCEPT !.calls = s]
<1>1. Machine(mm)
  BY DEF Obeys, Sound
<1>2. /\ DOMAIN b = Fields /\ b.calls = s /\ b.stack = mm.stack /\ b.steps = mm.steps
      /\ b.back = mm.back /\ b.err = mm.err /\ b.initial = mm.initial
      /\ b.funs = mm.funs /\ b.idefs = mm.idefs
  BY <1>1, Zenon DEF Machine, Fields
<1> HIDE DEF b
<1>3. NegativeJumpLimit(mm) = NegativeJumpLimit(b)
  BY <1>2, SameLimit
<1> QED BY <1>1, <1>2, <1>3 DEF Obeys, Sound, Machine, b

LEMMA ObeysEnter ==
  ASSUME NEW a, NEW mm, Obeys(a, mm), Len(mm.calls) < MaxCallDepth,
         NEW def, NEW index, NEW count
  PROVE  Obeys(a, Enter(mm, def, index, count))
<1> DEFINE calls == Append(mm.calls, [range |-> mm.range, ip |-> mm.ip,
                                      count |-> count, def |-> index])
           x == [mm EXCEPT !.calls = calls]
           y == [x EXCEPT !.ip = def.start]
           z == [y EXCEPT !.range = def.range]
<1>1. Enter(mm, def, index, count) = z
  BY Zenon DEF Enter
<1>2. IsSeq(mm.calls)
  BY DEF Obeys, Sound
<1>3. IsSeq(calls) /\ Len(calls) <= MaxCallDepth
  BY <1>2, Sequences, Bounds
<1> HIDE DEF calls
<1>4. Obeys(a, x)
  BY <1>3, SetCalls
<1> HIDE DEF x
<1>5. Obeys(a, y)
  BY <1>4, SetIp
<1> HIDE DEF y
<1>6. Obeys(a, z)
  BY <1>5, SetRange
<1> HIDE DEF z
<1> QED BY <1>1, <1>6

LEMMA ObeysCall ==
  ASSUME NEW a, NEW mm, Obeys(a, mm), NEW n, NEW count
  PROVE  Obeys(a, Call(mm, n, count))
<1>1. Len(mm.calls) \in Nat
  BY Sequences DEF Obeys, Sound
<1>2. CASE n \notin DOMAIN mm.funs
  BY <1>2, SetErr DEF Call
<1>3. CASE n \in DOMAIN mm.funs /\ Len(mm.calls) >= MaxCallDepth
  BY <1>3, SetErr DEF Call
<1>4. CASE n \in DOMAIN mm.funs /\ ~(Len(mm.calls) >= MaxCallDepth)
  <2>1. Len(mm.calls) < MaxCallDepth
    BY <1>1, <1>4, Bounds
  <2> QED BY <1>4, <2>1, ObeysEnter DEF Call
<1> QED BY <1>2, <1>3, <1>4

LEMMA ShorterCalls ==
  ASSUME NEW s, IsSeq(s), s # <<>>
  PROVE  /\ IsSeq(Front(s)) /\ Len(Front(s)) <= Len(s)
         /\ \A v : IsSeq([s EXCEPT ![Len(s)] = v]) /\ Len([s EXCEPT ![Len(s)] = v]) = Len(s)
<1>1. PICK S : s \in Seq(S)
  BY DEF IsSeq
<1>2. Len(s) \in Nat \ {0}
  BY <1>1
<1>3. Front(s) \in Seq(S) /\ Len(Front(s)) <= Len(s)
  BY <1>1, <1>2 DEF Front
<1>4. ASSUME NEW v
      PROVE  IsSeq([s EXCEPT ![Len(s)] = v]) /\ Len([s EXCEPT ![Len(s)] = v]) = Len(s)
  <2>1. s \in Seq(S \union {v}) /\ v \in S \union {v}
    BY <1>1
  <2>2. [s EXCEPT ![Len(s)] = v] \in Seq(S \union {v})
    BY <1>2, <2>1
  <2>3. Len([s EXCEPT ![Len(s)] = v]) = Len(s)
    BY <1>2, <2>1
  <2> QED BY <2>2, <2>3 DEF IsSeq
<1> QED BY <1>3, <1>4 DEF IsSeq

LEMMA ObeysEndf ==
  ASSUME NEW a, NEW mm, Obeys(a, mm)
  PROVE  Obeys(a, Endf(mm))
<1> DEFINE c == Last(mm.calls)
           depth == Len(mm.calls)
           fewer == [mm.calls EXCEPT ![depth].count = @ - 1]
           f == mm.funs[c.def]
           again == [[[mm EXCEPT !.calls = fewer] EXCEPT !.ip = f.start] EXCEPT !.range = f.range]
           back == [[[mm EXCEPT !.calls = Front(mm.calls)] EXCEPT !.ip = c.ip] EXCEPT !.range = c.range]
<1>1. CASE mm.calls = <<>>
  BY <1>1, SetErr DEF Endf
<1>2. CASE mm.calls # <<>>
  <2>1. IsSeq(mm.calls) /\ Len(mm.calls) \in Nat /\ Len(mm.calls) <= MaxCallDepth
    BY Sequences DEF Obeys, Sound
  <2>2. IsSeq(Front(mm.calls)) /\ Len(Front(mm.calls)) <= MaxCallDepth
    <3>1. IsSeq(Front(mm.calls)) /\ Len(Front(mm.calls)) <= Len(mm.calls)
      BY <1>2, <2>1, ShorterCalls
    <3>2. Len(Front(mm.calls)) \in Nat
      BY <3>1, Sequences
    <3> QED BY <2>1, <3>1, <3>2, Bounds
  <2>3. IsSeq(fewer) /\ Len(fewer) <= MaxCallDepth
    <3>1. \A v : /\ IsSeq([mm.calls EXCEPT ![Len(mm.calls)] = v])
                 /\ Len([mm.calls EXCEPT ![Len(mm.calls)] = v]) = Len(mm.calls)
      BY <1>2, <2>1, ShorterCalls
    <3>2. IsSeq(fewer) /\ Len(fewer) = Len(mm.calls)
      BY <3>1, Zenon
    <3> HIDE DEF fewer
    <3> QED BY <2>1, <3>2
  <2>4. Obeys(a, [mm EXCEPT !.calls = fewer])
    <3> HIDE DEF fewer
    <3> QED BY <2>3, SetCalls
  <2>5. Obeys(a, [mm EXCEPT !.calls = Front(mm.calls)])
    BY <2>2, SetCalls
  <2>6. Obeys(a, again) /\ Obeys(a, back)
    <3> HIDE DEF fewer, c, f
    <3> QED BY <2>4, <2>5, SetIp, SetRange
  <2>7. Endf(mm) = IF c.count > 1
                   THEN IF c.def \notin DOMAIN mm.funs THEN Fail(mm, "MissingFunction") ELSE again
                   ELSE back
    BY <1>2, Zenon DEF Endf
  <2> HIDE DEF again, back
  <2> QED BY <2>6, <2>7, SetErr
<1> QED BY <1>1, <1>2


LEMMA ObeysJump ==
  ASSUME job \in Jobs, NEW a, NEW mm, Obeys(a, mm), NEW offset
  PROVE  Obeys(a, Jump(mm, offset))
<1> DEFINE target == mm.ip + offset - 1
           back == mm.back + (IF offset < 0 THEN 1 ELSE 0)
           err == IF back > NegativeJumpLimit(mm) THEN "ExecutionTooLong" ELSE mm.err
           bad == (offset = 0 /\ mm.stack = <<>>) \/ target < 0
           b == [mm EXCEPT !.ip = target, !.back = back,
                           !.err = IF back > NegativeJumpLimit(mm)
                                   THEN "ExecutionTooLong" ELSE @]
<1>1. Jump(mm, offset) = CASE bad -> Fail(mm, "BadArgument") [] OTHER -> b
  BY Zenon DEF Jump
<1>2. back \in Nat /\ NegativeJumpLimit(mm) \in Nat
  BY LimitIsNatural DEF Obeys, Sound
<1>3. /\ DOMAIN b = Fields /\ b.calls = mm.calls /\ b.stack = mm.stack /\ b.steps = mm.steps
      /\ b.back = back /\ b.err = err /\ b.initial = mm.initial
      /\ b.funs = mm.funs /\ b.idefs = mm.idefs
  <2> HIDE DEF target, back
  <2> QED BY Zenon DEF Obeys, Sound, Machine, Fields
<1>4. err = "none" => back <= NegativeJumpLimit(mm)
  <2> HIDE DEF back
  <2> QED BY <1>2
<1>5. Obeys(a, b)
  <2> HIDE DEF b, err, back
  <2>1. NegativeJumpLimit(mm) = NegativeJumpLimit(b)
    BY <1>3, SameLimit
  <2> QED BY <1>2, <1>3, <1>4, <2>1 DEF Obeys, Sound, Machine
<1> HIDE DEF b, bad
<1> QED BY <1>1, <1>5, SetErr

LEMMA ObeysDoControl ==
  ASSUME job \in Jobs, NEW mm, Sound(mm), mm.err = "none", NEW op
  PROVE  Obeys(mm, DoControl(mm, op))
<1> DEFINE one == Drop(mm, 1)
           two == Drop(mm, 2)
           x == Arg(mm, 1)
           y == Arg(mm, 2)
<1>1. Obeys(mm, mm) /\ Obeys(mm, one) /\ Obeys(mm, two)
  BY ObeysItself, KeepsItself, KeepsDrop, KeptIsObeyed DEF Sound
<1>2. \A b : Obeys(mm, b) => \A to : Obeys(mm, Skip(b, to))
  BY SetIp, SetErr DEF Skip
<1>3. Obeys(mm, Jump(one, x)) /\ Obeys(mm, Jump(two, y))
  BY <1>1, ObeysJump
<1>4. Obeys(mm, Call(two, x, y)) /\ Obeys(mm, Call(one, x, 1)) /\ Obeys(mm, Endf(mm))
  BY <1>1, ObeysCall, ObeysEndf
<1>5. Obeys(mm, Skip(mm, FALSE)) /\ Obeys(mm, Skip(one, TRUE))
  BY <1>1, <1>2
<1> QED BY <1>1, <1>3, <1>4, <1>5, Zenon DEF DoControl

-----------------------------------------------------------------------------
(* Definitions *)

\* A table that is not full takes one definition more.
LEMMA AddedTo ==
  ASSUME NEW defs, NEW n, NEW d, NEW budget \in Nat,
         IsFiniteSet(DOMAIN defs), Cardinality(DOMAIN defs) <= budget, ~Full(defs, n, budget)
  PROVE  /\ IsFiniteSet(DOMAIN AddTo(defs, n, d))
         /\ Cardinality(DOMAIN AddTo(defs, n, d)) <= budget
<1>1. DOMAIN AddTo(defs, n, d) = DOMAIN defs \union {n}
  BY DEF AddTo
<1>2. /\ IsFiniteSet(DOMAIN defs \union {n})
      /\ Cardinality(DOMAIN defs \union {n}) =
           IF n \in DOMAIN defs THEN Cardinality(DOMAIN defs) ELSE Cardinality(DOMAIN defs) + 1
  BY FS_AddElement
<1>3. Cardinality(DOMAIN defs) \in Nat
  BY FS_CardinalityType
<1> QED BY <1>1, <1>2, <1>3 DEF Full

LEMMA SetFuns ==
  ASSUME NEW mm, Sound(mm), NEW v, IsFiniteSet(DOMAIN v), Cardinality(DOMAIN v) <= FunctionBudget
  PROVE  Sound([mm EXCEPT !.funs = v]) /\ [mm EXCEPT !.funs = v].initial = mm.initial
<1> DEFINE b == [mm EXCEPT !.funs = v]
<1>1. /\ DOMAIN b = Fields /\ b.calls = mm.calls /\ b.stack = mm.stack /\ b.steps = mm.steps
      /\ b.back = mm.back /\ b.err = mm.err /\ b.initial = mm.initial
      /\ b.funs = v /\ b.idefs = mm.idefs
  BY Zenon DEF Sound, Machine, Fields
<1> HIDE DEF b
<1>2. NegativeJumpLimit(mm) = NegativeJumpLimit(b)
  BY <1>1, SameLimit
<1> QED BY <1>1, <1>2 DEF Sound, Machine, b

LEMMA SetIdefs ==
  ASSUME NEW mm, Sound(mm), NEW v, IsFiniteSet(DOMAIN v), Cardinality(DOMAIN v) <= InstructionBudget
  PROVE  Sound([mm EXCEPT !.idefs = v]) /\ [mm EXCEPT !.idefs = v].initial = mm.initial
<1> DEFINE b == [mm EXCEPT !.idefs = v]
<1>1. /\ DOMAIN b = Fields /\ b.calls = mm.calls /\ b.stack = mm.stack /\ b.steps = mm.steps
      /\ b.back = mm.back /\ b.err = mm.err /\ b.initial = mm.initial
      /\ b.funs = mm.funs /\ b.idefs = v
  BY Zenon DEF Sound, Machine, Fields
<1> HIDE DEF b
<1>2. NegativeJumpLimit(mm) = NegativeJumpLimit(b)
  BY <1>1, SameLimit
<1> QED BY <1>1, <1>2 DEF Sound, Machine, b

LEMMA ObeysDefine ==
  ASSUME NEW a, NEW mm, Obeys(a, mm), NEW full, NEW stored, ~full => Obeys(a, stored)
  PROVE  Obeys(a, Define(mm, full, stored))
<1> DEFINE end == DefinitionEnd(mm)
           past == [stored EXCEPT !.ip = end.at + 1]
<1>1. ~full => Obeys(a, past)
  <2> HIDE DEF end
  <2> QED BY SetIp
<1>2. Define(mm, full, stored) = IF full THEN Fail(mm, "TooManyDefs")
                                 ELSE IF end.err # "none" THEN Fail(mm, end.err) ELSE past
  BY Zenon DEF Define
<1> HIDE DEF past, end
<1> QED BY <1>1, <1>2, SetErr

LEMMA ObeysDoDefine ==
  ASSUME NEW mm, Sound(mm), mm.err = "none", NEW op
  PROVE  Obeys(mm, DoDefine(mm, op))
<1> DEFINE rest == Drop(mm, 1)
           n == Arg(mm, 1)
           index == LowWord(n)
           funs == AddTo(rest.funs, index, Definition(rest))
           idefs == AddTo(rest.idefs, n, Definition(rest))
           fullF == Full(rest.funs, index, FunctionBudget)
           fullI == Full(rest.idefs, n, InstructionBudget)
<1>1. CASE StartedByGlyph(mm)
  BY <1>1, ObeysItself, SetErr DEF DoDefine
<1>2. CASE ~StartedByGlyph(mm)
  <2>1. Obeys(mm, rest)
    BY KeepsItself, KeepsDrop, KeptIsObeyed DEF Sound
  <2>2. mm.initial # 2
    BY <1>2 DEF StartedByGlyph
  <2> HIDE DEF rest, index
  <2>3. ~fullF => Obeys(mm, [rest EXCEPT !.funs = funs])
    <3>1. ~fullF => IsFiniteSet(DOMAIN funs) /\ Cardinality(DOMAIN funs) <= FunctionBudget
      BY <2>1, AddedTo, Bounds DEF Obeys, Sound
    <3> HIDE DEF funs, fullF
    <3> QED BY <2>1, <2>2, <3>1, SetFuns DEF Obeys
  <2>4. ~fullI => Obeys(mm, [rest EXCEPT !.idefs = idefs])
    <3>1. ~fullI => IsFiniteSet(DOMAIN idefs) /\ Cardinality(DOMAIN idefs) <= InstructionBudget
      BY <2>1, AddedTo, Bounds DEF Obeys, Sound
    <3> HIDE DEF idefs, fullI
    <3> QED BY <2>1, <2>2, <3>1, SetIdefs DEF Obeys
  <2>5. Obeys(mm, Define(rest, fullF, [rest EXCEPT !.funs = funs]))
    <3> HIDE DEF fullF, funs
    <3> QED BY <2>1, <2>3, ObeysDefine
  <2>6. Obeys(mm, Define(rest, fullI, [rest EXCEPT !.idefs = idefs]))
    <3> HIDE DEF fullI, idefs
    <3> QED BY <2>1, <2>4, ObeysDefine
  <2>7. FDEF(rest, n) = IF index >= FunctionSlots THEN Fail(rest, "CodeOverflow")
                        ELSE Define(rest, fullF, [rest EXCEPT !.funs = funs])
    BY Zenon DEF FDEF, index
  <2>8. IDEF(rest, n) = IF n \notin Byte THEN Fail(rest, "TooManyDefs")
                        ELSE Define(rest, fullI, [rest EXCEPT !.idefs = idefs])
    BY Zenon DEF IDEF
  <2>9. DoDefine(mm, op) = IF op = \h2C THEN FDEF(rest, n) ELSE IDEF(rest, n)
    BY <1>2, Zenon DEF DoDefine, rest
  <2> HIDE DEF fullF, fullI, funs, idefs, n
  <2> QED BY <2>1, <2>5, <2>6, <2>7, <2>8, <2>9, SetErr
<1> QED BY <1>1, <1>2

LEMMA ObeysDoOther ==
  ASSUME NEW mm, Sound(mm), NEW op
  PROVE  Obeys(mm, DoOther(mm, op))
<1>1. Obeys(mm, mm)
  BY ObeysItself
<1> QED BY <1>1, SetErr, ObeysEnter DEF DoOther


-----------------------------------------------------------------------------
(* The invariant *)

LimitsInv ==
  /\ job \in Jobs
  /\ Sound(m)
  /\ m.err = "none" => Len(m.stack) <= StackLimit
  /\ phase = "glyph" => m.initial = 2 /\ m.funs = prepared.funs /\ m.idefs = prepared.idefs

LEMMA LimitsInvInit == Init => LimitsInv
<1> SUFFICES ASSUME Init PROVE LimitsInv
  OBVIOUS
<1> DEFINE f == Fresh(job.pedantic)
<1>1. m = f /\ job \in Jobs /\ phase = "fpgm"
  BY DEF Init
<1>2. /\ DOMAIN f = Fields /\ f.stack = <<>> /\ f.calls = <<>> /\ f.steps = 0 /\ f.back = 0
      /\ f.err = "none" /\ DOMAIN f.funs = {} /\ DOMAIN f.idefs = {}
  BY DEF Fresh, Fields
<1> HIDE DEF f
<1>3. 0 <= NegativeJumpLimit(f)
  BY <1>1, LimitIsNatural
<1>4. IsFiniteSet({}) /\ Cardinality({}) = 0
  BY FS_EmptySet
<1>5. Len(<<>>) = 0 /\ IsSeq(<<>>)
  BY NoSequence
<1> QED BY <1>1, <1>2, <1>3, <1>4, <1>5, Bounds DEF LimitsInv, Sound, Machine

\* The head of the loop: the step is counted and the operands are there.
LEMMA ReadyIsSound ==
  ASSUME LimitsInv, Fetching, m.steps < MaxSteps
  PROVE  /\ Sound(Ready) /\ Ready.initial = m.initial
         /\ Ready.funs = m.funs /\ Ready.idefs = m.idefs
<1> DEFINE b == [m EXCEPT !.ip = @ + 1, !.steps = @ + 1]
<1>1. Opcode \in Byte
  <2>1. Code(m) \in Seq(Byte)
    BY Coded DEF LimitsInv
  <2>2. Len(Code(m)) \in Nat /\ \A i \in 1..Len(Code(m)) : Code(m)[i] \in Byte
    BY <2>1, Elements
  <2>3. m.ip + 1 \in 1..Len(Code(m))
    BY <2>2 DEF Fetching
  <2> QED BY <2>2, <2>3 DEF Opcode
<1>2. /\ DOMAIN b = Fields /\ b.calls = m.calls /\ b.stack = m.stack /\ b.steps = m.steps + 1
      /\ b.back = m.back /\ b.err = m.err /\ b.initial = m.initial
      /\ b.funs = m.funs /\ b.idefs = m.idefs
  BY Zenon DEF LimitsInv, Sound, Machine, Fields
<1>3. Ready = Prepare(b, Opcode)
  BY Zenon DEF Ready
<1> HIDE DEF b
<1>4. Sound(b)
  <2>1. NegativeJumpLimit(m) = NegativeJumpLimit(b)
    BY <1>2, SameLimit
  <2>2. m.steps + 1 \in 0..MaxSteps
    BY Bounds DEF LimitsInv, Sound
  <2> QED BY <1>2, <2>1, <2>2 DEF LimitsInv, Sound, Machine
<1>5. Keeps(b, Prepare(b, Opcode))
  BY <1>1, <1>4, KeepsItself, KeepsPrepare DEF Sound
<1>6. b.err = "none"
  BY <1>2 DEF Fetching
<1>7. Obeys(b, Ready) /\ Keeps(b, Ready)
  BY <1>3, <1>4, <1>5, <1>6, KeptIsObeyed
<1> QED BY <1>2, <1>7 DEF Obeys, Keeps

\* The end of the loop: an instruction that obeys leaves the invariant.
LEMMA ExecutePreserves ==
  ASSUME LimitsInv, NEW group, NEW done, Execute(group, done),
         Ready.err = "none" /\ Sound(Ready) => Obeys(Ready, done)
  PROVE  LimitsInv'
<1>1. Fetching /\ m.steps < MaxSteps
  BY DEF Execute
<1>2. /\ Sound(Ready) /\ Ready.initial = m.initial
      /\ Ready.funs = m.funs /\ Ready.idefs = m.idefs
  BY <1>1, ReadyIsSound
<1>3. m' = IF Ready.err # "none" THEN Ready
           ELSE IF done.err = "none" /\ Len(done.stack) > StackLimit
           THEN Fail(done, "StackOverflow") ELSE done
  BY DEF Execute
<1>4. UNCHANGED <<job, phase, prepared>>
  BY DEF Execute
<1>5. Obeys(Ready, m') /\ (m'.err = "none" => Len(m'.stack) <= StackLimit)
  <2>1. CASE Ready.err # "none"
    BY <1>2, <1>3, <2>1, ObeysItself
  <2>2. CASE Ready.err = "none" /\ done.err = "none" /\ Len(done.stack) > StackLimit
    <3>1. Obeys(Ready, done)
      BY <1>2, <2>2
    <3>2. m' = Fail(done, "StackOverflow")
      BY <1>3, <2>2
    <3>3. Fail(done, "StackOverflow").err = "StackOverflow"
      BY <3>1, Zenon DEF Fail, Obeys, Sound, Machine, Fields
    <3> QED BY <3>1, <3>2, <3>3, SetErr
  <2>3. CASE Ready.err = "none" /\ ~(done.err = "none" /\ Len(done.stack) > StackLimit)
    <3>1. Obeys(Ready, done)
      BY <1>2, <2>3
    <3>2. m' = done
      BY <1>3, <2>3
    <3>3. Len(done.stack) \in Nat
      BY <3>1, Sequences DEF Obeys, Sound, Machine
    <3> QED BY <2>3, <3>1, <3>2, <3>3, Bounds
  <2> QED BY <2>1, <2>2, <2>3
<1>6. Sound(m)' /\ m'.initial = m.initial
  <2>1. NegativeJumpLimit(m') = NegativeJumpLimit(m)'
    BY <1>4, Zenon DEF NegativeJumpLimit
  <2> QED BY <1>2, <1>5, <2>1 DEF Obeys, Sound
<1>7. m.initial = 2 => m'.funs = m.funs /\ m'.idefs = m.idefs
  BY <1>2, <1>5 DEF Obeys
<1> QED BY <1>4, <1>5, <1>6, <1>7 DEF LimitsInv


LEMMA ReadyAt ==
  ASSUME LimitsInv, Fetching, m.steps < MaxSteps
  PROVE  Ready.ip \in 1..Len(Code(Ready))
<1> DEFINE b == [m EXCEPT !.ip = @ + 1, !.steps = @ + 1]
<1>1. DOMAIN b = Fields /\ b.ip = m.ip + 1 /\ b.range = m.range
  BY Zenon DEF LimitsInv, Sound, Machine, Fields
<1>2. Ready = Prepare(b, Opcode)
  BY Zenon DEF Ready
<1> HIDE DEF b
<1>3. Ready.ip = b.ip /\ Ready.range = b.range
  BY <1>1, <1>2, Zenon DEF Prepare, Fail, Fields
<1>4. Code(Ready) = Code(m)
  BY <1>1, <1>3 DEF Code
<1>5. Len(Code(m)) \in Nat
  BY Coded, Elements DEF LimitsInv
<1> QED BY <1>1, <1>3, <1>4, <1>5 DEF Fetching

\* Whoever keeps the control state of the machine leaves the invariant.
LEMMA KeepingPreserves ==
  ASSUME LimitsInv, NEW group, NEW done, Execute(group, done),
         Machine(Ready) => Keeps(Ready, done)
  PROVE  LimitsInv'
<1>1. Ready.err = "none" /\ Sound(Ready) => Obeys(Ready, done)
  BY KeptIsObeyed DEF Sound
<1> QED BY <1>1, ExecutePreserves

LEMMA EndFpgmPreserves == LimitsInv /\ EndFpgm => LimitsInv'
<1> SUFFICES ASSUME LimitsInv, EndFpgm PROVE LimitsInv'
  OBVIOUS
<1>1. DOMAIN m = Fields
  BY DEF LimitsInv, Sound, Machine
<1>2. /\ DOMAIN m' = Fields /\ m'.stack = <<>> /\ m'.calls = m.calls /\ m'.steps = 0
      /\ m'.back = 0 /\ m'.funs = m.funs /\ m'.idefs = m.idefs
  BY <1>1, Zenon DEF EndFpgm, Fields
<1>3. job' = job /\ phase' = "prep"
  BY DEF EndFpgm
<1>4. NegativeJumpLimit(m)' \in Nat
  <2>1. NegativeJumpLimit(m') \in Nat
    BY LimitIsNatural DEF LimitsInv
  <2> QED BY <1>3, <2>1, Zenon DEF NegativeJumpLimit
<1>5. Len(<<>>) = 0 /\ IsSeq(<<>>)
  BY NoSequence
<1> QED BY <1>2, <1>3, <1>4, <1>5, Bounds DEF LimitsInv, Sound, Machine

LEMMA EndPrepPreserves == LimitsInv /\ EndPrep => LimitsInv'
<1> SUFFICES ASSUME LimitsInv, EndPrep PROVE LimitsInv'
  OBVIOUS
<1>1. DOMAIN m = Fields
  BY DEF LimitsInv, Sound, Machine
<1>2. DOMAIN prepared' = Fields /\ prepared'.funs = m.funs /\ prepared'.idefs = m.idefs
  BY <1>1, Zenon DEF EndPrep, Fields
<1>3. /\ DOMAIN m' = Fields /\ m'.stack = <<>> /\ m'.calls = <<>> /\ m'.steps = 0
      /\ m'.back = 0 /\ m'.funs = prepared'.funs /\ m'.idefs = prepared'.idefs
      /\ m'.initial = 2
  BY <1>2, Zenon DEF EndPrep, Fields
<1>4. job' = job
  BY DEF EndPrep
<1>5. NegativeJumpLimit(m)' \in Nat
  <2>1. NegativeJumpLimit(m') \in Nat
    BY LimitIsNatural DEF LimitsInv
  <2> QED BY <1>4, <2>1, Zenon DEF NegativeJumpLimit
<1>6. Len(<<>>) = 0 /\ IsSeq(<<>>)
  BY NoSequence
<1> QED BY <1>2, <1>3, <1>4, <1>5, <1>6, Bounds DEF LimitsInv, Sound, Machine

\* Steps that change the machine in nothing but its error.
LEMMA SameMachinePreserves ==
  ASSUME LimitsInv, UNCHANGED <<job, prepared>>, phase' = "glyph" => phase = "glyph",
         m' = m \/ \E e : e # "none" /\ m' = Fail(m, e)
  PROVE  LimitsInv'
<1>1. Obeys(m, m)
  BY ObeysItself DEF LimitsInv
<1>2. Obeys(m, m')
  BY <1>1, SetErr
<1>3. m'.err = "none" => m' = m
  <2>1. \A e : Fail(m, e).err = e
    BY Zenon DEF Fail, LimitsInv, Sound, Machine, Fields
  <2> QED BY <2>1
<1>4. NegativeJumpLimit(m') = NegativeJumpLimit(m)'
  BY Zenon DEF NegativeJumpLimit
<1>5. m'.funs = m.funs /\ m'.idefs = m.idefs
  BY Zenon DEF Fail, LimitsInv, Sound, Machine, Fields
<1> QED BY <1>2, <1>3, <1>4, <1>5 DEF LimitsInv, Obeys, Sound

LEMMA LimitsInvStep == LimitsInv /\ [Next]_vars => LimitsInv'
<1> SUFFICES ASSUME LimitsInv, [Next]_vars PROVE LimitsInv'
  OBVIOUS
<1>1. CASE PushStep
  <2>1. Fetching /\ m.steps < MaxSteps
    BY <1>1 DEF PushStep, Execute
  <2>2. Ready.ip \in 1..Len(Code(Ready))
    BY <2>1, ReadyAt
  <2>3. Ready.err = "none" /\ Sound(Ready) => Obeys(Ready, DoPush(Ready, Opcode))
    BY <2>2, ObeysDoPush DEF LimitsInv
  <2> QED BY <1>1, <2>3, ExecutePreserves DEF PushStep
<1>2. CASE StackStep
  BY <1>2, KeepsItself, KeepsDoStack, KeepingPreserves DEF StackStep
<1>3. CASE ArithmeticStep
  BY <1>3, KeepsItself, KeepsDoArithmetic, KeepingPreserves DEF ArithmeticStep
<1>4. CASE MemoryStep
  BY <1>4, KeepsItself, KeepsDoMemory, KeepingPreserves DEF MemoryStep
<1>5. CASE MeasureStep
  BY <1>5, KeepsItself, KeepsDoMeasure, KeepingPreserves DEF MeasureStep
<1>6. CASE PointStep
  BY <1>6, KeepsItself, KeepsDoPoint, KeepingPreserves DEF PointStep
<1>7. CASE VectorStep
  BY <1>7, KeepsItself, KeepsDoVector, KeepingPreserves DEF VectorStep
<1>8. CASE StateStep
  BY <1>8, KeepsItself, KeepsDoState, KeepingPreserves DEF StateStep
<1>9. CASE ControlStep
  BY <1>9, ObeysDoControl, ExecutePreserves DEF ControlStep, LimitsInv
<1>10. CASE DefineStep
  BY <1>10, ObeysDoDefine, ExecutePreserves DEF DefineStep
<1>11. CASE OtherStep
  BY <1>11, ObeysDoOther, ExecutePreserves DEF OtherStep
<1>12. CASE TooLong
  BY <1>12, SameMachinePreserves DEF TooLong
<1>13. CASE EndFpgm
  BY <1>13, EndFpgmPreserves
<1>14. CASE EndPrep
  BY <1>14, EndPrepPreserves
<1>15. CASE EndGlyph
  BY <1>15, SameMachinePreserves DEF EndGlyph
<1>16. CASE Abort
  BY <1>16, SameMachinePreserves DEF Abort
<1>17. CASE UNCHANGED vars
  BY <1>17, SameMachinePreserves DEF vars
<1> QED BY <1>1, <1>2, <1>3, <1>4, <1>5, <1>6, <1>7, <1>8, <1>9, <1>10, <1>11, <1>12,
           <1>13, <1>14, <1>15, <1>16, <1>17 DEF Next

LEMMA LimitsInvariance == Spec => []LimitsInv
BY LimitsInvInit, LimitsInvStep, PTL DEF Spec

\* Whatever the programs, the font and the limits are, no run gets past one:
\* run_program ends on too many operands, steps and jumps back, CALL, LOOPCALL
\* and an instruction of the font on a full call stack.
THEOREM LimitsHold == Spec => []LimitsKept
<1>1. LimitsInv => LimitsKept
  BY DEF LimitsInv, LimitsKept, Sound
<1> QED BY <1>1, LimitsInvariance, PTL

\* FDEF and IDEF keep to what the font declared, and nothing that starts from a
\* glyph program defines anything, through however many calls.
THEOREM DefinitionsStay == Spec => []DefinitionsKept
<1>1. LimitsInv => DefinitionsKept
  BY DEF LimitsInv, DefinitionsKept, Sound
<1> QED BY <1>1, LimitsInvariance, PTL

-----------------------------------------------------------------------------
(* Reading code in order *)

\* A byte of a program, and what is fetched before its end.
LEMMA CodeBytes ==
  ASSUME NEW code \in Seq(Byte)
  PROVE  /\ Len(code) \in Nat
         /\ \A ip \in Nat : ip < Len(code) => code[ip + 1] \in 0..255
<1>1. Len(code) \in Nat /\ \A i \in 1..Len(code) : code[i] \in Byte
  BY Elements
<1>2. Byte = 0..255
  BY DEF Byte
<1>3. \A ip \in Nat : ip < Len(code) => ip + 1 \in 1..Len(code)
  BY <1>1
<1> QED BY <1>1, <1>2, <1>3

\* What is skipped behind the opcode op at ip and what a push reads there, next
\* being the byte behind it.
Behind(n, ip, op, next, bytes, span) ==
  /\ op \in \hB0..\hB7 => /\ bytes = op - \hAF
                          /\ span = [from |-> ip + 1, count |-> op - \hB0 + 1, width |-> 1]
  /\ op \in \hB8..\hBF => /\ bytes = 2 * (op - \hB7)
                          /\ span = [from |-> ip + 1, count |-> op - \hB8 + 1, width |-> 2]
  /\ op \in {\h40, \h41} => /\ bytes = IF ip + 1 < n THEN 1 + next * (op - \h3F) ELSE n
                            /\ span = [from |-> ip + 2, width |-> op - \h3F,
                                       count |-> IF ip + 1 < n THEN next ELSE n]
  /\ op \notin \hB0..\hBF \union {\h40, \h41} => bytes = 0

\* They are the same bytes, if the program has them.
Agrees(n, ip, op, bytes, span) ==
  LET end == span.from + span.count * span.width
  IN /\ bytes \in Nat
     /\ op \notin PushOps => bytes = 0
     /\ op \in PushOps => end \in Nat /\ end > ip /\ (ip + 1 + bytes <= n => end = ip + 1 + bytes)

LEMMA SameOperands ==
  ASSUME NEW n \in Nat, NEW ip \in Nat, ip < n, NEW op \in 0..255,
         NEW next, ip + 1 < n => next \in 0..255,
         NEW bytes, NEW span, Behind(n, ip, op, next, bytes, span)
  PROVE  Agrees(n, ip, op, bytes, span)
<1> USE DEF Behind, Agrees
<1>1. PushOps = {\h40, \h41} \union \hB0..\hBF
  BY DEF PushOps
<1>2. CASE op \in \hB0..\hB7
  BY <1>1, <1>2
<1>3. CASE op \in \hB8..\hBF
  BY <1>1, <1>3
<1>4. CASE op = \h40
  <2>1. span = [from |-> ip + 2, width |-> 1, count |-> IF ip + 1 < n THEN next ELSE n]
    BY <1>4
  <2>2. bytes = IF ip + 1 < n THEN 1 + next ELSE n
    BY <1>4
  <2> QED BY <1>1, <1>4, <2>1, <2>2
<1>5. CASE op = \h41
  <2>1. span = [from |-> ip + 2, width |-> 2, count |-> IF ip + 1 < n THEN next ELSE n]
    BY <1>5
  <2>2. bytes = IF ip + 1 < n THEN 1 + next * 2 ELSE n
    BY <1>5
  <2> QED BY <1>1, <1>5, <2>1, <2>2
<1>6. CASE op \notin \hB0..\hB7 /\ op \notin \hB8..\hBF /\ op \notin {\h40, \h41}
  BY <1>1, <1>6
<1> QED BY <1>2, <1>3, <1>4, <1>5, <1>6

LEMMA SkipsOperands ==
  ASSUME NEW code \in Seq(Byte), NEW ip \in Nat, ip < Len(code)
  PROVE  /\ InOrder(code, ip) \in Nat /\ InOrder(code, ip) > ip
         /\ code[ip + 1] \notin PushOps => InOrder(code, ip) = ip + 1
         /\ Following(code, ip) \in Nat /\ Following(code, ip) > ip
         /\ ~Overruns(code, ip) => Following(code, ip) = InOrder(code, ip)
<1> DEFINE n == Len(code)
           op == code[ip + 1]
           next == code[ip + 2]
           bytes == OperandBytes(code, ip)
           span == PushSpan(code, ip)
           end == span.from + span.count * span.width
<1>1. n \in Nat /\ op \in 0..255 /\ (ip + 1 < n => next \in 0..255)
  <2>1. n \in Nat /\ \A i \in Nat : i < n => code[i + 1] \in 0..255
    BY CodeBytes
  <2>2. op \in 0..255
    BY <2>1
  <2>3. ip + 1 \in Nat /\ (ip + 1) + 1 = ip + 2
    OBVIOUS
  <2>4. ASSUME ip + 1 < n PROVE next \in 0..255
    <3>1. code[(ip + 1) + 1] \in 0..255
      BY <2>1, <2>3, <2>4
    <3> QED BY <2>3, <3>1
  <2> QED BY <2>1, <2>2, <2>4
<1>2. Behind(n, ip, op, next, bytes, span)
  <2> DEFINE few == op \in \hB0..\hB7
             wide == op \in \hB8..\hBF
             counted == op \in {\h40, \h41}
             w == [from |-> ip + 2, width |-> op - \h3F, count |-> IF ip + 1 < n THEN next ELSE n]
             u == [from |-> ip + 1, count |-> op - \hB0 + 1, width |-> 1]
             v == [from |-> ip + 1, count |-> op - \hB8 + 1, width |-> 2]
             x == IF ip + 1 < n THEN 1 + next * (op - \h3F) ELSE n
             y == op - \hAF
             z == 2 * (op - \hB7)
  <2>1. bytes = CASE few -> y [] wide -> z [] counted -> x [] OTHER -> 0
    BY Zenon DEF OperandBytes
  <2>2. span = CASE few -> u [] wide -> v [] OTHER -> w
    BY Zenon DEF PushSpan
  <2>3. (few => ~wide /\ ~counted) /\ (wide => ~counted)
        /\ (op \notin \hB0..\hBF \union {\h40, \h41} => ~few /\ ~wide /\ ~counted)
    <3> HIDE DEF op
    <3> QED BY <1>1
  <2>4. (few => bytes = y /\ span = u) /\ (wide => bytes = z /\ span = v)
        /\ (counted => bytes = x /\ span = w) /\ (~few /\ ~wide /\ ~counted => bytes = 0)
    <3> HIDE DEF few, wide, counted, bytes, span, u, v, w, x, y, z
    <3> QED BY <2>1, <2>2, <2>3
  <2> HIDE DEF bytes, span, op
  <2> QED BY <2>3, <2>4 DEF Behind
<1>3. Agrees(n, ip, op, bytes, span)
  <2>1. ip < n
    OBVIOUS
  <2> HIDE DEF n, op, next, bytes, span
  <2> QED BY <1>1, <1>2, <2>1, SameOperands
<1>5. InOrder(code, ip) = IF op \in PushOps THEN end ELSE ip + 1
  BY DEF InOrder, PushEnd
<1>6. /\ ~Overruns(code, ip) => ~(ip + 1 + bytes > n)
      /\ Following(code, ip) = ip + 1 + bytes
  BY DEF Overruns, Following
<1>7. ip < n
  OBVIOUS
<1>8. code[ip + 1] = op /\ Len(code) = n
  OBVIOUS
<1>9. /\ bytes \in Nat
      /\ op \notin PushOps => bytes = 0
      /\ op \in PushOps => end \in Nat /\ end > ip /\ (ip + 1 + bytes <= n => end = ip + 1 + bytes)
  <2> HIDE DEF n, op, next, bytes, span
  <2> QED BY <1>3 DEF Agrees
<1> HIDE DEF bytes, end, n, op
<1>10. CASE op \in PushOps
  BY <1>1, <1>5, <1>6, <1>7, <1>8, <1>9, <1>10
<1>11. CASE op \notin PushOps
  BY <1>1, <1>5, <1>6, <1>7, <1>8, <1>9, <1>11
<1> QED BY <1>10, <1>11

\* An instruction starts at ip when code is read in order, or code has ended.
OnInstruction(code, ip) == ip \in Nat /\ (ip >= Len(code) \/ ip \in Boundaries(code))

\* The set of offsets that are read is closed: behind an instruction another
\* starts, or the code ends.
LEMMA ReadInOrder ==
  ASSUME NEW code \in Seq(Byte)
  PROVE  /\ OnInstruction(code, 0)
         /\ \A ip \in Nat : ip < Len(code) /\ OnInstruction(code, ip) => OnInstruction(code, InOrder(code, ip))
<1> DEFINE n == Len(code)
           b[ip \in Nat] == IF ip >= Len(code) THEN {} ELSE {ip} \union b[InOrder(code, ip)]
           leads == [ip \in Nat |-> IF ip < n THEN InOrder(code, ip) ELSE 0]
           step == [ip \in Nat |-> [x \in SUBSET Nat |-> {ip} \union x]]
<1>1. n \in Nat /\ \A ip \in Nat : ip < n => InOrder(code, ip) \in Nat /\ InOrder(code, ip) > ip
  BY CodeBytes, SkipsOperands
<1>2. Boundaries(code) = b[0]
  BY DEF Boundaries
<1>3. leads \in [Nat -> Nat] /\ \A ip \in Nat : ip < n => leads[ip] > ip /\ leads[ip] = InOrder(code, ip)
  <2> HIDE DEF n
  <2> QED BY <1>1
<1>4. step \in [Nat -> [SUBSET Nat -> SUBSET Nat]]
  OBVIOUS
<1>5. \E g : IsScan(g, n, SUBSET Nat, {}, leads, step)
  <2>1. {} \in SUBSET Nat
    OBVIOUS
  <2>2. \A ip \in Nat : ip < n => leads[ip] > ip
    BY <1>3
  <2> HIDE DEF n, leads, step
  <2> QED BY <1>1, <1>3, <1>4, <2>1, <2>2, Scans
<1>6. PICK g : IsScan(g, n, SUBSET Nat, {}, leads, step)
  BY <1>5
<1>7. g = [ip \in Nat |-> IF ip >= Len(code) THEN {} ELSE {ip} \union g[InOrder(code, ip)]]
  <2>1. g \in [Nat -> SUBSET Nat]
    BY <1>6 DEF IsScan
  <2>2. ASSUME NEW ip \in Nat
        PROVE  g[ip] = IF ip >= n THEN {} ELSE {ip} \union g[InOrder(code, ip)]
    <3>1. g[ip] = IF ip >= n THEN {} ELSE step[ip][g[leads[ip]]]
      BY <1>6 DEF IsScan
    <3>2. CASE ip >= n
      BY <3>1, <3>2
    <3>3. CASE ~(ip >= n)
      <4>1. ip < n
        BY <1>1, <3>3
      <4>2. leads[ip] = InOrder(code, ip) /\ InOrder(code, ip) \in Nat
        BY <1>1, <1>3, <4>1
      <4>3. g[leads[ip]] \in SUBSET Nat
        BY <2>1, <4>2
      <4>4. step[ip][g[leads[ip]]] = {ip} \union g[leads[ip]]
        <5> HIDE DEF leads
        <5> QED BY <4>3
      <4> HIDE DEF step, leads, n
      <4> QED BY <3>1, <3>3, <4>2, <4>4
    <3> QED BY <3>2, <3>3
  <2> QED BY <2>1, <2>2
<1>8. b = [ip \in Nat |-> IF ip >= Len(code) THEN {} ELSE {ip} \union b[InOrder(code, ip)]]
  BY <1>7, Zenon
<1>9. \A ip \in Nat : b[ip] = IF ip >= n THEN {} ELSE {ip} \union b[InOrder(code, ip)]
  <2> HIDE DEF b
  <2> QED BY <1>8
<1> HIDE DEF b, leads, step, n
<1> DEFINE Closed(k) == \A i \in b[k] : /\ i \in Nat /\ i < n
                                        /\ InOrder(code, i) >= n \/ InOrder(code, i) \in b[k]
           P == {k \in Nat : Closed(k)}
<1>10. ASSUME NEW k \in Nat, \A j \in Nat : k < j /\ k < n => j \in P
       PROVE  k \in P
  <2>1. CASE k >= n
    <3>1. b[k] = {}
      BY <1>9, <2>1
    <3> QED BY <3>1
  <2>2. CASE k < n
    <3> DEFINE next == InOrder(code, k)
    <3>1. next \in Nat /\ next > k
      BY <1>1, <2>2
    <3>2. Closed(next)
      BY <1>10, <2>2, <3>1
    <3>3. b[k] = {k} \union b[next]
      <4>1. ~(k >= n)
        BY <1>1, <2>2
      <4> QED BY <1>9, <4>1
    <3>4. next >= n \/ next \in b[next]
      <4> HIDE DEF next
      <4>1. b[next] = IF next >= n THEN {} ELSE {next} \union b[InOrder(code, next)]
        BY <1>9, <3>1
      <4> QED BY <4>1
    <3>5. Closed(k)
      <4> SUFFICES ASSUME NEW i \in b[k]
                   PROVE  /\ i \in Nat /\ i < n
                          /\ InOrder(code, i) >= n \/ InOrder(code, i) \in b[k]
        OBVIOUS
      <4>1. CASE i = k
        BY <2>2, <3>3, <3>4, <4>1
      <4>2. CASE i \in b[next]
        <5> HIDE DEF next
        <5> QED BY <3>2, <3>3, <4>2
      <4> HIDE DEF next
      <4> QED BY <3>3, <4>1, <4>2
    <3> HIDE DEF Closed
    <3> QED BY <3>5
  <2> QED BY <1>1, <2>1, <2>2
<1>11. Closed(0)
  <2>1. 0 \in P
    <3> HIDE DEF P
    <3> QED BY <1>1, <1>10, Backwards
  <2> QED BY <2>1
<1>12. 0 >= n \/ 0 \in b[0]
  BY <1>9
<1>13. OnInstruction(code, 0)
  BY <1>2, <1>12 DEF OnInstruction, n
<1>14. ASSUME NEW ip \in Nat, ip < n, OnInstruction(code, ip)
       PROVE  OnInstruction(code, InOrder(code, ip))
  <2>1. ip \in b[0]
    BY <1>1, <1>2, <1>14 DEF OnInstruction, n
  <2>2. InOrder(code, ip) >= n \/ InOrder(code, ip) \in b[0]
    BY <1>11, <2>1
  <2>3. InOrder(code, ip) \in Nat
    BY <1>1, <1>14
  <2> QED BY <1>2, <2>2, <2>3 DEF OnInstruction, n
<1> QED BY <1>13, <1>14 DEF n

\* Neither control instructions nor definitions push.
LEMMA PushesNothing == \A op \in ControlOps \union DefineOps : op \notin PushOps
BY DEF ControlOps, JumpOps, DefineOps, PushOps

\* A skip comes to rest where an instruction starts.
LEMMA SkipsInOrder ==
  ASSUME NEW code \in Seq(Byte), NEW start \in Nat, OnInstruction(code, start), NEW stopAtElse
  PROVE  LET to == SkipTo(code, start, stopAtElse) IN to = -1 \/ OnInstruction(code, to)
<1> DEFINE n == Len(code)
           Depth == Nat \ {0}
           S == [Depth -> Int]
           Rest(f, ip, depth) ==
             IF code[ip + 1] = \h58 THEN f[ip + 1][depth + 1]
             ELSE IF code[ip + 1] = \h1B /\ depth = 1 /\ stopAtElse THEN ip + 1
             ELSE IF code[ip + 1] = \h59 THEN (IF depth = 1 THEN ip + 1 ELSE f[ip + 1][depth - 1])
             ELSE IF Overruns(code, ip) THEN -1
             ELSE f[Following(code, ip)][depth]
           scan[ip \in Nat] == [depth \in Nat \ {0} |-> IF ip >= Len(code) THEN -1 ELSE Rest(scan, ip, depth)]
           leads == [ip \in Nat |-> IF ip < n THEN (IF code[ip + 1] \in {\h58, \h59} THEN ip + 1
                                                    ELSE Following(code, ip)) ELSE 0]
           Onward(x, ip, depth) ==
             IF code[ip + 1] = \h58 THEN x[depth + 1]
             ELSE IF code[ip + 1] = \h1B /\ depth = 1 /\ stopAtElse THEN ip + 1
             ELSE IF code[ip + 1] = \h59 THEN (IF depth = 1 THEN ip + 1 ELSE x[depth - 1])
             ELSE IF Overruns(code, ip) THEN -1
             ELSE x[depth]
           step == [ip \in Nat |-> [x \in S |-> [depth \in Depth |-> Onward(x, ip, depth)]]]
           end == [depth \in Depth |-> -1]
<1>1. n \in Nat /\ \A ip \in Nat : ip < n => /\ Following(code, ip) \in Nat /\ Following(code, ip) > ip
                                             /\ ~Overruns(code, ip) => Following(code, ip) = InOrder(code, ip)
  BY CodeBytes, SkipsOperands
<1>2. SkipTo(code, start, stopAtElse) = scan[start][1]
  BY DEF SkipTo
<1>3. leads \in [Nat -> Nat] /\ \A ip \in Nat : ip < n => leads[ip] > ip
  <2>1. ASSUME NEW ip \in Nat
        PROVE  /\ leads[ip] \in Nat /\ (ip < n => leads[ip] > ip)
    BY <1>1
  <2>2. leads = [ip \in Nat |-> leads[ip]]
    OBVIOUS
  <2> HIDE DEF leads, n
  <2> QED BY <2>1, <2>2
<1>4. step \in [Nat -> [S -> S]]
  <2>1. ASSUME NEW ip \in Nat, NEW x \in S, NEW depth \in Depth
        PROVE  Onward(x, ip, depth) \in Int
    <3>1. depth + 1 \in Depth /\ (depth # 1 => depth - 1 \in Depth)
      OBVIOUS
    <3> QED BY <3>1
  <2> HIDE DEF Onward, Depth
  <2> QED BY <2>1
<1>5. end \in S
  OBVIOUS
<1>6. PICK g : IsScan(g, n, S, end, leads, step)
  <2> HIDE DEF n, leads, step, S, end
  <2> QED BY <1>1, <1>3, <1>4, <1>5, Scans
<1>7. g \in [Nat -> S] /\ \A ip \in Nat : g[ip] = IF ip >= n THEN end ELSE step[ip][g[leads[ip]]]
  BY <1>6 DEF IsScan
<1>8. ASSUME NEW ip \in Nat
      PROVE  g[ip] = [depth \in Nat \ {0} |-> IF ip >= Len(code) THEN -1 ELSE Rest(g, ip, depth)]
  <2>1. CASE ip >= n
    BY <1>7, <2>1
  <2>2. CASE ~(ip >= n)
    <3> DEFINE x == g[leads[ip]]
    <3>1. x \in S
      <4>1. leads[ip] \in Nat
        BY <1>3
      <4> HIDE DEF leads, S
      <4> QED BY <1>7, <4>1
    <3>2. g[ip] = [depth \in Depth |-> Onward(x, ip, depth)]
      <4>1. g[ip] = step[ip][x]
        BY <1>7, <2>2
      <4> HIDE DEF x, S, Onward, Depth
      <4> QED BY <3>1, <4>1
    <3>3. ASSUME NEW depth \in Depth
          PROVE  Onward(x, ip, depth) = Rest(g, ip, depth)
      <4>1. leads[ip] = IF code[ip + 1] \in {\h58, \h59} THEN ip + 1 ELSE Following(code, ip)
        BY <1>1, <2>2
      <4>2. code[ip + 1] \in {\h58, \h59} => x = g[ip + 1]
        <5> HIDE DEF leads
        <5> QED BY <4>1
      <4>3. code[ip + 1] \notin {\h58, \h59} => x = g[Following(code, ip)]
        <5> HIDE DEF leads
        <5> QED BY <4>1
      <4> HIDE DEF x
      <4> QED BY <4>2, <4>3
    <3> HIDE DEF Onward, Rest, x, n
    <3> QED BY <2>2, <3>2, <3>3 DEF n
  <2> QED BY <2>1, <2>2
<1>9. g = [ip \in Nat |-> [depth \in Nat \ {0} |-> IF ip >= Len(code) THEN -1 ELSE Rest(g, ip, depth)]]
  <2>1. g = [ip \in Nat |-> g[ip]]
    BY <1>7
  <2> HIDE DEF Rest
  <2> QED BY <1>8, <2>1
<1>10. scan = [ip \in Nat |-> [depth \in Nat \ {0} |-> IF ip >= Len(code) THEN -1 ELSE Rest(scan, ip, depth)]]
  BY <1>9, Zenon
<1> HIDE DEF scan, step, leads, end
<1>11. ASSUME NEW ip \in Nat, NEW depth \in Depth
       PROVE  scan[ip][depth] = IF ip >= n THEN -1 ELSE Rest(scan, ip, depth)
  <2>1. scan[ip] = [d \in Nat \ {0} |-> IF ip >= Len(code) THEN -1 ELSE Rest(scan, ip, d)]
    <3> HIDE DEF Rest
    <3> QED BY <1>10
  <2> HIDE DEF Rest
  <2> QED BY <2>1
<1> HIDE DEF Rest
<1> DEFINE Rests(to) == to = -1 \/ OnInstruction(code, to)
           P == {ip \in Nat : OnInstruction(code, ip) => \A depth \in Depth : Rests(scan[ip][depth])}
<1>12. ASSUME NEW ip \in Nat, \A j \in Nat : ip < j /\ ip < n => j \in P
       PROVE  ip \in P
  <2> SUFFICES ASSUME OnInstruction(code, ip), NEW depth \in Depth
               PROVE  Rests(scan[ip][depth])
    OBVIOUS
  <2>1. CASE ip >= n
    <3>1. scan[ip][depth] = -1
      BY <1>11, <2>1
    <3> QED BY <3>1
  <2>2. CASE ip < n
    <3> DEFINE op == code[ip + 1]
    <3>1. \A j \in Nat : ip < j /\ OnInstruction(code, j) => \A d \in Depth : Rests(scan[j][d])
      BY <1>12, <2>2
    <3>2. OnInstruction(code, InOrder(code, ip))
      BY <2>2, ReadInOrder
    <3>3. scan[ip][depth] = Rest(scan, ip, depth)
      BY <1>1, <1>11, <2>2
    <3>4. op \in {\h58, \h1B, \h59} => op \notin PushOps
      <4> HIDE DEF op
      <4> QED BY PushesNothing DEF ControlOps
    <3>5. op \in {\h58, \h1B, \h59} => OnInstruction(code, ip + 1)
      BY <2>2, <3>2, <3>4, SkipsOperands
    <3>6. CASE op = \h58
      <4>1. scan[ip][depth] = scan[ip + 1][depth + 1]
        BY <3>3, <3>6 DEF Rest
      <4>2. ip + 1 \in Nat /\ ip < ip + 1 /\ depth + 1 \in Depth
        OBVIOUS
      <4> HIDE DEF op, Depth, Rests
      <4> QED BY <3>1, <3>5, <3>6, <4>1, <4>2
    <3>7. CASE op = \h1B /\ depth = 1 /\ stopAtElse
      <4>1. scan[ip][depth] = ip + 1
        BY <3>3, <3>7 DEF Rest
      <4> QED BY <3>5, <3>7, <4>1
    <3>8. CASE op = \h59 /\ depth = 1
      <4>1. scan[ip][depth] = ip + 1
        BY <3>3, <3>8 DEF Rest
      <4> QED BY <3>5, <3>8, <4>1
    <3>9. CASE op = \h59 /\ depth # 1
      <4>1. scan[ip][depth] = scan[ip + 1][depth - 1]
        BY <3>3, <3>9 DEF Rest
      <4>2. ip + 1 \in Nat /\ ip < ip + 1 /\ depth - 1 \in Depth
        BY <3>9
      <4> HIDE DEF op, Depth, Rests
      <4> QED BY <3>1, <3>5, <3>9, <4>1, <4>2
    <3>10. CASE op \notin {\h58, \h59} /\ ~(op = \h1B /\ depth = 1 /\ stopAtElse)
      <4>1. scan[ip][depth] = IF Overruns(code, ip) THEN -1 ELSE scan[Following(code, ip)][depth]
        BY <3>3, <3>10 DEF Rest
      <4>2. CASE Overruns(code, ip)
        BY <4>1, <4>2
      <4>3. CASE ~Overruns(code, ip)
        <5>1. /\ Following(code, ip) = InOrder(code, ip) /\ Following(code, ip) \in Nat
              /\ ip < Following(code, ip)
          BY <1>1, <2>2, <4>3
        <5> HIDE DEF op, Depth, Rests
        <5> QED BY <3>1, <3>2, <4>1, <4>3, <5>1
      <4> QED BY <4>2, <4>3
    <3> QED BY <3>6, <3>7, <3>8, <3>9, <3>10
  <2> QED BY <1>1, <2>1, <2>2
<1>13. start \in P
  <2> HIDE DEF P
  <2> QED BY <1>1, <1>12, Backwards
<1>14. 1 \in Depth
  OBVIOUS
<1> QED BY <1>2, <1>13, <1>14

\* The search for the end of a definition, from every offset.
FindsEnds(scan, code) ==
  \A ip \in Nat :
    scan[ip] = IF ip >= Len(code) THEN [at |-> 0, err |-> "Unterminated"]
               ELSE IF code[ip + 1] \in {\h2C, \h89} THEN [at |-> 0, err |-> "NestedDefs"]
               ELSE IF code[ip + 1] = \h2D THEN [at |-> ip, err |-> "none"]
               ELSE IF Overruns(code, ip) THEN [at |-> 0, err |-> "CodeOverflow"]
               ELSE scan[Following(code, ip)]

LEMMA FindsEndf ==
  ASSUME NEW code \in Seq(Byte)
  PROVE  \E scan : FindsEnds(scan, code) /\ \A start \in Nat : FindEndf(code, start) = scan[start]
<1> DEFINE n == Len(code)
           S == [at : Nat, err : {"none", "Unterminated", "NestedDefs", "CodeOverflow"}]
           none == [at |-> 0, err |-> "Unterminated"]
           scan[ip \in Nat] ==
             IF ip >= Len(code) THEN [at |-> 0, err |-> "Unterminated"]
             ELSE IF code[ip + 1] \in {\h2C, \h89} THEN [at |-> 0, err |-> "NestedDefs"]
             ELSE IF code[ip + 1] = \h2D THEN [at |-> ip, err |-> "none"]
             ELSE IF Overruns(code, ip) THEN [at |-> 0, err |-> "CodeOverflow"]
             ELSE scan[Following(code, ip)]
           leads == [ip \in Nat |-> IF ip < n THEN Following(code, ip) ELSE 0]
           Onward(x, ip) == IF code[ip + 1] \in {\h2C, \h89} THEN [at |-> 0, err |-> "NestedDefs"]
                            ELSE IF code[ip + 1] = \h2D THEN [at |-> ip, err |-> "none"]
                            ELSE IF Overruns(code, ip) THEN [at |-> 0, err |-> "CodeOverflow"]
                            ELSE x
           step == [ip \in Nat |-> [x \in S |-> Onward(x, ip)]]
<1>1. n \in Nat /\ \A ip \in Nat : ip < n => Following(code, ip) \in Nat /\ Following(code, ip) > ip
  BY CodeBytes, SkipsOperands
<1>2. \A start \in Nat : FindEndf(code, start) = scan[start]
  BY DEF FindEndf
<1>3. leads \in [Nat -> Nat] /\ \A ip \in Nat : ip < n => leads[ip] > ip /\ leads[ip] = Following(code, ip)
  <2> HIDE DEF n
  <2> QED BY <1>1
<1>4. step \in [Nat -> [S -> S]]
  <2>1. ASSUME NEW ip \in Nat, NEW x \in S PROVE Onward(x, ip) \in S
    OBVIOUS
  <2> HIDE DEF Onward, S
  <2> QED BY <2>1
<1>5. none \in S
  OBVIOUS
<1>6. PICK g : IsScan(g, n, S, none, leads, step)
  <2>1. \A ip \in Nat : ip < n => leads[ip] > ip
    BY <1>3
  <2> HIDE DEF n, leads, step, S, none
  <2> QED BY <1>1, <1>3, <1>4, <1>5, <2>1, Scans
<1>7. g \in [Nat -> S] /\ \A ip \in Nat : g[ip] = IF ip >= n THEN none ELSE step[ip][g[leads[ip]]]
  BY <1>6 DEF IsScan
<1>8. ASSUME NEW ip \in Nat
      PROVE  g[ip] = IF ip >= Len(code) THEN [at |-> 0, err |-> "Unterminated"]
                     ELSE IF code[ip + 1] \in {\h2C, \h89} THEN [at |-> 0, err |-> "NestedDefs"]
                     ELSE IF code[ip + 1] = \h2D THEN [at |-> ip, err |-> "none"]
                     ELSE IF Overruns(code, ip) THEN [at |-> 0, err |-> "CodeOverflow"]
                     ELSE g[Following(code, ip)]
  <2>1. CASE ip >= n
    BY <1>7, <2>1
  <2>2. CASE ~(ip >= n)
    <3> DEFINE x == g[Following(code, ip)]
    <3>1. leads[ip] = Following(code, ip) /\ leads[ip] \in Nat
      BY <1>1, <1>3, <2>2
    <3>2. x \in S
      <4> HIDE DEF leads, S
      <4> QED BY <1>7, <3>1
    <3>3. g[ip] = step[ip][x]
      <4> HIDE DEF leads, step, n, none
      <4> QED BY <1>7, <2>2, <3>1
    <3>4. step[ip][x] = Onward(x, ip)
      <4> HIDE DEF x, S, Onward
      <4> QED BY <3>2
    <3> HIDE DEF x, step
    <3> QED BY <2>2, <3>3, <3>4, Zenon DEF x
  <2> QED BY <2>1, <2>2
<1>9. g = [ip \in Nat |-> IF ip >= Len(code) THEN [at |-> 0, err |-> "Unterminated"]
                          ELSE IF code[ip + 1] \in {\h2C, \h89} THEN [at |-> 0, err |-> "NestedDefs"]
                          ELSE IF code[ip + 1] = \h2D THEN [at |-> ip, err |-> "none"]
                          ELSE IF Overruns(code, ip) THEN [at |-> 0, err |-> "CodeOverflow"]
                          ELSE g[Following(code, ip)]]
  <2>1. g = [ip \in Nat |-> g[ip]]
    BY <1>7
  <2> QED BY <1>8, <2>1
<1>10. scan = [ip \in Nat |-> IF ip >= Len(code) THEN [at |-> 0, err |-> "Unterminated"]
                              ELSE IF code[ip + 1] \in {\h2C, \h89} THEN [at |-> 0, err |-> "NestedDefs"]
                              ELSE IF code[ip + 1] = \h2D THEN [at |-> ip, err |-> "none"]
                              ELSE IF Overruns(code, ip) THEN [at |-> 0, err |-> "CodeOverflow"]
                              ELSE scan[Following(code, ip)]]
  BY <1>9, Zenon
<1> HIDE DEF scan
<1>11. FindsEnds(scan, code)
  BY <1>10 DEF FindsEnds
<1> QED BY <1>2, <1>11

\* What is found at the end of a definition is the end of an instruction.
LEMMA EndsInOrder ==
  ASSUME NEW code \in Seq(Byte), NEW start \in Nat, OnInstruction(code, start),
         FindEndf(code, start).err = "none"
  PROVE  OnInstruction(code, FindEndf(code, start).at + 1)
<1> DEFINE n == Len(code)
<1>1. n \in Nat /\ \A ip \in Nat : ip < n => /\ Following(code, ip) \in Nat /\ Following(code, ip) > ip
                                             /\ ~Overruns(code, ip) => Following(code, ip) = InOrder(code, ip)
  BY CodeBytes, SkipsOperands
<1>2. PICK scan : FindsEnds(scan, code) /\ \A ip \in Nat : FindEndf(code, ip) = scan[ip]
  BY FindsEndf
<1> DEFINE P == {ip \in Nat : OnInstruction(code, ip) /\ scan[ip].err = "none"
                                => OnInstruction(code, scan[ip].at + 1)}
<1>3. ASSUME NEW ip \in Nat, \A j \in Nat : ip < j /\ ip < n => j \in P
      PROVE  ip \in P
  <2> SUFFICES ASSUME OnInstruction(code, ip), scan[ip].err = "none"
               PROVE  OnInstruction(code, scan[ip].at + 1)
    OBVIOUS
  <2> DEFINE op == code[ip + 1]
  <2>1. scan[ip] = IF ip >= n THEN [at |-> 0, err |-> "Unterminated"]
                   ELSE IF op \in {\h2C, \h89} THEN [at |-> 0, err |-> "NestedDefs"]
                   ELSE IF op = \h2D THEN [at |-> ip, err |-> "none"]
                   ELSE IF Overruns(code, ip) THEN [at |-> 0, err |-> "CodeOverflow"]
                   ELSE scan[Following(code, ip)]
    BY <1>2 DEF FindsEnds
  <2>2. ip < n /\ op \notin {\h2C, \h89}
    <3> HIDE DEF n, op
    <3> QED BY <1>1, <2>1
  <2>3. OnInstruction(code, InOrder(code, ip))
    BY <2>2, ReadInOrder
  <2>4. CASE op = \h2D
    <3>1. scan[ip].at = ip
      <4> HIDE DEF n, op
      <4> QED BY <1>1, <2>1, <2>2, <2>4
    <3>2. op \notin PushOps
      <4> HIDE DEF op
      <4> QED BY <2>4, PushesNothing DEF ControlOps
    <3>3. InOrder(code, ip) = ip + 1
      BY <2>2, <3>2, SkipsOperands
    <3> QED BY <2>3, <3>1, <3>3
  <2>5. CASE op # \h2D
    <3>1. ~Overruns(code, ip) /\ scan[ip] = scan[Following(code, ip)]
      <4> HIDE DEF n, op
      <4> QED BY <1>1, <2>1, <2>2, <2>5
    <3>2. /\ Following(code, ip) = InOrder(code, ip) /\ Following(code, ip) \in Nat
          /\ ip < Following(code, ip)
      BY <1>1, <2>2, <3>1
    <3>3. Following(code, ip) \in P
      <4> HIDE DEF P
      <4> QED BY <1>3, <2>2, <3>2
    <3> QED BY <2>3, <3>1, <3>2, <3>3
  <2> QED BY <2>4, <2>5
<1>4. start \in P
  <2> HIDE DEF P
  <2> QED BY <1>1, <1>3, Backwards
<1> QED BY <1>2, <1>4

\* The code in which definitions are made.
Source(range) == IF range = 0 THEN job.prep ELSE job.fpgm

\* A definition ends with its own ENDF and has no other definition in it.
Whole(d) == \A i \in BodyOf(d) : i[2] \notin {\h2C, \h89} /\ (i[2] = \h2D <=> i[1] = d.end)

\* The search that stops at a definition's end has met all of its instructions.
LEMMA DefinitionsWhole ==
  ASSUME job \in Jobs, NEW d, d.start \in Nat,
         FindEndf(Source(d.range), d.start) = [at |-> d.end, err |-> "none"]
  PROVE  Whole(d)
<1> DEFINE code == Source(d.range)
           n == Len(code)
           b[ip \in Nat] == IF ip > d.end \/ ip >= Len(code) THEN {}
                            ELSE {ip} \union b[InOrder(code, ip)]
           leads == [ip \in Nat |-> IF ip < n THEN InOrder(code, ip) ELSE 0]
           Onward(x, ip) == IF ip > d.end THEN {} ELSE {ip} \union x
           step == [ip \in Nat |-> [x \in SUBSET Nat |-> Onward(x, ip)]]
<1>1. code \in Seq(Byte)
  BY JobsAssumption DEF JobType, Source
<1>2. n \in Nat /\ \A ip \in Nat : ip < n => InOrder(code, ip) \in Nat /\ InOrder(code, ip) > ip
  <2> HIDE DEF code
  <2> QED BY <1>1, CodeBytes, SkipsOperands
<1>3. BodyOf(d) = {<<ip, code[ip + 1]>> : ip \in b[d.start]}
  BY DEF BodyOf, Source
<1>4. leads \in [Nat -> Nat] /\ \A ip \in Nat : ip < n => leads[ip] > ip /\ leads[ip] = InOrder(code, ip)
  <2> HIDE DEF n, code
  <2> QED BY <1>2
<1>5. step \in [Nat -> [SUBSET Nat -> SUBSET Nat]]
  <2>1. ASSUME NEW ip \in Nat, NEW x \in SUBSET Nat PROVE Onward(x, ip) \in SUBSET Nat
    OBVIOUS
  <2> HIDE DEF Onward
  <2> QED BY <2>1
<1>6. PICK g : IsScan(g, n, SUBSET Nat, {}, leads, step)
  <2>1. {} \in SUBSET Nat /\ \A ip \in Nat : ip < n => leads[ip] > ip
    BY <1>4
  <2> HIDE DEF n, leads, step
  <2> QED BY <1>2, <1>4, <1>5, <2>1, Scans
<1>7. g \in [Nat -> SUBSET Nat] /\ \A ip \in Nat : g[ip] = IF ip >= n THEN {} ELSE step[ip][g[leads[ip]]]
  BY <1>6 DEF IsScan
<1>8. ASSUME NEW ip \in Nat
      PROVE  g[ip] = IF ip > d.end \/ ip >= Len(code) THEN {} ELSE {ip} \union g[InOrder(code, ip)]
  <2>1. CASE ip >= n
    BY <1>7, <2>1
  <2>2. CASE ~(ip >= n)
    <3> DEFINE x == g[InOrder(code, ip)]
    <3>0. ip < n
      <4> HIDE DEF n
      <4> QED BY <1>2, <2>2
    <3>1. leads[ip] = InOrder(code, ip) /\ leads[ip] \in Nat
      <4> HIDE DEF leads, n
      <4> QED BY <1>2, <1>4, <3>0
    <3>2. x \in SUBSET Nat
      <4> HIDE DEF leads
      <4> QED BY <1>7, <3>1
    <3>3. g[ip] = step[ip][x]
      <4> HIDE DEF leads, step, n
      <4> QED BY <1>7, <2>2, <3>1
    <3>4. step[ip][x] = Onward(x, ip)
      <4> HIDE DEF x, Onward
      <4> QED BY <3>2
    <3> HIDE DEF x, step
    <3> QED BY <2>2, <3>3, <3>4, Zenon DEF x
  <2> QED BY <2>1, <2>2
<1>9. g = [ip \in Nat |-> IF ip > d.end \/ ip >= Len(code) THEN {} ELSE {ip} \union g[InOrder(code, ip)]]
  <2>1. g = [ip \in Nat |-> g[ip]]
    BY <1>7
  <2> HIDE DEF code
  <2> QED BY <1>8, <2>1
<1>10. b = [ip \in Nat |-> IF ip > d.end \/ ip >= Len(code) THEN {} ELSE {ip} \union b[InOrder(code, ip)]]
  BY <1>9, Zenon
<1> HIDE DEF b, leads, step, code
<1>11. \A ip \in Nat : b[ip] = IF ip > d.end \/ ip >= n THEN {} ELSE {ip} \union b[InOrder(code, ip)]
  BY <1>10
<1>12. PICK scan : FindsEnds(scan, code) /\ \A ip \in Nat : FindEndf(code, ip) = scan[ip]
  BY <1>1, FindsEndf
<1> DEFINE stop == d.end
           Passed(ip) == /\ stop \in Nat /\ stop >= ip
                         /\ \A i \in b[ip] : /\ code[i + 1] \notin {\h2C, \h89}
                                             /\ code[i + 1] = \h2D <=> i = stop
           P == {ip \in Nat : scan[ip] = [at |-> stop, err |-> "none"] => Passed(ip)}
<1>13. ASSUME NEW ip \in Nat, \A j \in Nat : ip < j /\ ip < n => j \in P
       PROVE  ip \in P
  <2> SUFFICES ASSUME scan[ip] = [at |-> stop, err |-> "none"]
               PROVE  Passed(ip)
    OBVIOUS
  <2> DEFINE op == code[ip + 1]
             next == InOrder(code, ip)
  <2>1. scan[ip] = IF ip >= n THEN [at |-> 0, err |-> "Unterminated"]
                   ELSE IF op \in {\h2C, \h89} THEN [at |-> 0, err |-> "NestedDefs"]
                   ELSE IF op = \h2D THEN [at |-> ip, err |-> "none"]
                   ELSE IF Overruns(code, ip) THEN [at |-> 0, err |-> "CodeOverflow"]
                   ELSE scan[Following(code, ip)]
    BY <1>12 DEF FindsEnds
  <2>2. scan[ip].err = "none" /\ scan[ip].at = stop
    <3> HIDE DEF stop
    <3> QED OBVIOUS
  <2>3. ip < n /\ op \notin {\h2C, \h89}
    <3> HIDE DEF n, op
    <3> QED BY <1>2, <2>1, <2>2
  <2>4. next \in Nat /\ next > ip
    BY <1>2, <2>3
  <2>5. CASE op = \h2D
    <3>1. scan[ip].at = ip
      <4> HIDE DEF n, op, stop
      <4> QED BY <1>2, <2>1, <2>3, <2>5
    <3>2. stop = ip
      BY <2>2, <3>1
    <3>3. b[next] = {}
      <4> HIDE DEF next
      <4> QED BY <1>11, <2>4, <3>2
    <3>4. b[ip] \subseteq {ip}
      BY <1>11, <3>3
    <3> HIDE DEF n, stop
    <3> QED BY <2>3, <2>5, <3>2, <3>4
  <2>6. CASE op # \h2D
    <3>1. ~Overruns(code, ip) /\ scan[ip] = scan[Following(code, ip)]
      <4> HIDE DEF n, op
      <4> QED BY <1>2, <2>1, <2>2, <2>3, <2>6
    <3>2. Following(code, ip) = next
      BY <1>1, <2>3, <3>1, SkipsOperands
    <3>3. next \in P
      <4> HIDE DEF P, next
      <4> QED BY <1>13, <2>3, <2>4
    <3>4. Passed(next)
      <4> HIDE DEF Passed, next
      <4> QED BY <3>1, <3>2, <3>3
    <3>5. b[ip] \subseteq {ip} \union b[next]
      BY <1>11
    <3>6. stop \in Nat /\ stop >= ip /\ stop # ip
      <4> HIDE DEF next, stop
      <4> QED BY <2>4, <3>4
    <3> HIDE DEF n, stop, next
    <3> QED BY <2>3, <2>6, <3>4, <3>5, <3>6
  <2> QED BY <2>5, <2>6
<1>14. Passed(d.start)
  <2>1. d.start \in P
    <3> HIDE DEF P
    <3> QED BY <1>2, <1>13, Backwards
  <2>2. scan[d.start] = [at |-> stop, err |-> "none"]
    BY <1>12 DEF code
  <2> HIDE DEF Passed
  <2> QED BY <2>1, <2>2
<1> QED BY <1>3, <1>14 DEF Whole

-----------------------------------------------------------------------------
(* Where control is *)

Defs(mm) == Range(mm.funs) \union Range(mm.idefs)

\* A definition as FDEF and IDEF make it, in the font program or in the control
\* value program.
Filed(d) ==
  /\ d.range \in {0, 1} /\ d.start \in Nat
  /\ FindEndf(Source(d.range), d.start) = [at |-> d.end, err |-> "none"]

\* Definitions are right, and nothing but a glyph leads into a glyph's code.
Ordered(mm) ==
  /\ \A d \in Defs(mm) : Filed(d)
  /\ \A k \in 1..Len(mm.calls) : DOMAIN mm.calls[k] = {"range", "ip", "count", "def"}
  /\ mm.initial # 2 => mm.range \in {0, 1} /\ \A k \in 1..Len(mm.calls) : mm.calls[k].range \in {0, 1}

\* A machine or a call that waits is where an instruction starts.
Placed(c) == OnInstruction(Code(c), c.ip)

\* So are the definitions and the calls to which control will return.
InRow(mm) ==
  /\ \A d \in Defs(mm) : OnInstruction(Source(d.range), d.start)
  /\ \A k \in 1..Len(mm.calls) : Placed(mm.calls[k])

\* An instruction leaves things ordered, and control in step if it was.
Steps(a, b) ==
  /\ Ordered(b)
  /\ InRow(a) /\ Placed(a) => InRow(b) /\ (b.err = "none" => Placed(b))

LEMMA SameCode ==
  ASSUME NEW c, NEW d, c.range = d.range
  PROVE  Code(c) = Code(d)
BY DEF Code

LEMMA StepsKept ==
  ASSUME NEW a, Ordered(a), NEW b, Keeps(a, b)
  PROVE  Steps(a, b)
<1>1. /\ b.ip = a.ip /\ b.range = a.range /\ b.calls = a.calls
      /\ b.initial = a.initial /\ b.funs = a.funs /\ b.idefs = a.idefs
  BY DEF Keeps
<1>2. Defs(b) = Defs(a)
  BY <1>1 DEF Defs
<1>3. Code(b) = Code(a)
  BY <1>1, SameCode
<1>4. Ordered(b)
  BY <1>1, <1>2 DEF Ordered
<1>5. InRow(a) => InRow(b)
  BY <1>1, <1>2 DEF InRow
<1>6. Placed(a) => Placed(b)
  BY <1>1, <1>3 DEF Placed
<1> QED BY <1>4, <1>5, <1>6 DEF Steps

\* IF and ELSE.
LEMMA StepsSkip ==
  ASSUME job \in Jobs, NEW a, Ordered(a), NEW x, Keeps(a, x), NEW stopAtElse
  PROVE  Steps(a, Skip(x, stopAtElse))
<1> DEFINE to == SkipTo(Code(x), x.ip, stopAtElse)
           b == [x EXCEPT !.ip = to]
<1>1. Skip(x, stopAtElse) = IF to < 0 THEN Fail(x, "CodeOverflow") ELSE b
  BY Zenon DEF Skip
<1>2. Steps(a, Fail(x, "CodeOverflow"))
  BY KeepsFail, StepsKept
<1>3. ASSUME ~(to < 0) PROVE Steps(a, b)
  <2>1. /\ b.ip = to /\ b.range = a.range /\ b.calls = a.calls
        /\ b.initial = a.initial /\ b.funs = a.funs /\ b.idefs = a.idefs
    <3> HIDE DEF to
    <3>1. /\ b.ip = to /\ b.range = x.range /\ b.calls = x.calls
          /\ b.initial = x.initial /\ b.funs = x.funs /\ b.idefs = x.idefs
      BY Zenon DEF Keeps, Machine, Fields
    <3> HIDE DEF b
    <3> QED BY <3>1 DEF Keeps
  <2>2. x.ip = a.ip /\ x.range = a.range
    BY DEF Keeps
  <2> HIDE DEF b
  <2>3. Code(b) = Code(a) /\ Code(x) = Code(a)
    BY <2>1, <2>2, SameCode
  <2>4. Placed(a) => Placed(b)
    <3> SUFFICES ASSUME Placed(a) PROVE Placed(b)
      OBVIOUS
    <3>1. OnInstruction(Code(x), x.ip) /\ x.ip \in Nat
      BY <2>2, <2>3 DEF Placed, OnInstruction
    <3>2. to = -1 \/ OnInstruction(Code(x), to)
      <4>1. Code(x) \in Seq(Byte)
        BY Coded
      <4> QED BY <3>1, <4>1, SkipsInOrder
    <3>3. to # -1
      <4> HIDE DEF to
      <4> QED BY <1>3
    <3> HIDE DEF to
    <3> QED BY <2>1, <2>3, <3>2, <3>3 DEF Placed
  <2>5. Defs(b) = Defs(a)
    BY <2>1 DEF Defs
  <2>6. Ordered(b)
    BY <2>1, <2>5 DEF Ordered
  <2>7. InRow(a) => InRow(b)
    BY <2>1, <2>5 DEF InRow
  <2> QED BY <2>4, <2>6, <2>7 DEF Steps
<1> HIDE DEF to, b
<1> QED BY <1>1, <1>2, <1>3

\* A sequence of calls with one more.
LEMMA OneMore ==
  ASSUME NEW s, IsSeq(s), NEW v
  PROVE  /\ Len(s) \in Nat /\ Len(Append(s, v)) = Len(s) + 1
         /\ Append(s, v)[Len(s) + 1] = v /\ \A k \in 1..Len(s) : Append(s, v)[k] = s[k]
<1>1. PICK S : s \in Seq(S)
  BY DEF IsSeq
<1>2. s \in Seq(S \union {v})
  BY <1>1
<1> QED BY <1>2

\* A call of a definition.
LEMMA StepsEnter ==
  ASSUME NEW a, IsSeq(a.calls), Ordered(a), NEW x, Keeps(a, x),
         NEW def \in Defs(a), NEW index, NEW count
  PROVE  Steps(a, Enter(x, def, index, count))
<1> DEFINE call == [range |-> x.range, ip |-> x.ip, count |-> count, def |-> index]
           calls == Append(x.calls, call)
           b == [x EXCEPT !.calls = calls, !.ip = def.start, !.range = def.range]
<1>1. Enter(x, def, index, count) = b
  BY Zenon DEF Enter
<1>2. /\ b.calls = calls /\ b.ip = def.start /\ b.range = def.range
      /\ b.initial = x.initial /\ b.funs = x.funs /\ b.idefs = x.idefs
  <2> HIDE DEF calls
  <2> QED BY Zenon DEF Keeps, Machine, Fields
<1>3. /\ x.ip = a.ip /\ x.range = a.range /\ x.calls = a.calls
      /\ x.initial = a.initial /\ x.funs = a.funs /\ x.idefs = a.idefs
  BY DEF Keeps
<1>4. call.range = a.range /\ call.ip = a.ip
  BY <1>3
<1>5. /\ Len(a.calls) \in Nat /\ Len(calls) = Len(a.calls) + 1
      /\ calls[Len(a.calls) + 1] = call /\ \A k \in 1..Len(a.calls) : calls[k] = a.calls[k]
  <2> HIDE DEF call
  <2> QED BY <1>3, OneMore
<1> HIDE DEF call, calls, b
<1>6. Defs(b) = Defs(a)
  BY <1>2, <1>3 DEF Defs
<1>7. Filed(def)
  BY DEF Ordered
<1>8. Ordered(b)
  <2>1. ASSUME b.initial # 2, NEW k \in 1..Len(b.calls) PROVE b.calls[k].range \in {0, 1}
    <3>1. a.range \in {0, 1} /\ \A j \in 1..Len(a.calls) : a.calls[j].range \in {0, 1}
      BY <1>2, <1>3, <2>1 DEF Ordered
    <3> QED BY <1>2, <1>4, <1>5, <2>1, <3>1
  <2>2. b.range \in {0, 1}
    BY <1>2, <1>7 DEF Filed
  <2>3. ASSUME NEW k \in 1..Len(b.calls) PROVE DOMAIN b.calls[k] = {"range", "ip", "count", "def"}
    <3>1. \A j \in 1..Len(a.calls) : DOMAIN a.calls[j] = {"range", "ip", "count", "def"}
      BY DEF Ordered
    <3>2. DOMAIN call = {"range", "ip", "count", "def"}
      BY DEF call
    <3> QED BY <1>2, <1>5, <2>3, <3>1, <3>2
  <2> QED BY <1>6, <1>7, <2>1, <2>2, <2>3, <1>2, <1>3 DEF Ordered
<1>9. ASSUME InRow(a), Placed(a)
      PROVE  InRow(b) /\ Placed(b)
  <2>1. Placed(call)
    <3>1. Code(call) = Code(a)
      BY <1>4, SameCode
    <3> QED BY <1>4, <1>9, <3>1 DEF Placed
  <2>2. ASSUME NEW k \in 1..Len(b.calls) PROVE Placed(b.calls[k])
    <3>1. \A j \in 1..Len(a.calls) : Placed(a.calls[j])
      BY <1>9 DEF InRow
    <3> QED BY <1>2, <1>5, <2>1, <2>2, <3>1
  <2>3. InRow(b)
    BY <1>6, <1>9, <2>2 DEF InRow
  <2>4. Code(b) = Source(def.range)
    BY <1>2, <1>7 DEF Code, Source, Filed
  <2>5. OnInstruction(Source(def.range), def.start)
    BY <1>9 DEF InRow
  <2> QED BY <1>2, <2>3, <2>4, <2>5 DEF Placed
<1> QED BY <1>1, <1>8, <1>9 DEF Steps

LEMMA Defined ==
  ASSUME NEW mm
  PROVE  /\ \A n \in DOMAIN mm.funs : mm.funs[n] \in Defs(mm)
         /\ \A n \in DOMAIN mm.idefs : mm.idefs[n] \in Defs(mm)
BY DEF Defs, Range

LEMMA StepsCall ==
  ASSUME NEW a, IsSeq(a.calls), Ordered(a), NEW x, Keeps(a, x), NEW n, NEW count
  PROVE  Steps(a, Call(x, n, count))
<1>1. Steps(a, Fail(x, "InvalidFunction")) /\ Steps(a, Fail(x, "CallStackOverflow")) /\ Steps(a, x)
  BY KeepsFail, StepsKept
<1>2. x.funs = a.funs
  BY DEF Keeps
<1>3. n \in DOMAIN x.funs => Steps(a, Enter(x, x.funs[n], n, count))
  BY <1>2, Defined, StepsEnter
<1> QED BY <1>1, <1>3, Zenon DEF Call

\* All but the last of the calls, and the last changed.
LEMMA Fewer ==
  ASSUME NEW s, IsSeq(s), s # <<>>
  PROVE  /\ Len(s) \in Nat \ {0} /\ Last(s) = s[Len(s)]
         /\ Len(Front(s)) = Len(s) - 1 /\ \A k \in 1..(Len(s) - 1) : Front(s)[k] = s[k]
         /\ \A v : LET t == [s EXCEPT ![Len(s)] = v]
                   IN Len(t) = Len(s) /\ t[Len(s)] = v /\ \A k \in 1..(Len(s) - 1) : t[k] = s[k]
<1>1. PICK S : s \in Seq(S)
  BY DEF IsSeq
<1>2. Len(s) \in Nat \ {0}
  BY <1>1
<1>3. Len(Front(s)) = Len(s) - 1 /\ \A k \in 1..(Len(s) - 1) : Front(s)[k] = s[k]
  <2>1. Front(s) = SubSeq(s, 1, Len(s) - 1)
    BY DEF Front
  <2>2. Len(s) - 1 \in 0..Len(s)
    BY <1>2
  <2> DEFINE n == Len(s) - 1
  <2>3. Len(SubSeq(s, 1, n)) = n /\ \A k \in 1..n : SubSeq(s, 1, n)[k] = s[k]
    <3>1. 1 \in 1..(Len(s) + 1) /\ n \in 0..Len(s)
      BY <1>2
    <3> HIDE DEF n
    <3> QED BY <1>1, <1>2, <3>1
  <2> QED BY <2>1, <2>3
<1>4. ASSUME NEW v
      PROVE  LET t == [s EXCEPT ![Len(s)] = v]
             IN Len(t) = Len(s) /\ t[Len(s)] = v /\ \A k \in 1..(Len(s) - 1) : t[k] = s[k]
  BY <1>1, <1>2
<1> QED BY <1>2, <1>3, <1>4 DEF Last

\* ENDF: once more, or back to where the call was.
LEMMA StepsEndf ==
  ASSUME NEW a, Machine(a), IsSeq(a.calls), Ordered(a)
  PROVE  Steps(a, Endf(a))
<1> DEFINE depth == Len(a.calls)
           c == Last(a.calls)
           called == [a.calls[depth] EXCEPT !.count = @ - 1]
           fewer == [a.calls EXCEPT ![depth] = called]
           f == a.funs[c.def]
           again == [a EXCEPT !.calls = fewer, !.ip = f.start, !.range = f.range]
           back == [a EXCEPT !.calls = Front(a.calls), !.ip = c.ip, !.range = c.range]
<1>1. \A e : Steps(a, Fail(a, e))
  BY KeepsItself, KeepsFail, StepsKept
<1>2. CASE a.calls = <<>>
  BY <1>1, <1>2 DEF Endf
<1>3. CASE a.calls # <<>>
  <2>1. Endf(a) = IF c.count > 1
                  THEN IF c.def \notin DOMAIN a.funs THEN Fail(a, "MissingFunction") ELSE again
                  ELSE back
    BY <1>3, Zenon DEF Endf
  <2>2. /\ depth \in Nat \ {0} /\ c = a.calls[depth]
        /\ Len(Front(a.calls)) = depth - 1 /\ \A k \in 1..(depth - 1) : Front(a.calls)[k] = a.calls[k]
        /\ Len(fewer) = depth /\ fewer[depth] = called /\ \A k \in 1..(depth - 1) : fewer[k] = a.calls[k]
    <3> HIDE DEF called
    <3> QED BY <1>3, Fewer
  <2>3. called.range = c.range /\ called.ip = c.ip /\ DOMAIN called = {"range", "ip", "count", "def"}
    <3>1. DOMAIN a.calls[depth] = {"range", "ip", "count", "def"}
      <4>1. depth \in 1..Len(a.calls)
        BY <2>2
      <4> QED BY <4>1 DEF Ordered
    <3>2. /\ called.range = a.calls[depth].range /\ called.ip = a.calls[depth].ip
          /\ DOMAIN called = {"range", "ip", "count", "def"}
      <4> HIDE DEF depth
      <4> QED BY <3>1, Zenon
    <3> HIDE DEF called, c, depth
    <3> QED BY <2>2, <3>2
  <2>4. /\ again.calls = fewer /\ again.ip = f.start /\ again.range = f.range
        /\ again.initial = a.initial /\ again.funs = a.funs /\ again.idefs = a.idefs
        /\ back.calls = Front(a.calls) /\ back.ip = c.ip /\ back.range = c.range
        /\ back.initial = a.initial /\ back.funs = a.funs /\ back.idefs = a.idefs
    <3> HIDE DEF fewer, f, c
    <3> QED BY Zenon DEF Machine, Fields
  <2>5. Placed(called) <=> Placed(c)
    <3>1. Code(called) = Code(c)
      BY <2>3, SameCode
    <3> QED BY <2>3, <3>1 DEF Placed
  <2> HIDE DEF called, fewer, f, c, again, back, depth
  <2>6. Defs(again) = Defs(a) /\ Defs(back) = Defs(a)
    BY <2>4 DEF Defs
  <2>7. ASSUME a.initial # 2
        PROVE  a.range \in {0, 1} /\ \A k \in 1..depth : a.calls[k].range \in {0, 1}
    BY <2>7 DEF Ordered, depth
  <2>8. c.def \in DOMAIN a.funs => Steps(a, again)
    <3> SUFFICES ASSUME c.def \in DOMAIN a.funs PROVE Steps(a, again)
      OBVIOUS
    <3>1. f \in Defs(a)
      BY Defined DEF f
    <3>2. Filed(f)
      BY <3>1 DEF Ordered
    <3>3. \A k \in 1..depth : k \in 1..(depth - 1) \/ k = depth
      BY <2>2
    <3>4. ASSUME a.initial # 2, NEW k \in 1..depth PROVE fewer[k].range \in {0, 1}
      BY <2>2, <2>3, <2>7, <3>3, <3>4
    <3>5. Ordered(again)
      <4>1. ASSUME NEW k \in 1..depth PROVE DOMAIN fewer[k] = {"range", "ip", "count", "def"}
        <5>1. \A j \in 1..depth : DOMAIN a.calls[j] = {"range", "ip", "count", "def"}
          BY DEF Ordered, depth
        <5> QED BY <2>2, <2>3, <3>3, <4>1, <5>1
      <4>2. again.range \in {0, 1} /\ Len(again.calls) = depth /\ again.calls = fewer
        BY <2>2, <2>4, <3>2 DEF Filed
      <4>3. \A d \in Defs(again) : Filed(d)
        BY <2>6 DEF Ordered
      <4> QED BY <2>4, <3>4, <4>1, <4>2, <4>3 DEF Ordered
    <3>6. ASSUME InRow(a) PROVE InRow(again) /\ Placed(again)
      <4>1. \A k \in 1..depth : Placed(a.calls[k])
        BY <3>6 DEF InRow, depth
      <4>2. ASSUME NEW k \in 1..depth PROVE Placed(fewer[k])
        BY <2>2, <2>5, <3>3, <4>1
      <4>3. InRow(again)
        BY <2>2, <2>4, <2>6, <3>6, <4>2 DEF InRow
      <4>4. Code(again) = Source(f.range)
        BY <2>4, <3>2 DEF Code, Source, Filed
      <4>5. OnInstruction(Source(f.range), f.start)
        BY <3>1, <3>6 DEF InRow
      <4> QED BY <2>4, <4>3, <4>4, <4>5 DEF Placed
    <3> QED BY <3>5, <3>6 DEF Steps
  <2>9. Steps(a, back)
    <3>1. depth \in 1..depth /\ \A k \in 1..(depth - 1) : k \in 1..depth
      BY <2>2
    <3>2. ASSUME a.initial # 2
          PROVE  c.range \in {0, 1} /\ \A k \in 1..(depth - 1) : Front(a.calls)[k].range \in {0, 1}
      BY <2>2, <2>7, <3>1, <3>2
    <3>3. Ordered(back)
      <4>1. \A k \in 1..(depth - 1) : DOMAIN Front(a.calls)[k] = {"range", "ip", "count", "def"}
        <5>1. \A j \in 1..depth : DOMAIN a.calls[j] = {"range", "ip", "count", "def"}
          BY DEF Ordered, depth
        <5> QED BY <2>2, <3>1, <5>1
      <4>2. Len(back.calls) = depth - 1 /\ back.calls = Front(a.calls)
        BY <2>2, <2>4
      <4>3. \A d \in Defs(back) : Filed(d)
        BY <2>6 DEF Ordered
      <4> QED BY <2>4, <3>2, <4>1, <4>2, <4>3 DEF Ordered
    <3>4. ASSUME InRow(a) PROVE InRow(back) /\ Placed(back)
      <4>1. \A k \in 1..depth : Placed(a.calls[k])
        BY <3>4 DEF InRow, depth
      <4>2. InRow(back)
        BY <2>2, <2>4, <2>6, <3>1, <3>4, <4>1 DEF InRow
      <4>3. Placed(c)
        BY <2>2, <3>1, <4>1
      <4>4. Code(back) = Code(c)
        BY <2>4, SameCode
      <4> QED BY <2>4, <4>2, <4>3, <4>4 DEF Placed
    <3> QED BY <3>3, <3>4 DEF Steps
  <2> QED BY <1>1, <2>1, <2>8, <2>9
<1> QED BY <1>2, <1>3

\* A jump keeps the order; where it leads nobody knows.
LEMMA JumpOrdered ==
  ASSUME NEW a, Ordered(a), NEW x, Keeps(a, x), NEW offset
  PROVE  Ordered(Jump(x, offset))
<1> DEFINE target == x.ip + offset - 1
           count == x.back + (IF offset < 0 THEN 1 ELSE 0)
           b == [x EXCEPT !.ip = target, !.back = count,
                          !.err = IF count > NegativeJumpLimit(x) THEN "ExecutionTooLong" ELSE @]
<1>1. Jump(x, offset) = CASE (offset = 0 /\ x.stack = <<>>) \/ target < 0 -> Fail(x, "BadArgument")
                          [] OTHER -> b
  BY Zenon DEF Jump
<1>2. /\ b.range = x.range /\ b.calls = x.calls
      /\ b.initial = x.initial /\ b.funs = x.funs /\ b.idefs = x.idefs
  <2> HIDE DEF target, count
  <2> QED BY Zenon DEF Keeps, Machine, Fields
<1> HIDE DEF b, target
<1>3. Defs(b) = Defs(a) /\ b.range = a.range /\ b.calls = a.calls /\ b.initial = a.initial
  BY <1>2 DEF Defs, Keeps
<1>4. Ordered(b)
  BY <1>3 DEF Ordered
<1>5. Ordered(Fail(x, "BadArgument"))
  BY KeepsFail, StepsKept DEF Steps
<1> QED BY <1>1, <1>4, <1>5

LEMMA StepsDoControl ==
  ASSUME job \in Jobs, NEW a, Machine(a), IsSeq(a.calls), Ordered(a), NEW op
  PROVE  /\ op \notin JumpOps => Steps(a, DoControl(a, op))
         /\ op \in JumpOps => Ordered(DoControl(a, op))
<1> DEFINE one == Drop(a, 1)
           two == Drop(a, 2)
           x == Arg(a, 1)
           y == Arg(a, 2)
<1>1. Keeps(a, a) /\ Keeps(a, one) /\ Keeps(a, two)
  BY KeepsItself, KeepsDrop
<1>2. Steps(a, a) /\ Steps(a, one) /\ Steps(a, two)
  BY <1>1, StepsKept
<1>3. Steps(a, Skip(a, FALSE)) /\ Steps(a, Skip(one, TRUE))
  BY <1>1, StepsSkip
<1>4. Steps(a, Call(two, x, y)) /\ Steps(a, Call(one, x, 1)) /\ Steps(a, Endf(a))
  BY <1>1, StepsCall, StepsEndf
<1>5. Ordered(Jump(one, x)) /\ Ordered(Jump(two, y)) /\ Ordered(two)
  BY <1>1, <1>2, JumpOrdered DEF Steps
<1>6. op \notin JumpOps =>
        DoControl(a, op) \in {Skip(a, FALSE), Skip(one, TRUE), one, a, Call(two, x, y), Call(one, x, 1), Endf(a)}
  <2>1. op \notin JumpOps => op # \h1C /\ op \notin {\h78, \h79}
    BY DEF JumpOps
  <2> QED BY <2>1, Zenon DEF DoControl
<1>7. DoControl(a, op) \in {Jump(one, x), Jump(two, y), two, Skip(a, FALSE), Skip(one, TRUE), one, a,
                            Call(two, x, y), Call(one, x, 1), Endf(a)}
  BY Zenon DEF DoControl
<1> HIDE DEF one, two, x, y
<1> QED BY <1>2, <1>3, <1>4, <1>5, <1>6, <1>7 DEF Steps

\* A push leads to the instruction behind its operands.
LEMMA StepsPush ==
  ASSUME job \in Jobs, NEW a, Machine(a), Ordered(a), NEW at \in Nat, a.ip = at + 1,
         at < Len(Code(a)), Code(a)[at + 1] \in PushOps, NEW op
  PROVE  /\ Ordered(DoPush(a, op))
         /\ InRow(a) /\ OnInstruction(Code(a), at) =>
              InRow(DoPush(a, op)) /\ (DoPush(a, op).err = "none" => Placed(DoPush(a, op)))
<1> DEFINE end == PushEnd(Code(a), at)
           pushed == Pushed(Code(a), at)
           b == [a EXCEPT !.stack = @ \o pushed, !.ip = end]
<1>1. a.ip - 1 = at
  OBVIOUS
<1>2. DoPush(a, op) = IF end > Len(Code(a)) THEN Fail(a, "CodeOverflow") ELSE b
  BY <1>1, Zenon DEF DoPush
<1>3. Ordered(Fail(a, "CodeOverflow")) /\ (InRow(a) => InRow(Fail(a, "CodeOverflow")))
      /\ Fail(a, "CodeOverflow").err # "none"
  <2>1. Keeps(a, Fail(a, "CodeOverflow"))
    BY KeepsItself, KeepsFail
  <2>2. Fail(a, "CodeOverflow").err = "CodeOverflow"
    BY Zenon DEF Fail, Machine, Fields
  <2>3. Defs(Fail(a, "CodeOverflow")) = Defs(a) /\ Fail(a, "CodeOverflow").calls = a.calls
    BY <2>1 DEF Keeps, Defs
  <2>4. Ordered(Fail(a, "CodeOverflow"))
    BY <2>1, StepsKept DEF Steps
  <2>5. InRow(a) => InRow(Fail(a, "CodeOverflow"))
    BY <2>3 DEF InRow
  <2> QED BY <2>2, <2>4, <2>5
<1>4. /\ b.ip = end /\ b.range = a.range /\ b.calls = a.calls
      /\ b.initial = a.initial /\ b.funs = a.funs /\ b.idefs = a.idefs
  <2> HIDE DEF end, pushed
  <2> QED BY Zenon DEF Machine, Fields
<1> HIDE DEF b, pushed
<1>5. Defs(b) = Defs(a)
  BY <1>4 DEF Defs
<1>6. Ordered(b)
  BY <1>4, <1>5 DEF Ordered
<1>7. InRow(a) => InRow(b)
  BY <1>4, <1>5 DEF InRow
<1>8. OnInstruction(Code(a), at) => Placed(b)
  <2> SUFFICES ASSUME OnInstruction(Code(a), at) PROVE Placed(b)
    OBVIOUS
  <2>1. Code(a) \in Seq(Byte)
    BY Coded
  <2>2. OnInstruction(Code(a), InOrder(Code(a), at))
    BY <2>1, ReadInOrder
  <2>3. InOrder(Code(a), at) = end
    BY DEF InOrder
  <2>4. Code(b) = Code(a)
    BY <1>4, SameCode
  <2> QED BY <1>4, <2>2, <2>3, <2>4 DEF Placed
<1> QED BY <1>2, <1>3, <1>6, <1>7, <1>8

\* The search for the end of a definition says where, or why not.
LEMMA FoundEnd ==
  ASSUME NEW code \in Seq(Byte), NEW start \in Nat
  PROVE  FindEndf(code, start) = [at |-> FindEndf(code, start).at, err |-> FindEndf(code, start).err]
<1> DEFINE n == Len(code)
           IsFound(x) == x = [at |-> x.at, err |-> x.err]
<1>1. n \in Nat /\ \A ip \in Nat : ip < n => Following(code, ip) \in Nat /\ Following(code, ip) > ip
  BY CodeBytes, SkipsOperands
<1>2. PICK scan : FindsEnds(scan, code) /\ \A ip \in Nat : FindEndf(code, ip) = scan[ip]
  BY FindsEndf
<1> HIDE DEF IsFound
<1> DEFINE P == {ip \in Nat : IsFound(scan[ip])}
<1>3. ASSUME NEW ip \in Nat, \A j \in Nat : ip < j /\ ip < n => j \in P
      PROVE  ip \in P
  <2> DEFINE op == code[ip + 1]
             next == Following(code, ip)
  <2>1. scan[ip] = IF ip >= n THEN [at |-> 0, err |-> "Unterminated"]
                   ELSE IF op \in {\h2C, \h89} THEN [at |-> 0, err |-> "NestedDefs"]
                   ELSE IF op = \h2D THEN [at |-> ip, err |-> "none"]
                   ELSE IF Overruns(code, ip) THEN [at |-> 0, err |-> "CodeOverflow"]
                   ELSE scan[next]
    BY <1>2 DEF FindsEnds
  <2>2. ~(ip >= n) => IsFound(scan[next])
    <3> SUFFICES ASSUME ~(ip >= n) PROVE IsFound(scan[next])
      OBVIOUS
    <3>1. ip < n
      <4> HIDE DEF n
      <4> QED BY <1>1
    <3>2. next \in Nat /\ ip < next
      BY <1>1, <3>1
    <3>3. next \in P
      <4> HIDE DEF P, next, n
      <4> QED BY <1>3, <3>1, <3>2
    <3> QED BY <3>3
  <2> HIDE DEF op, next, n
  <2>3. /\ IsFound([at |-> 0, err |-> "Unterminated"]) /\ IsFound([at |-> 0, err |-> "NestedDefs"])
        /\ IsFound([at |-> ip, err |-> "none"]) /\ IsFound([at |-> 0, err |-> "CodeOverflow"])
    BY DEF IsFound
  <2>4. IsFound(scan[ip])
    BY <2>1, <2>2, <2>3
  <2> QED BY <2>4
<1>4. start \in P
  <2> HIDE DEF P
  <2> QED BY <1>1, <1>3, Backwards
<1> QED BY <1>2, <1>4 DEF IsFound

\* The definitions of a table that gets one more.
LEMMA AddedDefs ==
  ASSUME NEW defs, NEW n, NEW d
  PROVE  Range(AddTo(defs, n, d)) \subseteq Range(defs) \union {d}
BY DEF AddTo, Range

\* FDEF and IDEF store a definition, and go on behind its end.
LEMMA StepsDefine ==
  ASSUME job \in Jobs, NEW a, Machine(a), a.ip \in Nat, Ordered(a), a.initial # 2,
         NEW x, Keeps(a, x), NEW full, NEW stored,
         Defs(stored) \subseteq Defs(a) \union {Definition(x)}, DOMAIN stored = Fields,
         stored.range = x.range, stored.calls = x.calls, stored.initial = x.initial
  PROVE  Steps(a, Define(x, full, stored))
<1> DEFINE d == Definition(x)
           code == Source(a.range)
           end == DefinitionEnd(x)
           b == [stored EXCEPT !.ip = end.at + 1]
<1>1. Define(x, full, stored) = IF full THEN Fail(x, "TooManyDefs")
                                ELSE IF end.err # "none" THEN Fail(x, end.err) ELSE b
  BY Zenon DEF Define
<1>2. \A e : Steps(a, Fail(x, e))
  BY KeepsFail, StepsKept
<1>3. x.range = a.range /\ x.ip = a.ip /\ x.calls = a.calls /\ x.initial = a.initial
  BY DEF Keeps
<1>4. end = FindEndf(code, a.ip)
  BY <1>3 DEF DefinitionEnd, Source
<1>5. d.range = a.range /\ d.start = a.ip /\ d.end = end.at
  BY <1>3 DEF Definition
<1>6. code \in Seq(Byte)
  BY JobsAssumption DEF JobType, Source
<1>7. a.range \in {0, 1}
  BY DEF Ordered
<1>8. /\ b.ip = end.at + 1 /\ b.range = stored.range /\ b.calls = stored.calls
      /\ b.initial = stored.initial /\ b.funs = stored.funs /\ b.idefs = stored.idefs
  <2> HIDE DEF end
  <2> QED BY Zenon DEF Fields
<1> HIDE DEF b, d, end, code
<1>9. Defs(b) \subseteq Defs(a) \union {d}
  BY <1>8 DEF Defs, d
<1>10. ASSUME end.err = "none"
       PROVE  Steps(a, b)
  <2>1. Filed(d)
    <3>1. FindEndf(code, a.ip) = [at |-> end.at, err |-> "none"]
      BY <1>4, <1>6, <1>10, FoundEnd
    <3> QED BY <1>5, <1>7, <3>1 DEF Filed, code
  <2>2. Ordered(b)
    <3>1. \A e \in Defs(b) : Filed(e)
      BY <1>9, <2>1 DEF Ordered
    <3>2. b.calls = a.calls /\ b.range = a.range /\ b.initial = a.initial
      BY <1>3, <1>8
    <3> QED BY <3>1, <3>2 DEF Ordered
  <2>3. ASSUME InRow(a), Placed(a)
        PROVE  InRow(b) /\ Placed(b)
    <3>1. Code(a) = code
      BY <1>7 DEF Code, Source, code
    <3>2. OnInstruction(code, a.ip)
      BY <2>3, <3>1 DEF Placed
    <3>3. OnInstruction(code, end.at + 1)
      BY <1>4, <1>6, <1>10, <3>2, EndsInOrder
    <3>4. \A e \in Defs(b) : OnInstruction(Source(e.range), e.start)
      BY <1>5, <1>9, <2>3, <3>2 DEF InRow, code
    <3>5. InRow(b)
      BY <1>3, <1>8, <2>3, <3>4 DEF InRow
    <3>6. Code(b) = Code(a)
      BY <1>3, <1>8, SameCode
    <3> QED BY <1>8, <3>1, <3>3, <3>5, <3>6 DEF Placed
  <2> QED BY <2>2, <2>3 DEF Steps
<1> QED BY <1>1, <1>2, <1>10

LEMMA StepsDoDefine ==
  ASSUME job \in Jobs, NEW a, Machine(a), a.ip \in Nat, Ordered(a), NEW op
  PROVE  Steps(a, DoDefine(a, op))
<1> DEFINE rest == Drop(a, 1)
           n == Arg(a, 1)
           index == LowWord(n)
           d == Definition(rest)
           funs == AddTo(rest.funs, index, d)
           idefs == AddTo(rest.idefs, n, d)
           fullF == Full(rest.funs, index, FunctionBudget)
           fullI == Full(rest.idefs, n, InstructionBudget)
           f == [rest EXCEPT !.funs = funs]
           i == [rest EXCEPT !.idefs = idefs]
<1>1. CASE StartedByGlyph(a)
  BY <1>1, KeepsItself, KeepsFail, StepsKept DEF DoDefine
<1>2. CASE ~StartedByGlyph(a)
  <2>1. Keeps(a, rest) /\ a.initial # 2
    BY <1>2, KeepsItself, KeepsDrop DEF StartedByGlyph
  <2>2. FDEF(rest, n) = IF index >= FunctionSlots THEN Fail(rest, "CodeOverflow")
                        ELSE Define(rest, fullF, f)
    BY Zenon DEF FDEF
  <2>3. IDEF(rest, n) = IF n \notin Byte THEN Fail(rest, "TooManyDefs")
                        ELSE Define(rest, fullI, i)
    BY Zenon DEF IDEF
  <2>4. DoDefine(a, op) = IF op = \h2C THEN FDEF(rest, n) ELSE IDEF(rest, n)
    BY <1>2, Zenon DEF DoDefine
  <2>5. Range(funs) \subseteq Range(rest.funs) \union {d} /\ Range(idefs) \subseteq Range(rest.idefs) \union {d}
    <3> HIDE DEF rest, index, d, n
    <3> QED BY AddedDefs
  <2> HIDE DEF funs, idefs, d, rest, n, index, fullF, fullI
  <2>6. /\ DOMAIN f = Fields /\ f.range = rest.range /\ f.calls = rest.calls /\ f.initial = rest.initial
        /\ f.funs = funs /\ f.idefs = rest.idefs
        /\ DOMAIN i = Fields /\ i.range = rest.range /\ i.calls = rest.calls /\ i.initial = rest.initial
        /\ i.funs = rest.funs /\ i.idefs = idefs
    BY <2>1, Zenon DEF Keeps, Machine, Fields
  <2> HIDE DEF f, i
  <2>7. Defs(rest) = Defs(a)
    BY <2>1 DEF Defs, Keeps
  <2>8. Defs(f) \subseteq Defs(a) \union {d} /\ Defs(i) \subseteq Defs(a) \union {d}
    BY <2>5, <2>6, <2>7 DEF Defs
  <2>9. Steps(a, Define(rest, fullF, f)) /\ Steps(a, Define(rest, fullI, i))
    BY <2>1, <2>6, <2>8, StepsDefine DEF d
  <2>10. \A e : Steps(a, Fail(rest, e))
    BY <2>1, KeepsFail, StepsKept
  <2> QED BY <2>2, <2>3, <2>4, <2>9, <2>10
<1> QED BY <1>1, <1>2

LEMMA StepsDoOther ==
  ASSUME NEW a, Machine(a), IsSeq(a.calls), Ordered(a), NEW op
  PROVE  Steps(a, DoOther(a, op))
<1>1. Keeps(a, a)
  BY KeepsItself
<1>2. \A e : Steps(a, Fail(a, e))
  BY <1>1, KeepsFail, StepsKept
<1>3. op \in DOMAIN a.idefs => Steps(a, Enter(a, a.idefs[op], op, 1))
  BY <1>1, Defined, StepsEnter
<1> QED BY <1>2, <1>3, Zenon DEF DoOther

-----------------------------------------------------------------------------
(* Control in step: the invariant *)

PlacesInv ==
  /\ Ordered(m)
  /\ phase = "fpgm" => m.initial # 2
  /\ ~jumped => InRow(m) /\ (m.err = "none" => Placed(m))

\* A step does not change the programs.
LEMMA SameJob ==
  ASSUME UNCHANGED job
  PROVE  /\ Ordered(m') => Ordered(m)'
         /\ InRow(m') => InRow(m)'
         /\ Placed(m') => Placed(m)'
<1>1. \A r : Source(r)' = Source(r)
  BY Zenon DEF Source
<1>2. \A c : Code(c)' = Code(c)
  BY Zenon DEF Code
<1>3. \A c : Placed(c)' <=> Placed(c)
  BY <1>2 DEF Placed
<1>4. \A d : Filed(d)' <=> Filed(d)
  BY <1>1 DEF Filed
<1>5. Code(m') = Code(m)'
  BY Zenon DEF Code
<1>6. Placed(m') => Placed(m)'
  BY <1>5 DEF Placed
<1>7. Defs(m') = Defs(m)'
  BY DEF Defs
<1>8. Ordered(m') => Ordered(m)'
  BY <1>4, <1>7 DEF Ordered
<1>9. InRow(m') => InRow(m)'
  BY <1>1, <1>3, <1>7 DEF InRow
<1> QED BY <1>6, <1>8, <1>9

LEMMA PlacesInvInit == Init => PlacesInv
<1> SUFFICES ASSUME Init PROVE PlacesInv
  OBVIOUS
<1> DEFINE f == Fresh(job.pedantic)
<1>1. m = f /\ job \in Jobs /\ jumped = FALSE
  BY DEF Init
<1>2. /\ f.calls = <<>> /\ f.ip = 0 /\ f.range = 1 /\ f.initial = 1
      /\ DOMAIN f.funs = {} /\ DOMAIN f.idefs = {}
  BY DEF Fresh
<1> HIDE DEF f
<1>3. Defs(f) = {} /\ Len(f.calls) = 0
  BY <1>2 DEF Defs, Range
<1>4. Placed(f)
  BY <1>1, <1>2, Coded, ReadInOrder DEF Placed
<1> QED BY <1>1, <1>2, <1>3, <1>4 DEF PlacesInv, Ordered, InRow

\* The head of the loop.
LEMMA ReadyInRow ==
  ASSUME LimitsInv, PlacesInv, Fetching, m.steps < MaxSteps
  PROVE  /\ Machine(Ready) /\ IsSeq(Ready.calls) /\ Ordered(Ready)
         /\ m.ip \in Nat /\ Ready.ip = m.ip + 1 /\ m.ip < Len(Code(Ready)) /\ Ready.ip \in Nat
         /\ Code(Ready) = Code(m) /\ Opcode = Code(Ready)[m.ip + 1] /\ Opcode \in Byte
         /\ InRow(m) => InRow(Ready)
         /\ Placed(m) => OnInstruction(Code(Ready), m.ip)
         /\ Placed(m) /\ Opcode \notin PushOps => Placed(Ready)
<1> DEFINE b == [m EXCEPT !.ip = @ + 1, !.steps = @ + 1]
<1>1. /\ b.ip = m.ip + 1 /\ b.range = m.range /\ b.calls = m.calls /\ Machine(b)
      /\ b.initial = m.initial /\ b.funs = m.funs /\ b.idefs = m.idefs
  BY Zenon DEF LimitsInv, Sound, Machine, Fields
<1>2. Ready = Prepare(b, Opcode)
  BY Zenon DEF Ready
<1>3. Code(m) \in Seq(Byte) /\ Len(Code(m)) \in Nat
  BY Coded, Elements DEF LimitsInv
<1>4. m.ip \in Nat /\ m.ip < Len(Code(m))
  BY <1>3 DEF Fetching
<1>5. Opcode \in Byte /\ Opcode = Code(m)[m.ip + 1]
  <2>1. Opcode = Code(m)[m.ip + 1]
    BY DEF Opcode
  <2>2. Code(m)[m.ip + 1] \in Byte
    BY <1>3, <1>4, Elements
  <2> QED BY <2>1, <2>2
<1> HIDE DEF b
<1>6. Keeps(b, Ready)
  BY <1>1, <1>2, <1>5, KeepsItself, KeepsPrepare
<1>7. /\ Ready.ip = m.ip + 1 /\ Ready.range = m.range /\ Ready.calls = m.calls
      /\ Ready.initial = m.initial /\ Ready.funs = m.funs /\ Ready.idefs = m.idefs
  BY <1>1, <1>6 DEF Keeps
<1>8. Code(Ready) = Code(m)
  BY <1>7, SameCode
<1>9. Defs(Ready) = Defs(m)
  BY <1>7 DEF Defs
<1>10. Ordered(Ready)
  BY <1>7, <1>9 DEF PlacesInv, Ordered
<1>11. InRow(m) => InRow(Ready)
  BY <1>7, <1>9 DEF InRow
<1>12. Placed(m) => OnInstruction(Code(Ready), m.ip)
  BY <1>8 DEF Placed
<1>13. Placed(m) /\ Opcode \notin PushOps => Placed(Ready)
  <2> SUFFICES ASSUME Placed(m), Opcode \notin PushOps PROVE Placed(Ready)
    OBVIOUS
  <2>1. OnInstruction(Code(m), InOrder(Code(m), m.ip))
    BY <1>3, <1>4, ReadInOrder DEF Placed
  <2>2. InOrder(Code(m), m.ip) = m.ip + 1
    BY <1>5 DEF InOrder
  <2> QED BY <1>7, <1>8, <2>1, <2>2 DEF Placed
<1>14. Machine(Ready) /\ IsSeq(Ready.calls)
  BY <1>6, <1>7 DEF Keeps, LimitsInv, Sound
<1> QED BY <1>4, <1>5, <1>7, <1>8, <1>10, <1>11, <1>12, <1>13, <1>14

\* What an instruction must do to leave the invariant, from where it was fetched.
Leads(done) ==
  /\ Ordered(done)
  /\ ~jumped' /\ InRow(Ready) /\ OnInstruction(Code(Ready), m.ip) /\ (Opcode \notin PushOps => Placed(Ready))
       => InRow(done) /\ (done.err = "none" => Placed(done))

LEMMA LeadingPreserves ==
  ASSUME LimitsInv, PlacesInv, NEW group, NEW done, Execute(group, done),
         Ready.err = "none" => Obeys(Ready, done) /\ Leads(done)
  PROVE  PlacesInv'
<1>1. Fetching /\ m.steps < MaxSteps
  BY DEF Execute
<1>2. /\ Machine(Ready) /\ Ordered(Ready) /\ Ready.initial = m.initial
      /\ InRow(m) => InRow(Ready)
      /\ Placed(m) => OnInstruction(Code(Ready), m.ip)
      /\ Placed(m) /\ Opcode \notin PushOps => Placed(Ready)
  BY <1>1, ReadyInRow, ReadyIsSound
<1>3. m' = IF Ready.err # "none" THEN Ready
           ELSE IF done.err = "none" /\ Len(done.stack) > StackLimit
           THEN Fail(done, "StackOverflow") ELSE done
  BY DEF Execute
<1>4. UNCHANGED job /\ phase' = phase /\ (~jumped' => ~jumped)
  BY DEF Execute
<1>5. m.err = "none"
  BY <1>1 DEF Fetching
<1>6. /\ Ordered(m') /\ m'.initial = m.initial
      /\ ~jumped' => InRow(m') /\ (m'.err = "none" => Placed(m'))
  <2>1. CASE Ready.err # "none"
    BY <1>2, <1>3, <1>4, <2>1 DEF PlacesInv
  <2>2. CASE Ready.err = "none"
    <3>1. Obeys(Ready, done) /\ Leads(done)
      BY <2>2
    <3>2. Ordered(done) /\ (~jumped' => InRow(done) /\ (done.err = "none" => Placed(done)))
      BY <1>2, <1>4, <1>5, <3>1 DEF PlacesInv, Leads
    <3>3. Machine(done) /\ done.initial = m.initial
      BY <1>2, <3>1 DEF Obeys, Sound
    <3>4. LET f == Fail(done, "StackOverflow")
          IN Ordered(f) /\ f.err # "none" /\ f.initial = m.initial /\ (InRow(done) => InRow(f))
      <4> DEFINE f == Fail(done, "StackOverflow")
      <4>1. f.err = "StackOverflow"
        BY <3>3, Zenon DEF Fail, Machine, Fields
      <4>2. Keeps(done, f)
        BY <3>3, KeepsItself, KeepsFail
      <4>3. Defs(f) = Defs(done) /\ f.calls = done.calls /\ f.initial = done.initial
        BY <4>2 DEF Keeps, Defs
      <4>4. Ordered(f)
        BY <3>2, <4>2, StepsKept DEF Steps
      <4>5. InRow(done) => InRow(f)
        BY <4>3 DEF InRow
      <4> HIDE DEF f
      <4>6. Ordered(f) /\ f.err # "none" /\ f.initial = m.initial /\ (InRow(done) => InRow(f))
        BY <3>3, <4>1, <4>3, <4>4, <4>5
      <4> QED BY <4>6 DEF f
    <3>5. m' = done \/ m' = Fail(done, "StackOverflow")
      BY <1>3, <2>2
    <3> QED BY <3>2, <3>3, <3>4, <3>5
  <2> QED BY <2>1, <2>2
<1> QED BY <1>4, <1>6, SameJob DEF PlacesInv

\* The group of an opcode says which instruction it is.
LEMMA Groups ==
  ASSUME NEW op \in Byte
  PROVE  Group[op] = "push" <=> op \in PushOps
<1>1. Group[op] = CASE op \in PushOps -> "push"
                    [] op \in StackOps -> "stack"
                    [] op \in ArithmeticOps -> "arithmetic"
                    [] op \in MemoryOps -> "memory"
                    [] op \in MeasureOps -> "measure"
                    [] op \in PointOps -> "point"
                    [] op \in VectorOps -> "vector"
                    [] op \in StateOps -> "state"
                    [] op \in ControlOps -> "control"
                    [] op \in DefineOps -> "define"
                    [] OTHER -> "other"
  BY Zenon DEF Group
<1>2. op \notin PushOps => Group[op] \in {"stack", "arithmetic", "memory", "measure", "point",
                                          "vector", "state", "control", "define", "other"}
  BY <1>1, Zenon
<1>3. ASSUME op \in PushOps PROVE Group[op] = "push"
  <2>1. /\ op \notin StackOps /\ op \notin ArithmeticOps /\ op \notin MemoryOps /\ op \notin MeasureOps
        /\ op \notin PointOps /\ op \notin VectorOps /\ op \notin StateOps
        /\ op \notin ControlOps /\ op \notin DefineOps
    BY <1>3 DEF PushOps, StackOps, ArithmeticOps, MemoryOps, MeasureOps, PointOps, AbsoluteOps,
                RelativeOps, ShiftOps, VectorOps, StateOps, RoundOps, ControlOps, JumpOps, DefineOps
  <2> QED BY <1>1, <1>3, <2>1, Zenon
<1>4. "push" \notin {"stack", "arithmetic", "memory", "measure", "point",
                     "vector", "state", "control", "define", "other"}
  OBVIOUS
<1> QED BY <1>2, <1>3, <1>4

\* Instructions that step on, jumps that only keep the order, and those that
\* leave control alone.
LEMMA SteppingPreserves ==
  ASSUME LimitsInv, PlacesInv, NEW group, group # "push", NEW done, Execute(group, done),
         Ready.err = "none" => Obeys(Ready, done) /\ Ordered(done) /\ (~jumped' => Steps(Ready, done))
  PROVE  PlacesInv'
<1>1. Fetching /\ m.steps < MaxSteps /\ Group[Opcode] = group
  BY DEF Execute
<1>2. Opcode \notin PushOps
  BY <1>1, ReadyInRow, Groups
<1>3. Ready.err = "none" => Leads(done)
  BY <1>2 DEF Leads, Steps
<1> QED BY <1>3, LeadingPreserves

LEMMA KeepingInStep ==
  ASSUME LimitsInv, PlacesInv, NEW group, group # "push", NEW done, Execute(group, done),
         Machine(Ready) => Keeps(Ready, done)
  PROVE  PlacesInv'
<1>1. Fetching /\ m.steps < MaxSteps
  BY DEF Execute
<1>2. Machine(Ready) /\ Ordered(Ready) /\ Sound(Ready)
  BY <1>1, ReadyInRow, ReadyIsSound
<1>3. Ready.err = "none" => Obeys(Ready, done)
  BY <1>2, KeptIsObeyed
<1>4. Steps(Ready, done)
  BY <1>2, StepsKept
<1> QED BY <1>3, <1>4, SteppingPreserves DEF Steps

LEMMA PushInStep ==
  ASSUME LimitsInv, PlacesInv, PushStep
  PROVE  PlacesInv'
<1>1. Execute("push", DoPush(Ready, Opcode))
  BY DEF PushStep
<1>2. Fetching /\ m.steps < MaxSteps /\ Group[Opcode] = "push"
  BY <1>1 DEF Execute
<1>3. Opcode \in PushOps
  BY <1>2, ReadyInRow, Groups
<1>4. job \in Jobs
  BY DEF LimitsInv
<1>5. Ready.err = "none" => Obeys(Ready, DoPush(Ready, Opcode))
  BY <1>2, <1>4, ReadyAt, ReadyIsSound, ObeysDoPush
<1>6. Leads(DoPush(Ready, Opcode))
  <2>1. /\ Machine(Ready) /\ Ordered(Ready) /\ m.ip \in Nat /\ Ready.ip = m.ip + 1
        /\ m.ip < Len(Code(Ready)) /\ Opcode = Code(Ready)[m.ip + 1]
    BY <1>2, ReadyInRow
  <2>2. Code(Ready)[m.ip + 1] \in PushOps
    BY <1>3, <2>1
  <2> DEFINE a == Ready
             at == m.ip
             b == DoPush(Ready, Opcode)
  <2>3. Ordered(b) /\ (InRow(a) /\ OnInstruction(Code(a), at) => InRow(b) /\ (b.err = "none" => Placed(b)))
    <3>1. /\ Machine(a) /\ Ordered(a) /\ at \in Nat /\ a.ip = at + 1
          /\ at < Len(Code(a)) /\ Code(a)[at + 1] \in PushOps
      BY <2>1, <2>2
    <3> HIDE DEF a, at
    <3>2. /\ Ordered(DoPush(a, Opcode))
          /\ InRow(a) /\ OnInstruction(Code(a), at) =>
               InRow(DoPush(a, Opcode)) /\ (DoPush(a, Opcode).err = "none" => Placed(DoPush(a, Opcode)))
      BY <1>4, <3>1, StepsPush
    <3> QED BY <3>2 DEF a
  <2> QED BY <2>3 DEF Leads
<1> QED BY <1>1, <1>5, <1>6, LeadingPreserves

LEMMA ControlInStep ==
  ASSUME LimitsInv, PlacesInv, ControlStep
  PROVE  PlacesInv'
<1> DEFINE done == DoControl(Ready, Opcode)
<1>1. Execute("control", done)
  BY DEF ControlStep
<1>2. Fetching /\ m.steps < MaxSteps /\ (~jumped' => Opcode \notin JumpOps)
  BY <1>1 DEF Execute
<1>3. job \in Jobs
  BY DEF LimitsInv
<1>4. Sound(Ready) /\ Machine(Ready) /\ IsSeq(Ready.calls) /\ Ordered(Ready)
  BY <1>2, ReadyInRow, ReadyIsSound
<1>5. Ready.err = "none" => Obeys(Ready, done)
  BY <1>3, <1>4, ObeysDoControl
<1>6. /\ Opcode \notin JumpOps => Steps(Ready, done)
      /\ Opcode \in JumpOps => Ordered(done)
  BY <1>3, <1>4, StepsDoControl
<1>7. Ordered(done) /\ (~jumped' => Steps(Ready, done))
  BY <1>2, <1>6 DEF Steps
<1> HIDE DEF done
<1> QED BY <1>1, <1>5, <1>7, SteppingPreserves

LEMMA DefineInStep ==
  ASSUME LimitsInv, PlacesInv, DefineStep
  PROVE  PlacesInv'
<1> DEFINE done == DoDefine(Ready, Opcode)
<1>1. Execute("define", done)
  BY DEF DefineStep
<1>2. Fetching /\ m.steps < MaxSteps
  BY <1>1 DEF Execute
<1>3. Sound(Ready) /\ Machine(Ready) /\ Ready.ip \in Nat /\ Ordered(Ready) /\ job \in Jobs
  BY <1>2, ReadyInRow, ReadyIsSound DEF LimitsInv
<1>4. (Ready.err = "none" => Obeys(Ready, done)) /\ Steps(Ready, done)
  BY <1>3, ObeysDoDefine, StepsDoDefine
<1> HIDE DEF done
<1> QED BY <1>1, <1>4, SteppingPreserves DEF Steps

LEMMA OtherInStep ==
  ASSUME LimitsInv, PlacesInv, OtherStep
  PROVE  PlacesInv'
<1> DEFINE done == DoOther(Ready, Opcode)
<1>1. Execute("other", done)
  BY DEF OtherStep
<1>2. Fetching /\ m.steps < MaxSteps
  BY <1>1 DEF Execute
<1>3. Sound(Ready) /\ Machine(Ready) /\ IsSeq(Ready.calls) /\ Ordered(Ready)
  BY <1>2, ReadyInRow, ReadyIsSound
<1>4. (Ready.err = "none" => Obeys(Ready, done)) /\ Steps(Ready, done)
  BY <1>3, ObeysDoOther, StepsDoOther
<1> HIDE DEF done
<1> QED BY <1>1, <1>4, SteppingPreserves DEF Steps

\* The control value program and the glyph's start at the beginning of their code.
LEMMA EndFpgmInStep ==
  ASSUME LimitsInv, PlacesInv, EndFpgm
  PROVE  PlacesInv'
<1>1. DOMAIN m = Fields
  BY DEF LimitsInv, Sound, Machine
<1>2. /\ m'.calls = m.calls /\ m'.funs = m.funs /\ m'.idefs = m.idefs
      /\ m'.ip = 0 /\ m'.range = 0 /\ m'.initial = 0
  BY <1>1, Zenon DEF EndFpgm, Fields
<1>3. job' = job /\ phase = "fpgm" /\ phase' = "prep" /\ jumped' = jumped
  BY DEF EndFpgm, Ended
<1>4. Defs(m') = Defs(m)
  BY <1>2 DEF Defs
<1>5. m.initial # 2
  BY <1>3 DEF PlacesInv
<1>6. Ordered(m')
  BY <1>2, <1>4, <1>5 DEF PlacesInv, Ordered
<1>7. InRow(m) => InRow(m')
  BY <1>2, <1>4 DEF InRow
<1>8. Placed(m')
  BY <1>2, Coded, ReadInOrder DEF Placed, LimitsInv
<1> QED BY <1>3, <1>6, <1>7, <1>8, SameJob DEF PlacesInv

LEMMA EndPrepInStep ==
  ASSUME LimitsInv, PlacesInv, EndPrep
  PROVE  PlacesInv'
<1>1. DOMAIN m = Fields
  BY DEF LimitsInv, Sound, Machine
<1>2. DOMAIN prepared' = Fields /\ prepared'.funs = m.funs /\ prepared'.idefs = m.idefs
  BY <1>1, Zenon DEF EndPrep, Fields
<1>3. /\ m'.calls = <<>> /\ m'.funs = prepared'.funs /\ m'.idefs = prepared'.idefs
      /\ m'.ip = 0 /\ m'.initial = 2
  BY <1>2, Zenon DEF EndPrep, Fields
<1>4. job' = job /\ phase' = "glyph" /\ jumped' = jumped
  BY DEF EndPrep
<1>5. Defs(m') = Defs(m) /\ Len(m'.calls) = 0
  BY <1>2, <1>3 DEF Defs
<1>6. Ordered(m')
  BY <1>3, <1>5 DEF PlacesInv, Ordered
<1>7. InRow(m) => InRow(m')
  BY <1>5 DEF InRow
<1>8. Placed(m')
  BY <1>3, Coded, ReadInOrder DEF Placed, LimitsInv
<1> QED BY <1>4, <1>6, <1>7, <1>8, SameJob DEF PlacesInv

LEMMA SameMachineInStep ==
  ASSUME LimitsInv, PlacesInv, UNCHANGED <<job, jumped>>, phase' = "fpgm" => phase = "fpgm",
         m' = m \/ \E e : e # "none" /\ m' = Fail(m, e)
  PROVE  PlacesInv'
<1>1. Keeps(m, m')
  BY KeepsItself, KeepsFail DEF LimitsInv, Sound
<1>2. m'.err = "none" => m' = m
  <2>1. \A e : Fail(m, e).err = e
    BY Zenon DEF Fail, LimitsInv, Sound, Machine, Fields
  <2> QED BY <2>1
<1>3. Defs(m') = Defs(m) /\ m'.calls = m.calls /\ m'.initial = m.initial
  BY <1>1 DEF Keeps, Defs
<1>4. Ordered(m')
  BY <1>1, StepsKept DEF PlacesInv, Steps
<1>5. InRow(m) => InRow(m')
  BY <1>3 DEF InRow
<1>6. ~jumped' => InRow(m') /\ (m'.err = "none" => Placed(m'))
  BY <1>2, <1>5 DEF PlacesInv
<1> QED BY <1>3, <1>4, <1>6, SameJob DEF PlacesInv

LEMMA PlacesInvStep == LimitsInv /\ PlacesInv /\ [Next]_vars => PlacesInv'
<1> SUFFICES ASSUME LimitsInv, PlacesInv, [Next]_vars PROVE PlacesInv'
  OBVIOUS
<1>1. CASE PushStep
  BY <1>1, PushInStep
<1>2. CASE StackStep
  BY <1>2, KeepsItself, KeepsDoStack, KeepingInStep DEF StackStep
<1>3. CASE ArithmeticStep
  BY <1>3, KeepsItself, KeepsDoArithmetic, KeepingInStep DEF ArithmeticStep
<1>4. CASE MemoryStep
  BY <1>4, KeepsItself, KeepsDoMemory, KeepingInStep DEF MemoryStep
<1>5. CASE MeasureStep
  BY <1>5, KeepsItself, KeepsDoMeasure, KeepingInStep DEF MeasureStep
<1>6. CASE PointStep
  BY <1>6, KeepsItself, KeepsDoPoint, KeepingInStep DEF PointStep
<1>7. CASE VectorStep
  BY <1>7, KeepsItself, KeepsDoVector, KeepingInStep DEF VectorStep
<1>8. CASE StateStep
  BY <1>8, KeepsItself, KeepsDoState, KeepingInStep DEF StateStep
<1>9. CASE ControlStep
  BY <1>9, ControlInStep
<1>10. CASE DefineStep
  BY <1>10, DefineInStep
<1>11. CASE OtherStep
  BY <1>11, OtherInStep
<1>12. CASE TooLong
  BY <1>12, SameMachineInStep DEF TooLong
<1>13. CASE EndFpgm
  BY <1>13, EndFpgmInStep
<1>14. CASE EndPrep
  BY <1>14, EndPrepInStep
<1>15. CASE EndGlyph
  BY <1>15, SameMachineInStep DEF EndGlyph
<1>16. CASE Abort
  BY <1>16, SameMachineInStep DEF Abort
<1>17. CASE UNCHANGED vars
  BY <1>17, SameMachineInStep DEF vars
<1> QED BY <1>1, <1>2, <1>3, <1>4, <1>5, <1>6, <1>7, <1>8, <1>9, <1>10, <1>11, <1>12,
           <1>13, <1>14, <1>15, <1>16, <1>17 DEF Next

LEMMA PlacesInvariance == Spec => [](LimitsInv /\ PlacesInv)
BY LimitsInvInit, PlacesInvInit, LimitsInvStep, PlacesInvStep, PTL DEF Spec

\* Whatever the programs are, and also after jumps: what FDEF and IDEF store is
\* the code up to its own ENDF, read in order, with no definition inside.
THEOREM DefinitionsEndWell == Spec => []DefinitionsSound
<1>1. LimitsInv /\ PlacesInv => DefinitionsSound
  <2> SUFFICES ASSUME LimitsInv, PlacesInv, NEW d \in Range(m.funs) \union Range(m.idefs)
               PROVE  Whole(d)
    BY DEF DefinitionsSound, Whole
  <2>1. Filed(d)
    BY DEF PlacesInv, Ordered, Defs
  <2> QED BY <2>1, DefinitionsWhole DEF LimitsInv, Filed
<1> QED BY <1>1, PlacesInvariance, PTL

\* Whatever the programs are, until one of them jumps: the opcode that
\* run_program fetches next is one that reading its code in order meets, behind
\* skips, definitions, calls, repeated calls and returns.
THEOREM ControlStaysInStep == Spec => []InStep
<1>1. LimitsInv /\ PlacesInv => InStep
  <2> SUFFICES ASSUME LimitsInv, PlacesInv, m.err = "none", m.ip < Len(Code(m)), ~jumped
               PROVE  m.ip \in Boundaries(Code(m))
    BY DEF InStep
  <2>1. OnInstruction(Code(m), m.ip)
    BY DEF PlacesInv, Placed
  <2>2. Len(Code(m)) \in Nat
    BY Coded, Elements DEF LimitsInv
  <2> QED BY <2>1, <2>2 DEF OnInstruction
<1> QED BY <1>1, PlacesInvariance, PTL
=============================================================================
