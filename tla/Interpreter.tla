---------------------------- MODULE Interpreter -----------------------------
(***************************************************************************)
(* The TrueType bytecode interpreter (src/src/tt/hinter): the font program *)
(* defines functions, the control value program prepares a size, and a     *)
(* glyph's program moves its points.  A program is a sequence of bytes;    *)
(* operands and opcodes share one alphabet, so what is an instruction      *)
(* depends on how control came there.                                      *)
(*                                                                         *)
(* The machine is the record m, one action per group of instructions.      *)
(* Vectors are parallel to an axis, the two scales are equal and integral: *)
(* programs that make other vectors are outside the model.                 *)
(***************************************************************************)
EXTENDS Fixed, SequencesExt

CONSTANTS
  Jobs,             \* programs and settings to run (see JobType)
  Ppem, PointSize, Scale,     \* the size in force
  InitialCvt,       \* the cvt table, in font units times Grid
  StorageSize, TwilightPoints, NumGlyphs,
  FunctionBudget, InstructionBudget,  \* max_function_defs, max_instruction_defs
  FunctionSlots,    \* MAX_FUNCTIONS, 256 in the code
  StackLimit,       \* stack_limit
  MaxCallDepth,     \* MAX_CALL_DEPTH, 10 in the code
  MaxSteps          \* MAX_VM_STEPS, 1000000 in the code

ASSUME InterpreterAssumption ==
  /\ {Ppem, PointSize, Scale, StorageSize, TwilightPoints, NumGlyphs,
      FunctionBudget, InstructionBudget, FunctionSlots, StackLimit,
      MaxCallDepth, MaxSteps} \subseteq Nat
  /\ InitialCvt \in Seq(Int)

VARIABLES
  job,       \* the program that is run and its settings
  phase,     \* whose code range started the run: fpgm, prep, glyph; or the end
  m,         \* ExecContext with the zone it works on
  prepared,  \* the context kept with the size after prep
  outcome,   \* HintOutcome of the glyph, or NoOutcome
  last,      \* ghost: the opcode of the last step
  clock,     \* ghost: how many steps were made
  jumped     \* ghost: a jump instruction was executed

vars == <<job, phase, m, prepared, outcome, last, clock, jumped>>

Byte == 0..255
Axis == {"x", "y"}
Unit == {<<1, 0>>, <<0, 1>>, <<-1, 0>>, <<0, -1>>}

\* A glyph: points with scaled and unscaled coordinates, the last four of them
\* phantoms, contour ends (indices count from 0) and the load's settings.
JobType(j) ==
  /\ j.fpgm \in Seq(Byte) /\ j.prep \in Seq(Byte) /\ j.glyph \in Seq(Byte)
  /\ j.points \in Seq([at : Int \X Int, raw : Int \X Int]) /\ Len(j.points) >= 4
  /\ j.contours \in Seq(Nat)
  /\ j.mode \in {"normal", "mono", "lcd", "lcdv"}
  /\ {j.pedantic, j.composite} \subseteq BOOLEAN

ASSUME JobsAssumption == \A j \in Jobs : JobType(j)

DefaultGS ==
  [proj |-> <<1, 0>>, dual |-> <<1, 0>>, free |-> <<1, 0>>,
   round |-> "grid", period |-> Grid, phase |-> 0, threshold |-> 0,
   autoFlip |-> TRUE, minDist |-> Grid, cutIn |-> Grid + Grid \div 16,
   widthCutIn |-> 0, width |-> 0, deltaBase |-> 9, deltaShift |-> 3,
   loop |-> 1, zp |-> <<1, 1, 1>>, rp |-> <<0, 0, 0>>,
   scan |-> FALSE, scanType |-> 0, control |-> {}]

\* A zone holds current, original and unscaled positions and the touched axes.
EmptyZone(n) ==
  [cur |-> [i \in 1..n |-> <<0, 0>>], org |-> [i \in 1..n |-> <<0, 0>>],
   orus |-> [i \in 1..n |-> <<0, 0>>], tag |-> [i \in 1..n |-> {}]]

\* Font program 1, control value program 0, glyph program 2, as in the code.
Fresh(pedantic) ==
  [stack |-> <<>>, ip |-> 0, range |-> 1, initial |-> 1, calls |-> <<>>,
   funs |-> [n \in {} |-> 0], idefs |-> [n \in {} |-> 0],
   storage |-> [i \in 1..StorageSize |-> 0], cvt |-> InitialCvt,
   gs |-> DefaultGS, twilight |-> EmptyZone(TwilightPoints),
   zone |-> EmptyZone(0), contours |-> <<>>,
   compat |-> FALSE, iups |-> {}, pedantic |-> pedantic, composite |-> FALSE,
   scale |-> Scale, steps |-> 0, back |-> 0, err |-> "none"]

Code(mm) == CASE mm.range = 0 -> job.prep
              [] mm.range = 1 -> job.fpgm
              [] OTHER -> job.glyph

Fail(mm, e) == [mm EXCEPT !.err = e]

-----------------------------------------------------------------------------
(* Decoding.  Offsets count from 0, sequences from 1.                      *)

\* Mutant: a skip takes the operands of push instructions for instructions.
NoOperandBytes(code, ip) == 0

\* skip_instruction_operands: bytes after the opcode at ip that a skip passes; an operand past the end is an overflow.
OperandBytes(code, ip) ==
  LET op == code[ip + 1]
      n == CASE op \in \hB0..\hB7 -> op - \hAF
             [] op \in \hB8..\hBF -> 2 * (op - \hB7)
             [] op \in {\h40, \h41} ->
                  IF ip + 1 < Len(code)
                  THEN 1 + code[ip + 2] * (op - \h3F) ELSE Len(code)
             [] OTHER -> 0
  IN n

Overruns(code, ip) == ip + 1 + OperandBytes(code, ip) > Len(code)
Following(code, ip) == ip + 1 + OperandBytes(code, ip)

\* Where a skip from ip comes to rest: after the EIF that closes the IF at this
\* depth, or after its ELSE when one is looked for; -1: the program ends first.
SkipTo(code, start, stopAtElse) ==
  LET scan[ip \in Nat] == [depth \in Nat \ {0} |->
        IF ip >= Len(code) THEN -1
        ELSE LET op == code[ip + 1] IN
          IF op = \h58 THEN scan[ip + 1][depth + 1]
          ELSE IF op = \h1B /\ depth = 1 /\ stopAtElse THEN ip + 1
          ELSE IF op = \h59 THEN (IF depth = 1 THEN ip + 1 ELSE scan[ip + 1][depth - 1])
          ELSE IF Overruns(code, ip) THEN -1
          ELSE scan[Following(code, ip)][depth]]
  IN scan[start][1]

\* Mutant: the search does not refuse a definition inside a definition.
FindEndfNested(code, start) ==
  LET scan[ip \in Nat] ==
        IF ip >= Len(code) THEN [at |-> 0, err |-> "Unterminated"]
        ELSE IF code[ip + 1] = \h2D THEN [at |-> ip, err |-> "none"]
        ELSE IF Overruns(code, ip) THEN [at |-> 0, err |-> "CodeOverflow"]
        ELSE scan[Following(code, ip)]
  IN scan[start]

\* Offset of the ENDF that ends a definition, or why there is none.
FindEndf(code, start) ==
  LET scan[ip \in Nat] ==
        IF ip >= Len(code) THEN [at |-> 0, err |-> "Unterminated"]
        ELSE LET op == code[ip + 1] IN
          IF op \in {\h2C, \h89} THEN [at |-> 0, err |-> "NestedDefs"]
          ELSE IF op = \h2D THEN [at |-> ip, err |-> "none"]
          ELSE IF Overruns(code, ip) THEN [at |-> 0, err |-> "CodeOverflow"]
          ELSE scan[Following(code, ip)]
  IN scan[start]

-----------------------------------------------------------------------------
(* The operand stack.  FIXED_POP_COUNT says how many operands an           *)
(* instruction needs; without pedantic hinting missing ones read as 0.     *)

PopCount == [op \in Byte |->
  CASE op = \h0F -> 5
    [] op = \h8A -> 3
    [] op \in \h06..\h0B \union {\h23, \h27, \h2A, \h3A, \h3B, \h3E, \h3F, \h42,
               \h44, \h48, \h49, \h5A, \h5B, \h70, \h78, \h79, \h81, \h82, \h86,
               \h87, \h8B, \h8C, \h8E} \union \h50..\h55 \union \h60..\h63
               \union \hE0..\hFF -> 2
    [] op \in \h10..\h17 \union \h1C..\h21 \union \h34..\h38 \union \h45..\h47
               \union \h56..\h58 \union \h5C..\h5F \union \h64..\h6F
               \union \h71..\h77 \union \hC0..\hDF
               \union {\h1A, \h25, \h26, \h29, \h2B, \h2C, \h2E, \h2F, \h43,
                       \h4F, \h7E, \h7F, \h85, \h88, \h89, \h8D} -> 1
    [] OTHER -> 0]

Prepare(mm, op) ==
  IF Len(mm.stack) >= PopCount[op] THEN mm
  ELSE IF mm.pedantic THEN Fail(mm, "TooFewArguments")
  ELSE [mm EXCEPT !.stack = [i \in 1..PopCount[op] |-> 0]]

\* The n-th operand from the top.
Arg(mm, n) ==
  IF n <= Len(mm.stack) THEN mm.stack[Len(mm.stack) - n + 1] ELSE 0

Drop(mm, n) ==
  IF n > Len(mm.stack) /\ mm.pedantic THEN Fail(mm, "TooFewArguments")
  ELSE [mm EXCEPT !.stack = IF n >= Len(@) THEN <<>> ELSE SubSeq(@, 1, Len(@) - n)]

Push(mm, v) == [mm EXCEPT !.stack = Append(@, v)]
Replace(mm, n, v) == Push(Drop(mm, n), v)
Truth(b) == IF b THEN 1 ELSE 0
Bit(v, k) == (v \div k) % 2 = 1
LowByte(v) == v % 256
LowWord(v) == v % 65536

\* The operands of a push instruction: how many, how wide, from which offset.
PushSpan(code, ip) ==
  LET op == code[ip + 1]
  IN CASE op \in \hB0..\hB7 -> [from |-> ip + 1, count |-> op - \hB0 + 1, width |-> 1]
       [] op \in \hB8..\hBF -> [from |-> ip + 1, count |-> op - \hB8 + 1, width |-> 2]
       [] OTHER ->
            [from |-> ip + 2, width |-> op - \h3F,
             count |-> IF ip + 1 < Len(code) THEN code[ip + 2] ELSE Len(code)]

PushEnd(code, ip) ==
  LET s == PushSpan(code, ip) IN s.from + s.count * s.width

Word(code, at) ==
  LET w == 256 * code[at + 1] + code[at + 2]
  IN IF w >= 32768 THEN w - 65536 ELSE w

Pushed(code, ip) ==
  LET s == PushSpan(code, ip)
  IN [i \in 1..s.count |->
        IF s.width = 2 THEN Word(code, s.from + 2 * (i - 1)) ELSE code[s.from + i]]

PushOps == {\h40, \h41} \union \hB0..\hBF
DoPush(mm, op) ==
  LET code == Code(mm)
      end == PushEnd(code, mm.ip - 1)
  IN IF end > Len(code) THEN Fail(mm, "CodeOverflow")
     ELSE [mm EXCEPT !.stack = @ \o Pushed(code, mm.ip - 1), !.ip = end]

StackOps == \h20..\h26 \union {\h8A}
DoStack(mm, op) ==
  LET s == mm.stack
      k == Arg(mm, 1)
      rest == Drop(mm, 1)
      n == Len(rest.stack)
      inside == k \in 1..n
  IN CASE op = \h20 -> Push(mm, k)                                  \* DUP
       [] op = \h21 -> rest                                         \* POP
       [] op = \h22 -> [mm EXCEPT !.stack = <<>>]                   \* CLEAR
       [] op = \h23 -> Push(Push(Drop(mm, 2), k), Arg(mm, 2))       \* SWAP
       [] op = \h24 -> Push(mm, Len(s))                             \* DEPTH
       [] op = \h25 -> Push(rest, IF inside THEN rest.stack[n - k + 1] ELSE 0)
       [] op = \h26 -> IF inside                                    \* MINDEX
                       THEN [rest EXCEPT !.stack = Append(RemoveAt(@, n - k + 1), @[n - k + 1])]
                       ELSE rest
       [] OTHER -> Push(Push(Push(Drop(mm, 3), Arg(mm, 2)), k), Arg(mm, 3))    \* ROLL

-----------------------------------------------------------------------------
(* Arithmetic, comparisons and rounding.                                   *)

\* Rounds the magnitude with op and gives the sign back.
Mirrored(Op(_), v) == IF v >= 0 THEN Op(v) ELSE -Op(-v)

GridPeriod == 256 * Grid
DiagonalPeriod == (GridPeriod * 7071) \div 10000

\* SROUND and S45ROUND: period, phase and threshold from the selector, in units
\* of 1/256 of the grid period; the grid period of S45ROUND is sqrt(2)/2.
SetSuper(gs, gridPeriod, selector) ==
  LET period == CASE (selector \div 64) % 4 = 0 -> gridPeriod \div 2
                  [] (selector \div 64) % 4 = 2 -> gridPeriod * 2
                  [] OTHER -> gridPeriod
      phs == (period * ((selector \div 16) % 4)) \div 4
      low == selector % 16
      threshold == IF low = 0 THEN period - 1 ELSE Quot((low - 4) * period, 8)
      full == period \div 256
  IN [gs EXCEPT !.period = IF full > 1 THEN full ELSE 1, !.phase = phs \div 256,
                !.threshold = threshold \div 256]

\* Down to a multiple of the period; a period of 45 degrees truncates.
ToPeriod(gs, v) ==
  IF gs.round = "super" THEN gs.period * (v \div gs.period)
  ELSE gs.period * Quot(v, gs.period)

RoundSuper(gs, v) ==
  IF v >= 0
  THEN LET r == ToPeriod(gs, v + gs.threshold - gs.phase) + gs.phase
       IN IF r < 0 THEN gs.phase ELSE r
  ELSE LET r == -ToPeriod(gs, gs.threshold - gs.phase - v) - gs.phase
       IN IF r > 0 THEN -gs.phase ELSE r

Round(gs, v) ==
  LET HalfPix(a) == PixFloor(a) + Grid \div 2
      DoublePix(a) == (Grid \div 2) * ((a + Grid \div 4) \div (Grid \div 2))
  IN CASE gs.round = "grid" -> Mirrored(PixRound, v)
       [] gs.round = "half" -> Mirrored(HalfPix, v)
       [] gs.round = "double" -> Mirrored(DoublePix, v)
       [] gs.round = "down" -> Mirrored(PixFloor, v)
       [] gs.round = "up" -> Mirrored(PixCeil, v)
       [] gs.round = "off" -> v
       [] gs.round \in {"super", "super45"} -> RoundSuper(gs, v)

ArithmeticOps == \h60..\h6F \union \h50..\h57 \union {\h5A, \h5B, \h5C, \h8B, \h8C}
DoArithmetic(mm, op) ==
  LET b == Arg(mm, 1)
      a == Arg(mm, 2)
      two == CASE op = \h60 -> a + b
               [] op = \h61 -> a - b
               [] op = \h62 -> MulDivNoRound(a, Grid, b)
               [] op = \h63 -> MulDiv(a, b, Grid)
               [] op = \h50 -> Truth(a < b)
               [] op = \h51 -> Truth(a <= b)
               [] op = \h52 -> Truth(a > b)
               [] op = \h53 -> Truth(a >= b)
               [] op = \h54 -> Truth(a = b)
               [] op = \h55 -> Truth(a # b)
               [] op = \h5A -> Truth(a # 0 /\ b # 0)
               [] op = \h5B -> Truth(a # 0 \/ b # 0)
               [] op = \h8B -> IF a > b THEN a ELSE b
               [] op = \h8C -> IF a < b THEN a ELSE b
      one == CASE op = \h64 -> Abs(b)
               [] op = \h65 -> -b
               [] op = \h66 -> PixFloor(b)
               [] op = \h67 -> PixCeil(b)
               [] op \in \h68..\h6B -> Round(mm.gs, b)
               [] op \in \h6C..\h6F -> b
               [] op = \h56 -> Truth(Bit(Round(mm.gs, b), Grid))
               [] op = \h57 -> Truth(~Bit(Round(mm.gs, b), Grid))
               [] op = \h5C -> Truth(b = 0)
  IN IF op = \h62 /\ b = 0 THEN Fail(mm, "DivideByZero")
     ELSE IF op \in \h60..\h63 \union \h50..\h55 \union {\h5A, \h5B, \h8B, \h8C}
     THEN Replace(mm, 2, two) ELSE Replace(mm, 1, one)

-----------------------------------------------------------------------------
(* Storage and the control value table.  An index outside is 0 or ignored, *)
(* and an error with pedantic hinting.                                     *)

Inside(s, i) == i >= 0 /\ i < Len(s)
Refuse(mm) == IF mm.pedantic THEN Fail(mm, "InvalidReference") ELSE mm
SafeGet(s, i) == IF Inside(s, i) THEN s[i + 1] ELSE 0

ReadFrom(mm, s) ==
  LET read == Replace(mm, 1, SafeGet(s, Arg(mm, 1)))
  IN IF Inside(s, Arg(mm, 1)) THEN read ELSE Refuse(read)

SetCvt(mm, i, v) ==
  IF Inside(mm.cvt, i) THEN [mm EXCEPT !.cvt[i + 1] = v] ELSE Refuse(mm)

\* DELTAP and DELTAC: how many of the pairs on the stack a count selects, the
\* pairs, the machine without them, the step of a pair at this size, and the
\* distance of this size from the range of the opcode.
DeltaPairs(mm) ==
  LET most == Len(Drop(mm, 1).stack) \div 2
      n == Arg(mm, 1)
  IN IF n \in 0..most THEN n ELSE most

Deltas(mm) ==
  LET rest == Drop(mm, 1)
  IN [k \in 1..DeltaPairs(mm) |-> <<Arg(rest, 2 * k - 1), Arg(rest, 2 * k)>>]

WithoutDeltas(mm) == Drop(Drop(mm, 1), 2 * DeltaPairs(mm))

DeltaRange(mm, first) == Ppem - mm.gs.deltaBase - first

DeltaStep(mm, b) ==
  LET d == (b % 16) - 8
      f == IF mm.gs.deltaShift \in 0..6 THEN Grid \div 2^mm.gs.deltaShift ELSE 0
  IN f * (IF d >= 0 THEN d + 1 ELSE d)

\* The points and control values of changed, when the opcode is about this size.
ForDeltas(mm, first, changed) ==
  LET done == WithoutDeltas(mm)
  IN IF DeltaRange(mm, first) \in 0..15
     THEN [done EXCEPT !.zone = changed.zone, !.cvt = changed.cvt, !.err = changed.err]
     ELSE done

ShiftedCvt(mm, first) ==
  LET Change(acc, d) ==
        IF acc.err # "none" THEN acc
        ELSE IF ~Inside(acc.cvt, d[1]) THEN Refuse(acc)
        ELSE IF (d[2] \div 16) % 16 # DeltaRange(mm, first) THEN acc
        ELSE [acc EXCEPT !.cvt[d[1] + 1] = @ + DeltaStep(mm, d[2])]
  IN FoldLeft(Change, WithoutDeltas(mm), Deltas(mm))

DeltaC(mm, first) == ForDeltas(mm, first, ShiftedCvt(mm, first))

MemoryOps == \h42..\h45 \union {\h70} \union \h73..\h75
DoMemory(mm, op) ==
  LET v == Arg(mm, 1)
      i == Arg(mm, 2)
      rest == Drop(mm, 2)
  IN CASE op = \h42 -> IF Inside(mm.storage, i)
                       THEN [rest EXCEPT !.storage[i + 1] = v] ELSE Refuse(rest)
       [] op = \h43 -> ReadFrom(mm, mm.storage)
       [] op = \h44 -> SetCvt(rest, i, v)
       [] op = \h45 -> ReadFrom(mm, mm.cvt)
       [] op = \h70 -> SetCvt(rest, i, v * Scale)
       [] OTHER -> DeltaC(mm, 16 * (op - \h73))

-----------------------------------------------------------------------------
(* Points.  Zone 0 is the twilight zone, any other the glyph's.            *)

ZoneOf(mm, zp) == IF zp = 0 THEN mm.twilight ELSE mm.zone
Points(mm, zp) == Len(ZoneOf(mm, zp).cur)
At(mm, zp, kind, p) ==
  LET s == ZoneOf(mm, zp)[kind] IN IF Inside(s, p) THEN s[p + 1] ELSE <<0, 0>>
Cur(mm, zp, p) == At(mm, zp, "cur", p)
Org(mm, zp, p) == At(mm, zp, "org", p)
Orus(mm, zp, p) == At(mm, zp, "orus", p)

Plus(a, b) == <<a[1] + b[1], a[2] + b[2]>>
Minus(a, b) == <<a[1] - b[1], a[2] - b[2]>>
Times(v, d) == <<v[1] * d, v[2] * d>>
Dot(a, b) == a[1] * b[1] + a[2] * b[2]

\* compute_move_vector: so far along the freedom vector that the projection
\* changes by one; nowhere when the two are perpendicular.
MoveVector(gs) == Times(gs.free, Dot(gs.free, gs.proj))
Along(gs, d) == Times(MoveVector(gs), d)

\* Mutant: compatibility mode does not hold the x coordinate.
CompatIgnored(mm, old, new) == new

\* In compatibility mode instructions do not move points along x, and along y
\* only until both IUP instructions ran.
Compat(mm, old, new) ==
  LET mv == MoveVector(mm.gs)
  IN IF ~mm.compat THEN new
     ELSE <<IF mv[1] # 0 THEN old[1] ELSE new[1],
            IF mv[2] # 0 /\ mm.iups = Axis THEN old[2] ELSE new[2]>>

SetCur(mm, zp, p, xy) ==
  IF ~Inside(ZoneOf(mm, zp).cur, p) THEN mm
  ELSE IF zp = 0 THEN [mm EXCEPT !.twilight.cur[p + 1] = xy]
  ELSE [mm EXCEPT !.zone.cur[p + 1] = Compat(mm, @, xy)]

SetOrg(mm, zp, p, xy) ==
  IF ~Inside(ZoneOf(mm, zp).org, p) THEN mm
  ELSE IF zp = 0 THEN [mm EXCEPT !.twilight.org[p + 1] = xy]
  ELSE [mm EXCEPT !.zone.org[p + 1] = xy]

FreeAxes(gs) == {a \in Axis : gs.free[IF a = "x" THEN 1 ELSE 2] # 0}

SetTags(mm, zp, p, tags) ==
  IF ~Inside(ZoneOf(mm, zp).tag, p) THEN mm
  ELSE IF zp = 0 THEN [mm EXCEPT !.twilight.tag[p + 1] = tags]
  ELSE [mm EXCEPT !.zone.tag[p + 1] = tags]

TagIn(mm, zp, p) ==
  LET t == ZoneOf(mm, zp).tag IN IF Inside(t, p) THEN t[p + 1] ELSE {}
Touch(mm, zp, p) == SetTags(mm, zp, p, TagIn(mm, zp, p) \union FreeAxes(mm.gs))
Untouch(mm, zp, p) == SetTags(mm, zp, p, TagIn(mm, zp, p) \ FreeAxes(mm.gs))

\* Mutant: the point is moved and not touched.
ShiftUntouched(mm, zp, p, d) == SetCur(mm, zp, p, Plus(Cur(mm, zp, p), Along(mm.gs, d)))

\* Moves a point so that its projection changes by d, and touches it.
Shift(mm, zp, p, d) ==
  Touch(SetCur(mm, zp, p, Plus(Cur(mm, zp, p), Along(mm.gs, d))), zp, p)

\* The unscaled distance of two points along the dual projection, scaled; in
\* the twilight zone the original positions count.
OriginalDistance(mm, zq, q, zp, p) ==
  IF zq = 0 \/ zp = 0 THEN Dot(Minus(Org(mm, zp, p), Org(mm, zq, q)), mm.gs.dual)
  ELSE mm.scale * Dot(Minus(Orus(mm, zp, p), Orus(mm, zq, q)), mm.gs.dual)

Endless == -1

\* ALIGNRP and SHP cast the loop counter to usize: a negative one is almost
\* 2^64 iterations, none of which counts as a step.
UnsignedRepeats(mm) == IF mm.gs.loop \in Nat THEN mm.gs.loop ELSE Endless

\* IP, SHPIX and FLIPPT iterate over a range of i32, which is then empty.
Repeats(mm) == IF mm.gs.loop \in Nat THEN mm.gs.loop ELSE 0

\* The n points a loop is for, the topmost first.
Operands(mm, n) == [k \in 1..n |-> Arg(mm, k)]

\* Takes n points from the stack, where they are in moved, and resets the loop
\* counter.
LoopPoints(mm, n, moved) ==
  LET done == Drop(mm, n)
  IN IF n = Endless
     THEN Fail(mm, IF mm.pedantic THEN "TooFewArguments" ELSE "Spinning")
     ELSE IF done.err # "none" THEN done
     ELSE [done EXCEPT !.zone = moved.zone, !.twilight = moved.twilight,
                       !.err = moved.err, !.gs.loop = 1]

SetRp(mm, rp0, rp1, rp2) == [mm EXCEPT !.gs.rp = <<rp0, rp1, rp2>>]

\* A distance no smaller than the minimum distance, with the sign of reference.
AtLeast(gs, reference, d) ==
  IF reference >= 0 THEN (IF d < gs.minDist THEN gs.minDist ELSE d)
  ELSE IF d > -gs.minDist THEN -gs.minDist ELSE d

SingleWidth(gs, d) == IF d >= 0 THEN gs.width ELSE -gs.width

\* MD, GC, SCFS.
MeasureOps == \h46..\h4A
DoMeasure(mm, op) ==
  LET p == Arg(mm, 1)
      q == Arg(mm, 2)
      zp == mm.gs.zp
      gc == IF op = \h46 THEN Dot(Cur(mm, zp[3], p), mm.gs.proj)
            ELSE Dot(Org(mm, zp[3], p), mm.gs.dual)
      md == IF op = \h49
            THEN Dot(Minus(Cur(mm, zp[1], q), Cur(mm, zp[2], p)), mm.gs.proj)
            ELSE OriginalDistance(mm, zp[2], p, zp[1], q)
      rest == Drop(mm, 2)
      moved == Shift(rest, zp[3], q, p - Dot(Cur(mm, zp[3], q), mm.gs.proj))
  IN CASE op \in {\h46, \h47} -> Replace(mm, 1, gc)
       [] op \in {\h49, \h4A} -> Replace(mm, 2, md)
       [] OTHER ->                                                  \* SCFS
            IF q \notin 0..(Points(mm, zp[3]) - 1) THEN Refuse(rest)
            ELSE IF zp[3] = 0 THEN SetOrg(moved, 0, q, Cur(moved, 0, q)) ELSE moved

\* MDAP and MIAP: a point to an absolute place, rounded when the opcode is odd.
AbsoluteOps == {\h2E, \h2F, \h3E, \h3F}
MoveAbsolute(mm, op) ==
  LET zp == mm.gs.zp[1]
      indirect == op \in {\h3E, \h3F}
      p == Arg(mm, IF indirect THEN 2 ELSE 1)
      rest == Drop(mm, IF indirect THEN 2 ELSE 1)
      value == SafeGet(mm.cvt, Arg(mm, 1))
      placed == IF indirect /\ zp = 0
                THEN LET xy == Times(mm.gs.free, value)
                     IN SetCur(SetOrg(rest, 0, p, xy), 0, p, xy)
                ELSE rest
      here == Dot(Cur(placed, zp, p), mm.gs.proj)
      near == IF Abs(value - here) > mm.gs.cutIn THEN here ELSE value
      target == CASE op = \h2E -> here
                  [] op = \h2F -> Round(mm.gs, here)
                  [] op = \h3E -> value
                  [] op = \h3F -> Round(mm.gs, near)
  IN IF indirect /\ ~Inside(mm.cvt, Arg(mm, 1)) /\ mm.pedantic
     THEN Fail(mm, "InvalidReference")
     ELSE SetRp(Shift(placed, zp, p, target - here), p, p, mm.gs.rp[3])

\* MDRP and MIRP: a point to a distance from rp0.  Bits of the opcode: 4 rounds
\* and respects the cut-in, 8 keeps the minimum distance, 16 sets rp0.
RelativeOps == \hC0..\hFF
MoveRelative(mm, op) ==
  LET gs == mm.gs
      zq == gs.zp[1]
      zp == gs.zp[2]
      q == gs.rp[1]
      indirect == op \in \hE0..\hFF
      p == Arg(mm, IF indirect THEN 2 ELSE 1)
      entry == Arg(mm, 1)
      rest == Drop(mm, IF indirect THEN 2 ELSE 1)
      direct == OriginalDistance(mm, zq, q, zp, p)
      nearWidth == gs.widthCutIn > 0 /\ Abs(direct - gs.width) < gs.widthCutIn
      read == SafeGet(mm.cvt, entry)
      value == IF Abs(read - gs.width) < gs.widthCutIn THEN SingleWidth(gs, read) ELSE read
      placed == IF indirect /\ zp = 0
                THEN LET xy == Plus(Org(mm, zq, q), Along(gs, value))
                     IN SetCur(SetOrg(rest, 0, p, xy), 0, p, xy)
                ELSE rest
      org == IF indirect THEN Dot(Minus(Org(placed, zp, p), Org(placed, zq, q)), gs.dual)
             ELSE IF nearWidth THEN SingleWidth(gs, direct) ELSE direct
      flipped == IF gs.autoFlip /\ (org < 0) # (value < 0) THEN -value ELSE value
      cut == IF Bit(op, 4) /\ zq = zp /\ Abs(flipped - org) > gs.cutIn THEN org ELSE flipped
      wanted == IF indirect THEN cut ELSE org
      rounded == IF Bit(op, 4) THEN Round(gs, wanted) ELSE wanted
      distance == IF Bit(op, 8) THEN AtLeast(gs, org, rounded) ELSE rounded
      now == Dot(Minus(Cur(placed, zp, p), Cur(placed, zq, q)), gs.proj)
  IN IF indirect /\ entry >= Len(mm.cvt) /\ mm.pedantic THEN Fail(mm, "InvalidReference")
     ELSE SetRp(Shift(placed, zp, p, distance - now), IF Bit(op, 16) THEN p ELSE q, q, p)

\* MSIRP: as MIRP with the distance from the stack.
MoveStackRelative(mm, op) ==
  LET zq == mm.gs.zp[1]
      zp == mm.gs.zp[2]
      q == mm.gs.rp[1]
      p == Arg(mm, 2)
      xy == Plus(Org(mm, zq, q), Times(mm.gs.free, Arg(mm, 1)))
      rest == Drop(mm, 2)
      placed == IF zp = 0 THEN SetCur(SetOrg(rest, 0, p, xy), 0, p, xy) ELSE rest
      now == Dot(Minus(Cur(placed, zp, p), Cur(placed, zq, q)), mm.gs.proj)
  IN SetRp(Shift(placed, zp, p, Arg(mm, 1) - now), IF op = \h3B THEN p ELSE q, q, p)

\* The displacement of the reference point of SHP, SHC and SHZ.
Displacement(mm, op) ==
  LET zr == mm.gs.zp[IF op % 2 = 1 THEN 1 ELSE 2]
      r == mm.gs.rp[IF op % 2 = 1 THEN 2 ELSE 3]
  IN [zone |-> zr, point |-> r, valid |-> Inside(ZoneOf(mm, zr).cur, r),
      by |-> Dot(Minus(Cur(mm, zr, r), Org(mm, zr, r)), mm.gs.proj)]

\* SHC, SHZ: the points ps but not the reference point itself.
ShiftedAll(mm, ps, d, touches) ==
  LET zp == mm.gs.zp[3]
      Move(acc, p) ==
        IF zp = d.zone /\ p = d.point THEN acc
        ELSE IF touches THEN Shift(acc, zp, p, d.by)
        ELSE SetCur(acc, zp, p, Plus(Cur(acc, zp, p), Along(mm.gs, d.by)))
  IN FoldSet(LAMBDA p, acc : Move(acc, p), mm, ps)

ShiftAll(mm, ps, d, touches) ==
  LET shifted == ShiftedAll(mm, ps, d, touches)
  IN [mm EXCEPT !.zone = shifted.zone, !.twilight = shifted.twilight]

\* SHP
ShiftedPoints(mm, d) ==
  LET zp == mm.gs.zp[3]
      n == UnsignedRepeats(mm)
      Move(acc, p) ==
        IF acc.pedantic /\ ~Inside(ZoneOf(acc, zp).cur, p)
        THEN Fail(acc, "InvalidReference") ELSE Shift(acc, zp, p, d.by)
  IN FoldLeft(Move, Drop(mm, n), Operands(mm, n))

ShiftOps == \h32..\h37
DoShift(mm, op) ==
  LET d == Displacement(mm, op)
      zp == mm.gs.zp[3]
      rest == IF op \in {\h32, \h33} THEN mm ELSE Drop(mm, 1)
      c == Arg(mm, 1)
      contour == (IF c = 0 THEN 0 ELSE mm.contours[c] + 1)..mm.contours[c + 1]
      all == 0..(CASE zp = 0 -> Points(mm, 0) - 1
                   [] mm.contours # <<>> -> Points(mm, 1) - 5
                   [] OTHER -> -1)
  IN IF op \in {\h34, \h35} /\ ~Inside(mm.contours, c) THEN rest
     ELSE IF ~d.valid THEN Refuse(rest)
     ELSE CASE op \in {\h32, \h33} ->
                 LoopPoints(rest, UnsignedRepeats(rest), ShiftedPoints(rest, d))
            [] op \in {\h34, \h35} -> ShiftAll(rest, contour, d, TRUE)
            [] OTHER -> ShiftAll(rest, all, d, FALSE)

\* SHPIX: points by a distance of the stack along the freedom vector.
PixelShifted(mm, distance) ==
  LET gs == mm.gs
      by == Times(gs.free, distance)
      zp == gs.zp[3]
      n == Repeats(mm)
      Allowed(acc, p) ==
        \/ ~acc.compat
        \/ 0 \in ToSet(gs.zp)
        \/ acc.iups # Axis /\ (\/ acc.composite /\ gs.free[2] # 0
                               \/ "y" \in TagIn(acc, zp, p))
      Move(acc, p) ==
        IF Allowed(acc, p)
        THEN Touch(SetCur(acc, zp, p, Plus(Cur(acc, zp, p),
                          <<IF acc.compat THEN 0 ELSE by[1], by[2]>>)), zp, p)
        ELSE acc
  IN FoldLeft(Move, Drop(mm, n), Operands(mm, n))

SHPIX(mm) ==
  LET rest == Drop(mm, 1)
  IN LoopPoints(rest, Repeats(rest), PixelShifted(rest, Arg(mm, 1)))

Aligned(mm) ==
  LET zp == mm.gs.zp[2]
      n == UnsignedRepeats(mm)
      ref == Cur(mm, mm.gs.zp[1], mm.gs.rp[1])
      Move(acc, p) == Shift(acc, zp, p, -Dot(Minus(Cur(acc, zp, p), ref), mm.gs.proj))
  IN FoldLeft(Move, Drop(mm, n), Operands(mm, n))

ALIGNRP(mm) == LoopPoints(mm, UnsignedRepeats(mm), Aligned(mm))

ALIGNPTS(mm) ==
  LET p1 == Arg(mm, 1)
      p2 == Arg(mm, 2)
      z1 == mm.gs.zp[2]
      z2 == mm.gs.zp[1]
      half == Quot(Dot(Minus(Cur(mm, z2, p2), Cur(mm, z1, p1)), mm.gs.proj), 2)
      second == Plus(Cur(mm, z2, p2), Along(mm.gs, -half))
      first == SetCur(Drop(mm, 2), z1, p1, Plus(Cur(mm, z1, p1), Along(mm.gs, half)))
  IN Touch(Touch(SetCur(first, z2, p2, second), z1, p1), z2, p2)

\* IP: a point keeps its place between rp1 and rp2.
Interpolated(mm) ==
  LET gs == mm.gs
      n == Repeats(mm)
      kind == IF 0 \in ToSet(gs.zp) THEN "org" ELSE "orus"
      base == At(mm, gs.zp[1], kind, gs.rp[2])
      from == Cur(mm, gs.zp[1], gs.rp[2])
      old == Dot(Minus(At(mm, gs.zp[2], kind, gs.rp[3]), base), gs.dual)
      new == Dot(Minus(Cur(mm, gs.zp[2], gs.rp[3]), from), gs.proj)
      Move(acc, p) ==
        LET was == Dot(Minus(At(acc, gs.zp[3], kind, p), base), gs.dual)
            is == Dot(Minus(Cur(acc, gs.zp[3], p), from), gs.proj)
            to == IF was = 0 THEN 0 ELSE IF old = 0 THEN was ELSE MulDiv(was, new, old)
        IN Shift(acc, gs.zp[3], p, to - is)
  IN FoldLeft(Move, Drop(mm, n), Operands(mm, n))

IP(mm) == LoopPoints(mm, Repeats(mm), Interpolated(mm))

\* ISECT: to the crossing of two lines, or the middle of their ends when they
\* are almost parallel.  It writes the point without asking the compatibility mode.
ISECT(mm) ==
  LET z == mm.gs.zp
      p == Arg(mm, 5)
      rest == Drop(mm, 5)
      known == /\ {Arg(mm, 1), Arg(mm, 2)} \subseteq 0..(Points(mm, z[1]) - 1)
               /\ {Arg(mm, 3), Arg(mm, 4)} \subseteq 0..(Points(mm, z[2]) - 1)
               /\ p \in 0..(Points(mm, z[3]) - 1)
      b0 == Cur(mm, z[1], Arg(mm, 2))
      b1 == Cur(mm, z[1], Arg(mm, 1))
      a0 == Cur(mm, z[2], Arg(mm, 4))
      a1 == Cur(mm, z[2], Arg(mm, 3))
      db == Minus(b1, b0)
      da == Minus(a1, a0)
      Cross(u, v) == MulDiv(u[1], -v[2], Grid) + MulDiv(u[2], v[1], Grid)
      discriminant == Cross(da, db)
      dot == MulDiv(da[1], db[1], Grid) + MulDiv(da[2], db[2], Grid)
      val == Cross(Minus(b0, a0), db)
      middle == Plus(Plus(a0, a1), Plus(b0, b1))
      xy == IF 19 * Abs(discriminant) > Abs(dot)
            THEN Plus(a0, <<MulDiv(val, da[1], discriminant), MulDiv(val, da[2], discriminant)>>)
            ELSE <<Quot(middle[1], 4), Quot(middle[2], 4)>>
  IN IF ~known THEN rest
     ELSE SetTags(IF z[3] = 0 THEN [rest EXCEPT !.twilight.cur[p + 1] = xy]
                  ELSE [rest EXCEPT !.zone.cur[p + 1] = xy], z[3], p, Axis)

DeltaShifted(mm, first) ==
  LET Move(acc, d) ==
        IF /\ acc.err = "none" /\ Inside(acc.zone.cur, d[1])
           /\ (d[2] \div 16) % 16 = DeltaRange(mm, first)
           /\ \/ ~acc.compat
              \/ acc.iups # Axis /\ (\/ acc.composite /\ acc.gs.free[2] # 0
                                     \/ "y" \in acc.zone.tag[d[1] + 1])
        THEN Shift(acc, 1, d[1], DeltaStep(mm, d[2])) ELSE acc
  IN FoldLeft(Move, WithoutDeltas(mm), Deltas(mm))

DELTAP(mm, first) == ForDeltas(mm, first, DeltaShifted(mm, first))

-----------------------------------------------------------------------------
(* IUP: the points between two touched ones of a contour follow them.      *)

\* iup.rs, seg: the new coordinate k of point i between two references.
Interpolate(z, k, i, r1, r2) ==
  LET swap == z.orus[r1][k] > z.orus[r2][k]
      ra == IF swap THEN r2 ELSE r1
      rb == IF swap THEN r1 ELSE r2
      x == z.org[i][k]
      c1 == z.cur[ra][k]
      c2 == z.cur[rb][k]
      o1 == z.orus[ra][k]
      o2 == z.orus[rb][k]
  IN CASE x <= z.org[ra][k] -> x + c1 - z.org[ra][k]
       [] x > z.org[ra][k] /\ x >= z.org[rb][k] -> x + c2 - z.org[rb][k]
       [] OTHER -> IF c1 = c2 \/ o1 = o2 THEN c1
                   ELSE c1 + MulFix(z.orus[i][k] - o1, DivFix(c2 - c1, o2 - o1))

\* iup_impl on the contour of the points first..end: one touched point takes all
\* others along, between several each point follows its neighbours on the ring.
IupContour(z, axis, first, end) ==
  LET k == IF axis = "x" THEN 1 ELSE 2
      ring == first..end
      touched == {p \in ring : axis \in z.tag[p]}
      Before(i) == LET b == {p \in touched : p < i}
                   IN IF b # {} THEN Max(b) ELSE Max(touched)
      After(i) == LET a == {p \in touched : p > i}
                  IN IF a # {} THEN Min(a) ELSE Min(touched)
      only == Min(touched)
      At2(i) == IF touched = {} \/ i \notin ring \/ i \in touched THEN z.cur[i][k]
                ELSE IF touched = {only} THEN z.cur[i][k] + z.cur[only][k] - z.org[only][k]
                ELSE Interpolate(z, k, i, Before(i), After(i))
  IN [z EXCEPT !.cur = [i \in DOMAIN @ |-> [@[i] EXCEPT ![k] = At2(i)]]]

\* In compatibility mode IUP ends the work on an outline when both directions ran.
IupDone(mm) == mm.compat /\ mm.iups = Axis

IupZone(mm, axis) ==
  LET Contour(z, c) ==
        IupContour(z, axis, IF c = 1 THEN 1 ELSE mm.contours[c - 1] + 2, mm.contours[c] + 1)
  IN FoldLeft(Contour, mm.zone, [c \in 1..Len(mm.contours) |-> c])

IUP(mm, axis) ==
  IF IupDone(mm) THEN mm
  ELSE [mm EXCEPT !.zone = IupZone(mm, axis),
                  !.iups = IF mm.compat THEN @ \union {axis} ELSE @]

\* FLIPPT
Flipped(mm) ==
  LET n == Repeats(mm)
      Flip(acc, p) == Touch(acc, 1, p)
  IN FoldLeft(Flip, Drop(mm, n), Operands(mm, n))

PointOps == AbsoluteOps \union RelativeOps \union ShiftOps
              \union {\h0F, \h27, \h29, \h30, \h31, \h38, \h39, \h3A, \h3B, \h3C, \h5D,
                      \h71, \h72, \h80, \h81, \h82}
DoPoint(mm, op) ==
  LET zp0 == mm.gs.zp[1]
      p == Arg(mm, 1)
  IN CASE op \in AbsoluteOps -> MoveAbsolute(mm, op)
       [] op \in RelativeOps -> MoveRelative(mm, op)
       [] op \in ShiftOps -> DoShift(mm, op)
       [] op \in {\h3A, \h3B} -> MoveStackRelative(mm, op)
       [] op = \h0F -> ISECT(mm)
       [] op = \h27 -> ALIGNPTS(mm)
       [] op = \h29 -> IF mm.pedantic /\ ~Inside(ZoneOf(mm, zp0).cur, p)
                       THEN Fail(mm, "InvalidReference")
                       ELSE Untouch(Drop(mm, 1), zp0, p)                   \* UTP
       [] op = \h30 -> IUP(mm, "y")
       [] op = \h31 -> IUP(mm, "x")
       [] op = \h38 -> SHPIX(mm)
       [] op = \h39 -> IP(mm)
       [] op = \h3C -> ALIGNRP(mm)
       [] op = \h5D -> DELTAP(mm, 0)
       [] op \in {\h71, \h72} -> DELTAP(mm, 16 * (op - \h70))
       [] op = \h80 -> LoopPoints(mm, Repeats(mm), Flipped(mm))
       [] OTHER -> Drop(mm, 2)                                  \* FLIPRGON, FLIPRGOFF

-----------------------------------------------------------------------------
(* The graphics state.                                                     *)

\* The axis a vector lies on: normalisation of vectors parallel to one.
Axial(v, default) ==
  CASE v = <<0, 0>> -> default
    [] v[1] = 0 /\ v[2] # 0 -> <<0, Sign(v[2])>>
    [] v[1] # 0 -> <<Sign(v[1]), 0>>

\* line_vector: along the line, or a quarter turn from it when the opcode is odd.
LineVector(d, op) == Axial(IF op % 2 = 1 THEN <<-d[2], d[1]>> ELSE d, <<1, 0>>)

UnitLength == 16384     \* 1 as 2.14

VectorOps == \h00..\h0E \union {\h86, \h87}
DoVector(mm, op) ==
  LET gs == mm.gs
      axis == IF op % 2 = 0 THEN <<0, 1>> ELSE <<1, 0>>
      line == LineVector(Minus(Cur(mm, gs.zp[2], Arg(mm, 1)), Cur(mm, gs.zp[3], Arg(mm, 2))), op)
      given == <<Arg(mm, 2), Arg(mm, 1)>>
      original == LineVector(Minus(Org(mm, 1, Arg(mm, 1)), Org(mm, 1, Arg(mm, 2))), op)
      rest == Drop(mm, 2)
      Both(x, v) == [x EXCEPT !.gs.proj = v, !.gs.dual = v]
      PushVector(v) == Push(Push(mm, UnitLength * v[1]), UnitLength * v[2])
  IN CASE op \in {\h00, \h01} -> [Both(mm, axis) EXCEPT !.gs.free = axis]  \* SVTCA
       [] op \in {\h02, \h03} -> [mm EXCEPT !.gs.proj = axis]              \* SPVTCA
       [] op \in {\h04, \h05} -> [mm EXCEPT !.gs.free = axis]              \* SFVTCA
       [] op \in {\h06, \h07} -> Both(rest, line)                          \* SPVTL
       [] op \in {\h08, \h09} -> [rest EXCEPT !.gs.free = line]            \* SFVTL
       [] op = \h0A -> Both(rest, Axial(given, gs.proj))                   \* SPVFS
       [] op = \h0B -> [rest EXCEPT !.gs.free = Axial(given, @)]           \* SFVFS
       [] op = \h0C -> PushVector(gs.proj)                                 \* GPV
       [] op = \h0D -> PushVector(gs.free)                                 \* GFV
       [] op = \h0E -> [mm EXCEPT !.gs.free = gs.proj]                     \* SFVTPV
       [] OTHER -> [rest EXCEPT !.gs.dual = original]                      \* SDPVTL

\* GETINFO: the version, and what the render mode lets the font know.
GetInfo(selector) ==
  LET Says(k, answer, holds) == IF Bit(selector, k) /\ holds THEN answer ELSE 0
      smooth == job.mode # "mono"
  IN Says(1, 40, TRUE) + Says(64, 2^13, smooth) + Says(256, 2^15, job.mode = "lcdv")
     + Says(1024, 2^17, smooth) + Says(2048, 2^18, smooth)
     + Says(4096, 2^19, job.mode = "normal")

SCANCTRL(mm) ==
  LET v == Arg(mm, 1)
      threshold == LowByte(v)
      on == \/ threshold = 255
            \/ threshold # 0 /\ Bit(v, 256) /\ Ppem <= threshold
      off == \/ threshold = 0
             \/ threshold # 255 /\ Bit(v, 2048) /\ Ppem > threshold
  IN [Drop(mm, 1) EXCEPT !.gs.scan = IF off THEN FALSE ELSE IF on THEN TRUE ELSE @]

\* INSTCTRL: size flags from the control value program, the compatibility mode
\* from a glyph program; which program counts is the one that started the run.
INSTCTRL(mm) ==
  LET selector == Arg(mm, 1)
      value == Arg(mm, 2)
      rest == Drop(mm, 2)
  IN CASE selector \notin 1..3 \/ value \notin {0, 2^(selector - 1)} -> Refuse(rest)
       [] OTHER ->
            IF mm.initial = 0
            THEN [rest EXCEPT !.gs.control = IF value = 0 THEN @ \ {selector}
                                             ELSE @ \union {selector}]
            ELSE IF mm.initial = 2 /\ selector = 3
            THEN [rest EXCEPT !.compat = (value = 0), !.iups = {}]
            ELSE Refuse(rest)

RoundOps == {\h18, \h19, \h3D, \h76, \h77, \h7A, \h7C, \h7D}
SetRound(mm, op) ==
  LET RoundMode(r) == [mm EXCEPT !.gs.round = r]
      Super(r, period) ==
        [Drop(mm, 1) EXCEPT !.gs = [SetSuper(@, period, Arg(mm, 1)) EXCEPT !.round = r]]
  IN CASE op = \h18 -> RoundMode("grid")
       [] op = \h19 -> RoundMode("half")
       [] op = \h3D -> RoundMode("double")
       [] op = \h7A -> RoundMode("off")
       [] op = \h7C -> RoundMode("up")
       [] op = \h7D -> RoundMode("down")
       [] op = \h76 -> Super("super", GridPeriod)
       [] OTHER -> Super("super45", DiagonalPeriod)

StateOps == RoundOps \union \h10..\h17 \union \h1D..\h1F \union \h4B..\h4E
              \union {\h1A, \h5E, \h5F, \h7E, \h7F, \h85, \h88, \h8D, \h8E}
DoState(mm, op) ==
  LET v == Arg(mm, 1)
      rest == Drop(mm, 1)
  IN CASE op \in RoundOps -> SetRound(mm, op)
       [] op \in \h10..\h12 -> [rest EXCEPT !.gs.rp[op - \h0F] = v]        \* SRP0-2
       [] op \in \h13..\h15 -> [rest EXCEPT !.gs.zp[op - \h12] = v % 2]    \* SZP0-2
       [] op = \h16 -> [rest EXCEPT !.gs.zp = <<v % 2, v % 2, v % 2>>]     \* SZPS
       [] op = \h17 -> [rest EXCEPT !.gs.loop = v]                         \* SLOOP
       [] op = \h1A -> [rest EXCEPT !.gs.minDist = v]                      \* SMD
       [] op = \h1D -> [rest EXCEPT !.gs.cutIn = v]                        \* SCVTCI
       [] op = \h1E -> [rest EXCEPT !.gs.widthCutIn = v]                   \* SSWCI
       [] op = \h1F -> [rest EXCEPT !.gs.width = v * Scale]                \* SSW
       [] op = \h5E -> [rest EXCEPT !.gs.deltaBase = v]                    \* SDB
       [] op = \h5F -> [rest EXCEPT !.gs.deltaShift = v]                   \* SDS
       [] op = \h4B -> Push(mm, Ppem)
       [] op = \h4C -> Push(mm, PointSize)
       [] op \in {\h4D, \h4E} -> [mm EXCEPT !.gs.autoFlip = (op = \h4D)]
       [] op \in {\h7E, \h7F} -> rest                                      \* SANGW, AA
       [] op = \h85 -> SCANCTRL(mm)
       [] op = \h88 -> Replace(mm, 1, GetInfo(v))
       [] op = \h8D -> [rest EXCEPT !.gs.scanType = IF v >= 0 THEN LowByte(v) ELSE @]
       [] OTHER -> INSTCTRL(mm)

-----------------------------------------------------------------------------
(* Control flow and definitions.                                           *)

\* From the points and control values that a program starts with.
NegativeJumpLimit(mm) ==
  LET n == IF mm.initial = 2 THEN Len(job.points) ELSE 0
      cvt == Len(InitialCvt)
      AtLeast50(k) == IF k < 50 THEN 50 ELSE k
      own == IF n > 0 THEN AtLeast50(10 * n) + AtLeast50(cvt \div 10) ELSE 300 + 22 * cvt
  IN Min({own, 100 * NumGlyphs})

\* The offset counts from the jump instruction.
Jump(mm, offset) ==
  LET target == mm.ip + offset - 1
      back == mm.back + (IF offset < 0 THEN 1 ELSE 0)
  IN CASE (offset = 0 /\ mm.stack = <<>>) \/ target < 0 -> Fail(mm, "BadArgument")
       [] OTHER -> [mm EXCEPT !.ip = target, !.back = back,
                              !.err = IF back > NegativeJumpLimit(mm)
                                      THEN "ExecutionTooLong" ELSE @]

Skip(mm, stopAtElse) ==
  LET to == SkipTo(Code(mm), mm.ip, stopAtElse)
  IN IF to < 0 THEN Fail(mm, "CodeOverflow") ELSE [mm EXCEPT !.ip = to]

Enter(mm, def, index, count) ==
  [mm EXCEPT !.calls = Append(@, [range |-> mm.range, ip |-> mm.ip,
                                  count |-> count, def |-> index]),
             !.ip = def.start, !.range = def.range]

\* Mutant: the depth is not looked at.
CallUnlimited(mm, n, count) ==
  IF n \notin DOMAIN mm.funs THEN Fail(mm, "InvalidFunction")
  ELSE IF count <= 0 THEN mm
  ELSE Enter(mm, mm.funs[n], n, count)

\* CALL and LOOPCALL refuse a bad function or a full call stack before they
\* look at the count.
Call(mm, n, count) ==
  IF n \notin DOMAIN mm.funs THEN Fail(mm, "InvalidFunction")
  ELSE IF Len(mm.calls) >= MaxCallDepth THEN Fail(mm, "CallStackOverflow")
  ELSE IF count <= 0 THEN mm
  ELSE Enter(mm, mm.funs[n], n, count)

\* ENDF looks the function up again for each repetition.
Endf(mm) ==
  IF mm.calls = <<>> THEN Fail(mm, "EndfInExecStream")
  ELSE LET c == Last(mm.calls)
           depth == Len(mm.calls)
       IN IF c.count > 1
          THEN IF c.def \notin DOMAIN mm.funs THEN Fail(mm, "MissingFunction")
               ELSE [mm EXCEPT !.calls[depth].count = @ - 1,
                               !.ip = mm.funs[c.def].start, !.range = mm.funs[c.def].range]
          ELSE [mm EXCEPT !.calls = Front(@), !.ip = c.ip, !.range = c.range]

JumpOps == {\h1C, \h78, \h79}
ControlOps == JumpOps \union {\h1B, \h2A, \h2B, \h2D, \h58, \h59}
DoControl(mm, op) ==
  LET a == Arg(mm, 1)
      b == Arg(mm, 2)
      one == Drop(mm, 1)
      two == Drop(mm, 2)
  IN CASE op = \h1C -> Jump(one, a)
       [] op \in {\h78, \h79} -> IF (a # 0) = (op = \h78) THEN Jump(two, b) ELSE two
       [] op = \h1B -> Skip(mm, FALSE)
       [] op = \h58 -> IF a = 0 THEN Skip(one, TRUE) ELSE one
       [] op = \h59 -> mm
       [] op = \h2A -> Call(two, a, b)
       [] op = \h2B -> Call(one, a, 1)
       [] OTHER -> Endf(mm)

\* A definition is the code between the instruction and its ENDF; the body is
\* not run but skipped.
DefinitionEnd(mm) == FindEndf(IF mm.range = 0 THEN job.prep ELSE job.fpgm, mm.ip)
Definition(mm) == [range |-> mm.range, start |-> mm.ip, end |-> DefinitionEnd(mm).at]

AddTo(defs, n, d) == [i \in DOMAIN defs \union {n} |-> IF i = n THEN d ELSE defs[i]]
Full(defs, n, budget) == n \notin DOMAIN defs /\ Cardinality(DOMAIN defs) >= budget

\* Mutant: the program that is executing counts, not the one that was started.
RunsGlyphCode(mm) == mm.range = 2

\* A definition is refused when a glyph program led to it, through calls or not.
StartedByGlyph(mm) == mm.initial = 2

Define(mm, full, stored) ==
  LET end == DefinitionEnd(mm)
  IN IF full THEN Fail(mm, "TooManyDefs")
     ELSE IF end.err # "none" THEN Fail(mm, end.err)
     ELSE [stored EXCEPT !.ip = end.at + 1]

FDEF(mm, n) ==
  LET index == LowWord(n)
  IN IF index >= FunctionSlots THEN Fail(mm, "CodeOverflow")
     ELSE Define(mm, Full(mm.funs, index, FunctionBudget),
                 [mm EXCEPT !.funs = AddTo(@, index, Definition(mm))])

IDEF(mm, n) ==
  IF n \notin Byte THEN Fail(mm, "TooManyDefs")
  ELSE Define(mm, Full(mm.idefs, n, InstructionBudget),
              [mm EXCEPT !.idefs = AddTo(@, n, Definition(mm))])

DefineOps == {\h2C, \h89}
DoDefine(mm, op) ==
  IF StartedByGlyph(mm) THEN Fail(mm, "DefinitionInGlyph")
  ELSE IF op = \h2C THEN FDEF(Drop(mm, 1), Arg(mm, 1))
  ELSE IDEF(Drop(mm, 1), Arg(mm, 1))

\* An opcode without a meaning of its own may be given one by IDEF.
DoOther(mm, op) ==
  IF op = \h4F THEN Fail(mm, "DebugOpcode")
  ELSE IF op \in DOMAIN mm.idefs /\ Len(mm.calls) < MaxCallDepth
  THEN Enter(mm, mm.idefs[op], op, 1)
  ELSE Fail(mm, "InvalidOpcode")

-----------------------------------------------------------------------------
(* run_program: one instruction per step.                                  *)

\* The group an opcode belongs to.
Group == [op \in Byte |->
  CASE op \in PushOps -> "push"
    [] op \in StackOps -> "stack"
    [] op \in ArithmeticOps -> "arithmetic"
    [] op \in MemoryOps -> "memory"
    [] op \in MeasureOps -> "measure"
    [] op \in PointOps -> "point"
    [] op \in VectorOps -> "vector"
    [] op \in StateOps -> "state"
    [] op \in ControlOps -> "control"
    [] op \in DefineOps -> "define"
    [] OTHER -> "other"]

Programs == {"fpgm", "prep", "glyph"}
NoOutcome == [points |-> <<>>, advance |-> 0, dropout |-> {}, tags |-> <<>>]

Init == /\ job \in Jobs
        /\ phase = "fpgm"
        /\ m = Fresh(job.pedantic)
        /\ prepared = Fresh(job.pedantic)
        /\ outcome = NoOutcome
        /\ last = 0
        /\ clock = 0
        /\ jumped = FALSE

\* There is an instruction at ip; it is fetched and counted, and has operands.
Fetching == /\ phase \in Programs /\ m.err = "none"
            /\ m.ip \in 0..(Len(Code(m)) - 1)
Opcode == Code(m)[m.ip + 1]
Ready == Prepare([m EXCEPT !.ip = @ + 1, !.steps = @ + 1], Opcode)

\* The head of the loop and its end, around what the instruction makes of Ready.
Execute(group, done) ==
  /\ Fetching /\ m.steps < MaxSteps
  /\ Group[Opcode] = group
  /\ m' = IF Ready.err # "none" THEN Ready
          ELSE IF done.err = "none" /\ Len(done.stack) > StackLimit
          THEN Fail(done, "StackOverflow") ELSE done
  /\ last' = Opcode
  /\ jumped' = (jumped \/ Opcode \in JumpOps)
  /\ clock' = clock + 1
  /\ UNCHANGED <<job, phase, prepared, outcome>>

PushStep == Execute("push", DoPush(Ready, Opcode))
StackStep == Execute("stack", DoStack(Ready, Opcode))
ArithmeticStep == Execute("arithmetic", DoArithmetic(Ready, Opcode))
MemoryStep == Execute("memory", DoMemory(Ready, Opcode))
MeasureStep == Execute("measure", DoMeasure(Ready, Opcode))
PointStep == Execute("point", DoPoint(Ready, Opcode))
VectorStep == Execute("vector", DoVector(Ready, Opcode))
StateStep == Execute("state", DoState(Ready, Opcode))
ControlStep == Execute("control", DoControl(Ready, Opcode))
DefineStep == Execute("define", DoDefine(Ready, Opcode))
OtherStep == Execute("other", DoOther(Ready, Opcode))

\* The guard at the head of the loop.
TooLong == /\ Fetching /\ m.steps >= MaxSteps
           /\ m' = Fail(m, "ExecutionTooLong")
           /\ clock' = clock + 1
           /\ UNCHANGED <<job, phase, prepared, outcome, last, jumped>>

\* A program ends when it runs past its code, even inside a function.
Ended(p) == phase = p /\ m.err = "none" /\ m.ip >= Len(Code(m))

\* run_prep: defaults, the scaled control values, an empty twilight zone.  The
\* call stack is what the font program left.
EndFpgm ==
  /\ Ended("fpgm")
  /\ phase' = "prep"
  /\ m' = [m EXCEPT !.gs = [DefaultGS EXCEPT !.zp = <<0, 0, 0>>],
                    !.cvt = [i \in DOMAIN @ |-> Quot(@[i], Grid) * Scale],
                    !.twilight = EmptyZone(TwilightPoints),
                    !.stack = <<>>, !.ip = 0, !.range = 0, !.initial = 0,
                    !.steps = 0, !.back = 0]
  /\ clock' = clock + 1
  /\ UNCHANGED <<job, prepared, outcome, last, jumped>>

\* The fields of the graphics state that TT_Save_Context keeps for glyphs.
Saved(gs) ==
  [DefaultGS EXCEPT !.minDist = gs.minDist, !.cutIn = gs.cutIn,
     !.widthCutIn = gs.widthCutIn, !.width = gs.width, !.deltaBase = gs.deltaBase,
     !.deltaShift = gs.deltaShift, !.autoFlip = gs.autoFlip, !.control = gs.control,
     !.scan = gs.scan, !.scanType = gs.scanType]

\* hint_glyph: the zone, its phantoms rounded to the grid.  The parts of a
\* composite are hinted already: they count as unscaled coordinates.
GlyphZone ==
  LET n == Len(job.points) - 4
      at == [i \in DOMAIN job.points |-> job.points[i].at]
      Snap(i, xy) == CASE i \in {n + 1, n + 2} -> <<PixRound(xy[1]), xy[2]>>
                       [] i \in {n + 3, n + 4} -> <<xy[1], PixRound(xy[2])>>
                       [] OTHER -> xy
  IN [cur |-> [i \in DOMAIN at |-> Snap(i, at[i])], org |-> at,
      orus |-> IF job.composite THEN at ELSE [i \in DOMAIN at |-> job.points[i].raw],
      tag |-> [i \in DOMAIN at |-> {}]]

\* prepare_context ends, and hint_glyph starts from a copy of what it made.
EndPrep ==
  /\ Ended("prep")
  /\ phase' = "glyph"
  /\ prepared' = [m EXCEPT !.gs = Saved(@),
                           !.compat = (job.mode # "mono" /\ 3 \notin m.gs.control)]
  /\ m' = [prepared' EXCEPT !.zone = GlyphZone, !.contours = job.contours,
                            !.composite = job.composite,
                            !.scale = IF job.composite THEN 1 ELSE Scale,
                            !.stack = <<>>, !.calls = <<>>, !.ip = 0, !.range = 2,
                            !.initial = 2, !.steps = 0, !.back = 0]
  /\ clock' = clock + 1
  /\ UNCHANGED <<job, outcome, last, jumped>>

\* What hint_glyph returns: the outline from its origin, the advance between the
\* horizontal phantoms, and the dropout mode.  In compatibility mode the
\* phantoms of a program do not count.
Outcome ==
  LET n == Len(job.points) - 4
      own == ~m.compat \/ (job.composite /\ job.glyph = <<>>)
      origin == IF own THEN m.zone.cur[n + 1][1] ELSE job.points[n + 1].at[1]
      end == IF own THEN m.zone.cur[n + 2][1] ELSE job.points[n + 2].at[1]
      dropout == CASE ~m.gs.scan -> {"ignore"}
                   [] m.gs.scan /\ m.gs.scanType = 0 -> {"stubs"}
                   [] m.gs.scan /\ m.gs.scanType = 1 -> {}
                   [] m.gs.scan /\ m.gs.scanType = 4 -> {"smart", "stubs"}
                   [] m.gs.scan /\ m.gs.scanType = 5 -> {"smart"}
                   [] OTHER -> {"ignore"}
  IN [points |-> [i \in 1..n |-> <<m.zone.cur[i][1] - origin, m.zone.cur[i][2]>>],
      advance |-> end - origin, dropout |-> dropout,
      tags |-> [i \in 1..n |-> m.zone.tag[i]]]

\* A glyph program that fails leaves the zone as it is; only pedantic hinting
\* reports it.
EndGlyph ==
  /\ \/ Ended("glyph")
     \/ phase = "glyph" /\ m.err \notin {"none", "Spinning"} /\ ~m.pedantic
  /\ phase' = "done"
  /\ outcome' = Outcome
  /\ clock' = clock + 1
  /\ UNCHANGED <<job, m, prepared, last, jumped>>

Abort ==
  /\ phase \in Programs /\ m.err \notin {"none", "Spinning"}
  /\ phase = "glyph" => m.pedantic
  /\ phase' = "failed"
  /\ clock' = clock + 1
  /\ UNCHANGED <<job, m, prepared, outcome, last, jumped>>

Next == \/ PushStep \/ StackStep \/ ArithmeticStep \/ MemoryStep \/ MeasureStep
        \/ PointStep \/ VectorStep \/ StateStep \/ ControlStep \/ DefineStep
        \/ OtherStep \/ TooLong \/ EndFpgm \/ EndPrep \/ EndGlyph \/ Abort

\* The interpreter is a loop of the thread that loads a size or a glyph: it runs
\* on by itself, unless it never leaves a loop inside one instruction.
Running == phase \in Programs /\ m.err # "Spinning"
Tick == Running /\ clock' = clock + 1

Spec == Init /\ [][Next]_vars /\ WF_clock(Tick)

-----------------------------------------------------------------------------
(* Properties.                                                             *)

ZoneType(z) ==
  /\ z.cur \in Seq(Int \X Int) /\ z.org \in Seq(Int \X Int)
  /\ z.orus \in Seq(Int \X Int) /\ z.tag \in Seq(SUBSET Axis)
  /\ Len(z.org) = Len(z.cur) /\ Len(z.orus) = Len(z.cur) /\ Len(z.tag) = Len(z.cur)

\* Types: zones have four arrays of one length, vectors lie on an axis.
MachineTypeOK ==
  /\ phase \in Programs \union {"done", "failed"}
  /\ m.stack \in Seq(Int) /\ m.ip \in Nat /\ m.range \in 0..2 /\ m.initial \in 0..2
  /\ {m.gs.proj, m.gs.dual, m.gs.free} \subseteq Unit
  /\ ToSet(m.gs.zp) \subseteq {0, 1} /\ m.gs.control \subseteq 1..3
  /\ m.compat \in BOOLEAN /\ m.iups \subseteq (IF m.compat THEN Axis ELSE {})
  /\ ZoneType(m.twilight) /\ ZoneType(m.zone)
  /\ Len(m.storage) = StorageSize /\ Len(m.cvt) = Len(InitialCvt)

\* The instruction that follows the one at ip when a program runs in order.
InOrder(code, ip) == IF code[ip + 1] \in PushOps THEN PushEnd(code, ip) ELSE ip + 1

\* Offsets at which an instruction starts when a program is read in order.
Boundaries(code) ==
  LET b[ip \in Nat] == IF ip >= Len(code) THEN {} ELSE {ip} \union b[InOrder(code, ip)]
  IN b[0]

\* Control meets an opcode only where reading the program in order meets one:
\* the skips of IF, ELSE, FDEF and IDEF step over the operands of push
\* instructions, calls and returns lead to instructions.  Only jumps may not.
InStep ==
  phase \in Programs /\ m.err = "none" /\ m.ip < Len(Code(m)) /\ ~jumped
    => m.ip \in Boundaries(Code(m))

\* The instructions of a definition, up to its end.
BodyOf(d) ==
  LET code == IF d.range = 0 THEN job.prep ELSE job.fpgm
      b[ip \in Nat] == IF ip > d.end \/ ip >= Len(code) THEN {}
                       ELSE {ip} \union b[InOrder(code, ip)]
  IN {<<ip, code[ip + 1]>> : ip \in b[d.start]}

\* A definition ends with its own ENDF and contains no other.
DefinitionsSound ==
  \A d \in Range(m.funs) \union Range(m.idefs) :
    \A i \in BodyOf(d) : i[2] \notin {\h2C, \h89} /\ (i[2] = \h2D <=> i[1] = d.end)

\* There are no more definitions than the font declared, and a glyph program
\* leaves them all alone, also when it calls the font program, where
\* definitions are made.
DefinitionsKept ==
  /\ Cardinality(DOMAIN m.funs) <= FunctionBudget
  /\ Cardinality(DOMAIN m.idefs) <= InstructionBudget
  /\ phase = "glyph" => m.funs = prepared.funs /\ m.idefs = prepared.idefs

\* No program gets past a limit: operands, nested calls, steps, jumps back.
LimitsKept ==
  /\ m.err = "none" => Len(m.stack) <= StackLimit /\ m.back <= NegativeJumpLimit(m)
  /\ Len(m.calls) <= MaxCallDepth /\ m.steps <= MaxSteps

InGlyph == phase = "glyph" /\ phase' = "glyph"
Moved(i, k) == m'.zone.cur[i][k] # m.zone.cur[i][k]

\* In compatibility mode no instruction but IUP[x] moves a point along x, and
\* after both IUP instructions nothing moves at all; ISECT is the exception.
CompatFreezes ==
  [][InGlyph /\ m.compat /\ last' # \h0F =>
       \A i \in DOMAIN m.zone.cur : /\ last' # \h31 => ~Moved(i, 1)
                                    /\ m.iups = Axis => ~Moved(i, 1) /\ ~Moved(i, 2)]_vars

\* A point that an instruction moved is touched in that direction, or a later
\* IUP would move it again; only IUP itself and SHZ do not touch.
MovedAreTouched ==
  [][InGlyph /\ last' \notin {\h30, \h31, \h36, \h37} =>
       \A i \in DOMAIN m.zone.cur : /\ Moved(i, 1) => "x" \in m'.zone.tag[i]
                                    /\ Moved(i, 2) => "y" \in m'.zone.tag[i]]_vars

\* Whatever the programs are, hinting comes to an end: jumps, loops, recursion
\* and repeated calls are all counted.
Terminates == <>(phase \in {"done", "failed"})
=============================================================================
