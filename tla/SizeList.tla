------------------------------ MODULE SizeList ------------------------------
(***************************************************************************)
(* What the size API promises (ftsizes.h, as the fixtures under            *)
(* tests/fixtures/inputs/public-api/ftsizes.* record it): a face has a     *)
(* list of sizes in order of creation, at most one of them current; each   *)
(* size remembers its scale; a scale request goes to the current size, and *)
(* glyphs are loaded at the current size's scale.  Threads, registries,    *)
(* reference counts and the shared state of the implementation are absent. *)
(***************************************************************************)
EXTENDS Integers, SequencesExt

CONSTANTS Face, Addr, Scale, Unsized, NoSize

VARIABLES
  open,    \* the faces in use
  list,    \* the sizes of a face
  cur,     \* its current size
  scale,   \* what each size remembers
  base,    \* the scale of a face that has no current size
  loads    \* the scale at which glyphs of a face are loaded

vars == <<open, list, cur, scale, base, loads>>

Free == Addr \ UNION {ToSet(list[f]) : f \in Face}

First(es) == IF es = <<>> THEN NoSize ELSE Head(es)

\* The one rule about scales: the current size decides.
LoadsAtCurrentSize ==
  loads' = [f \in Face |-> IF cur'[f] = NoSize THEN base'[f] ELSE scale'[cur'[f]]]

Init ==
  /\ open = {}
  /\ list = [f \in Face |-> <<>>]
  /\ cur = [f \in Face |-> NoSize]
  /\ scale = [a \in Addr |-> Unsized]
  /\ base = [f \in Face |-> Unsized]
  /\ loads = [f \in Face |-> Unsized]

\* A face starts with a current size, or with none (a metadata-only probe).
Open(f) ==
  /\ f \notin open
  /\ open' = open \union {f}
  /\ \E es \in {<<>>} \union {<<a>> : a \in Free} :
       /\ list' = [list EXCEPT ![f] = es]
       /\ cur' = [cur EXCEPT ![f] = First(es)]
  /\ UNCHANGED <<scale, base>>

Close(f) ==
  /\ f \in open
  /\ open' = open \ {f}
  /\ list' = [list EXCEPT ![f] = <<>>]
  /\ cur' = [cur EXCEPT ![f] = NoSize]
  /\ scale' = [a \in Addr |-> IF a \in ToSet(list[f]) THEN Unsized ELSE scale[a]]
  /\ base' = [base EXCEPT ![f] = Unsized]

New(f) ==
  /\ f \in open
  /\ \E a \in Free :
       /\ list' = [list EXCEPT ![f] = Append(@, a)]
       /\ scale' = [scale EXCEPT ![a] = loads[f]]
  /\ UNCHANGED <<open, cur, base>>

Activate(f, a) ==
  /\ a \in ToSet(list[f])
  /\ cur' = [cur EXCEPT ![f] = a]
  /\ base' = [base EXCEPT ![f] = Unsized]
  /\ UNCHANGED <<open, list, scale>>

\* The oldest size left takes over from a current size that is destroyed;
\* after the last one the face keeps loading glyphs as before.
Done(f, a) ==
  /\ \E i \in 1..Len(list[f]) :
       LET left == RemoveAt(list[f], i) IN
       /\ list[f][i] = a
       /\ list' = [list EXCEPT ![f] = left]
       /\ IF cur[f] = a
            THEN /\ cur' = [cur EXCEPT ![f] = First(left)]
                 /\ base' = IF left = <<>> THEN [base EXCEPT ![f] = loads[f]] ELSE base
            ELSE UNCHANGED <<cur, base>>
  /\ scale' = [scale EXCEPT ![a] = Unsized]
  /\ UNCHANGED open

Request(f, s) ==
  /\ f \in open
  /\ IF cur[f] = NoSize
       THEN /\ base' = [base EXCEPT ![f] = s]
            /\ UNCHANGED scale
       ELSE /\ scale' = [scale EXCEPT ![cur[f]] = s]
            /\ UNCHANGED base
  /\ UNCHANGED <<open, list, cur>>

\* The face is parsed anew: its sizes are replaced by the default size.
Rebuild(f, s) ==
  /\ f \in open
  /\ \E es \in {<<>>} \union {<<a>> : a \in Free} :
       /\ list' = [list EXCEPT ![f] = es]
       /\ cur' = [cur EXCEPT ![f] = First(es)]
       /\ scale' = [a \in Addr |-> IF a \in ToSet(es) THEN s
                                   ELSE IF a \in ToSet(list[f]) THEN Unsized ELSE scale[a]]
       /\ base' = [base EXCEPT ![f] = IF es = <<>> THEN s ELSE Unsized]
  /\ UNCHANGED open

Next ==
  /\ \E f \in Face :
       \/ Open(f) \/ Close(f) \/ New(f)
       \/ \E a \in Addr : Activate(f, a) \/ Done(f, a)
       \/ \E s \in Scale : Request(f, s) \/ Rebuild(f, s)
  /\ LoadsAtCurrentSize

Spec == Init /\ [][Next]_vars
=============================================================================
