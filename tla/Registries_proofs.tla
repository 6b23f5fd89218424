------------------------ MODULE Registries_proofs ------------------------
(***************************************************************************)
(* Proofs about FtcManager and Modules.                                    *)
(*                                                                         *)
(* FtcManager: for any ids, faces, keys, nodes, caches and depth of        *)
(* callbacks, entries lead to living nodes, reference counts are what the  *)
(* program holds, and, when no requester looks up the face it is asked     *)
(* for, every face is owned once and no entry outlives its face.           *)
(*                                                                         *)
(* Modules: whatever the names, versions and sizes of the tables, the      *)
(* lists of the core and of the C ABI agree, each registration is finished *)
(* once, and neither the public array nor the current renderer keeps a     *)
(* module that is gone.                                                    *)
(***************************************************************************)
EXTENDS FtcManager, Modules, SeqLemmas, FiniteSetTheorems

-----------------------------------------------------------------------------
(* The stack of calls that wait *)

\* A call waits either for a requester or for a finalizer.
LEMMA CallKinds ==
  ASSUME NEW c \in Call
  PROVE  /\ c \in Lookup <=> c \notin Removal
         /\ c \in Lookup => c.id \in Id /\ c.for \notin {"remove", "reset"}
         /\ c \in Lookup /\ c.for = "entry" =>
              c.cache \in Cache /\ c.key \in Key /\ c.lock \in BOOLEAN
         /\ c \in Removal => c.left \subseteq Face /\ c.for \in {"remove", "reset"}
         /\ c \in Removal /\ c.for = "remove" => c.id \in Id
BY DEF Call, Lookup, Removal

\* What is asked about the stack is asked about the set of its calls.
LEMMA StackSet ==
  /\ Resetting <=> \E c \in ToSet(calls) : c.for = "reset"
  /\ \A i : Removing(i) <=> \E c \in ToSet(calls) : c.for = "remove" /\ c.id = i
BY DEF Resetting, Removing, ToSet

LEMMA StackSetNext ==
  /\ Resetting' <=> \E c \in ToSet(calls') : c.for = "reset"
  /\ \A i : Removing(i)' <=> \E c \in ToSet(calls') : c.for = "remove" /\ c.id = i
BY DEF Resetting, Removing, ToSet

-----------------------------------------------------------------------------
(* The invariant of nodes and entries *)

\* The cache a lookup was made for has a kind while the lookup waits.
CallsServed ==
  \A k \in DOMAIN calls : calls[k] \in Lookup /\ calls[k].for = "entry" => kind[calls[k].cache] \in Kind

\* Retained nodes have a payload, and others no reference left in them.
NodesFilled ==
  \A n \in Node : /\ n \in nodes => shows[n] \in Payload
                  /\ n \notin nodes => refs[n] = 0

\* EntriesLeadToNodes without its guard.
Lead ==
  /\ \A x \in Cache, s \in Slot : entries[x][s] # NoNode =>
       /\ entries[x][s] \in nodes
       /\ shows[entries[x][s]].kind = kind[x]
       /\ shows[entries[x][s]].slot = s
  /\ \A x, y \in Cache, s, u \in Slot :
       entries[x][s] = entries[y][u] /\ entries[x][s] # NoNode => <<x, s>> = <<y, u>>

NodesInv ==
  /\ FtcTypeOK
  /\ CallsServed
  /\ NodesFilled
  /\ EntriesLeadToNodes
  /\ RefsCountHolders

LEMMA LeadGuarded == EntriesLeadToNodes <=> (~Resetting => Lead)
BY DEF EntriesLeadToNodes, Lead

\* The part of the types that a lookup's end changes.
StoreTypeOK ==
  /\ nodes \subseteq Node
  /\ entries \in [Cache -> [Slot -> Node \union {NoNode}]]
  /\ answers \in [Cache -> [Slot -> Face \union {NoFace}]]
  /\ shows \in [Node -> Payload \union {Nothing}]
  /\ refs \in [Node -> 0..MaxRefs]
  /\ held \in [Node -> 0..MaxRefs]

\* A reference is added to a node: the counts stay equal and within the bound.
LEMMA LockNode ==
  ASSUME StoreTypeOK, NEW n \in Node, NEW lock \in BOOLEAN, lock_node(n, lock), refs[n] = held[n]
  PROVE  /\ refs' \in [Node -> 0..MaxRefs] /\ held' \in [Node -> 0..MaxRefs]
         /\ refs'[n] = held'[n]
         /\ \A o \in Node \ {n} : refs'[o] = refs[o] /\ held'[o] = held[o]
<1>1. CASE ~lock
  BY <1>1 DEF lock_node, StoreTypeOK
<1>2. CASE lock
  <2>1. /\ held[n] < MaxRefs /\ MaxRefs \in Nat
        /\ refs' = [refs EXCEPT ![n] = @ + 1] /\ held' = [held EXCEPT ![n] = @ + 1]
    BY <1>2, FtcAssumption DEF lock_node
  <2>2. refs[n] \in 0..MaxRefs /\ refs[n] + 1 \in 0..MaxRefs /\ held[n] + 1 \in 0..MaxRefs
    BY <2>1 DEF StoreTypeOK
  <2> QED BY <2>1, <2>2 DEF StoreTypeOK
<1> QED BY <1>1, <1>2

\* What the end of a lookup does to nodes, entries and counts: nothing, or one
\* new entry that leads to one new node made from the face at hand.
LEMMA StoreEffect ==
  ASSUME StoreTypeOK, NodesFilled, RefsCountHolders, kind \in [Cache -> Kind \union {"none"}],
         NEW c \in Lookup, NEW f \in Face, lookup_end(c, f),
         c.for = "entry" => kind[c.cache] \in Kind
  PROVE  /\ StoreTypeOK' /\ NodesFilled' /\ RefsCountHolders'
         /\ nodes \subseteq nodes'
         /\ \A n \in nodes : shows'[n] = shows[n]
         /\ \/ UNCHANGED entries
            \/ \E n \in Node \ nodes :
                 /\ n \in nodes'
                 /\ c.for = "entry" /\ c.cache \in Cache /\ <<c.id, c.key>> \in Slot
                 /\ shows'[n] = [kind |-> kind[c.cache], slot |-> <<c.id, c.key>>, face |-> f]
                 /\ \A x \in Cache, s \in Slot :
                      entries'[x][s] = IF x = c.cache /\ s = <<c.id, c.key>> THEN n ELSE entries[x][s]
         /\ \A x \in Cache, s \in Slot :
              answers'[x][s] = answers[x][s] \/ (s[1] = c.id /\ answers'[x][s] = f)
<1>1. c \in Call
  BY DEF Call
<1>2. CASE c.for = "face"
  <2>1. UNCHANGED <<nodes, entries, answers, shows, refs, held>>
    BY <1>2 DEF lookup_end
  <2> QED BY <2>1 DEF StoreTypeOK, NodesFilled, RefsCountHolders
<1>3. ASSUME c.for = "entry"
      PROVE  c.cache \in Cache /\ <<c.id, c.key>> \in Slot /\ c.lock \in BOOLEAN /\ c.id \in Id
  BY <1>1, <1>3, CallKinds DEF Slot
<1>4. CASE c.for = "entry" /\ kind[c.cache] = "cmap"
  <2>1. /\ answers' = [answers EXCEPT ![c.cache][<<c.id, c.key>>] = f]
        /\ UNCHANGED <<nodes, entries, shows, refs, held>>
    BY <1>4 DEF lookup_end, GlyphKind
  <2>2. StoreTypeOK'
    BY <1>3, <1>4, <2>1 DEF StoreTypeOK
  <2>3. \A x \in Cache, s \in Slot :
          answers'[x][s] = IF x = c.cache /\ s = <<c.id, c.key>> THEN f ELSE answers[x][s]
    BY <1>3, <1>4, <2>1 DEF StoreTypeOK
  <2> QED BY <2>1, <2>2, <2>3 DEF NodesFilled, RefsCountHolders
<1>5. CASE c.for = "entry" /\ kind[c.cache] \in GlyphKind
  <2>1. ftc_image_or_sbit_lookup_end(c, f) /\ UNCHANGED answers
    BY <1>5 DEF lookup_end, GlyphKind
  <2>2. CASE UNCHANGED <<nodes, entries, shows, refs, held>>
    BY <2>1, <2>2 DEF StoreTypeOK, NodesFilled, RefsCountHolders
  <2>3. CASE \E n \in FreeNode :
               /\ nodes' = nodes \union {n}
               /\ entries' = [entries EXCEPT ![c.cache][<<c.id, c.key>>] = n]
               /\ shows' = [shows EXCEPT ![n] = [kind |-> kind[c.cache],
                                                 slot |-> <<c.id, c.key>>, face |-> f]]
               /\ lock_node(n, c.lock)
    <3>1. PICK n \in FreeNode :
               /\ nodes' = nodes \union {n}
               /\ entries' = [entries EXCEPT ![c.cache][<<c.id, c.key>>] = n]
               /\ shows' = [shows EXCEPT ![n] = [kind |-> kind[c.cache],
                                                 slot |-> <<c.id, c.key>>, face |-> f]]
               /\ lock_node(n, c.lock)
      BY <2>3
    <3>2. n \in Node /\ n \notin nodes /\ refs[n] = 0 /\ held[n] = 0
      BY DEF FreeNode, NodesFilled
    <3>3. [kind |-> kind[c.cache], slot |-> <<c.id, c.key>>, face |-> f] \in Payload
      BY <1>3, <1>5 DEF Payload
    <3>4. /\ refs' \in [Node -> 0..MaxRefs] /\ held' \in [Node -> 0..MaxRefs]
          /\ refs'[n] = held'[n]
          /\ \A o \in Node \ {n} : refs'[o] = refs[o] /\ held'[o] = held[o]
      BY <1>3, <1>5, <3>1, <3>2, LockNode
    <3>5. \A o \in Node : shows'[o] = IF o = n
            THEN [kind |-> kind[c.cache], slot |-> <<c.id, c.key>>, face |-> f] ELSE shows[o]
      BY <3>1, <3>2 DEF StoreTypeOK
    <3>6. \A x \in Cache, s \in Slot :
            entries'[x][s] = IF x = c.cache /\ s = <<c.id, c.key>> THEN n ELSE entries[x][s]
      BY <1>3, <1>5, <3>1 DEF StoreTypeOK
    <3>7. entries' \in [Cache -> [Slot -> Node \union {NoNode}]]
      BY <1>3, <1>5, <3>1, <3>2 DEF StoreTypeOK
    <3>8. StoreTypeOK'
      BY <2>1, <3>1, <3>2, <3>3, <3>4, <3>7 DEF StoreTypeOK
    <3>9. NodesFilled'
      BY <3>1, <3>2, <3>3, <3>4, <3>5 DEF NodesFilled
    <3>10. RefsCountHolders'
      BY <3>1, <3>2, <3>4 DEF RefsCountHolders, StoreTypeOK
    <3>11. n \in Node \ nodes /\ n \in nodes'
      BY <3>1, <3>2
    <3>12. nodes \subseteq nodes' /\ \A o \in nodes : shows'[o] = shows[o]
      BY <3>1, <3>2, <3>5 DEF StoreTypeOK
    <3>13. shows'[n] = [kind |-> kind[c.cache], slot |-> <<c.id, c.key>>, face |-> f]
      BY <3>2, <3>5
    <3> QED BY <1>3, <1>5, <2>1, <3>6, <3>8, <3>9, <3>10, <3>11, <3>12, <3>13
  <2> QED BY <2>1, <2>2, <2>3 DEF ftc_image_or_sbit_lookup_end
<1>6. c.for \in {"face", "entry"}
  BY DEF Lookup
<1> QED BY <1>2, <1>4, <1>5, <1>6 DEF Kind

\* The entry a lookup makes leads to its own node.
LEMMA StoreLeads ==
  ASSUME StoreTypeOK, NodesFilled, RefsCountHolders, kind \in [Cache -> Kind \union {"none"}],
         NEW c \in Lookup, NEW f \in Face, lookup_end(c, f), UNCHANGED kind,
         c.for = "entry" => kind[c.cache] \in Kind, Lead
  PROVE  Lead'
<1>1. /\ nodes \subseteq nodes'
      /\ \A n \in nodes : shows'[n] = shows[n]
      /\ \/ UNCHANGED entries
         \/ \E n \in Node \ nodes :
              /\ n \in nodes'
              /\ c.for = "entry" /\ c.cache \in Cache /\ <<c.id, c.key>> \in Slot
              /\ shows'[n] = [kind |-> kind[c.cache], slot |-> <<c.id, c.key>>, face |-> f]
              /\ \A x \in Cache, s \in Slot :
                   entries'[x][s] = IF x = c.cache /\ s = <<c.id, c.key>> THEN n ELSE entries[x][s]
  BY StoreEffect
<1>2. CASE UNCHANGED entries
  BY <1>1, <1>2 DEF Lead
<1>3. ASSUME NEW n \in Node \ nodes,
             n \in nodes',
             c.for = "entry" /\ c.cache \in Cache /\ <<c.id, c.key>> \in Slot,
             shows'[n] = [kind |-> kind[c.cache], slot |-> <<c.id, c.key>>, face |-> f],
             \A x \in Cache, s \in Slot :
               entries'[x][s] = IF x = c.cache /\ s = <<c.id, c.key>> THEN n ELSE entries[x][s]
      PROVE  Lead'
  <2>1. \A x \in Cache, s \in Slot : entries'[x][s] # NoNode =>
          /\ entries'[x][s] \in nodes'
          /\ shows'[entries'[x][s]].kind = kind[x]
          /\ shows'[entries'[x][s]].slot = s
    BY <1>1, <1>3 DEF Lead
  <2>2. \A x, y \in Cache, s, u \in Slot :
          entries'[x][s] = entries'[y][u] /\ entries'[x][s] # NoNode => <<x, s>> = <<y, u>>
    BY <1>3 DEF Lead
  <2> QED BY <2>1, <2>2 DEF Lead
<1> QED BY <1>1, <1>2, <1>3

-----------------------------------------------------------------------------
(* Calls that begin and end *)

\* A lookup that begins or ends neither opens nor closes a removal or a reset.
LEMMA PushLookup ==
  ASSUME calls \in Seq(Call), CallsServed, NEW c \in Lookup, calls' = <<c>> \o calls,
         UNCHANGED kind, c.for = "entry" => kind[c.cache] \in Kind
  PROVE  /\ calls' \in Seq(Call) /\ CallsServed'
         /\ Resetting' <=> Resetting
         /\ \A i \in Id : Removing(i)' <=> Removing(i)
<1>1. c \in Call /\ c.for \notin {"remove", "reset"}
  BY CallKinds DEF Call
<1>2. /\ calls' \in Seq(Call) /\ calls'[1] = c
      /\ \A k \in DOMAIN calls : k + 1 \in DOMAIN calls' /\ calls'[k + 1] = calls[k]
      /\ \A k \in DOMAIN calls' : k # 1 => k - 1 \in DOMAIN calls /\ calls'[k] = calls[k - 1]
  BY <1>1, Stacked
<1>3. CallsServed'
  BY <1>2 DEF CallsServed
<1>4. ToSet(calls') = ToSet(calls) \union {c}
  BY <1>1, StackedSet
<1> QED BY <1>1, <1>2, <1>3, <1>4, StackSet, StackSetNext

LEMMA PopLookup ==
  ASSUME calls \in Seq(Call), CallsServed, Waiting(1), calls' = Tail(calls), UNCHANGED kind
  PROVE  /\ calls' \in Seq(Call) /\ Len(calls') <= Len(calls) /\ CallsServed'
         /\ Head(calls) \in Lookup /\ Head(calls) = calls[1]
         /\ Head(calls).for = "entry" => kind[Head(calls).cache] \in Kind
         /\ Resetting' <=> Resetting
         /\ \A i \in Id : Removing(i)' <=> Removing(i)
<1>1. calls # <<>> /\ calls[1] \in Lookup
  BY DEF Waiting
<1>2. /\ calls' \in Seq(Call) /\ Len(calls') = Len(calls) - 1 /\ Len(calls) \in Nat
      /\ 1 \in DOMAIN calls /\ Head(calls) = calls[1] /\ calls[1] \in Call
      /\ \A k \in DOMAIN calls' : k + 1 \in DOMAIN calls /\ calls'[k] = calls[k + 1]
      /\ \A k \in DOMAIN calls : k # 1 => k - 1 \in DOMAIN calls' /\ calls'[k - 1] = calls[k]
  BY <1>1, Unstacked
<1>3. calls[1].for \notin {"remove", "reset"}
  BY <1>1, <1>2, CallKinds
<1>4. CallsServed'
  BY <1>2 DEF CallsServed
<1>5. ToSet(calls) = ToSet(calls') \union {calls[1]}
  BY <1>1, <1>2, UnstackedSet
<1>6. (Resetting' <=> Resetting) /\ \A i \in Id : Removing(i)' <=> Removing(i)
  BY <1>3, <1>5, StackSet, StackSetNext
<1> QED BY <1>1, <1>2, <1>4, <1>6 DEF CallsServed

\* A removal or a reset that takes faces begins: it lies on top.
LEMMA PushRemoval ==
  ASSUME calls \in Seq(Call), CallsServed, NEW c \in Removal, calls' = <<c>> \o calls, UNCHANGED kind
  PROVE  /\ calls' \in Seq(Call) /\ CallsServed'
         /\ Resetting' <=> (Resetting \/ c.for = "reset")
         /\ \A i \in Id : Removing(i)' <=> (Removing(i) \/ (c.for = "remove" /\ c.id = i))
<1>1. c \in Call /\ c \notin Lookup
  BY CallKinds DEF Call
<1>2. /\ calls' \in Seq(Call) /\ calls'[1] = c /\ 1 \in DOMAIN calls'
      /\ \A k \in DOMAIN calls : k + 1 \in DOMAIN calls' /\ calls'[k + 1] = calls[k]
      /\ \A k \in DOMAIN calls' : k # 1 => k - 1 \in DOMAIN calls /\ calls'[k] = calls[k - 1]
  BY <1>1, Stacked
<1>3. CallsServed'
  BY <1>1, <1>2 DEF CallsServed
<1>4. ToSet(calls') = ToSet(calls) \union {c}
  BY <1>1, StackedSet
<1> QED BY <1>2, <1>3, <1>4, StackSet, StackSetNext

\* It ends.
LEMMA PopRemoval ==
  ASSUME calls \in Seq(Call), CallsServed, calls # <<>>, Head(calls) \in Removal,
         calls' = Tail(calls), UNCHANGED kind
  PROVE  /\ calls' \in Seq(Call) /\ Len(calls') <= Len(calls) /\ CallsServed'
         /\ Head(calls) = calls[1] /\ Head(calls) \in Call
         /\ Resetting => Resetting' \/ Head(calls).for = "reset"
         /\ \A i \in Id : Removing(i) => \/ Removing(i)'
                                         \/ Head(calls).for = "remove" /\ Head(calls).id = i
<1>1. /\ calls' \in Seq(Call) /\ Len(calls') = Len(calls) - 1 /\ Len(calls) \in Nat
      /\ 1 \in DOMAIN calls /\ Head(calls) = calls[1] /\ calls[1] \in Call
      /\ \A k \in DOMAIN calls' : k + 1 \in DOMAIN calls /\ calls'[k] = calls[k + 1]
      /\ \A k \in DOMAIN calls : k # 1 => k - 1 \in DOMAIN calls' /\ calls'[k - 1] = calls[k]
  BY Unstacked
<1>2. CallsServed'
  BY <1>1 DEF CallsServed
<1>3. ToSet(calls) = ToSet(calls') \union {Head(calls)}
  BY <1>1, UnstackedSet
<1>4. /\ Resetting => Resetting' \/ Head(calls).for = "reset"
      /\ \A i \in Id : Removing(i) => \/ Removing(i)'
                                      \/ Head(calls).for = "remove" /\ Head(calls).id = i
  BY <1>3, StackSet, StackSetNext
<1> QED BY <1>1, <1>2, <1>4

\* One of its faces is gone and others are left.
LEMMA ShrinkRemoval ==
  ASSUME calls \in Seq(Call), CallsServed, calls # <<>>, Head(calls) \in Removal, NEW f,
         calls' = [calls EXCEPT ![1].left = @ \ {f}], UNCHANGED kind
  PROVE  /\ calls' \in Seq(Call) /\ Len(calls') = Len(calls) /\ CallsServed'
         /\ 1 \in DOMAIN calls /\ DOMAIN calls' = DOMAIN calls /\ Head(calls) = calls[1]
         /\ calls'[1] \in Removal /\ calls'[1].left = calls[1].left \ {f}
         /\ \A k \in DOMAIN calls \ {1} : calls'[k] = calls[k]
         /\ Resetting' <=> Resetting
         /\ \A i \in Id : Removing(i)' <=> Removing(i)
<1>1. 1 \in DOMAIN calls /\ Head(calls) = calls[1] /\ calls[1] \in Removal /\ calls[1] \in Call
  BY Unstacked
<1> DEFINE r == [calls[1] EXCEPT !.left = @ \ {f}]
<1>2. r \in Removal /\ r.for = calls[1].for /\ r.left = calls[1].left \ {f}
      /\ (r.for = "remove" => r.id = calls[1].id)
  BY <1>1 DEF Removal
<1>3. calls' = [calls EXCEPT ![1] = r]
  OBVIOUS
<1> HIDE DEF r
<1>4. r \in Call /\ r \notin Lookup
  BY <1>2, CallKinds DEF Call
<1>5. calls' \in Seq(Call) /\ Len(calls') = Len(calls)
  <2>1. DOMAIN calls = 1..Len(calls) /\ Len(calls) \in Nat /\ calls \in [1..Len(calls) -> Call]
    OBVIOUS
  <2>2. calls' \in [1..Len(calls) -> Call]
    BY <1>1, <1>3, <1>4, <2>1
  <2> QED BY <2>1, <2>2
<1>6. DOMAIN calls' = DOMAIN calls /\ calls'[1] = r /\ \A k \in DOMAIN calls \ {1} : calls'[k] = calls[k]
  BY <1>1, <1>3
<1>7. CallsServed'
  BY <1>4, <1>6 DEF CallsServed
<1>8. Resetting' <=> Resetting
  BY <1>1, <1>2, <1>6 DEF Resetting
<1>9. \A i \in Id : Removing(i)' <=> Removing(i)
  BY <1>1, <1>2, <1>6 DEF Removing
<1> QED BY <1>1, <1>2, <1>5, <1>6, <1>7, <1>8, <1>9

-----------------------------------------------------------------------------
(* Every call keeps the nodes and the entries *)

LEMMA TypeParts ==
  FtcTypeOK <=> /\ StoreTypeOK
                /\ live \in BOOLEAN
                /\ faces \in [Id -> Face \union {NoFace}]
                /\ kind \in [Cache -> Kind \union {"none"}]
                /\ open \subseteq Face
                /\ calls \in Seq(Call) /\ Len(calls) <= MaxCalls
BY DEF FtcTypeOK, StoreTypeOK

LEMMA NodesInit == Init => NodesInv
<1> SUFFICES ASSUME Init PROVE NodesInv
  OBVIOUS
<1>1. FtcTypeOK
  <2>1. NoEntries \in [Slot -> Node \union {NoNode}] /\ NoAnswers \in [Slot -> Face \union {NoFace}]
    BY DEF NoEntries, NoAnswers
  <2>2. MaxRefs \in Nat /\ 0 \in 0..MaxRefs /\ MaxCalls \in Nat
    BY FtcAssumption
  <2>3. calls = <<>> /\ <<>> \in Seq(Call) /\ Len(calls) <= MaxCalls
    BY <2>2 DEF Init
  <2> QED BY <2>1, <2>2, <2>3 DEF Init, FtcTypeOK
<1>2. DOMAIN calls = {}
  BY DEF Init
<1>3. CallsServed /\ NodesFilled /\ RefsCountHolders
  BY <1>2 DEF Init, CallsServed, NodesFilled, RefsCountHolders
<1>4. Lead
  BY DEF Init, Lead, NoEntries
<1> QED BY <1>1, <1>3, <1>4, LeadGuarded DEF NodesInv

\* A lookup, up to the requester or, when the face is there, to its end.
LEMMA NodesLookup ==
  ASSUME NodesInv, NEW c \in Lookup, lookup(c), UNCHANGED <<live, faces, kind, open>>,
         c.for = "entry" => kind[c.cache] \in Kind
  PROVE  NodesInv'
<1>1. c.id \in Id /\ c \in Call
  BY CallKinds DEF Call
<1>2. CASE faces[c.id] # NoFace
  <2>1. lookup_end(c, faces[c.id]) /\ UNCHANGED calls /\ faces[c.id] \in Face
    BY <1>1, <1>2 DEF lookup, NodesInv, FtcTypeOK
  <2>2. StoreTypeOK /\ kind \in [Cache -> Kind \union {"none"}]
    BY TypeParts DEF NodesInv
  <2>3. StoreTypeOK' /\ NodesFilled' /\ RefsCountHolders'
    BY <2>1, <2>2, StoreEffect DEF NodesInv
  <2>4. Lead => Lead'
    BY <2>1, <2>2, StoreLeads DEF NodesInv
  <2>5. FtcTypeOK'
    BY <2>1, <2>3, TypeParts DEF NodesInv, FtcTypeOK, StoreTypeOK
  <2>6. CallsServed' /\ (Resetting' <=> Resetting)
    BY <2>1 DEF NodesInv, CallsServed, Resetting
  <2> QED BY <2>3, <2>4, <2>5, <2>6, LeadGuarded DEF NodesInv, EntriesLeadToNodes, Lead
<1>3. CASE faces[c.id] = NoFace
  <2>1. /\ calls' = <<c>> \o calls /\ Len(calls) < MaxCalls
        /\ UNCHANGED <<nodes, entries, answers, shows, refs, held>>
    BY <1>3 DEF lookup
  <2>2. calls \in Seq(Call) /\ CallsServed
    BY DEF NodesInv, FtcTypeOK
  <2>3. calls' \in Seq(Call) /\ CallsServed' /\ (Resetting' <=> Resetting)
    BY <2>1, <2>2, PushLookup
  <2>4. Len(calls') <= MaxCalls
    BY <1>1, <2>1, <2>2, Stacked, FtcAssumption
  <2>5. FtcTypeOK'
    BY <2>1, <2>3, <2>4 DEF NodesInv, FtcTypeOK
  <2> QED BY <2>1, <2>3, <2>5 DEF NodesInv, NodesFilled, RefsCountHolders, EntriesLeadToNodes
<1> QED BY <1>2, <1>3

\* The requester returns a face: the lookup ends with it.
LEMMA NodesRequested ==
  ASSUME NodesInv, NEW f \in Face, requester_returns(f)
  PROVE  NodesInv'
<1> DEFINE c == Head(calls)
<1>1. /\ Waiting(1) /\ lookup_end(c, f) /\ calls' = Tail(calls) /\ UNCHANGED <<live, kind>>
      /\ open' = open \union {f} /\ faces' = [faces EXCEPT ![c.id] = f]
  BY DEF requester_returns
<1>2. calls \in Seq(Call) /\ CallsServed /\ Len(calls) <= MaxCalls /\ StoreTypeOK
      /\ kind \in [Cache -> Kind \union {"none"}]
  BY TypeParts DEF NodesInv
<1>3. /\ calls' \in Seq(Call) /\ Len(calls') <= Len(calls) /\ CallsServed'
      /\ c \in Lookup /\ (c.for = "entry" => kind[c.cache] \in Kind)
      /\ Resetting' <=> Resetting
  BY <1>1, <1>2, PopLookup
<1> HIDE DEF c
<1>4. StoreTypeOK' /\ NodesFilled' /\ RefsCountHolders'
  BY <1>1, <1>2, <1>3, StoreEffect DEF NodesInv
<1>5. Lead => Lead'
  BY <1>1, <1>2, <1>3, StoreLeads DEF NodesInv
<1>6. Len(calls') <= MaxCalls
  BY <1>2, <1>3, FtcAssumption
<1>7. FtcTypeOK'
  <2>1. faces' \in [Id -> Face \union {NoFace}] /\ open' \subseteq Face
    BY <1>1 DEF NodesInv, FtcTypeOK
  <2>2. live' \in BOOLEAN /\ kind' \in [Cache -> Kind \union {"none"}]
    BY <1>1 DEF NodesInv, FtcTypeOK
  <2> QED BY <1>3, <1>4, <1>6, <2>1, <2>2 DEF FtcTypeOK, StoreTypeOK
<1> QED BY <1>3, <1>4, <1>5, <1>7 DEF NodesInv, EntriesLeadToNodes, Lead

LEMMA NodesFailed ==
  ASSUME NodesInv, requester_fails
  PROVE  NodesInv'
<1>1. /\ Waiting(1) /\ calls' = Tail(calls)
      /\ UNCHANGED <<live, faces, nodes, kind, entries, answers, shows, refs, held, open>>
  BY DEF requester_fails
<1>2. /\ calls' \in Seq(Call) /\ Len(calls') <= Len(calls) /\ CallsServed'
      /\ Resetting' <=> Resetting
  BY <1>1, PopLookup DEF NodesInv, FtcTypeOK
<1>3. Len(calls') <= MaxCalls
  <2>1. Len(calls) \in Nat /\ Len(calls') \in Nat /\ Len(calls) <= MaxCalls
    BY <1>2 DEF NodesInv, FtcTypeOK
  <2> QED BY <1>2, <2>1, FtcAssumption
<1>4. FtcTypeOK'
  BY <1>1, <1>2, <1>3 DEF NodesInv, FtcTypeOK
<1> QED BY <1>1, <1>2, <1>4 DEF NodesInv, NodesFilled, RefsCountHolders, EntriesLeadToNodes

\* Emptying caches takes entries away and adds none.
LEMMA Cleared ==
  ASSUME StoreTypeOK, clear_entries
  PROVE  /\ \A x \in Cache, s \in Slot : entries'[x][s] = NoNode /\ answers'[x][s] = NoFace
         /\ entries' \in [Cache -> [Slot -> Node \union {NoNode}]]
         /\ answers' \in [Cache -> [Slot -> Face \union {NoFace}]]
BY DEF clear_entries, NoEntries, NoAnswers

LEMMA EntriesRemoved ==
  ASSUME StoreTypeOK, NEW i \in Id, remove_entries(i)
  PROVE  /\ \A x \in Cache, s \in Slot :
              /\ entries'[x][s] = IF s[1] = i THEN NoNode ELSE entries[x][s]
              /\ answers'[x][s] = IF s[1] = i THEN NoFace ELSE answers[x][s]
         /\ entries' \in [Cache -> [Slot -> Node \union {NoNode}]]
         /\ answers' \in [Cache -> [Slot -> Face \union {NoFace}]]
BY DEF remove_entries, StoreTypeOK

LEMMA FewerLead ==
  ASSUME Lead, UNCHANGED <<nodes, shows, kind>>,
         \A x \in Cache, s \in Slot : entries'[x][s] \in {entries[x][s], NoNode}
  PROVE  Lead'
<1>1. \A x \in Cache, s \in Slot : entries'[x][s] # NoNode => entries'[x][s] = entries[x][s]
  OBVIOUS
<1> QED BY <1>1 DEF Lead

LEMMA NoneLead ==
  ASSUME \A x \in Cache, s \in Slot : entries'[x][s] = NoNode
  PROVE  Lead'
BY DEF Lead

\* What take_all leaves: no nodes, no payloads, no references.
LEMMA TakenAll ==
  ASSUME take_all
  PROVE  /\ nodes' = {} /\ NodesFilled' /\ RefsCountHolders'
         /\ \A i \in Id : faces'[i] = NoFace
         /\ faces' \in [Id -> Face \union {NoFace}]
         /\ shows' \in [Node -> Payload \union {Nothing}]
         /\ refs' \in [Node -> 0..MaxRefs]
<1>1. 0 \in 0..MaxRefs
  BY FtcAssumption
<1> QED BY <1>1 DEF take_all, NodesFilled, RefsCountHolders

LEMMA CachedFaces == FtcTypeOK => Cached \subseteq Face
BY DEF FtcTypeOK, Cached

LEMMA NodesReset ==
  ASSUME NodesInv, FTC_Manager_Reset
  PROVE  NodesInv'
<1> DEFINE c == [for |-> "reset", left |-> Cached]
<1>1. /\ take_all /\ UNCHANGED <<live, kind, held, open>>
      /\ destroy_faces(c, clear_entries)
  BY DEF FTC_Manager_Reset, ftc_reset_manager
<1>2. c \in Removal /\ c.for = "reset"
  BY CachedFaces DEF NodesInv, Removal
<1>3. StoreTypeOK /\ calls \in Seq(Call) /\ CallsServed /\ Len(calls) <= MaxCalls
  BY TypeParts DEF NodesInv
<1> HIDE DEF c
<1>4. CASE c.left = {}
  <2>1. clear_entries /\ UNCHANGED calls
    BY <1>1, <1>4 DEF destroy_faces
  <2>2. Lead' /\ entries' \in [Cache -> [Slot -> Node \union {NoNode}]]
        /\ answers' \in [Cache -> [Slot -> Face \union {NoFace}]]
    BY <1>3, <2>1, Cleared, NoneLead
  <2>3. FtcTypeOK'
    BY <1>1, <2>1, <2>2, TakenAll DEF NodesInv, FtcTypeOK
  <2>4. CallsServed'
    BY <1>1, <1>3, <2>1 DEF CallsServed
  <2> QED BY <1>1, <2>2, <2>3, <2>4, TakenAll DEF NodesInv, EntriesLeadToNodes, Lead
<1>5. CASE c.left # {}
  <2>1. Len(calls) < MaxCalls /\ calls' = <<c>> \o calls /\ UNCHANGED <<entries, answers>>
    BY <1>1, <1>5 DEF destroy_faces
  <2>2. calls' \in Seq(Call) /\ CallsServed' /\ Resetting'
    BY <1>1, <1>2, <1>3, <2>1, PushRemoval
  <2>3. Len(calls') <= MaxCalls
    <3>1. c \in Call
      BY <1>2 DEF Call
    <3> QED BY <1>3, <2>1, <3>1, Stacked, FtcAssumption
  <2>4. FtcTypeOK'
    BY <1>1, <2>1, <2>2, <2>3, TakenAll DEF NodesInv, FtcTypeOK
  <2> QED BY <1>1, <2>2, <2>4, TakenAll DEF NodesInv, EntriesLeadToNodes
<1> QED BY <1>4, <1>5

LEMMA NodesRemove ==
  ASSUME NodesInv, NEW i \in Id, FTC_Manager_RemoveFaceID(i)
  PROVE  NodesInv'
<1> DEFINE c == [for |-> "remove", id |-> i, left |-> {faces[i]} \ {NoFace}]
<1>1. /\ faces' = [faces EXCEPT ![i] = NoFace]
      /\ UNCHANGED <<live, nodes, kind, shows, refs, held, open>>
      /\ destroy_faces(c, remove_entries(i))
  BY DEF FTC_Manager_RemoveFaceID
<1>2. c \in Removal /\ c.for = "remove"
  BY DEF NodesInv, FtcTypeOK, Removal
<1>3. StoreTypeOK /\ calls \in Seq(Call) /\ CallsServed /\ Len(calls) <= MaxCalls
      /\ faces' \in [Id -> Face \union {NoFace}]
  BY <1>1, TypeParts DEF NodesInv
<1> HIDE DEF c
<1>4. CASE c.left = {}
  <2>1. remove_entries(i) /\ UNCHANGED calls
    BY <1>1, <1>4 DEF destroy_faces
  <2>2. /\ \A x \in Cache, s \in Slot : entries'[x][s] \in {entries[x][s], NoNode}
        /\ entries' \in [Cache -> [Slot -> Node \union {NoNode}]]
        /\ answers' \in [Cache -> [Slot -> Face \union {NoFace}]]
    BY <1>3, <2>1, EntriesRemoved
  <2>3. Lead => Lead'
    BY <1>1, <2>2, FewerLead
  <2>4. FtcTypeOK'
    BY <1>1, <1>3, <2>1, <2>2 DEF NodesInv, FtcTypeOK
  <2>5. CallsServed' /\ (Resetting' <=> Resetting)
    BY <1>1, <1>3, <2>1 DEF CallsServed, Resetting
  <2> QED BY <1>1, <2>3, <2>4, <2>5 DEF NodesInv, NodesFilled, RefsCountHolders, EntriesLeadToNodes, Lead
<1>5. CASE c.left # {}
  <2>1. Len(calls) < MaxCalls /\ calls' = <<c>> \o calls /\ UNCHANGED <<entries, answers>>
    BY <1>1, <1>5 DEF destroy_faces
  <2>2. calls' \in Seq(Call) /\ CallsServed' /\ (Resetting' <=> Resetting)
    BY <1>1, <1>2, <1>3, <2>1, PushRemoval
  <2>3. Len(calls') <= MaxCalls
    <3>1. c \in Call
      BY <1>2 DEF Call
    <3> QED BY <1>3, <2>1, <3>1, Stacked, FtcAssumption
  <2>4. FtcTypeOK'
    BY <1>1, <1>3, <2>1, <2>2, <2>3 DEF NodesInv, FtcTypeOK
  <2> QED BY <1>1, <2>1, <2>2, <2>4 DEF NodesInv, NodesFilled, RefsCountHolders, EntriesLeadToNodes
<1> QED BY <1>4, <1>5

\* A finalizer returns: between two faces of a reset nothing else changes, and
\* the last one takes the entries with it.
LEMMA NodesFinalized ==
  ASSUME NodesInv, NEW f \in Face, finalizer_returns(f)
  PROVE  NodesInv'
<1>1. /\ calls # <<>> /\ Head(calls) \in Removal /\ f \in Head(calls).left
      /\ open' = open \ {f}
      /\ UNCHANGED <<live, faces, nodes, kind, shows, refs, held>>
  BY DEF finalizer_returns
<1>2. StoreTypeOK /\ calls \in Seq(Call) /\ CallsServed /\ Len(calls) <= MaxCalls
  BY TypeParts DEF NodesInv
<1>3. NodesFilled' /\ RefsCountHolders'
  BY <1>1 DEF NodesInv, NodesFilled, RefsCountHolders
<1>4. CASE Head(calls).left # {f}
  <2>1. calls' = [calls EXCEPT ![1].left = @ \ {f}] /\ UNCHANGED <<entries, answers>>
    BY <1>4 DEF finalizer_returns
  <2>2. calls' \in Seq(Call) /\ Len(calls') = Len(calls) /\ CallsServed' /\ (Resetting' <=> Resetting)
    BY <1>1, <1>2, <2>1, ShrinkRemoval
  <2>3. FtcTypeOK'
    BY <1>1, <1>2, <2>1, <2>2 DEF NodesInv, FtcTypeOK
  <2> QED BY <1>1, <1>3, <2>1, <2>2, <2>3 DEF NodesInv, EntriesLeadToNodes
<1>5. CASE Head(calls).left = {f}
  <2>1. /\ calls' = Tail(calls)
        /\ IF Head(calls).for = "reset" THEN clear_entries ELSE remove_entries(Head(calls).id)
    BY <1>5 DEF finalizer_returns
  <2>2. /\ calls' \in Seq(Call) /\ Len(calls') <= Len(calls) /\ CallsServed'
        /\ Head(calls) \in Call
        /\ Resetting => Resetting' \/ Head(calls).for = "reset"
    BY <1>1, <1>2, <2>1, PopRemoval
  <2>3. Len(calls') <= MaxCalls
    BY <1>2, <2>2, FtcAssumption
  <2>4. /\ Head(calls).for = "reset" => Lead'
        /\ Head(calls).for # "reset" => (Lead => Lead')
        /\ entries' \in [Cache -> [Slot -> Node \union {NoNode}]]
        /\ answers' \in [Cache -> [Slot -> Face \union {NoFace}]]
    <3>1. CASE Head(calls).for = "reset"
      BY <1>2, <2>1, <3>1, Cleared, NoneLead
    <3>2. CASE Head(calls).for # "reset"
      <4>1. Head(calls).id \in Id /\ remove_entries(Head(calls).id)
        BY <1>1, <2>1, <2>2, <3>2, CallKinds
      <4>2. /\ \A x \in Cache, s \in Slot : entries'[x][s] \in {entries[x][s], NoNode}
            /\ entries' \in [Cache -> [Slot -> Node \union {NoNode}]]
            /\ answers' \in [Cache -> [Slot -> Face \union {NoFace}]]
        BY <1>2, <4>1, EntriesRemoved
      <4>3. Lead => Lead'
        BY <1>1, <4>2, FewerLead
      <4> QED BY <3>2, <4>2, <4>3
    <3> QED BY <3>1, <3>2
  <2>5. FtcTypeOK'
    BY <1>1, <1>2, <2>2, <2>3, <2>4 DEF NodesInv, FtcTypeOK
  <2> QED BY <1>3, <2>2, <2>4, <2>5 DEF NodesInv, EntriesLeadToNodes, Lead
<1> QED BY <1>4, <1>5

LEMMA NodesDone ==
  ASSUME NodesInv, FTC_Manager_Done
  PROVE  NodesInv'
<1>1. /\ take_all /\ clear_entries /\ calls = <<>> /\ UNCHANGED <<held, calls>>
      /\ open' = open \ Cached /\ live' = FALSE /\ kind' = [x \in Cache |-> "none"]
  BY DEF FTC_Manager_Done
<1>2. Lead' /\ entries' \in [Cache -> [Slot -> Node \union {NoNode}]]
      /\ answers' \in [Cache -> [Slot -> Face \union {NoFace}]]
  BY <1>1, Cleared, NoneLead, TypeParts DEF NodesInv
<1>3. FtcTypeOK'
  BY <1>1, <1>2, TakenAll DEF NodesInv, FtcTypeOK
<1>4. CallsServed'
  BY <1>1 DEF CallsServed
<1> QED BY <1>1, <1>2, <1>3, <1>4, TakenAll DEF NodesInv, EntriesLeadToNodes, Lead

\* A cache that had no kind had no entries.
LEMMA NodesCacheNew ==
  ASSUME NodesInv, NEW x \in Cache, NEW k \in Kind, FTC_Cache_New(x, k)
  PROVE  NodesInv'
<1>1. /\ kind[x] = "none" /\ kind' = [kind EXCEPT ![x] = k]
      /\ UNCHANGED <<live, faces, nodes, entries, answers, shows, refs, held, open, calls>>
  BY DEF FTC_Cache_New
<1>2. FtcTypeOK'
  BY <1>1 DEF NodesInv, FtcTypeOK
<1>3. CallsServed'
  <2>1. \A m \in DOMAIN calls : calls[m] \in Call
    BY DEF NodesInv, FtcTypeOK
  <2>2. \A m \in DOMAIN calls : calls[m] \in Lookup /\ calls[m].for = "entry" =>
          calls[m].cache \in Cache /\ kind[calls[m].cache] \in Kind
    BY <2>1, CallKinds DEF NodesInv, CallsServed
  <2>3. \A y \in Cache : kind[y] \in Kind => kind'[y] \in Kind
    BY <1>1 DEF NodesInv, FtcTypeOK
  <2> QED BY <1>1, <2>2, <2>3 DEF CallsServed
<1>4. Lead => Lead'
  <2> SUFFICES ASSUME Lead PROVE Lead'
    OBVIOUS
  <2>1. \A s \in Slot : entries[x][s] = NoNode
    <3> SUFFICES ASSUME NEW s \in Slot, entries[x][s] # NoNode PROVE FALSE
      OBVIOUS
    <3>1. /\ entries[x][s] \in nodes /\ entries[x][s] \in Node
          /\ shows[entries[x][s]].kind = "none"
      BY <1>1 DEF Lead, NodesInv, FtcTypeOK
    <3>2. shows[entries[x][s]] \in Payload
      BY <3>1 DEF NodesInv, NodesFilled
    <3> QED BY <3>1, <3>2 DEF Payload, GlyphKind
  <2>2. \A y \in Cache \ {x} : kind'[y] = kind[y]
    BY <1>1 DEF NodesInv, FtcTypeOK
  <2> QED BY <1>1, <2>1, <2>2 DEF Lead
<1>5. Resetting' <=> Resetting
  BY <1>1 DEF Resetting
<1> QED BY <1>1, <1>2, <1>3, <1>4, <1>5 DEF NodesInv, NodesFilled, RefsCountHolders, EntriesLeadToNodes, Lead

\* A manager that is not live has no caches, no nodes and no calls that wait.
Idle == ~live => nodes = {} /\ calls = <<>> /\ \A x \in Cache : kind[x] = "none"

\* A reference that is given back to a node the manager has counts there.
LEMMA NodesUnref ==
  ASSUME NodesInv, Idle, NEW n \in Node, FTC_Node_Unref(n)
  PROVE  NodesInv'
<1>1. /\ held[n] > 0 /\ held' = [held EXCEPT ![n] = @ - 1]
      /\ refs' = IF live /\ n \in nodes /\ refs[n] > 0 THEN [refs EXCEPT ![n] = @ - 1] ELSE refs
      /\ UNCHANGED <<live, faces, nodes, kind, entries, answers, shows, open, calls>>
  BY DEF FTC_Node_Unref
<1>2. held[n] \in 0..MaxRefs /\ refs[n] \in 0..MaxRefs /\ MaxRefs \in Nat
  BY FtcAssumption DEF NodesInv, FtcTypeOK
<1>3. held[n] - 1 \in 0..MaxRefs /\ (refs[n] > 0 => refs[n] - 1 \in 0..MaxRefs)
  BY <1>1, <1>2
<1>4. held' \in [Node -> 0..MaxRefs] /\ refs' \in [Node -> 0..MaxRefs]
  BY <1>1, <1>3 DEF NodesInv, FtcTypeOK
<1>5. FtcTypeOK'
  BY <1>1, <1>4 DEF NodesInv, FtcTypeOK
<1>6. \A o \in Node \ {n} : refs'[o] = refs[o] /\ held'[o] = held[o]
  BY <1>1 DEF NodesInv, FtcTypeOK
<1>7. n \in nodes => refs'[n] = refs[n] - 1 /\ held'[n] = held[n] - 1
  BY <1>1, <1>2 DEF NodesInv, FtcTypeOK, RefsCountHolders, Idle
<1>8. n \notin nodes => refs'[n] = refs[n]
  BY <1>1
<1>9. RefsCountHolders'
  BY <1>1, <1>6, <1>7 DEF NodesInv, RefsCountHolders, FtcTypeOK
<1>10. NodesFilled'
  BY <1>1, <1>6, <1>8 DEF NodesInv, NodesFilled
<1>11. CallsServed' /\ EntriesLeadToNodes'
  BY <1>1 DEF NodesInv, CallsServed, EntriesLeadToNodes, Resetting
<1> QED BY <1>5, <1>9, <1>10, <1>11 DEF NodesInv

\* A lookup that finds its entry may take a reference to the node.
LEMMA NodesHit ==
  ASSUME NodesInv, NEW n \in nodes, NEW lock \in BOOLEAN, lock_node(n, lock),
         UNCHANGED <<live, faces, nodes, kind, entries, answers, shows, open, calls>>
  PROVE  NodesInv'
<1>1. n \in Node /\ refs[n] = held[n] /\ StoreTypeOK
  BY TypeParts DEF NodesInv, FtcTypeOK, RefsCountHolders
<1>2. /\ refs' \in [Node -> 0..MaxRefs] /\ held' \in [Node -> 0..MaxRefs]
      /\ refs'[n] = held'[n]
      /\ \A o \in Node \ {n} : refs'[o] = refs[o] /\ held'[o] = held[o]
  BY <1>1, LockNode
<1>3. FtcTypeOK'
  BY <1>2 DEF NodesInv, FtcTypeOK
<1>4. RefsCountHolders'
  BY <1>2 DEF NodesInv, RefsCountHolders, FtcTypeOK
<1>5. NodesFilled'
  BY <1>2 DEF NodesInv, NodesFilled
<1>6. CallsServed' /\ EntriesLeadToNodes'
  BY DEF NodesInv, CallsServed, EntriesLeadToNodes, Resetting
<1> QED BY <1>3, <1>4, <1>5, <1>6 DEF NodesInv

\* The three lookups, by what they look up.
LEMMA NodesLookups ==
  ASSUME NodesInv,
         \/ \E i \in Id : FTC_Manager_Lookup(i)
         \/ \E x \in Cache, i \in Id, k \in Key : FTC_CMapCache_Lookup(x, i, k)
         \/ \E x \in Cache, i \in Id, k \in Key, lock \in BOOLEAN : FTC_GlyphCache_Lookup(x, i, k, lock)
  PROVE  NodesInv'
<1>1. ASSUME NEW i \in Id, FTC_Manager_Lookup(i)
      PROVE  NodesInv'
  <2> DEFINE c == [for |-> "face", id |-> i]
  <2>1. c \in Lookup /\ c.for # "entry"
    BY DEF Lookup
  <2>2. lookup(c) /\ UNCHANGED <<live, faces, kind, open>>
    BY <1>1 DEF FTC_Manager_Lookup
  <2> HIDE DEF c
  <2> QED BY <2>1, <2>2, NodesLookup
<1>2. ASSUME NEW x \in Cache, NEW i \in Id, NEW k \in Key, FTC_CMapCache_Lookup(x, i, k)
      PROVE  NodesInv'
  <2> DEFINE c == [for |-> "entry", id |-> i, cache |-> x, key |-> k, lock |-> FALSE]
  <2>1. c \in Lookup /\ c.cache = x /\ kind[x] \in Kind
    BY <1>2 DEF Lookup, FTC_CMapCache_Lookup, Kind
  <2>2. lookup(c) /\ UNCHANGED <<live, faces, kind, open>>
    BY <1>2 DEF FTC_CMapCache_Lookup
  <2> HIDE DEF c
  <2> QED BY <2>1, <2>2, NodesLookup
<1>3. ASSUME NEW x \in Cache, NEW i \in Id, NEW k \in Key, NEW lock \in BOOLEAN,
             FTC_GlyphCache_Lookup(x, i, k, lock)
      PROVE  NodesInv'
  <2> DEFINE n == entries[x][<<i, k>>]
             c == [for |-> "entry", id |-> i, cache |-> x, key |-> k, lock |-> lock]
  <2>1. CASE n # NoNode
    <3>1. n \in nodes
      BY <1>3, <2>1 DEF FTC_GlyphCache_Lookup, NodesInv, EntriesLeadToNodes, Slot
    <3>2. /\ lock_node(n, lock)
          /\ UNCHANGED <<live, faces, nodes, kind, entries, answers, shows, open, calls>>
      BY <1>3, <2>1 DEF FTC_GlyphCache_Lookup
    <3> HIDE DEF n
    <3> QED BY <3>1, <3>2, NodesHit
  <2>2. CASE n = NoNode
    <3>1. c \in Lookup /\ c.cache = x /\ kind[x] \in Kind
      BY <1>3 DEF Lookup, FTC_GlyphCache_Lookup, Kind
    <3>2. lookup(c) /\ UNCHANGED <<live, faces, kind, open>>
      BY <1>3, <2>2 DEF FTC_GlyphCache_Lookup
    <3> HIDE DEF c
    <3> QED BY <3>1, <3>2, NodesLookup
  <2> QED BY <2>1, <2>2
<1> QED BY <1>1, <1>2, <1>3

\* Nodes, caches and waiting calls come only to a live manager.
LEMMA IdleStep ==
  ASSUME NodesInv, Idle, [Next]_vars
  PROVE  Idle'
<1>1. ASSUME live, live' = live PROVE Idle'
  BY <1>1 DEF Idle
<1>2. CASE FTC_Manager_New
  BY <1>2 DEF FTC_Manager_New, Idle
<1>3. CASE FTC_Manager_Done
  BY <1>3 DEF FTC_Manager_Done, take_all, Idle
<1>4. ASSUME NEW n \in Node, FTC_Node_Unref(n)
      PROVE  Idle'
  BY <1>4 DEF FTC_Node_Unref, Idle
<1>5. CASE UNCHANGED vars
  BY <1>5 DEF vars, Idle
<1>6. ASSUME \/ FTC_Manager_Reset
             \/ \E x \in Cache, k \in Kind : FTC_Cache_New(x, k)
             \/ \E i \in Id : FTC_Manager_Lookup(i) \/ FTC_Manager_RemoveFaceID(i)
      PROVE  Idle'
  BY <1>1, <1>6 DEF FTC_Manager_Reset, FTC_Cache_New, FTC_Manager_Lookup, FTC_Manager_RemoveFaceID
<1>7. ASSUME NEW x \in Cache, NEW i \in Id, NEW k \in Key,
             FTC_CMapCache_Lookup(x, i, k) \/ \E lock \in BOOLEAN : FTC_GlyphCache_Lookup(x, i, k, lock)
      PROVE  Idle'
  <2>1. kind[x] # "none" /\ live' = live
    BY <1>7 DEF FTC_CMapCache_Lookup, FTC_GlyphCache_Lookup, GlyphKind
  <2> QED BY <1>1, <2>1 DEF Idle
<1>8. ASSUME requester_fails \/ \E f \in Face : requester_returns(f) \/ finalizer_returns(f)
      PROVE  Idle'
  <2>1. calls # <<>> /\ live' = live
    BY <1>8 DEF requester_fails, requester_returns, finalizer_returns, Waiting
  <2> QED BY <1>1, <2>1 DEF Idle
<1> QED BY <1>2, <1>3, <1>4, <1>5, <1>6, <1>7, <1>8 DEF Next

LEMMA NodesStep ==
  ASSUME NodesInv, Idle, [Next]_vars
  PROVE  NodesInv' /\ Idle'
<1>1. CASE FTC_Manager_New
  <2>1. FtcTypeOK' /\ CallsServed' /\ EntriesLeadToNodes'
    BY <1>1 DEF FTC_Manager_New, NodesInv, FtcTypeOK, CallsServed, EntriesLeadToNodes, Resetting
  <2> QED BY <1>1, <2>1, IdleStep DEF FTC_Manager_New, NodesInv, NodesFilled, RefsCountHolders
<1>2. CASE UNCHANGED vars
  <2>1. FtcTypeOK' /\ CallsServed' /\ EntriesLeadToNodes'
    BY <1>2 DEF vars, NodesInv, FtcTypeOK, CallsServed, EntriesLeadToNodes, Resetting
  <2> QED BY <1>2, <2>1, IdleStep DEF vars, NodesInv, NodesFilled, RefsCountHolders
<1> QED BY <1>1, <1>2, IdleStep, NodesReset, NodesDone, NodesCacheNew, NodesLookups, NodesRemove,
           NodesFailed, NodesRequested, NodesFinalized, NodesUnref
        DEF Next

-----------------------------------------------------------------------------
(* Faces and their owners *)

\* A removal or reset that waits has taken face f.
Taken(s, f) == \E c \in ToSet(s) : c \in Removal /\ f \in c.left

\* FacesOwnedOnce of a stack s, a table fs and a set o of open faces.
Owned(s, fs, o) ==
  /\ \A f \in Face : f \in o <=> (\E i \in Id : fs[i] = f) \/ Taken(s, f)
  /\ \A i, j \in Id : fs[i] = fs[j] /\ fs[i] # NoFace => i = j
  /\ \A f \in Face : Taken(s, f) => \A i \in Id : fs[i] # f
  /\ \A j, k \in DOMAIN s : \A f \in Face :
       s[j] \in Removal /\ s[k] \in Removal /\ f \in s[j].left /\ f \in s[k].left => j = k

LEMMA WaitingOrTaking ==
  ASSUME calls \in Seq(Call), NEW k \in DOMAIN calls
  PROVE  Waiting(k) <=> calls[k] \notin Removal
<1>1. calls[k] \in Call
  OBVIOUS
<1> QED BY <1>1, CallKinds DEF Waiting

LEMMA OwnedMeans ==
  ASSUME FtcTypeOK
  PROVE  FacesOwnedOnce <=> Owned(calls, faces, open)
<1>1. \A k \in DOMAIN calls : (Waiting(k) <=> calls[k] \notin Removal) /\ calls[k] \in Call
  BY WaitingOrTaking DEF FtcTypeOK
<1>2. \A k \in DOMAIN calls : calls[k] \in Removal => calls[k].left \subseteq Face
  BY <1>1, CallKinds
<1>3. Cached \subseteq Face /\ \A f \in Face : f \in Cached <=> \E i \in Id : faces[i] = f
  BY FtcAssumption DEF Cached, FtcTypeOK
<1>4. \A f : Taken(calls, f) <=> \E k \in DOMAIN calls : calls[k] \in Removal /\ f \in calls[k].left
  BY DEF Taken, ToSet
<1>5. \A f : f \in UNION {calls[k].left : k \in {j \in DOMAIN calls : ~Waiting(j)}} <=> Taken(calls, f)
  BY <1>1, <1>4
<1>6. open \subseteq Face /\ \A f : Taken(calls, f) => f \in Face
  BY <1>2, <1>4 DEF FtcTypeOK
<1>7. (open = Cached \union UNION {calls[k].left : k \in {j \in DOMAIN calls : ~Waiting(j)}})
        <=> \A f \in Face : f \in open <=> (\E i \in Id : faces[i] = f) \/ Taken(calls, f)
  <2>1. ASSUME open = Cached \union UNION {calls[k].left : k \in {j \in DOMAIN calls : ~Waiting(j)}},
               NEW f \in Face
        PROVE  f \in open <=> (\E i \in Id : faces[i] = f) \/ Taken(calls, f)
    BY <1>3, <1>5, <2>1
  <2>2. ASSUME \A f \in Face : f \in open <=> (\E i \in Id : faces[i] = f) \/ Taken(calls, f)
        PROVE  open = Cached \union UNION {calls[k].left : k \in {j \in DOMAIN calls : ~Waiting(j)}}
    <3>1. \A f : f \in open <=> f \in Cached \/ Taken(calls, f)
      BY <1>3, <1>6, <2>2
    <3> QED BY <1>5, <3>1
  <2> QED BY <2>1, <2>2
<1>8. (\A k \in DOMAIN calls : ~Waiting(k) => calls[k].left \intersect Cached = {})
        <=> \A f \in Face : Taken(calls, f) => \A i \in Id : faces[i] # f
  BY <1>1, <1>2, <1>3, <1>4
<1>9. (\A k \in DOMAIN calls : ~Waiting(k) =>
         \A j \in DOMAIN calls \ {k} : ~Waiting(j) => calls[k].left \intersect calls[j].left = {})
        <=> \A j, k \in DOMAIN calls : \A f \in Face :
              calls[j] \in Removal /\ calls[k] \in Removal /\ f \in calls[j].left /\ f \in calls[k].left
                => j = k
  BY <1>1, <1>2
<1> QED BY <1>7, <1>8, <1>9 DEF FacesOwnedOnce, Owned

LEMMA OwnedNext ==
  ASSUME FtcTypeOK'
  PROVE  FacesOwnedOnce' <=> Owned(calls', faces', open')
<1>1. \A k \in DOMAIN calls' : (Waiting(k)' <=> calls'[k] \notin Removal) /\ calls'[k] \in Call
  BY CallKinds DEF Waiting, FtcTypeOK
<1>2. \A k \in DOMAIN calls' : calls'[k] \in Removal => calls'[k].left \subseteq Face
  BY <1>1, CallKinds
<1>3. Cached' \subseteq Face /\ \A f \in Face : f \in Cached' <=> \E i \in Id : faces'[i] = f
  BY FtcAssumption DEF Cached, FtcTypeOK
<1>4. \A f : Taken(calls', f) <=> \E k \in DOMAIN calls' : calls'[k] \in Removal /\ f \in calls'[k].left
  BY DEF Taken, ToSet
<1>5. \A f : f \in UNION {calls'[k].left : k \in {j \in DOMAIN calls' : ~Waiting(j)'}} <=> Taken(calls', f)
  BY <1>1, <1>4
<1>6. open' \subseteq Face /\ \A f : Taken(calls', f) => f \in Face
  BY <1>2, <1>4 DEF FtcTypeOK
<1>7. (open' = Cached' \union UNION {calls'[k].left : k \in {j \in DOMAIN calls' : ~Waiting(j)'}})
        <=> \A f \in Face : f \in open' <=> (\E i \in Id : faces'[i] = f) \/ Taken(calls', f)
  <2>1. ASSUME open' = Cached' \union UNION {calls'[k].left : k \in {j \in DOMAIN calls' : ~Waiting(j)'}},
               NEW f \in Face
        PROVE  f \in open' <=> (\E i \in Id : faces'[i] = f) \/ Taken(calls', f)
    BY <1>3, <1>5, <2>1
  <2>2. ASSUME \A f \in Face : f \in open' <=> (\E i \in Id : faces'[i] = f) \/ Taken(calls', f)
        PROVE  open' = Cached' \union UNION {calls'[k].left : k \in {j \in DOMAIN calls' : ~Waiting(j)'}}
    <3>1. \A f : f \in open' <=> f \in Cached' \/ Taken(calls', f)
      BY <1>3, <1>6, <2>2
    <3> QED BY <1>5, <3>1
  <2> QED BY <2>1, <2>2
<1>8. (\A k \in DOMAIN calls' : ~Waiting(k)' => calls'[k].left \intersect Cached' = {})
        <=> \A f \in Face : Taken(calls', f) => \A i \in Id : faces'[i] # f
  BY <1>1, <1>2, <1>3, <1>4
<1>9. (\A k \in DOMAIN calls' : ~Waiting(k)' =>
         \A j \in DOMAIN calls' \ {k} : ~Waiting(j)' => calls'[k].left \intersect calls'[j].left = {})
        <=> \A j, k \in DOMAIN calls' : \A f \in Face :
              calls'[j] \in Removal /\ calls'[k] \in Removal /\ f \in calls'[j].left /\ f \in calls'[k].left
                => j = k
  BY <1>1, <1>2
<1> QED BY <1>7, <1>8, <1>9 DEF FacesOwnedOnce, Owned

LEMMA OwnedPushLookup ==
  ASSUME NEW s \in Seq(Call), NEW fs, NEW o, NEW c \in Lookup, Owned(s, fs, o)
  PROVE  Owned(<<c>> \o s, fs, o)
<1> DEFINE t == <<c>> \o s
<1>1. c \in Call /\ c \notin Removal
  BY CallKinds DEF Call
<1>2. ToSet(t) = ToSet(s) \union {c}
  BY <1>1, StackedSet
<1>3. \A f : Taken(t, f) <=> Taken(s, f)
  BY <1>1, <1>2 DEF Taken
<1>4. t[1] = c /\ \A k \in DOMAIN t : k # 1 => k - 1 \in DOMAIN s /\ t[k] = s[k - 1] /\ k \in Int
  BY <1>1, Stacked
<1> HIDE DEF t
<1>5. ASSUME NEW j \in DOMAIN t, NEW k \in DOMAIN t, NEW f \in Face,
             t[j] \in Removal, t[k] \in Removal, f \in t[j].left, f \in t[k].left
      PROVE  j = k
  <2>1. j # 1 /\ k # 1
    BY <1>1, <1>4, <1>5
  <2>2. j - 1 = k - 1
    BY <1>4, <1>5, <2>1 DEF Owned
  <2> QED BY <1>4, <2>1, <2>2
<1> QED BY <1>3, <1>5 DEF Owned, t

LEMMA OwnedPopLookup ==
  ASSUME NEW s \in Seq(Call), s # <<>>, NEW fs, NEW o, Head(s) \in Lookup, Owned(s, fs, o)
  PROVE  Owned(Tail(s), fs, o)
<1>1. Head(s) \notin Removal
  BY Unstacked, CallKinds
<1>2. ToSet(s) = ToSet(Tail(s)) \union {Head(s)}
  BY UnstackedSet
<1>3. \A f : Taken(Tail(s), f) <=> Taken(s, f)
  BY <1>1, <1>2 DEF Taken
<1>4. \A k \in DOMAIN Tail(s) : k + 1 \in DOMAIN s /\ Tail(s)[k] = s[k + 1] /\ k \in Int
  BY Unstacked
<1>5. ASSUME NEW j \in DOMAIN Tail(s), NEW k \in DOMAIN Tail(s), NEW f \in Face,
             Tail(s)[j] \in Removal, Tail(s)[k] \in Removal, f \in Tail(s)[j].left, f \in Tail(s)[k].left
      PROVE  j = k
  <2>1. j + 1 = k + 1
    BY <1>4, <1>5 DEF Owned
  <2> QED BY <1>4, <2>1
<1> QED BY <1>3, <1>5 DEF Owned

\* A new face is entered for an id that has none.
LEMMA OwnedEnter ==
  ASSUME NEW s, NEW fs \in [Id -> Face \union {NoFace}], NEW o, NEW i \in Id, NEW f \in Face \ o,
         fs[i] = NoFace, Owned(s, fs, o)
  PROVE  Owned(s, [fs EXCEPT ![i] = f], o \union {f})
<1> DEFINE gs == [fs EXCEPT ![i] = f]
<1>1. \A j \in Id : gs[j] = IF j = i THEN f ELSE fs[j]
  OBVIOUS
<1>2. NoFace \notin Face /\ ~Taken(s, f) /\ \A j \in Id : fs[j] # f
  BY FtcAssumption DEF Owned
<1> HIDE DEF gs
<1>3. \A g \in Face : g \in o \union {f} <=> (\E j \in Id : gs[j] = g) \/ Taken(s, g)
  <2> SUFFICES ASSUME NEW g \in Face
               PROVE  g \in o \union {f} <=> (\E j \in Id : gs[j] = g) \/ Taken(s, g)
    OBVIOUS
  <2>1. CASE g = f
    BY <1>1, <2>1
  <2>2. CASE g # f
    <3>1. (\E j \in Id : gs[j] = g) <=> \E j \in Id : fs[j] = g
      BY <1>1, <1>2, <2>2
    <3> QED BY <2>2, <3>1 DEF Owned
  <2> QED BY <2>1, <2>2
<1>4. \A j, k \in Id : gs[j] = gs[k] /\ gs[j] # NoFace => j = k
  BY <1>1, <1>2 DEF Owned
<1>5. \A g \in Face : Taken(s, g) => \A j \in Id : gs[j] # g
  BY <1>1, <1>2 DEF Owned
<1> QED BY <1>3, <1>4, <1>5 DEF Owned, gs

\* The faces of the ids in is leave the table; the call that took them waits
\* for their finalizers.
LEMMA OwnedTake ==
  ASSUME NEW s \in Seq(Call), NEW fs \in [Id -> Face \union {NoFace}], NEW o, NEW is \in SUBSET Id,
         NEW c \in Removal, NEW gs,
         \A f : f \in c.left <=> f # NoFace /\ \E i \in is : fs[i] = f,
         \A i \in Id : gs[i] = IF i \in is THEN NoFace ELSE fs[i],
         Owned(s, fs, o)
  PROVE  /\ Owned(<<c>> \o s, gs, o)
         /\ c.left = {} => Owned(s, gs, o)
<1> DEFINE t == <<c>> \o s
<1>1. c \in Call /\ NoFace \notin Face
  BY FtcAssumption DEF Call
<1>2. ToSet(t) = ToSet(s) \union {c}
  BY <1>1, StackedSet
<1>3. \A f : Taken(t, f) <=> Taken(s, f) \/ f \in c.left
  BY <1>1, <1>2 DEF Taken
<1>4. t[1] = c /\ \A k \in DOMAIN t : k # 1 => k - 1 \in DOMAIN s /\ t[k] = s[k - 1] /\ k \in Int
  BY <1>1, Stacked
<1> HIDE DEF t
<1>5. \A f \in Face : (\E i \in Id : fs[i] = f) <=> (\E i \in Id : gs[i] = f) \/ f \in c.left
  <2> SUFFICES ASSUME NEW f \in Face
               PROVE  (\E i \in Id : fs[i] = f) <=> (\E i \in Id : gs[i] = f) \/ f \in c.left
    OBVIOUS
  <2>1. ASSUME NEW i \in Id, fs[i] = f PROVE (\E j \in Id : gs[j] = f) \/ f \in c.left
    BY <1>1, <2>1
  <2>2. ASSUME NEW i \in Id, gs[i] = f PROVE \E j \in Id : fs[j] = f
    BY <1>1, <2>2
  <2>3. ASSUME f \in c.left PROVE \E j \in Id : fs[j] = f
    BY <2>3
  <2> QED BY <2>1, <2>2, <2>3
<1>6. \A f \in Face : f \in o <=> (\E i \in Id : gs[i] = f) \/ Taken(t, f)
  BY <1>3, <1>5 DEF Owned
<1>7. \A i, j \in Id : gs[i] = gs[j] /\ gs[i] # NoFace => i = j
  BY DEF Owned
<1>8. \A f \in Face : Taken(t, f) => \A i \in Id : gs[i] # f
  <2> SUFFICES ASSUME NEW f \in Face, Taken(t, f), NEW i \in Id, gs[i] = f PROVE FALSE
    OBVIOUS
  <2>1. i \notin is /\ fs[i] = f
    BY <1>1
  <2>2. CASE Taken(s, f)
    BY <2>1, <2>2 DEF Owned
  <2>3. CASE f \in c.left
    <3>1. PICK j \in is : fs[j] = f
      BY <2>3
    <3>2. j = i
      BY <1>1, <2>1, <3>1 DEF Owned
    <3> QED BY <2>1, <3>2
  <2> QED BY <1>3, <2>2, <2>3
<1>9. ASSUME NEW j \in DOMAIN t, NEW k \in DOMAIN t, NEW f \in Face,
             t[j] \in Removal, t[k] \in Removal, f \in t[j].left, f \in t[k].left
      PROVE  j = k
  <2>1. f \in c.left => ~Taken(s, f)
    <3> SUFFICES ASSUME f \in c.left, Taken(s, f) PROVE FALSE
      OBVIOUS
    <3>1. PICK i \in is : fs[i] = f
      OBVIOUS
    <3> QED BY <3>1 DEF Owned
  <2>2. ASSUME NEW m \in DOMAIN t, m # 1, f \in t[m].left, t[m] \in Removal PROVE Taken(s, f)
    BY <1>4, <2>2 DEF Taken, ToSet
  <2>3. CASE j # 1 /\ k # 1
    <3>1. j - 1 = k - 1
      BY <1>4, <1>9, <2>3 DEF Owned
    <3> QED BY <1>4, <2>3, <3>1
  <2> QED BY <1>4, <1>9, <2>1, <2>2, <2>3
<1>10. ASSUME c.left = {} PROVE Owned(s, gs, o)
  BY <1>3, <1>6, <1>7, <1>8, <1>10 DEF Owned
<1> QED BY <1>6, <1>7, <1>8, <1>9, <1>10 DEF Owned, t

\* The finalizer of face f returns, to the innermost call.
LEMMA OwnedFinal ==
  ASSUME NEW s \in Seq(Call), s # <<>>, NEW fs, NEW o, Head(s) \in Removal, NEW f \in Face,
         f \in Head(s).left, NEW t,
         \/ t = Tail(s) /\ Head(s).left = {f}
         \/ /\ DOMAIN t = DOMAIN s /\ t[1] \in Removal /\ t[1].left = s[1].left \ {f}
            /\ \A k \in DOMAIN s \ {1} : t[k] = s[k],
         Owned(s, fs, o)
  PROVE  Owned(t, fs, o \ {f})
<1>1. /\ 1 \in DOMAIN s /\ Head(s) = s[1]
      /\ \A k \in DOMAIN Tail(s) : k + 1 \in DOMAIN s /\ Tail(s)[k] = s[k + 1] /\ k \in Int
      /\ \A k \in DOMAIN s : k # 1 => k - 1 \in DOMAIN Tail(s) /\ Tail(s)[k - 1] = s[k]
  BY Unstacked
<1>2. /\ Taken(s, f) /\ \A i \in Id : fs[i] # f
      /\ \A k \in DOMAIN s : k # 1 /\ s[k] \in Removal => f \notin s[k].left
  BY <1>1 DEF Owned, Taken, ToSet
<1>3. CASE t = Tail(s) /\ Head(s).left = {f}
  <2>1. ToSet(s) = ToSet(t) \union {s[1]}
    BY <1>1, <1>3, UnstackedSet
  <2>2. ASSUME Taken(t, f) PROVE FALSE
    <3>1. PICK k \in DOMAIN t : t[k] \in Removal /\ f \in t[k].left
      BY <2>2 DEF Taken, ToSet
    <3>2. k + 1 \in DOMAIN s /\ k + 1 # 1 /\ s[k + 1] = t[k]
      <4>1. k \in DOMAIN Tail(s)
        BY <1>3
      <4>2. k \in 1..Len(Tail(s)) /\ Len(Tail(s)) \in Nat
        BY <4>1, Unstacked
      <4> QED BY <1>1, <1>3, <4>1, <4>2
    <3> QED BY <1>2, <3>1, <3>2
  <2>3. \A g \in Face : Taken(t, g) <=> Taken(s, g) /\ g # f
    BY <1>1, <1>3, <2>1, <2>2 DEF Taken
  <2>4. ASSUME NEW j \in DOMAIN t, NEW k \in DOMAIN t, NEW g \in Face,
               t[j] \in Removal, t[k] \in Removal, g \in t[j].left, g \in t[k].left
        PROVE  j = k
    <3>1. j + 1 = k + 1
      BY <1>1, <1>3, <2>4 DEF Owned
    <3> QED BY <1>1, <1>3, <3>1
  <2> QED BY <1>2, <2>3, <2>4 DEF Owned
<1>4. CASE /\ DOMAIN t = DOMAIN s /\ t[1] \in Removal /\ t[1].left = s[1].left \ {f}
           /\ \A k \in DOMAIN s \ {1} : t[k] = s[k]
  <2>1. \A g : Taken(t, g) <=> \E k \in DOMAIN s : t[k] \in Removal /\ g \in t[k].left
    BY <1>4 DEF Taken, ToSet
  <2>2. \A g : Taken(s, g) <=> \E k \in DOMAIN s : s[k] \in Removal /\ g \in s[k].left
    BY DEF Taken, ToSet
  <2>3. \A k \in DOMAIN s : \A g \in Face :
          t[k] \in Removal /\ g \in t[k].left <=> s[k] \in Removal /\ g \in s[k].left /\ g # f
    BY <1>1, <1>2, <1>4
  <2>4. \A g \in Face : Taken(t, g) <=> Taken(s, g) /\ g # f
    BY <2>1, <2>2, <2>3
  <2>5. \A j, k \in DOMAIN t : \A g \in Face :
          t[j] \in Removal /\ t[k] \in Removal /\ g \in t[j].left /\ g \in t[k].left => j = k
    BY <1>4, <2>3 DEF Owned
  <2> QED BY <1>2, <2>4, <2>5 DEF Owned
<1> QED BY <1>3, <1>4

-----------------------------------------------------------------------------
(* Requesters that do not look up the face they are asked for *)

\* Of the lookups that wait in stack s no two are for one id, and such an id has
\* no face in the table fs.
Asked(s, fs) ==
  /\ \A j, k \in DOMAIN s : s[j] \in Lookup /\ s[k] \in Lookup /\ s[j].id = s[k].id => j = k
  /\ \A k \in DOMAIN s : s[k] \in Lookup => fs[s[k].id] = NoFace

LEMMA AskedPush ==
  ASSUME NEW s \in Seq(Call), NEW fs, NEW c \in Lookup, Asked(s, fs), fs[c.id] = NoFace,
         \A k \in DOMAIN s : s[k] \in Lookup => s[k].id # c.id
  PROVE  Asked(<<c>> \o s, fs)
<1> DEFINE t == <<c>> \o s
<1>1. c \in Call
  BY DEF Call
<1>2. t[1] = c /\ \A k \in DOMAIN t : k # 1 => k - 1 \in DOMAIN s /\ t[k] = s[k - 1] /\ k \in Int
  BY <1>1, Stacked
<1> HIDE DEF t
<1>3. ASSUME NEW j \in DOMAIN t, NEW k \in DOMAIN t, t[j] \in Lookup, t[k] \in Lookup, t[j].id = t[k].id
      PROVE  j = k
  <2>1. CASE j # 1 /\ k # 1
    <3>1. j - 1 = k - 1
      BY <1>2, <1>3, <2>1 DEF Asked
    <3> QED BY <1>2, <2>1, <3>1
  <2> QED BY <1>2, <1>3, <2>1
<1>4. \A k \in DOMAIN t : t[k] \in Lookup => fs[t[k].id] = NoFace
  BY <1>2 DEF Asked
<1> QED BY <1>3, <1>4 DEF Asked, t

\* Ids may lose their face while a removal or reset begins.
LEMMA AskedTake ==
  ASSUME NEW s \in Seq(Call), NEW fs, NEW gs, NEW c \in Removal, Asked(s, fs),
         \A i \in Id : gs[i] \in {fs[i], NoFace}
  PROVE  Asked(<<c>> \o s, gs) /\ Asked(s, gs)
<1> DEFINE t == <<c>> \o s
<1>1. c \in Call /\ c \notin Lookup
  BY CallKinds DEF Call
<1>2. t[1] = c /\ \A k \in DOMAIN t : k # 1 => k - 1 \in DOMAIN s /\ t[k] = s[k - 1] /\ k \in Int
  BY <1>1, Stacked
<1>3. \A k \in DOMAIN s : s[k] \in Lookup => s[k].id \in Id
  <2>1. \A k \in DOMAIN s : s[k] \in Call
    OBVIOUS
  <2> QED BY <2>1, CallKinds
<1>4. \A k \in DOMAIN s : s[k] \in Lookup => gs[s[k].id] = NoFace
  BY <1>3 DEF Asked
<1> HIDE DEF t
<1>5. ASSUME NEW j \in DOMAIN t, NEW k \in DOMAIN t, t[j] \in Lookup, t[k] \in Lookup, t[j].id = t[k].id
      PROVE  j = k
  <2>1. j # 1 /\ k # 1
    BY <1>1, <1>2, <1>5
  <2>2. j - 1 = k - 1
    BY <1>2, <1>5, <2>1 DEF Asked
  <2> QED BY <1>2, <2>1, <2>2
<1>6. \A k \in DOMAIN t : t[k] \in Lookup => gs[t[k].id] = NoFace
  BY <1>1, <1>2, <1>4
<1> QED BY <1>4, <1>5, <1>6 DEF Asked, t

\* The innermost call ends; if it was a lookup, its id may have a face now.
LEMMA AskedPop ==
  ASSUME NEW s \in Seq(Call), s # <<>>, NEW fs, NEW gs, Asked(s, fs),
         \A i \in Id : gs[i] = fs[i] \/ (Head(s) \in Lookup /\ Head(s).id = i)
  PROVE  Asked(Tail(s), gs)
<1>1. /\ 1 \in DOMAIN s /\ Head(s) = s[1]
      /\ \A k \in DOMAIN Tail(s) : k + 1 \in DOMAIN s /\ Tail(s)[k] = s[k + 1] /\ k + 1 # 1 /\ k \in Int
  <2>1. \A k \in DOMAIN Tail(s) : k \in Int /\ k + 1 # 1
    <3>1. DOMAIN Tail(s) = 1..Len(Tail(s)) /\ Len(Tail(s)) \in Nat
      BY Unstacked
    <3> QED BY <3>1
  <2> QED BY <2>1, Unstacked
<1>2. ASSUME NEW j \in DOMAIN Tail(s), NEW k \in DOMAIN Tail(s),
             Tail(s)[j] \in Lookup, Tail(s)[k] \in Lookup, Tail(s)[j].id = Tail(s)[k].id
      PROVE  j = k
  <2>1. j + 1 = k + 1
    BY <1>1, <1>2 DEF Asked
  <2> QED BY <1>1, <2>1
<1>3. ASSUME NEW k \in DOMAIN Tail(s), Tail(s)[k] \in Lookup
      PROVE  gs[Tail(s)[k].id] = NoFace
  <2>1. k + 1 \in DOMAIN s /\ s[k + 1] = Tail(s)[k] /\ k + 1 # 1 /\ s[k + 1] \in Call
    BY <1>1
  <2>2. fs[s[k + 1].id] = NoFace /\ s[k + 1].id \in Id
    BY <1>3, <2>1, CallKinds DEF Asked
  <2>3. Head(s) \in Lookup => Head(s).id # s[k + 1].id
    BY <1>1, <1>3, <2>1 DEF Asked
  <2> QED BY <2>1, <2>2, <2>3
<1> QED BY <1>2, <1>3 DEF Asked

LEMMA AskedShrink ==
  ASSUME NEW s, NEW t, NEW fs, Asked(s, fs), DOMAIN t = DOMAIN s, t[1] \notin Lookup,
         \A k \in DOMAIN s \ {1} : t[k] = s[k]
  PROVE  Asked(t, fs)
BY DEF Asked

\* EntriesFollowFaces for one id, and its meaning.
Follow(i) ==
  \A x \in Cache, s \in Slot : s[1] = i =>
    /\ entries[x][s] # NoNode => shows[entries[x][s]].face = faces[i] /\ faces[i] # NoFace
    /\ answers[x][s] # NoFace => answers[x][s] = faces[i]

LEMMA FollowMeans ==
  EntriesFollowFaces <=> \A i \in Id : ~Resetting /\ ~Removing(i) => Follow(i)
<1>1. \A s \in Slot : s[1] \in Id
  BY DEF Slot
<1> QED BY <1>1 DEF EntriesFollowFaces, Follow

LEMMA FollowMeansNext ==
  EntriesFollowFaces' <=> \A i \in Id : ~Resetting' /\ ~Removing(i)' => Follow(i)'
<1>1. \A s \in Slot : s[1] \in Id
  BY DEF Slot
<1> QED BY <1>1 DEF EntriesFollowFaces, Follow

FacesInv ==
  /\ NodesInv
  /\ Idle
  /\ Asked(calls, faces)
  /\ FacesOwnedOnce
  /\ EntriesFollowFaces

\* The end of a lookup keeps what follows the faces, if the face it ended with
\* is the one of its id.
LEMMA StoreFollows ==
  ASSUME StoreTypeOK, NodesFilled, RefsCountHolders, kind \in [Cache -> Kind \union {"none"}],
         NEW c \in Lookup, NEW f \in Face, lookup_end(c, f),
         c.for = "entry" => kind[c.cache] \in Kind, Lead, NEW i \in Id, Follow(i),
         faces'[i] = faces[i] \/ (faces[i] = NoFace /\ i = c.id),
         i = c.id => faces'[i] = f
  PROVE  Follow(i)'
<1>1. /\ \A n \in nodes : shows'[n] = shows[n]
      /\ \/ UNCHANGED entries
         \/ \E n \in Node \ nodes :
              /\ n \in nodes'
              /\ c.for = "entry" /\ c.cache \in Cache /\ <<c.id, c.key>> \in Slot
              /\ shows'[n] = [kind |-> kind[c.cache], slot |-> <<c.id, c.key>>, face |-> f]
              /\ \A x \in Cache, s \in Slot :
                   entries'[x][s] = IF x = c.cache /\ s = <<c.id, c.key>> THEN n ELSE entries[x][s]
      /\ \A x \in Cache, s \in Slot :
           answers'[x][s] = answers[x][s] \/ (s[1] = c.id /\ answers'[x][s] = f)
  BY StoreEffect
<1>2. f # NoFace
  BY FtcAssumption
<1>3. \A x \in Cache, s \in Slot :
        entries'[x][s] # NoNode =>
          \/ entries'[x][s] = entries[x][s] /\ entries[x][s] \in nodes
          \/ s[1] = c.id /\ shows'[entries'[x][s]].face = f
  BY <1>1 DEF Lead
<1> SUFFICES ASSUME NEW x \in Cache, NEW s \in Slot, s[1] = i
             PROVE  /\ entries'[x][s] # NoNode =>
                         shows'[entries'[x][s]].face = faces'[i] /\ faces'[i] # NoFace
                    /\ answers'[x][s] # NoFace => answers'[x][s] = faces'[i]
  BY DEF Follow
<1>4. ASSUME entries'[x][s] # NoNode
      PROVE  shows'[entries'[x][s]].face = faces'[i] /\ faces'[i] # NoFace
  <2>1. CASE entries'[x][s] = entries[x][s] /\ entries[x][s] \in nodes
    BY <1>1, <1>4, <2>1 DEF Follow
  <2>2. CASE s[1] = c.id /\ shows'[entries'[x][s]].face = f
    BY <1>2, <2>2
  <2> QED BY <1>3, <1>4, <2>1, <2>2
<1>5. ASSUME answers'[x][s] # NoFace
      PROVE  answers'[x][s] = faces'[i]
  <2>1. CASE answers'[x][s] = answers[x][s]
    BY <1>5, <2>1 DEF Follow
  <2>2. CASE s[1] = c.id /\ answers'[x][s] = f
    BY <2>2
  <2> QED BY <1>1, <2>1, <2>2
<1> QED BY <1>4, <1>5

\* Ids whose entries and face stay keep following.
LEMMA SameFollows ==
  ASSUME NEW i \in Id, Follow(i), faces'[i] = faces[i], UNCHANGED shows,
         \A x \in Cache, s \in Slot : s[1] = i =>
           /\ entries'[x][s] \in {entries[x][s], NoNode}
           /\ answers'[x][s] \in {answers[x][s], NoFace}
  PROVE  Follow(i)'
<1>1. \A x \in Cache, s \in Slot : s[1] = i =>
        /\ entries'[x][s] # NoNode => entries'[x][s] = entries[x][s]
        /\ answers'[x][s] # NoFace => answers'[x][s] = answers[x][s]
  OBVIOUS
<1> QED BY <1>1 DEF Follow

LEMMA NoneFollows ==
  ASSUME NEW i \in Id,
         \A x \in Cache, s \in Slot : s[1] = i => entries'[x][s] = NoNode /\ answers'[x][s] = NoFace
  PROVE  Follow(i)'
BY DEF Follow

LEMMA FacesInit == Init => FacesInv
<1> SUFFICES ASSUME Init PROVE FacesInv
  OBVIOUS
<1>1. NodesInv /\ DOMAIN calls = {} /\ ToSet(calls) = {}
  BY NodesInit DEF Init, ToSet
<1>2. Idle /\ Asked(calls, faces)
  BY <1>1 DEF Init, Idle, Asked
<1>3. FacesOwnedOnce
  BY <1>1, OwnedMeans, FtcAssumption DEF Init, Owned, Taken, NodesInv
<1>4. EntriesFollowFaces
  BY DEF Init, EntriesFollowFaces, NoEntries, NoAnswers
<1> QED BY <1>1, <1>2, <1>3, <1>4 DEF FacesInv

\* What the lemmas about stores ask for.
LEMMA StoreReady ==
  ASSUME NodesInv
  PROVE  /\ StoreTypeOK /\ NodesFilled /\ RefsCountHolders /\ CallsServed
         /\ kind \in [Cache -> Kind \union {"none"}]
         /\ faces \in [Id -> Face \union {NoFace}]
         /\ calls \in Seq(Call)
         /\ ~Resetting => Lead
BY TypeParts, LeadGuarded DEF NodesInv

LEMMA FacesLookup ==
  ASSUME ~SelfRequests, FacesInv, NodesInv', Idle', NEW c \in Lookup, lookup(c),
         UNCHANGED <<live, faces, kind, open>>, c.for = "entry" => kind[c.cache] \in Kind
  PROVE  FacesInv'
<1>1. c.id \in Id /\ c \in Call
  BY CallKinds DEF Call
<1>2. CASE faces[c.id] # NoFace
  <2>1. lookup_end(c, faces[c.id]) /\ UNCHANGED calls /\ faces[c.id] \in Face
    BY <1>1, <1>2, StoreReady DEF lookup, FacesInv
  <2>2. (Resetting' <=> Resetting) /\ \A i \in Id : Removing(i)' <=> Removing(i)
    BY <2>1 DEF Resetting, Removing
  <2>3. ASSUME NEW i \in Id, ~Resetting', ~Removing(i)'
        PROVE  Follow(i)'
    <3>1. Follow(i) /\ Lead
      BY <2>2, <2>3, FollowMeans, StoreReady DEF FacesInv
    <3> QED BY <2>1, <3>1, StoreReady, StoreFollows DEF FacesInv
  <2>4. EntriesFollowFaces'
    BY <2>3, FollowMeansNext
  <2>5. FacesOwnedOnce' /\ Asked(calls', faces')
    BY <2>1 DEF FacesInv, FacesOwnedOnce, Cached, Waiting
  <2> QED BY <2>4, <2>5 DEF FacesInv
<1>3. CASE faces[c.id] = NoFace
  <2>1. /\ calls' = <<c>> \o calls
        /\ \A k \in DOMAIN calls : calls[k] \in Lookup => calls[k].id # c.id
        /\ UNCHANGED <<nodes, entries, answers, shows, refs, held>>
    BY <1>3 DEF lookup, Waiting
  <2>2. Asked(calls', faces')
    BY <1>3, <2>1, AskedPush, StoreReady DEF FacesInv
  <2>3. Owned(calls', faces', open')
    BY <2>1, OwnedPushLookup, OwnedMeans, StoreReady DEF FacesInv, NodesInv
  <2>4. FacesOwnedOnce'
    BY <2>3, OwnedNext DEF NodesInv
  <2>5. (Resetting' <=> Resetting) /\ \A i \in Id : Removing(i)' <=> Removing(i)
    BY <2>1, PushLookup, StoreReady DEF FacesInv
  <2>6. EntriesFollowFaces'
    BY <2>1, <2>5 DEF FacesInv, EntriesFollowFaces, Slot
  <2> QED BY <2>2, <2>4, <2>6 DEF FacesInv
<1> QED BY <1>2, <1>3

LEMMA FacesFailed ==
  ASSUME FacesInv, NodesInv', Idle', requester_fails
  PROVE  FacesInv'
<1>1. /\ Waiting(1) /\ calls' = Tail(calls) /\ calls # <<>>
      /\ UNCHANGED <<live, faces, nodes, kind, entries, answers, shows, refs, held, open>>
  BY DEF requester_fails, Waiting
<1>2. /\ Head(calls) \in Lookup
      /\ Resetting' <=> Resetting
      /\ \A i \in Id : Removing(i)' <=> Removing(i)
  BY <1>1, PopLookup, StoreReady DEF FacesInv
<1>3. Asked(calls', faces')
  BY <1>1, AskedPop, StoreReady DEF FacesInv
<1>4. Owned(calls', faces', open')
  BY <1>1, <1>2, OwnedPopLookup, OwnedMeans, StoreReady DEF FacesInv, NodesInv
<1>5. FacesOwnedOnce'
  BY <1>4, OwnedNext DEF NodesInv
<1>6. EntriesFollowFaces'
  BY <1>1, <1>2 DEF FacesInv, EntriesFollowFaces, Slot
<1> QED BY <1>3, <1>5, <1>6 DEF FacesInv

\* The face a requester returned is the first for its id, whatever its program
\* called meanwhile.
LEMMA FacesRequested ==
  ASSUME FacesInv, NodesInv', Idle', NEW f \in Face, requester_returns(f)
  PROVE  FacesInv'
<1> DEFINE c == Head(calls)
<1>1. /\ Waiting(1) /\ lookup_end(c, f) /\ calls' = Tail(calls) /\ calls # <<>>
      /\ f \notin open /\ open' = open \union {f} /\ faces' = [faces EXCEPT ![c.id] = f]
      /\ UNCHANGED kind
  BY DEF requester_returns, Waiting
<1>2. /\ c \in Lookup /\ c = calls[1] /\ (c.for = "entry" => kind[c.cache] \in Kind)
      /\ Resetting' <=> Resetting
      /\ \A i \in Id : Removing(i)' <=> Removing(i)
  BY <1>1, PopLookup, StoreReady DEF FacesInv
<1> HIDE DEF c
<1>3. c.id \in Id /\ faces[c.id] = NoFace
  BY <1>1, <1>2, CallKinds DEF FacesInv, Asked, Waiting, Call
<1>4. \A i \in Id : faces'[i] = IF i = c.id THEN f ELSE faces[i]
  BY <1>1, StoreReady DEF FacesInv
<1>5. Asked(calls', faces')
  BY <1>1, <1>2, <1>4, AskedPop, StoreReady DEF FacesInv, c
<1>6. Owned(calls', faces', open')
  <2>1. Owned(calls, faces, open)
    BY OwnedMeans DEF FacesInv, NodesInv
  <2>2. Owned(Tail(calls), faces, open)
    BY <1>1, <1>2, <2>1, OwnedPopLookup, StoreReady DEF FacesInv, c
  <2> QED BY <1>1, <1>3, <2>2, OwnedEnter, StoreReady DEF FacesInv
<1>7. FacesOwnedOnce'
  BY <1>6, OwnedNext DEF NodesInv
<1>8. ASSUME NEW i \in Id, ~Resetting', ~Removing(i)'
      PROVE  Follow(i)'
  <2>1. Follow(i) /\ Lead
    BY <1>2, <1>8, FollowMeans, StoreReady DEF FacesInv
  <2> QED BY <1>1, <1>2, <1>3, <1>4, <2>1, StoreReady, StoreFollows DEF FacesInv
<1>9. EntriesFollowFaces'
  BY <1>8, FollowMeansNext
<1> QED BY <1>5, <1>7, <1>9 DEF FacesInv

LEMMA FacesReset ==
  ASSUME FacesInv, NodesInv', Idle', FTC_Manager_Reset
  PROVE  FacesInv'
<1> DEFINE c == [for |-> "reset", left |-> Cached]
<1>1. /\ take_all /\ UNCHANGED <<live, kind, held, open>>
      /\ destroy_faces(c, clear_entries)
  BY DEF FTC_Manager_Reset, ftc_reset_manager
<1>2. /\ c \in Removal /\ c.for = "reset"
      /\ \A f : f \in c.left <=> f # NoFace /\ \E i \in Id : faces[i] = f
  BY CachedFaces DEF FacesInv, NodesInv, Removal, Cached
<1>3. \A i \in Id : faces'[i] = NoFace
  BY <1>1, TakenAll
<1>4. \A i \in Id : faces'[i] = IF i \in Id THEN NoFace ELSE faces[i]
  BY <1>3
<1> HIDE DEF c
<1>5. /\ Owned(<<c>> \o calls, faces', open)
      /\ c.left = {} => Owned(calls, faces', open)
  <2>1. Owned(calls, faces, open) /\ Id \in SUBSET Id
    BY OwnedMeans DEF FacesInv, NodesInv
  <2>2. calls \in Seq(Call) /\ faces \in [Id -> Face \union {NoFace}]
    BY StoreReady DEF FacesInv
  <2> QED BY <1>2, <1>4, <2>1, <2>2, OwnedTake
<1>6. Asked(<<c>> \o calls, faces') /\ Asked(calls, faces')
  <2>1. calls \in Seq(Call) /\ Asked(calls, faces) /\ c \in Removal
    BY <1>2, StoreReady DEF FacesInv
  <2>2. \A i \in Id : faces'[i] \in {faces[i], NoFace}
    BY <1>3
  <2> QED BY <2>1, <2>2, AskedTake
<1>7. CASE c.left = {}
  <2>1. clear_entries /\ UNCHANGED calls
    BY <1>1, <1>7 DEF destroy_faces
  <2>2. \A i \in Id : Follow(i)'
    BY <2>1, Cleared, NoneFollows, StoreReady DEF FacesInv
  <2>3. EntriesFollowFaces' /\ Asked(calls', faces')
    BY <1>6, <2>1, <2>2, FollowMeansNext
  <2>4. Owned(calls', faces', open')
    BY <1>1, <1>5, <1>7, <2>1
  <2> QED BY <2>3, <2>4, OwnedNext DEF FacesInv, NodesInv
<1>8. CASE c.left # {}
  <2>1. calls' = <<c>> \o calls
    BY <1>1, <1>8 DEF destroy_faces
  <2>2. Resetting'
    BY <1>1, <1>2, <2>1, PushRemoval, StoreReady DEF FacesInv
  <2>3. EntriesFollowFaces' /\ Asked(calls', faces')
    BY <1>6, <2>1, <2>2 DEF EntriesFollowFaces
  <2>4. Owned(calls', faces', open')
    BY <1>1, <1>5, <2>1
  <2> QED BY <2>3, <2>4, OwnedNext DEF FacesInv, NodesInv
<1> QED BY <1>7, <1>8

LEMMA FacesRemove ==
  ASSUME FacesInv, NodesInv', Idle', NEW i \in Id, FTC_Manager_RemoveFaceID(i)
  PROVE  FacesInv'
<1> DEFINE c == [for |-> "remove", id |-> i, left |-> {faces[i]} \ {NoFace}]
<1>1. /\ faces' = [faces EXCEPT ![i] = NoFace]
      /\ UNCHANGED <<live, nodes, kind, shows, refs, held, open>>
      /\ destroy_faces(c, remove_entries(i))
  BY DEF FTC_Manager_RemoveFaceID
<1>2. /\ c \in Removal /\ c.for = "remove" /\ c.id = i
      /\ \A f : f \in c.left <=> f # NoFace /\ \E j \in {i} : faces[j] = f
  BY StoreReady DEF FacesInv, Removal
<1>3. \A j \in Id : faces'[j] = IF j \in {i} THEN NoFace ELSE faces[j]
  BY <1>1, StoreReady DEF FacesInv
<1>4. c.left = {} => faces[i] = NoFace
  BY <1>2
<1> HIDE DEF c
<1>5. /\ Owned(<<c>> \o calls, faces', open)
      /\ c.left = {} => Owned(calls, faces', open)
  <2>1. Owned(calls, faces, open) /\ {i} \in SUBSET Id
    BY OwnedMeans DEF FacesInv, NodesInv
  <2>2. calls \in Seq(Call) /\ faces \in [Id -> Face \union {NoFace}]
    BY StoreReady DEF FacesInv
  <2> DEFINE is == {i}
  <2>3. /\ is \in SUBSET Id /\ c \in Removal
        /\ \A f : f \in c.left <=> f # NoFace /\ \E j \in is : faces[j] = f
        /\ \A j \in Id : faces'[j] = IF j \in is THEN NoFace ELSE faces[j]
    BY <1>2, <1>3
  <2> HIDE DEF is
  <2> QED BY <2>1, <2>2, <2>3, OwnedTake
<1>6. Asked(<<c>> \o calls, faces') /\ Asked(calls, faces')
  <2>1. calls \in Seq(Call) /\ Asked(calls, faces) /\ c \in Removal
    BY <1>2, StoreReady DEF FacesInv
  <2>2. \A j \in Id : faces'[j] \in {faces[j], NoFace}
    BY <1>3
  <2> QED BY <2>1, <2>2, AskedTake
<1>7. CASE c.left = {}
  <2>1. remove_entries(i) /\ UNCHANGED calls
    BY <1>1, <1>7 DEF destroy_faces
  <2>2. \A x \in Cache, s \in Slot :
          /\ entries'[x][s] = IF s[1] = i THEN NoNode ELSE entries[x][s]
          /\ answers'[x][s] = IF s[1] = i THEN NoFace ELSE answers[x][s]
    BY <2>1, EntriesRemoved, StoreReady DEF FacesInv
  <2>3. (Resetting' <=> Resetting) /\ \A j \in Id : Removing(j)' <=> Removing(j)
    BY <2>1 DEF Resetting, Removing
  <2>4. ASSUME NEW j \in Id, ~Resetting', ~Removing(j)'
        PROVE  Follow(j)'
    <3>1. CASE j = i
      BY <2>2, <3>1, NoneFollows
    <3>2. CASE j # i
      BY <1>1, <1>3, <2>2, <2>3, <2>4, <3>2, FollowMeans, SameFollows DEF FacesInv
    <3> QED BY <3>1, <3>2
  <2>5. EntriesFollowFaces' /\ Asked(calls', faces')
    BY <1>6, <2>1, <2>4, FollowMeansNext
  <2>6. Owned(calls', faces', open')
    BY <1>1, <1>5, <1>7, <2>1
  <2> QED BY <2>5, <2>6, OwnedNext DEF FacesInv, NodesInv
<1>8. CASE c.left # {}
  <2>1. calls' = <<c>> \o calls /\ UNCHANGED <<entries, answers>>
    BY <1>1, <1>8 DEF destroy_faces
  <2>2. /\ Resetting' <=> Resetting
        /\ \A j \in Id : Removing(j)' <=> (Removing(j) \/ j = i)
    BY <1>1, <1>2, <2>1, PushRemoval, StoreReady DEF FacesInv
  <2>3. ASSUME NEW j \in Id, ~Resetting', ~Removing(j)'
        PROVE  Follow(j)'
    <3>1. j # i /\ Follow(j)
      BY <2>2, <2>3, FollowMeans DEF FacesInv
    <3> QED BY <1>1, <1>3, <2>1, <3>1, SameFollows
  <2>4. EntriesFollowFaces' /\ Asked(calls', faces')
    BY <1>6, <2>1, <2>3, FollowMeansNext
  <2>5. Owned(calls', faces', open')
    BY <1>1, <1>5, <2>1
  <2> QED BY <2>4, <2>5, OwnedNext DEF FacesInv, NodesInv
<1> QED BY <1>7, <1>8

LEMMA FacesFinalized ==
  ASSUME FacesInv, NodesInv', Idle', NEW f \in Face, finalizer_returns(f)
  PROVE  FacesInv'
<1>1. /\ calls # <<>> /\ Head(calls) \in Removal /\ f \in Head(calls).left
      /\ open' = open \ {f}
      /\ UNCHANGED <<live, faces, nodes, kind, shows, refs, held>>
  BY DEF finalizer_returns
<1>2. Owned(calls, faces, open) /\ StoreTypeOK /\ calls \in Seq(Call) /\ CallsServed /\ Asked(calls, faces)
  BY OwnedMeans, StoreReady DEF FacesInv, NodesInv
<1>3. CASE Head(calls).left # {f}
  <2>1. calls' = [calls EXCEPT ![1].left = @ \ {f}] /\ UNCHANGED <<entries, answers>>
    BY <1>3 DEF finalizer_returns
  <2>2. /\ DOMAIN calls' = DOMAIN calls
        /\ calls'[1] \in Removal /\ calls'[1].left = calls[1].left \ {f}
        /\ \A k \in DOMAIN calls \ {1} : calls'[k] = calls[k]
        /\ Resetting' <=> Resetting
        /\ \A i \in Id : Removing(i)' <=> Removing(i)
    BY <1>1, <1>2, <2>1, ShrinkRemoval
  <2>3. Owned(calls', faces, open \ {f})
    BY <1>1, <1>2, <2>2, OwnedFinal
  <2>4. Asked(calls', faces)
    <3>1. calls'[1] \notin Lookup
      BY <2>2, CallKinds DEF Call
    <3> QED BY <1>2, <2>2, <3>1, AskedShrink
  <2>5. EntriesFollowFaces'
    BY <1>1, <2>1, <2>2 DEF FacesInv, EntriesFollowFaces, Slot
  <2> QED BY <1>1, <2>3, <2>4, <2>5, OwnedNext DEF FacesInv, NodesInv
<1>4. CASE Head(calls).left = {f}
  <2>1. /\ calls' = Tail(calls)
        /\ IF Head(calls).for = "reset" THEN clear_entries ELSE remove_entries(Head(calls).id)
    BY <1>4 DEF finalizer_returns
  <2>2. Owned(Tail(calls), faces, open \ {f})
    BY <1>1, <1>2, <1>4, OwnedFinal
  <2>3. Owned(calls', faces', open')
    BY <1>1, <2>1, <2>2
  <2>4. Asked(calls', faces')
    BY <1>1, <1>2, <2>1, AskedPop
  <2>5. /\ Head(calls) \in Call
        /\ Resetting => Resetting' \/ Head(calls).for = "reset"
        /\ \A i \in Id : Removing(i) => \/ Removing(i)'
                                        \/ Head(calls).for = "remove" /\ Head(calls).id = i
    BY <1>1, <1>2, <2>1, PopRemoval
  <2>6. CASE Head(calls).for = "reset"
    <3>1. \A i \in Id : Follow(i)'
      BY <1>2, <2>1, <2>6, Cleared, NoneFollows
    <3> QED BY <2>3, <2>4, <3>1, FollowMeansNext, OwnedNext DEF FacesInv, NodesInv
  <2>7. CASE Head(calls).for # "reset"
    <3> DEFINE i == Head(calls).id
    <3>1. i \in Id /\ remove_entries(i)
      BY <1>1, <2>1, <2>5, <2>7, CallKinds
    <3>2. \A x \in Cache, s \in Slot :
            /\ entries'[x][s] = IF s[1] = i THEN NoNode ELSE entries[x][s]
            /\ answers'[x][s] = IF s[1] = i THEN NoFace ELSE answers[x][s]
      BY <1>2, <3>1, EntriesRemoved
    <3>3. \A j \in Id : Removing(j) => Removing(j)' \/ j = i
      BY <2>5
    <3> HIDE DEF i
    <3>4. ASSUME NEW j \in Id, ~Resetting', ~Removing(j)'
          PROVE  Follow(j)'
      <4>1. CASE j = i
        BY <3>2, <4>1, NoneFollows
      <4>2. CASE j # i
        <5>1. Follow(j)
          BY <2>5, <2>7, <3>3, <3>4, <4>2, FollowMeans DEF FacesInv
        <5> QED BY <1>1, <3>2, <4>2, <5>1, SameFollows
      <4> QED BY <4>1, <4>2
    <3> QED BY <2>3, <2>4, <3>4, FollowMeansNext, OwnedNext DEF FacesInv, NodesInv
  <2> QED BY <2>6, <2>7
<1> QED BY <1>3, <1>4

LEMMA FacesDone ==
  ASSUME FacesInv, NodesInv', Idle', FTC_Manager_Done
  PROVE  FacesInv'
<1>1. /\ take_all /\ clear_entries /\ calls = <<>> /\ calls' = <<>>
      /\ open' = open \ Cached
  BY DEF FTC_Manager_Done
<1>2. \A i \in Id : Follow(i)'
  BY <1>1, Cleared, NoneFollows, StoreReady DEF FacesInv
<1>3. \A i \in Id : faces'[i] = NoFace
  BY <1>1, TakenAll
<1>4. open' = {}
  <2>1. DOMAIN calls = {}
    BY <1>1
  <2>2. open = Cached
    BY <2>1 DEF FacesInv, FacesOwnedOnce
  <2> QED BY <1>1, <2>2
<1>5. Owned(calls', faces', open')
  BY <1>1, <1>3, <1>4, FtcAssumption DEF Owned, Taken, ToSet
<1>6. Asked(calls', faces')
  BY <1>1 DEF Asked
<1> QED BY <1>2, <1>5, <1>6, FollowMeansNext, OwnedNext DEF FacesInv, NodesInv

\* Calls that leave faces, entries and the stack alone.
LEMMA FacesSame ==
  ASSUME FacesInv, NodesInv', Idle', UNCHANGED <<faces, entries, answers, shows, open, calls>>
  PROVE  FacesInv'
<1>1. FacesOwnedOnce'
  BY DEF FacesInv, FacesOwnedOnce, Cached, Waiting
<1>2. EntriesFollowFaces'
  BY DEF FacesInv, EntriesFollowFaces, Resetting, Removing
<1> QED BY <1>1, <1>2 DEF FacesInv

LEMMA FacesLookups ==
  ASSUME ~SelfRequests, FacesInv, NodesInv', Idle',
         \/ \E i \in Id : FTC_Manager_Lookup(i)
         \/ \E x \in Cache, i \in Id, k \in Key : FTC_CMapCache_Lookup(x, i, k)
         \/ \E x \in Cache, i \in Id, k \in Key, lock \in BOOLEAN : FTC_GlyphCache_Lookup(x, i, k, lock)
  PROVE  FacesInv'
<1>1. ASSUME NEW i \in Id, FTC_Manager_Lookup(i)
      PROVE  FacesInv'
  <2> DEFINE c == [for |-> "face", id |-> i]
  <2>1. c \in Lookup /\ c.for # "entry"
    BY DEF Lookup
  <2>2. lookup(c) /\ UNCHANGED <<live, faces, kind, open>>
    BY <1>1 DEF FTC_Manager_Lookup
  <2> HIDE DEF c
  <2> QED BY <2>1, <2>2, FacesLookup
<1>2. ASSUME NEW x \in Cache, NEW i \in Id, NEW k \in Key, FTC_CMapCache_Lookup(x, i, k)
      PROVE  FacesInv'
  <2> DEFINE c == [for |-> "entry", id |-> i, cache |-> x, key |-> k, lock |-> FALSE]
  <2>1. c \in Lookup /\ c.cache = x /\ kind[x] \in Kind
    BY <1>2 DEF Lookup, FTC_CMapCache_Lookup, Kind
  <2>2. lookup(c) /\ UNCHANGED <<live, faces, kind, open>>
    BY <1>2 DEF FTC_CMapCache_Lookup
  <2> HIDE DEF c
  <2> QED BY <2>1, <2>2, FacesLookup
<1>3. ASSUME NEW x \in Cache, NEW i \in Id, NEW k \in Key, NEW lock \in BOOLEAN,
             FTC_GlyphCache_Lookup(x, i, k, lock)
      PROVE  FacesInv'
  <2> DEFINE n == entries[x][<<i, k>>]
             c == [for |-> "entry", id |-> i, cache |-> x, key |-> k, lock |-> lock]
  <2>1. CASE n # NoNode
    BY <1>3, <2>1, FacesSame DEF FTC_GlyphCache_Lookup
  <2>2. CASE n = NoNode
    <3>1. c \in Lookup /\ c.cache = x /\ kind[x] \in Kind
      BY <1>3 DEF Lookup, FTC_GlyphCache_Lookup, Kind
    <3>2. lookup(c) /\ UNCHANGED <<live, faces, kind, open>>
      BY <1>3, <2>2 DEF FTC_GlyphCache_Lookup
    <3> HIDE DEF c
    <3> QED BY <3>1, <3>2, FacesLookup
  <2> QED BY <2>1, <2>2
<1> QED BY <1>1, <1>2, <1>3

LEMMA FacesStep ==
  ASSUME ~SelfRequests, FacesInv, [Next]_vars
  PROVE  FacesInv'
<1>1. NodesInv' /\ Idle'
  BY NodesStep DEF FacesInv
<1>2. ASSUME \/ FTC_Manager_New
             \/ \E x \in Cache, k \in Kind : FTC_Cache_New(x, k)
             \/ \E n \in Node : FTC_Node_Unref(n)
             \/ UNCHANGED vars
      PROVE  FacesInv'
  BY <1>1, <1>2, FacesSame DEF FTC_Manager_New, FTC_Cache_New, FTC_Node_Unref, vars
<1> QED BY <1>1, <1>2, FacesReset, FacesDone, FacesLookups, FacesRemove, FacesFailed,
           FacesRequested, FacesFinalized
        DEF Next

-----------------------------------------------------------------------------
(* Nodes *)

\* What NodesKeptUntilReset says of a step.
KeepsNodes ==
  ~(nodes \subseteq nodes')
    => /\ nodes' = {} /\ faces' = [i \in Id |-> NoFace]
       /\ Resetting' \/ entries' = [x \in Cache |-> NoEntries]

\* A lookup, whether it asks for a face or has it, takes no node away.
LEMMA LookupKeepsNodes ==
  ASSUME NodesInv, NEW c \in Lookup, lookup(c), c.for = "entry" => kind[c.cache] \in Kind
  PROVE  nodes \subseteq nodes'
<1>1. CASE faces[c.id] = NoFace
  BY <1>1 DEF lookup
<1>2. CASE faces[c.id] # NoFace
  <2>1. lookup_end(c, faces[c.id])
    BY <1>2 DEF lookup
  <2>2. faces[c.id] \in Face
    BY <1>2 DEF NodesInv, FtcTypeOK, Lookup
  <2>3. StoreTypeOK /\ kind \in [Cache -> Kind \union {"none"}]
    BY TypeParts DEF NodesInv
  <2> QED BY <2>1, <2>2, <2>3, StoreEffect DEF NodesInv
<1> QED BY <1>1, <1>2

\* A reset with faces to destroy waits for their finalizers; one without has
\* emptied the caches.
LEMMA ResetKeepsNodes ==
  ASSUME FtcTypeOK, FTC_Manager_Reset
  PROVE  KeepsNodes
<1> DEFINE c == [for |-> "reset", left |-> Cached]
<1>1. nodes' = {} /\ faces' = [i \in Id |-> NoFace] /\ destroy_faces(c, clear_entries)
  BY DEF FTC_Manager_Reset, ftc_reset_manager, take_all
<1>2. CASE c.left = {}
  BY <1>1, <1>2 DEF destroy_faces, clear_entries, KeepsNodes
<1>3. CASE c.left # {}
  <2>1. calls' = <<c>> \o calls
    BY <1>1, <1>3 DEF destroy_faces
  <2>2. c \in Call /\ calls \in Seq(Call) /\ c.for = "reset"
    BY DEF FtcTypeOK, Call, Removal, Cached
  <2> HIDE DEF c
  <2>3. 1 \in DOMAIN calls' /\ calls'[1] = c
    BY <2>1, <2>2, Stacked
  <2>4. Resetting'
    BY <2>2, <2>3 DEF Resetting
  <2> QED BY <1>1, <2>4 DEF KeepsNodes
<1> QED BY <1>2, <1>3

\* Every other call of the manager leaves the nodes it has, or destroys it.
LEMMA KeepsNodesStep ==
  ASSUME NodesInv, Next
  PROVE  KeepsNodes
<1>1. ASSUME nodes \subseteq nodes'
      PROVE  KeepsNodes
  BY <1>1 DEF KeepsNodes
<1>2. CASE FTC_Manager_Done
  BY <1>2 DEF FTC_Manager_Done, take_all, clear_entries, KeepsNodes
<1>3. CASE FTC_Manager_Reset
  BY <1>3, ResetKeepsNodes DEF NodesInv
<1>4. ASSUME \/ FTC_Manager_New
             \/ \E x \in Cache, k \in Kind : FTC_Cache_New(x, k)
             \/ \E i \in Id : FTC_Manager_RemoveFaceID(i)
             \/ requester_fails
             \/ \E n \in Node : FTC_Node_Unref(n)
      PROVE  KeepsNodes
  BY <1>1, <1>4 DEF FTC_Manager_New, FTC_Cache_New, FTC_Manager_RemoveFaceID, requester_fails,
                    FTC_Node_Unref
<1>5. ASSUME NEW f \in Face, finalizer_returns(f)
      PROVE  KeepsNodes
  <2>1. UNCHANGED nodes
    BY <1>5 DEF finalizer_returns
  <2> QED BY <1>1, <2>1
<1>6. ASSUME NEW i \in Id, FTC_Manager_Lookup(i)
      PROVE  KeepsNodes
  <2> DEFINE c == [for |-> "face", id |-> i]
  <2>1. c \in Lookup /\ c.for # "entry" /\ lookup(c)
    BY <1>6 DEF Lookup, FTC_Manager_Lookup
  <2> HIDE DEF c
  <2> QED BY <1>1, <2>1, LookupKeepsNodes
<1>7. ASSUME NEW x \in Cache, NEW i \in Id, NEW k \in Key, FTC_CMapCache_Lookup(x, i, k)
      PROVE  KeepsNodes
  <2> DEFINE c == [for |-> "entry", id |-> i, cache |-> x, key |-> k, lock |-> FALSE]
  <2>1. c \in Lookup /\ c.cache = x /\ kind[x] \in Kind /\ lookup(c)
    BY <1>7 DEF Lookup, FTC_CMapCache_Lookup, Kind
  <2> HIDE DEF c
  <2> QED BY <1>1, <2>1, LookupKeepsNodes
<1>8. ASSUME NEW x \in Cache, NEW i \in Id, NEW k \in Key, NEW lock \in BOOLEAN,
             FTC_GlyphCache_Lookup(x, i, k, lock)
      PROVE  KeepsNodes
  <2> DEFINE c == [for |-> "entry", id |-> i, cache |-> x, key |-> k, lock |-> lock]
  <2>1. c \in Lookup /\ c.cache = x /\ kind[x] \in Kind
    BY <1>8 DEF Lookup, FTC_GlyphCache_Lookup, Kind
  <2>2. UNCHANGED nodes \/ lookup(c)
    BY <1>8 DEF FTC_GlyphCache_Lookup
  <2> HIDE DEF c
  <2> QED BY <1>1, <2>1, <2>2, LookupKeepsNodes
<1>9. ASSUME NEW f \in Face, requester_returns(f)
      PROVE  KeepsNodes
  <2>1. /\ calls \in Seq(Call) /\ CallsServed /\ Waiting(1)
        /\ calls' = Tail(calls) /\ UNCHANGED kind /\ lookup_end(Head(calls), f)
    BY <1>9 DEF requester_returns, NodesInv, FtcTypeOK
  <2>2. Head(calls) \in Lookup /\ (Head(calls).for = "entry" => kind[Head(calls).cache] \in Kind)
    BY <2>1, PopLookup
  <2>3. StoreTypeOK /\ kind \in [Cache -> Kind \union {"none"}]
    BY TypeParts DEF NodesInv
  <2> QED BY <1>1, <2>1, <2>2, <2>3, StoreEffect DEF NodesInv
<1> QED BY <1>2, <1>3, <1>4, <1>5, <1>6, <1>7, <1>8, <1>9 DEF Next

-----------------------------------------------------------------------------
(* Theorems *)

\* Types, nodes, entries and counts, whatever the requesters and finalizers call.
THEOREM NodesInvariance == Spec => [](NodesInv /\ Idle)
<1>1. Init => NodesInv /\ Idle
  BY NodesInit DEF Init, Idle
<1>2. NodesInv /\ Idle /\ [Next]_vars => NodesInv' /\ Idle'
  BY NodesStep
<1> QED BY <1>1, <1>2, PTL DEF Spec

\* A lookup that hits returns a living node, made for that key
\* (ftc_image_cache_lookup_impl, ftc_sbit_cache_lookup_impl).
THEOREM EntriesStaySound == Spec => []EntriesLeadToNodes
<1>1. NodesInv => EntriesLeadToNodes
  BY DEF NodesInv
<1> QED BY <1>1, NodesInvariance, PTL

\* FTC_Node_Unref and the lookups count what the program holds.
THEOREM CountsStayRight == Spec => []RefsCountHolders
<1>1. NodesInv => RefsCountHolders
  BY DEF NodesInv
<1> QED BY <1>1, NodesInvariance, PTL

\* When no requester looks up the face it is asked for, every face that was
\* opened is in the table once, or waits once to be destroyed
\* (ftc_manager_lookup_face_impl, ftc_reset_manager, FTC_Manager_RemoveFaceID).
THEOREM FacesStayOwned ==
  ASSUME ~SelfRequests
  PROVE  Spec => []FacesOwnedOnce
<1>1. FacesInv /\ [Next]_vars => FacesInv'
  BY FacesStep
<1>2. FacesInv => FacesOwnedOnce
  BY DEF FacesInv
<1> QED BY FacesInit, <1>1, <1>2, PTL DEF Spec

\* And no entry outlives the face it was made from, through removals and resets
\* that a requester or a finalizer calls in the middle of another call.
THEOREM EntriesStayFresh ==
  ASSUME ~SelfRequests
  PROVE  Spec => []EntriesFollowFaces
<1>1. FacesInv /\ [Next]_vars => FacesInv'
  BY FacesStep
<1>2. FacesInv => EntriesFollowFaces
  BY DEF FacesInv
<1> QED BY FacesInit, <1>1, <1>2, PTL DEF Spec
\* Only a reset or the end of the manager destroys nodes, then all of them, and
\* with them the faces and, now or after the finalizers, the entries
\* (ftc_reset_manager, FTC_Manager_Done; FTC_Manager_RemoveFaceID and
\* FTC_Node_Unref leave every node in place).
THEOREM NodesStayUntilReset == Spec => NodesKeptUntilReset
<1>1. NodesInv /\ [Next]_vars => [KeepsNodes]_vars
  BY KeepsNodesStep
<1> QED BY <1>1, NodesInvariance, PTL DEF Spec, NodesKeptUntilReset, KeepsNodes

-----------------------------------------------------------------------------
(* The modules of a library *)

-----------------------------------------------------------------------------
(* Tables *)

\* Push at the end of synthetic_modules.
LEMMA Pushed ==
  ASSUME NEW S, NEW s \in Seq(S), NEW e \in S
  PROVE  /\ Append(s, e) \in Seq(S)
         /\ Len(Append(s, e)) = Len(s) + 1
         /\ DOMAIN Append(s, e) = DOMAIN s \union {Len(s) + 1}
         /\ \A i \in DOMAIN s : Append(s, e)[i] = s[i]
         /\ Append(s, e)[Len(s) + 1] = e
<1>1. Append(s, e) \in Seq(S) /\ Len(Append(s, e)) = Len(s) + 1 /\ Len(s) \in Nat
  OBVIOUS
<1>2. DOMAIN s = 1..Len(s) /\ DOMAIN Append(s, e) = 1..(Len(s) + 1)
  BY <1>1
<1> QED BY <1>1, <1>2

\* Vec::remove: the entries behind the removed one move up by one.
LEMMA Removed ==
  ASSUME NEW S, NEW s \in Seq(S), NEW i \in DOMAIN s
  PROVE  /\ RemoveAt(s, i) \in Seq(S)
         /\ Len(RemoveAt(s, i)) = Len(s) - 1
         /\ DOMAIN RemoveAt(s, i) = 1..(Len(s) - 1)
         /\ \A j \in 1..(Len(s) - 1) :
              RemoveAt(s, i)[j] = s[IF j < i THEN j ELSE j + 1]
<1> DEFINE l == SubSeq(s, 1, i - 1)
           r == SubSeq(s, i + 1, Len(s))
<1>1. i \in 1..Len(s) /\ Len(s) \in Nat
  OBVIOUS
<1>2. l \in Seq(S) /\ Len(l) = i - 1 /\ \A j \in 1..(i - 1) : l[j] = s[j]
  BY <1>1
<1>3. r \in Seq(S) /\ Len(r) = Len(s) - i /\ \A j \in 1..(Len(s) - i) : r[j] = s[i + j]
  BY <1>1
<1>4. RemoveAt(s, i) = l \o r
  BY DEF RemoveAt
<1> HIDE DEF l, r
<1>5. l \o r \in Seq(S) /\ Len(l \o r) = Len(s) - 1
  BY <1>1, <1>2, <1>3
<1>6. \A j \in 1..(Len(s) - 1) : (l \o r)[j] = IF j <= Len(l) THEN l[j] ELSE r[j - Len(l)]
  <2>1. Len(l) + Len(r) = Len(s) - 1
    BY <1>1, <1>2, <1>3
  <2>2. \A j \in 1..(Len(l) + Len(r)) : (l \o r)[j] = IF j <= Len(l) THEN l[j] ELSE r[j - Len(l)]
    <3>1. l \in Seq(S) /\ r \in Seq(S)
      BY <1>2, <1>3
    <3> QED BY <3>1, SMTT(60)
  <2> QED BY <2>1, <2>2
<1>7. \A j \in 1..(Len(s) - 1) : (l \o r)[j] = s[IF j < i THEN j ELSE j + 1]
  <2> SUFFICES ASSUME NEW j \in 1..(Len(s) - 1)
               PROVE  (l \o r)[j] = s[IF j < i THEN j ELSE j + 1]
    OBVIOUS
  <2>1. CASE j < i
    BY <1>1, <1>2, <1>6, <2>1
  <2>2. CASE ~(j < i)
    <3>1. j - (i - 1) \in 1..(Len(s) - i) /\ i + (j - (i - 1)) = j + 1 /\ ~(j <= Len(l))
      BY <1>1, <1>2, <2>2
    <3> QED BY <1>2, <1>3, <1>6, <2>2, <3>1, SMTT(30)
  <2> QED BY <2>1, <2>2
<1> QED BY <1>4, <1>5, <1>7

\* A removal takes one position away: every other entry is left, and only those.
LEMMA RemovedEntries ==
  ASSUME NEW S, NEW s \in Seq(S), NEW i \in DOMAIN s
  PROVE  /\ \A k \in DOMAIN s \ {i} : \E j \in DOMAIN RemoveAt(s, i) : RemoveAt(s, i)[j] = s[k]
         /\ \A j \in DOMAIN RemoveAt(s, i) :
              /\ (IF j < i THEN j ELSE j + 1) \in DOMAIN s \ {i}
              /\ RemoveAt(s, i)[j] = s[IF j < i THEN j ELSE j + 1]
<1> DEFINE t == RemoveAt(s, i)
<1>1. /\ DOMAIN t = 1..(Len(s) - 1)
      /\ \A j \in 1..(Len(s) - 1) : t[j] = s[IF j < i THEN j ELSE j + 1]
  BY Removed
<1>2. DOMAIN s = 1..Len(s) /\ Len(s) \in Nat /\ i \in 1..Len(s)
  OBVIOUS
<1> HIDE DEF t
<1>3. ASSUME NEW k \in DOMAIN s \ {i}
      PROVE  \E j \in DOMAIN t : t[j] = s[k]
  <2>1. CASE k < i
    <3>1. k \in 1..(Len(s) - 1)
      BY <1>2, <2>1
    <3> QED BY <1>1, <2>1, <3>1
  <2>2. CASE ~(k < i)
    <3>1. k - 1 \in 1..(Len(s) - 1) /\ ~(k - 1 < i) /\ (k - 1) + 1 = k
      BY <1>2, <2>2
    <3> QED BY <1>1, <3>1
  <2> QED BY <2>1, <2>2
<1>4. ASSUME NEW j \in DOMAIN t
      PROVE  /\ (IF j < i THEN j ELSE j + 1) \in DOMAIN s \ {i}
             /\ t[j] = s[IF j < i THEN j ELSE j + 1]
  BY <1>1, <1>2
<1> QED BY <1>3, <1>4 DEF t

-----------------------------------------------------------------------------
(* Counting entries *)

\* How many entries of a table are in K.
CountIn(s, K) == Cardinality({i \in DOMAIN s : s[i] \in K})

LEMMA CountIsNat ==
  ASSUME NEW S, NEW s \in Seq(S), NEW K
  PROVE  /\ IsFiniteSet({i \in DOMAIN s : s[i] \in K})
         /\ CountIn(s, K) \in Nat
         /\ CountIn(s, K) = 0 <=> \A i \in DOMAIN s : s[i] \notin K
<1> DEFINE P == {i \in DOMAIN s : s[i] \in K}
<1>1. IsFiniteSet(DOMAIN s)
  <2>1. DOMAIN s = 1..Len(s) /\ 1 \in Int /\ Len(s) \in Int
    OBVIOUS
  <2> QED BY <2>1, FS_Interval
<1>2. IsFiniteSet(P)
  <2>1. P \in SUBSET DOMAIN s
    OBVIOUS
  <2> QED BY <1>1, <2>1, FS_Subset
<1>3. Cardinality(P) \in Nat
  BY <1>2, FS_CardinalityType
<1>4. Cardinality(P) = 0 <=> P = {}
  BY <1>2, FS_EmptySet
<1> QED BY <1>2, <1>3, <1>4 DEF CountIn

\* A new entry is counted once.
LEMMA CountPushed ==
  ASSUME NEW S, NEW s \in Seq(S), NEW e \in S, NEW K
  PROVE  CountIn(Append(s, e), K) = CountIn(s, K) + (IF e \in K THEN 1 ELSE 0)
<1> DEFINE P == {i \in DOMAIN s : s[i] \in K}
           Q == {i \in DOMAIN Append(s, e) : Append(s, e)[i] \in K}
<1>1. Len(s) + 1 \notin DOMAIN s
  OBVIOUS
<1>2. Q = IF e \in K THEN P \union {Len(s) + 1} ELSE P
  BY Pushed, <1>1
<1>3. IsFiniteSet(P) /\ Len(s) + 1 \notin P
  BY CountIsNat, <1>1
<1>4. Cardinality(P \union {Len(s) + 1}) = Cardinality(P) + 1
  BY <1>3, FS_AddElement
<1>5. CountIn(s, K) = Cardinality(P) /\ CountIn(s, K) \in Nat /\ CountIn(Append(s, e), K) = Cardinality(Q)
  BY CountIsNat DEF CountIn
<1> HIDE DEF P, Q
<1>6. CASE e \in K
  BY <1>2, <1>4, <1>5, <1>6
<1>7. CASE e \notin K
  BY <1>2, <1>5, <1>7
<1> QED BY <1>6, <1>7

\* A removed entry is not counted any more, every other one still is.
LEMMA CountRemoved ==
  ASSUME NEW S, NEW s \in Seq(S), NEW i \in DOMAIN s, NEW K
  PROVE  CountIn(RemoveAt(s, i), K) = CountIn(s, K) - (IF s[i] \in K THEN 1 ELSE 0)
<1> DEFINE t == RemoveAt(s, i)
           P == {k \in DOMAIN s : s[k] \in K}
           Q == {j \in DOMAIN t : t[j] \in K}
           f == [j \in Q |-> IF j < i THEN j ELSE j + 1]
<1>1. /\ DOMAIN t = 1..(Len(s) - 1)
      /\ \A j \in DOMAIN t : /\ (IF j < i THEN j ELSE j + 1) \in DOMAIN s \ {i}
                             /\ t[j] = s[IF j < i THEN j ELSE j + 1]
  BY Removed, RemovedEntries
<1>2. DOMAIN s = 1..Len(s) /\ Len(s) \in Nat /\ i \in 1..Len(s) /\ t \in Seq(S)
  BY Removed
<1> HIDE DEF t
<1>3. f \in [Q -> P \ {i}]
  BY <1>1
<1>4. \A j, k \in Q : f[j] = f[k] => j = k
  BY <1>1, <1>2
<1>5. \A k \in P \ {i} : \E j \in Q : f[j] = k
  <2> SUFFICES ASSUME NEW k \in P \ {i}
               PROVE  \E j \in Q : f[j] = k
    OBVIOUS
  <2>1. CASE k < i
    <3>1. k \in 1..(Len(s) - 1) /\ k \in DOMAIN t
      BY <1>1, <1>2, <2>1
    <3>2. k \in Q /\ f[k] = k
      BY <1>1, <2>1, <3>1
    <3> QED BY <3>2
  <2>2. CASE ~(k < i)
    <3>1. k - 1 \in DOMAIN t /\ ~(k - 1 < i) /\ (k - 1) + 1 = k
      BY <1>1, <1>2, <2>2
    <3>2. k - 1 \in Q /\ f[k - 1] = k
      BY <1>1, <3>1
    <3> QED BY <3>2
  <2> QED BY <2>1, <2>2
<1>6. ExistsBijection(Q, P \ {i})
  <2> HIDE DEF f, P, Q
  <2>1. f \in Bijection(Q, P \ {i})
    BY <1>3, <1>4, <1>5 DEF Bijection, Injection, Surjection, IsInjective
  <2> QED BY <2>1 DEF ExistsBijection
<1>7. IsFiniteSet(P) /\ IsFiniteSet(Q) /\ Cardinality(P) \in Nat
  BY <1>2, CountIsNat, FS_CardinalityType
<1>8. Cardinality(P \ {i}) = Cardinality(Q)
  BY <1>6, <1>7, FS_Bijection
<1>9. Cardinality(P \ {i}) = IF i \in P THEN Cardinality(P) - 1 ELSE Cardinality(P)
  BY <1>7, FS_RemoveElement
<1>10. i \in P <=> s[i] \in K
  OBVIOUS
<1>11. CountIn(s, K) = Cardinality(P) /\ CountIn(t, K) = Cardinality(Q)
  BY DEF CountIn
<1> HIDE DEF P, Q
<1> QED BY <1>7, <1>8, <1>9, <1>10, <1>11 DEF t

\* A table lists the first of several entries somewhere.
LEMMA FirstPosition ==
  ASSUME NEW P \in SUBSET Nat, P # {}
  PROVE  \E i \in P : \A j \in P : ~(j < i)
<1>1. PICK i \in P : \A j \in P : <<j, i>> \notin OpToRel(<, Nat)
  BY NatLessThanWellFounded, WFMin
<1>2. \A j \in P : <<j, i>> \notin OpToRel(<, Nat) => ~(j < i)
  BY DEF OpToRel
<1> QED BY <1>1, <1>2

\* Whatever is listed somewhere is listed a first time.
LEMMA FirstEntry ==
  ASSUME NEW S, NEW s \in Seq(S), NEW K, \E i \in DOMAIN s : s[i] \in K
  PROVE  \E i \in DOMAIN s : s[i] \in K /\ \A j \in 1..(i - 1) : s[j] \notin K
<1> DEFINE P == {i \in DOMAIN s : s[i] \in K}
<1>1. DOMAIN s = 1..Len(s) /\ Len(s) \in Nat
  OBVIOUS
<1>2. P \in SUBSET Nat /\ P # {}
  BY <1>1
<1>3. PICK i \in P : \A j \in P : ~(j < i)
  <2> HIDE DEF P
  <2> QED BY <1>2, FirstPosition
<1>4. \A j \in 1..(i - 1) : j \in DOMAIN s /\ j < i
  BY <1>1
<1> QED BY <1>3, <1>4

-----------------------------------------------------------------------------
(* Modules by name and by handle *)

Named(n) == {x \in CoreEntry : x.name = n}
AbiNamed(n) == {x \in AbiEntry : x.name = n}
Held(h) == {x \in AbiEntry : x.handle = h}

LEMMA CountNamed ==
  ASSUME NEW s \in Seq(CoreEntry), NEW n
  PROVE  Cardinality({i \in DOMAIN s : s[i].name = n}) = CountIn(s, Named(n))
<1>1. \A i \in DOMAIN s : s[i].name = n <=> s[i] \in Named(n)
  BY DEF Named
<1>2. {i \in DOMAIN s : s[i].name = n} = {i \in DOMAIN s : s[i] \in Named(n)}
  BY <1>1
<1> QED BY <1>2 DEF CountIn

LEMMA CountAbiNamed ==
  ASSUME NEW s \in Seq(AbiEntry), NEW n
  PROVE  Cardinality({i \in DOMAIN s : s[i].name = n}) = CountIn(s, AbiNamed(n))
<1>1. \A i \in DOMAIN s : s[i].name = n <=> s[i] \in AbiNamed(n)
  BY DEF AbiNamed
<1>2. {i \in DOMAIN s : s[i].name = n} = {i \in DOMAIN s : s[i] \in AbiNamed(n)}
  BY <1>1
<1> QED BY <1>2 DEF CountIn

LEMMA CountHeld ==
  ASSUME NEW s \in Seq(AbiEntry), NEW h
  PROVE  Cardinality({i \in DOMAIN s : s[i].handle = h}) = CountIn(s, Held(h))
<1>1. \A i \in DOMAIN s : s[i].handle = h <=> s[i] \in Held(h)
  BY DEF Held
<1>2. {i \in DOMAIN s : s[i].handle = h} = {i \in DOMAIN s : s[i] \in Held(h)}
  BY <1>1
<1> QED BY <1>2 DEF CountIn

LEMMA CountListed ==
  ASSUME NEW S, NEW s \in Seq(S), NEW h
  PROVE  Cardinality({i \in DOMAIN s : s[i] = h}) = CountIn(s, {h})
<1>1. {i \in DOMAIN s : s[i] = h} = {i \in DOMAIN s : s[i] \in {h}}
  OBVIOUS
<1> QED BY <1>1 DEF CountIn

\* A lookup by name finds a module of that name, if there is one.
LEMMA FirstOfName ==
  ASSUME NEW s \in Seq(CoreEntry), NEW n, \E i \in DOMAIN s : s[i].name = n
  PROVE  FirstOf(s, n) \in DOMAIN s /\ s[FirstOf(s, n)].name = n
<1>1. \E i \in DOMAIN s : s[i] \in Named(n)
  BY DEF Named
<1>2. PICK i \in DOMAIN s : s[i] \in Named(n) /\ \A j \in 1..(i - 1) : s[j] \notin Named(n)
  BY <1>1, FirstEntry
<1>3. \A j \in 1..(i - 1) : j \in DOMAIN s
  OBVIOUS
<1>4. s[i].name = n /\ \A j \in 1..(i - 1) : s[j].name # n
  BY <1>2, <1>3 DEF Named
<1> QED BY <1>4 DEF FirstOf

NamesOf(s) == {s[i].name : i \in DOMAIN s}

\* FT_Remove_Module of the core takes one module of the name and no other.
LEMMA RemovedByName ==
  ASSUME NEW s \in Seq(CoreEntry), NEW n, \E i \in DOMAIN s : s[i].name = n
  PROVE  /\ CoreWithout(s, n) \in Seq(CoreEntry)
         /\ \A k \in Names :
              CountIn(CoreWithout(s, n), Named(k)) = CountIn(s, Named(k)) - (IF k = n THEN 1 ELSE 0)
         /\ NamesOf(s) \ {n} \subseteq NamesOf(CoreWithout(s, n))
<1> DEFINE f == FirstOf(s, n)
<1>1. f \in DOMAIN s /\ s[f].name = n
  BY FirstOfName
<1> HIDE DEF f
<1>2. CoreWithout(s, n) = RemoveAt(s, f)
  BY DEF CoreWithout, f
<1>3. RemoveAt(s, f) \in Seq(CoreEntry)
  BY <1>1, Removed
<1>4. \A k : s[f] \in Named(k) <=> k = n
  BY <1>1 DEF Named
<1>5. \A k : CountIn(RemoveAt(s, f), Named(k)) = CountIn(s, Named(k)) - (IF k = n THEN 1 ELSE 0)
  BY <1>1, <1>4, CountRemoved
<1>6. ASSUME NEW i \in DOMAIN s, s[i].name # n
      PROVE  \E j \in DOMAIN RemoveAt(s, f) : RemoveAt(s, f)[j].name = s[i].name
  <2>1. i \in DOMAIN s \ {f}
    BY <1>1, <1>6
  <2> QED BY <1>1, <1>6, <2>1, RemovedEntries
<1>7. NamesOf(s) \ {n} \subseteq NamesOf(RemoveAt(s, f))
  BY <1>6 DEF NamesOf
<1> QED BY <1>2, <1>3, <1>5, <1>7

\* The public table loses one entry of the handle, if it has one.
LEMMA RemovedFromPublic ==
  ASSUME NEW h, public \in Seq(Handles \union ToSet(Defaults))
  PROVE  /\ PublicWithout(h) \in Seq(Handles \union ToSet(Defaults))
         /\ ToSet(PublicWithout(h)) \subseteq ToSet(public)
         /\ \A k : CountIn(PublicWithout(h), {k}) =
                     CountIn(public, {k}) - (IF k = h /\ h \in ToSet(public) THEN 1 ELSE 0)
<1> DEFINE S == Handles \union ToSet(Defaults)
           f == CHOOSE i \in DOMAIN public : public[i] = h /\ \A j \in 1..(i - 1) : public[j] # h
<1>1. CASE h \notin ToSet(public)
  <2>1. PublicWithout(h) = public
    BY <1>1 DEF PublicWithout
  <2>2. \A k : CountIn(public, {k}) \in Nat
    BY CountIsNat
  <2>3. \A k : CountIn(public, {k}) = CountIn(public, {k}) - (IF k = h /\ h \in ToSet(public) THEN 1 ELSE 0)
    BY <1>1, <2>2, SMT
  <2> QED BY <2>1, <2>3
<1>2. CASE h \in ToSet(public)
  <2>1. \E i \in DOMAIN public : public[i] \in {h}
    BY <1>2 DEF ToSet
  <2>2. \E i \in DOMAIN public : public[i] \in {h} /\ \A j \in 1..(i - 1) : public[j] \notin {h}
    BY <2>1, FirstEntry
  <2>3. f \in DOMAIN public /\ public[f] = h
    BY <2>2
  <2>4. PublicWithout(h) = RemoveAt(public, f)
    BY <1>2 DEF PublicWithout
  <2> HIDE DEF f, S
  <2>5. RemoveAt(public, f) \in Seq(S)
    BY <2>3, Removed DEF S
  <2>6. ToSet(RemoveAt(public, f)) \subseteq ToSet(public)
    BY <2>3, RemovedEntries DEF ToSet
  <2>7. \A k : CountIn(RemoveAt(public, f), {k}) = CountIn(public, {k}) - (IF public[f] \in {k} THEN 1 ELSE 0)
    BY <2>3, CountRemoved
  <2>8. \A k : public[f] \in {k} <=> k = h
    BY <2>3
  <2> QED BY <1>2, <2>4, <2>5, <2>6, <2>7, <2>8 DEF S
<1> QED BY <1>1, <1>2

\* ListsAgree and PublicSound, in terms of CountIn.
LEMMA AgreementCounted ==
  ASSUME NEW c \in Seq(CoreEntry), NEW a \in Seq(AbiEntry)
  PROVE  (\A n \in Names : Cardinality({i \in DOMAIN c : c[i].name = n})
                           = Cardinality({i \in DOMAIN a : a[i].name = n}))
         <=> \A n \in Names : CountIn(c, Named(n)) = CountIn(a, AbiNamed(n))
<1>1. \A n : Cardinality({i \in DOMAIN c : c[i].name = n}) = CountIn(c, Named(n))
  BY CountNamed
<1>2. \A n : Cardinality({i \in DOMAIN a : a[i].name = n}) = CountIn(a, AbiNamed(n))
  BY CountAbiNamed
<1> QED BY <1>1, <1>2

LEMMA SoundnessCounted ==
  ASSUME NEW p \in Seq(Handles \union ToSet(Defaults)), NEW a \in Seq(AbiEntry)
  PROVE  (\A h \in ToSet(p) \ ToSet(Defaults) :
            Cardinality({i \in DOMAIN p : p[i] = h}) <= Cardinality({i \in DOMAIN a : a[i].handle = h}))
         <=> \A k : k \notin ToSet(Defaults) => CountIn(p, {k}) <= CountIn(a, Held(k))
<1>1. \A k : Cardinality({i \in DOMAIN p : p[i] = k}) = CountIn(p, {k})
  BY CountListed
<1>2. \A k : Cardinality({i \in DOMAIN a : a[i].handle = k}) = CountIn(a, Held(k))
  BY CountHeld
<1>3. \A k : CountIn(p, {k}) \in Nat /\ CountIn(a, Held(k)) \in Nat
  BY CountIsNat
<1>4. ASSUME NEW k, k \notin ToSet(p)
      PROVE  CountIn(p, {k}) <= CountIn(a, Held(k))
  <2>1. \A i \in DOMAIN p : p[i] \notin {k}
    BY <1>4 DEF ToSet
  <2>2. CountIn(p, {k}) = 0
    BY <2>1, CountIsNat
  <2> QED BY <1>3, <2>2
<1>5. (\A h \in ToSet(p) \ ToSet(Defaults) :
         Cardinality({i \in DOMAIN p : p[i] = h}) <= Cardinality({i \in DOMAIN a : a[i].handle = h}))
      <=> \A h \in ToSet(p) \ ToSet(Defaults) : CountIn(p, {h}) <= CountIn(a, Held(h))
  BY <1>1, <1>2
<1> QED BY <1>4, <1>5

LEMMA ListsAgreeNext ==
  ASSUME core' \in Seq(CoreEntry), abi' \in Seq(AbiEntry),
         \A n \in Names : CountIn(core', Named(n)) = CountIn(abi', AbiNamed(n))
  PROVE  ListsAgree'
<1>1. \A n \in Names : Cardinality({i \in DOMAIN core' : core'[i].name = n})
                      = Cardinality({i \in DOMAIN abi' : abi'[i].name = n})
  BY AgreementCounted
<1> QED BY <1>1 DEF ListsAgree, Count

LEMMA PublicSoundNext ==
  ASSUME public' \in Seq(Handles \union ToSet(Defaults)), abi' \in Seq(AbiEntry),
         \A k : k \notin ToSet(Defaults) => CountIn(public', {k}) <= CountIn(abi', Held(k))
  PROVE  PublicSound'
<1>1. \A h \in ToSet(public') \ ToSet(Defaults) :
        Cardinality({i \in DOMAIN public' : public'[i] = h}) <= Cardinality({i \in DOMAIN abi' : abi'[i].handle = h})
  BY SoundnessCounted
<1> QED BY <1>1 DEF PublicSound, Count

-----------------------------------------------------------------------------
(* The invariant                                                           *)

\* The four properties lean on each other: that a removal by name finds the
\* core's entry needs the lists to agree, that a callback runs once needs the
\* records to stand for different registrations.
ModInv ==
  /\ ModTypeOK
  /\ RecordsDistinct
  /\ DoneOnce
  /\ ListsAgree
  /\ PublicSound
  /\ CurrentInstalled

\* The core has an entry for each record of the ABI.
LEMMA RecordedIsKnown ==
  ASSUME ModTypeOK, ListsAgree, NEW i \in DOMAIN abi
  PROVE  /\ abi[i] \in AbiEntry
         /\ \E j \in DOMAIN core : core[j].name = abi[i].name
<1> DEFINE n == abi[i].name
<1>1. core \in Seq(CoreEntry) /\ abi \in Seq(AbiEntry)
  BY DEF ModTypeOK
<1>2. abi[i] \in AbiEntry /\ n \in Names
  <2>1. abi[i] \in AbiEntry
    BY <1>1
  <2> QED BY <2>1 DEF AbiEntry
<1>3. abi[i] \in AbiNamed(n)
  BY <1>2 DEF AbiNamed
<1> HIDE DEF n
<1>4. CountIn(abi, AbiNamed(n)) # 0
  BY <1>1, <1>3, CountIsNat
<1>5. CountIn(core, Named(n)) = CountIn(abi, AbiNamed(n))
  BY <1>1, <1>2, AgreementCounted DEF ListsAgree, Count
<1>6. \E j \in DOMAIN core : core[j] \in Named(n)
  BY <1>1, <1>4, <1>5, CountIsNat
<1> QED BY <1>2, <1>6 DEF Named, n

\* A new entry of the core.
LEMMA KnownWith ==
  ASSUME ModTypeOK, NEW name \in Names, NEW v \in Versions, NEW b \in BOOLEAN
  PROVE  LET mods == CoreWith(name, v, b)
         IN /\ mods \in Seq(CoreEntry)
            /\ \A n \in Names : CountIn(mods, Named(n)) = CountIn(core, Named(n)) + (IF n = name THEN 1 ELSE 0)
            /\ \E i \in DOMAIN mods : mods[i].name = name
            /\ \A i \in DOMAIN core : i \in DOMAIN mods /\ mods[i] = core[i]
            /\ CurrentWith(mods, name, b) \in {current, name}
<1> DEFINE e == [name |-> name, version |-> v, renderer |-> b]
           mods == CoreWith(name, v, b)
<1>1. core \in Seq(CoreEntry) /\ e \in CoreEntry /\ e.name = name
  BY DEF ModTypeOK, CoreEntry
<1>2. mods = Append(core, e)
  BY DEF CoreWith
<1>3. \A n : e \in Named(n) <=> n = name
  BY <1>1 DEF Named
<1>4. CurrentWith(mods, name, b) \in {current, name}
  BY DEF CurrentWith
<1> HIDE DEF e, mods
<1>5. \A n : CountIn(mods, Named(n)) = CountIn(core, Named(n)) + (IF n = name THEN 1 ELSE 0)
  BY <1>1, <1>2, <1>3, CountPushed
<1>6. mods \in Seq(CoreEntry) /\ Len(core) + 1 \in DOMAIN mods /\ mods[Len(core) + 1] = e
      /\ \A i \in DOMAIN core : i \in DOMAIN mods /\ mods[i] = core[i]
  BY <1>1, <1>2, Pushed
<1> QED BY <1>1, <1>4, <1>5, <1>6 DEF mods

\* The initial tables.
LEMMA Start == ModInit => ModInv
<1> SUFFICES ASSUME ModInit PROVE ModInv
  OBVIOUS
<1>1. MaxAdds \in Nat
  BY ModulesAssumption
<1>2. ModTypeOK
  <2>1. public \in Seq(Handles \union ToSet(Defaults))
    <3>1. Defaults \in Seq(ToSet(Defaults)) /\ <<>> \in Seq(Handles \union ToSet(Defaults))
      BY DEF Defaults, ToSet
    <3>2. Defaults \in Seq(Handles \union ToSet(Defaults))
      BY <3>1
    <3> QED BY <3>1, <3>2 DEF ModInit
  <2> QED BY <1>1, <2>1 DEF ModInit, ModTypeOK, DefaultOutline, Reg
<1>3. DOMAIN abi = {} /\ DOMAIN core = {} /\ used = 0
  BY DEF ModInit
<1>4. RecordsDistinct
  BY <1>3 DEF RecordsDistinct, ModInit
<1>5. DoneOnce
  BY <1>3 DEF DoneOnce
<1>6. ListsAgree
  BY <1>3 DEF ListsAgree, Count
<1>7. PublicSound
  <2>1. ToSet(public) \ ToSet(Defaults) = {}
    BY DEF ModInit, ToSet
  <2> QED BY <2>1 DEF PublicSound
<1>8. CurrentInstalled
  BY DEF CurrentInstalled, ModInit, DefaultOutline
<1> QED BY <1>2, <1>4, <1>5, <1>6, <1>7, <1>8 DEF ModInv

\* FT_Add_Module keeps the invariant.
LEMMA AddStep ==
  ASSUME ModInv, NEW name \in Names, NEW v \in Versions, NEW shape \in Shapes,
         FT_Add_Module(name, v, shape)
  PROVE  ModInv'
<1> DEFINE reg == used + 1
           b == IsRenderer(shape)
           h == IF b THEN Synth ELSE ToString(reg)
           raster == IF shape = "raster" THEN reg ELSE 0
           e == [reg |-> reg, name |-> name, handle |-> h]
           mods == CoreWith(name, v, b)
<1>1. /\ alive /\ reg \in Reg
      /\ core' = mods
      /\ current' = CurrentWith(mods, name, b)
      /\ abi' = Append(abi, e)
      /\ public' = IF Len(public) < Capacity THEN Append(public, h) ELSE public
      /\ synth' = IF b THEN SynthWith(name, shape, raster) ELSE synth
      /\ rasters' = rasters \union ({raster} \ {0})
      /\ used' = reg
      /\ alive' = alive /\ defaults' = defaults /\ done' = done
  BY DEF FT_Add_Module
<1>2. ModTypeOK /\ MaxAdds \in Nat /\ b \in BOOLEAN /\ e \in AbiEntry /\ h \in Handles
  BY <1>1, ModulesAssumption DEF ModInv, IsRenderer, AbiEntry, Handles
<1>3. /\ mods \in Seq(CoreEntry)
      /\ \A n \in Names : CountIn(mods, Named(n)) = CountIn(core, Named(n)) + (IF n = name THEN 1 ELSE 0)
      /\ \E i \in DOMAIN mods : mods[i].name = name
      /\ \A i \in DOMAIN core : i \in DOMAIN mods /\ mods[i] = core[i]
      /\ CurrentWith(mods, name, b) \in {current, name}
  BY <1>2, KnownWith
<1>4. SynthWith(name, shape, raster) \in [name : {"fixture_renderer"} \union Names,
                                        format : {"outline", "bitmap"}, raster : {0} \union Reg]
  BY <1>1, <1>2 DEF SynthWith, ModTypeOK
<1>5. raster \in {0} \union Reg
  BY <1>1
<1>6. e.reg = reg /\ e.name = name /\ e.handle = h
  OBVIOUS
<1> HIDE DEF reg, b, h, raster, mods, e
<1>7. abi \in Seq(AbiEntry) /\ core \in Seq(CoreEntry) /\ public \in Seq(Handles \union ToSet(Defaults)) /\ used \in Nat
  BY <1>2 DEF ModTypeOK
<1>8. /\ abi' \in Seq(AbiEntry) /\ DOMAIN abi' = DOMAIN abi \union {Len(abi) + 1}
      /\ \A i \in DOMAIN abi : abi'[i] = abi[i]
      /\ abi'[Len(abi) + 1] = e
  BY <1>1, <1>2, <1>7, Pushed
<1>9. ModTypeOK'
  <2>1. public' \in Seq(Handles \union ToSet(Defaults))
    BY <1>1, <1>2, <1>7, Pushed
  <2>2. synth' \in [name : {"fixture_renderer"} \union Names, format : {"outline", "bitmap"}, raster : {0} \union Reg]
    BY <1>1, <1>2, <1>4 DEF ModTypeOK
  <2>3. current' \in DefaultOutline \union Names
    BY <1>1, <1>2, <1>3 DEF ModTypeOK
  <2>4. rasters' \subseteq Reg /\ used' \in 0..MaxAdds /\ done' \in [Reg -> Nat] /\ alive' \in BOOLEAN /\ defaults' \in BOOLEAN
    BY <1>1, <1>2, <1>5 DEF ModTypeOK, Reg
  <2> QED BY <1>1, <1>3, <1>8, <2>1, <2>2, <2>3, <2>4 DEF ModTypeOK, Handles, Reg, CoreEntry, AbiEntry
<1>10. \A i \in DOMAIN abi : abi[i].reg \in Reg /\ abi[i].reg <= used /\ used < reg
  <2>1. \A i \in DOMAIN abi : abi[i] \in AbiEntry
    BY <1>7
  <2> QED BY <1>7, <2>1 DEF ModInv, RecordsDistinct, AbiEntry, reg
<1>11. RecordsDistinct'
  <2>1. \A i \in DOMAIN abi' : abi'[i].reg <= used'
    BY <1>1, <1>6, <1>7, <1>8, <1>10 DEF Reg, reg
  <2>2. \A i \in DOMAIN abi : abi[i].reg # reg
    BY <1>7, <1>10 DEF Reg, reg
  <2>3. \A i, j \in DOMAIN abi' : abi'[i].reg = abi'[j].reg => i = j
    BY <1>6, <1>8, <2>2 DEF ModInv, RecordsDistinct
  <2>4. \A r \in Reg : r > used' => done'[r] = 0
    BY <1>1, <1>7 DEF ModInv, RecordsDistinct, Reg, reg
  <2> QED BY <2>1, <2>3, <2>4 DEF RecordsDistinct
<1>12. DoneOnce'
  <2> SUFFICES ASSUME NEW r \in 1..used'
               PROVE  done'[r] = IF \E i \in DOMAIN abi' : abi'[i].reg = r THEN 0 ELSE 1
    BY DEF DoneOnce
  <2>1. CASE r = reg
    <3>1. done[r] = 0
      BY <1>1, <1>7, <2>1 DEF ModInv, RecordsDistinct, reg
    <3> QED BY <1>1, <1>6, <1>8, <2>1, <3>1
  <2>2. CASE r # reg
    <3>1. r \in 1..used
      BY <1>1, <1>7, <2>2 DEF reg
    <3>2. (\E i \in DOMAIN abi' : abi'[i].reg = r) <=> (\E i \in DOMAIN abi : abi[i].reg = r)
      BY <1>6, <1>8, <2>2
    <3> QED BY <1>1, <3>1, <3>2 DEF ModInv, DoneOnce
  <2> QED BY <2>1, <2>2
<1>13. ListsAgree'
  <2> SUFFICES ASSUME NEW n \in Names
               PROVE  CountIn(core', Named(n)) = CountIn(abi', AbiNamed(n))
    BY <1>1, <1>3, <1>8, ListsAgreeNext
  <2>1. CountIn(core, Named(n)) = CountIn(abi, AbiNamed(n))
    BY <1>7, AgreementCounted DEF ModInv, ListsAgree, Count
  <2>2. e \in AbiNamed(n) <=> n = name
    BY <1>2, <1>6 DEF AbiNamed
  <2>3. CountIn(abi', AbiNamed(n)) = CountIn(abi, AbiNamed(n)) + (IF n = name THEN 1 ELSE 0)
    BY <1>1, <1>2, <1>7, <2>2, CountPushed
  <2> QED BY <1>1, <1>3, <2>1, <2>3
<1>14. PublicSound'
  <2>1. public' \in Seq(Handles \union ToSet(Defaults))
    BY <1>1, <1>2, <1>7, Pushed
  <2> SUFFICES ASSUME NEW k, k \notin ToSet(Defaults)
               PROVE  CountIn(public', {k}) <= CountIn(abi', Held(k))
    BY <1>8, <2>1, PublicSoundNext
  <2> DEFINE one == IF k = h THEN 1 ELSE 0
  <2>2. CountIn(public, {k}) <= CountIn(abi, Held(k))
    BY <1>7, SoundnessCounted DEF ModInv, PublicSound, Count
  <2>3. CountIn(public, {k}) \in Nat /\ CountIn(abi, Held(k)) \in Nat
    BY <1>7, CountIsNat
  <2>4. CountIn(public', {k}) \in {CountIn(public, {k}), CountIn(public, {k}) + one}
    <3>1. h \in Handles \union ToSet(Defaults) /\ (h \in {k} <=> k = h)
      BY <1>2
    <3>2. CountIn(Append(public, h), {k}) = CountIn(public, {k}) + one
      BY <1>7, <3>1, CountPushed
    <3> QED BY <1>1, <3>2
  <2>5. e \in Held(k) <=> k = h
    BY <1>2, <1>6 DEF Held
  <2>6. CountIn(abi', Held(k)) = CountIn(abi, Held(k)) + one
    BY <1>1, <1>2, <1>7, <2>5, CountPushed
  <2>7. one \in {0, 1}
    OBVIOUS
  <2> HIDE DEF one
  <2> QED BY <2>2, <2>3, <2>4, <2>6, <2>7
<1>15. CurrentInstalled'
  <2>1. current \in DefaultOutline \/ \E i \in DOMAIN core : core[i].name = current
    BY <1>1 DEF ModInv, CurrentInstalled, CoreInstalled
  <2>2. current' \in DefaultOutline \/ \E i \in DOMAIN core' : core'[i].name = current'
    BY <1>1, <1>3, <2>1
  <2> QED BY <2>2 DEF CurrentInstalled, CoreInstalled
<1> QED BY <1>9, <1>11, <1>12, <1>13, <1>14, <1>15 DEF ModInv

\* FT_Add_Module keeps the invariant when raster_new fails: one module of the
\* name was added and one is taken away.
LEMMA RefusedStep ==
  ASSUME ModInv, NEW name \in Names, NEW v \in Versions,
         FT_Add_Module_raster_new_fails(name, v)
  PROVE  ModInv'
<1> DEFINE mods == CoreWith(name, v, TRUE)
           cur == CurrentWith(mods, name, TRUE)
<1>1. /\ alive
      /\ core' = CoreWithout(mods, name)
      /\ current' = CurrentWithout(cur, name)
      /\ synth' = [synth EXCEPT !.format = "outline", !.raster = 0]
      /\ alive' = alive /\ defaults' = defaults /\ abi' = abi /\ public' = public
      /\ rasters' = rasters /\ done' = done /\ used' = used
  BY DEF FT_Add_Module_raster_new_fails
<1>2. ModTypeOK
  BY DEF ModInv
<1>3. /\ mods \in Seq(CoreEntry)
      /\ \A n \in Names : CountIn(mods, Named(n)) = CountIn(core, Named(n)) + (IF n = name THEN 1 ELSE 0)
      /\ \E i \in DOMAIN mods : mods[i].name = name
      /\ \A i \in DOMAIN core : i \in DOMAIN mods /\ mods[i] = core[i]
      /\ cur \in {current, name}
  BY <1>2, KnownWith
<1> HIDE DEF mods, cur
<1>4. /\ core' \in Seq(CoreEntry)
      /\ \A n \in Names : CountIn(core', Named(n)) = CountIn(mods, Named(n)) - (IF n = name THEN 1 ELSE 0)
      /\ NamesOf(mods) \ {name} \subseteq NamesOf(core')
  <2> DEFINE left == CoreWithout(mods, name)
  <2>1. /\ left \in Seq(CoreEntry)
        /\ \A k \in Names :
             CountIn(left, Named(k)) = CountIn(mods, Named(k)) - (IF k = name THEN 1 ELSE 0)
        /\ NamesOf(mods) \ {name} \subseteq NamesOf(left)
    BY <1>3, RemovedByName
  <2>2. core' = left
    BY <1>1
  <2> HIDE DEF left
  <2> QED BY <2>1, <2>2
<1>5. core \in Seq(CoreEntry) /\ abi \in Seq(AbiEntry)
  BY <1>2 DEF ModTypeOK
<1>6. \A n : CountIn(core, Named(n)) \in Nat
  BY <1>5, CountIsNat
<1>7. \A n \in Names : CountIn(core', Named(n)) = CountIn(core, Named(n))
  BY <1>3, <1>4, <1>6
<1>8. ModTypeOK'
  <2>1. synth' \in [name : {"fixture_renderer"} \union Names, format : {"outline", "bitmap"}, raster : {0} \union Reg]
    BY <1>1, <1>2 DEF ModTypeOK
  <2>2. current' \in DefaultOutline \union Names
    BY <1>1, <1>2, <1>3 DEF ModTypeOK, CurrentWithout, DefaultOutline
  <2> QED BY <1>1, <1>2, <1>4, <2>1, <2>2 DEF ModTypeOK
<1>9. RecordsDistinct'
  BY <1>1 DEF ModInv, RecordsDistinct
<1>10. DoneOnce'
  BY <1>1 DEF ModInv, DoneOnce
<1>11. ListsAgree'
  <2>1. \A n \in Names : CountIn(core, Named(n)) = CountIn(abi, AbiNamed(n))
    BY <1>5, AgreementCounted DEF ModInv, ListsAgree, Count
  <2> QED BY <1>1, <1>4, <1>5, <1>7, <2>1, ListsAgreeNext
<1>12. PublicSound'
  BY <1>1 DEF ModInv, PublicSound, Count
<1>13. CurrentInstalled'
  <2>1. current \in DefaultOutline \/ \E i \in DOMAIN core : core[i].name = current
    BY <1>1 DEF ModInv, CurrentInstalled, CoreInstalled
  <2>2. CASE cur = name
    BY <1>1, <2>2 DEF CurrentWithout, CurrentInstalled, DefaultOutline
  <2>3. CASE cur # name
    <3>1. cur = current /\ current' = current
      BY <1>1, <1>3, <2>3 DEF CurrentWithout
    <3>2. current' \in DefaultOutline \/ \E i \in DOMAIN core' : core'[i].name = current'
      BY <1>3, <1>4, <2>1, <2>3, <3>1 DEF NamesOf
    <3> QED BY <3>2 DEF CurrentInstalled, CoreInstalled
  <2> QED BY <2>2, <2>3
<1> QED BY <1>8, <1>9, <1>10, <1>11, <1>12, <1>13 DEF ModInv

\* FT_Remove_Module keeps the invariant.
LEMMA RemoveStep ==
  ASSUME ModInv, NEW h, FT_Remove_Module(h)
  PROVE  ModInv'
<1>1. PICK i \in DOMAIN abi :
        /\ alive
        /\ abi[i].handle = h
        /\ core' = CoreWithout(core, abi[i].name)
        /\ current' = CurrentWithout(current, abi[i].name)
        /\ abi' = RemoveAt(abi, i)
        /\ public' = PublicWithout(h)
        /\ rasters' = rasters \ RasterDone(synth, h)
        /\ synth' = IF h = Synth THEN [synth EXCEPT !.raster = 0] ELSE synth
        /\ done' = [done EXCEPT ![abi[i].reg] = @ + 1]
        /\ alive' = alive /\ defaults' = defaults /\ used' = used
  BY DEF FT_Remove_Module
<1> DEFINE n == abi[i].name
           reg == abi[i].reg
<1>2. /\ ModTypeOK /\ core \in Seq(CoreEntry) /\ abi \in Seq(AbiEntry)
      /\ public \in Seq(Handles \union ToSet(Defaults)) /\ done \in [Reg -> Nat]
  BY DEF ModInv, ModTypeOK
<1>3. abi[i] \in AbiEntry /\ \E j \in DOMAIN core : core[j].name = n
  BY <1>2, RecordedIsKnown DEF ModInv
<1>4. n \in Names /\ reg \in Reg /\ abi[i].handle \in Handles
  BY <1>3 DEF AbiEntry
<1> HIDE DEF n, reg
<1>5. /\ core' \in Seq(CoreEntry)
      /\ \A k \in Names : CountIn(core', Named(k)) = CountIn(core, Named(k)) - (IF k = n THEN 1 ELSE 0)
      /\ NamesOf(core) \ {n} \subseteq NamesOf(core')
  <2>1. core \in Seq(CoreEntry) /\ \E j \in DOMAIN core : core[j].name = n
    BY <1>2, <1>3
  <2>2. CoreWithout(core, n) \in Seq(CoreEntry)
    BY <2>1, RemovedByName
  <2>3. \A k \in Names : CountIn(CoreWithout(core, n), Named(k)) = CountIn(core, Named(k)) - (IF k = n THEN 1 ELSE 0)
    BY <2>1, RemovedByName
  <2>4. NamesOf(core) \ {n} \subseteq NamesOf(CoreWithout(core, n))
    BY <2>1, RemovedByName
  <2>5. core' = CoreWithout(core, n)
    BY <1>1 DEF n
  <2> QED BY <2>2, <2>3, <2>4, <2>5
<1>6. /\ public' \in Seq(Handles \union ToSet(Defaults))
      /\ \A k : CountIn(public', {k}) =
                  CountIn(public, {k}) - (IF k = h /\ h \in ToSet(public) THEN 1 ELSE 0)
  BY <1>1, <1>2, RemovedFromPublic
<1>7. /\ abi' \in Seq(AbiEntry)
      /\ \A k \in DOMAIN abi \ {i} : \E j \in DOMAIN abi' : abi'[j] = abi[k]
      /\ \A j \in DOMAIN abi' : /\ (IF j < i THEN j ELSE j + 1) \in DOMAIN abi \ {i}
                                /\ abi'[j] = abi[IF j < i THEN j ELSE j + 1]
  BY <1>1, <1>2, Removed, RemovedEntries
<1>8. \A K : CountIn(abi', K) = CountIn(abi, K) - (IF abi[i] \in K THEN 1 ELSE 0)
  BY <1>1, <1>2, CountRemoved
<1>9. /\ \A k \in DOMAIN abi : abi[k].reg <= used
      /\ \A k, l \in DOMAIN abi : abi[k].reg = abi[l].reg => k = l
      /\ \A r \in Reg : r > used => done[r] = 0
  BY DEF ModInv, RecordsDistinct
<1>10. done' = [done EXCEPT ![reg] = @ + 1] /\ current' = CurrentWithout(current, n)
  BY <1>1 DEF n, reg
<1>11. /\ \A r : (\E j \in DOMAIN abi' : abi'[j].reg = r) <=> r # reg /\ \E j \in DOMAIN abi : abi[j].reg = r
       /\ \A j, k \in DOMAIN abi' : abi'[j].reg = abi'[k].reg => j = k
       /\ \A j \in DOMAIN abi' : abi'[j].reg <= used
  <2>1. \A j \in DOMAIN abi' : j \in Nat
    BY <1>7
  <2>2. i \in Nat
    BY <1>2
  <2>3. \A j \in DOMAIN abi' : abi'[j].reg # reg /\ \E k \in DOMAIN abi : abi'[j].reg = abi[k].reg
    BY <1>7, <1>9 DEF reg
  <2>4. \A j, k \in DOMAIN abi' : abi'[j].reg = abi'[k].reg => j = k
    <3> SUFFICES ASSUME NEW j \in DOMAIN abi', NEW k \in DOMAIN abi', abi'[j].reg = abi'[k].reg
                 PROVE  j = k
      OBVIOUS
    <3>1. (IF j < i THEN j ELSE j + 1) = (IF k < i THEN k ELSE k + 1)
      BY <1>7, <1>9
    <3> QED BY <2>1, <2>2, <3>1
  <2>5. \A j \in DOMAIN abi : abi[j].reg # reg => \E k \in DOMAIN abi' : abi'[k].reg = abi[j].reg
    BY <1>7 DEF reg
  <2>6. \A j \in DOMAIN abi' : abi'[j].reg <= used
    BY <1>9, <2>3
  <2> QED BY <2>3, <2>4, <2>5, <2>6
<1>12. ModTypeOK'
  <2>1. synth' \in [name : {"fixture_renderer"} \union Names, format : {"outline", "bitmap"}, raster : {0} \union Reg]
    BY <1>1, <1>2 DEF ModTypeOK
  <2>2. current' \in DefaultOutline \union Names
    BY <1>2, <1>10 DEF ModTypeOK, CurrentWithout, DefaultOutline
  <2>3. done' \in [Reg -> Nat]
    BY <1>2, <1>4, <1>10
  <2>4. rasters' \subseteq Reg /\ alive' \in BOOLEAN /\ defaults' \in BOOLEAN /\ used' \in 0..MaxAdds
    BY <1>1, <1>2 DEF ModTypeOK
  <2> QED BY <1>5, <1>6, <1>7, <2>1, <2>2, <2>3, <2>4 DEF ModTypeOK
<1>13. used \in Nat /\ used <= MaxAdds /\ MaxAdds \in Nat /\ reg \in 1..used
  <2>1. reg <= used
    BY <1>9 DEF reg
  <2> QED BY <1>2, <1>4, <2>1, ModulesAssumption DEF ModTypeOK, Reg
<1>14. RecordsDistinct'
  <2>1. \A r \in Reg : r > used' => done'[r] = 0
    BY <1>1, <1>2, <1>4, <1>9, <1>10, <1>13 DEF Reg
  <2> QED BY <1>1, <1>11, <2>1 DEF RecordsDistinct
<1>15. DoneOnce'
  <2> SUFFICES ASSUME NEW r \in 1..used
               PROVE  done'[r] = IF \E j \in DOMAIN abi' : abi'[j].reg = r THEN 0 ELSE 1
    BY <1>1 DEF DoneOnce
  <2>1. r \in Reg
    BY <1>13 DEF Reg
  <2>2. done[r] = IF \E j \in DOMAIN abi : abi[j].reg = r THEN 0 ELSE 1
    BY DEF ModInv, DoneOnce
  <2>3. CASE r = reg
    <3>1. done[r] = 0
      BY <2>2, <2>3 DEF reg
    <3>2. done'[r] = 1
      BY <1>2, <1>10, <2>1, <2>3, <3>1
    <3> QED BY <1>11, <2>3, <3>2
  <2>4. CASE r # reg
    BY <1>2, <1>10, <1>11, <2>1, <2>2, <2>4
  <2> QED BY <2>3, <2>4
<1>16. ListsAgree'
  <2>1. \A k \in Names : CountIn(core, Named(k)) = CountIn(abi, AbiNamed(k))
    BY <1>2, AgreementCounted DEF ModInv, ListsAgree, Count
  <2>2. \A k : abi[i] \in AbiNamed(k) <=> k = n
    BY <1>3 DEF AbiNamed, n
  <2>3. \A k \in Names : CountIn(core', Named(k)) = CountIn(abi', AbiNamed(k))
    BY <1>5, <1>8, <2>1, <2>2
  <2> QED BY <1>5, <1>7, <2>3, ListsAgreeNext
<1>17. PublicSound'
  <2> SUFFICES ASSUME NEW k, k \notin ToSet(Defaults)
               PROVE  CountIn(public', {k}) <= CountIn(abi', Held(k))
    BY <1>6, <1>7, PublicSoundNext
  <2>1. CountIn(public, {k}) <= CountIn(abi, Held(k))
    BY <1>2, SoundnessCounted DEF ModInv, PublicSound, Count
  <2>2. CountIn(public, {k}) \in Nat /\ CountIn(abi, Held(k)) \in Nat
    BY <1>2, CountIsNat
  <2>3. abi[i] \in Held(k) <=> k = h
    BY <1>1, <1>3 DEF Held
  <2>4. CASE k = h /\ h \in ToSet(public)
    <3>1. CountIn(public', {k}) = CountIn(public, {k}) - 1
      BY <1>6, <2>4
    <3>2. CountIn(abi', Held(k)) = CountIn(abi, Held(k)) - 1
      BY <1>8, <2>3, <2>4
    <3> QED BY <2>1, <2>2, <3>1, <3>2
  <2>5. CASE k # h
    BY <1>6, <1>8, <2>1, <2>2, <2>3, <2>5, SMTT(30)
  <2>6. CASE k = h /\ h \notin ToSet(public)
    <3>1. CountIn(public, {k}) = 0
      <4>1. \A j \in DOMAIN public : public[j] \notin {k}
        BY <2>6 DEF ToSet
      <4> QED BY <1>2, <4>1, CountIsNat
    <3>2. CountIn(public', {k}) = 0
      <4>1. public' = public
        BY <1>1, <2>6 DEF PublicWithout
      <4> QED BY <3>1, <4>1
    <3>3. CountIn(abi', Held(k)) \in Nat
      BY <1>7, CountIsNat
    <3> QED BY <3>2, <3>3
  <2> QED BY <2>4, <2>5, <2>6
<1>18. CurrentInstalled'
  <2>1. current \in DefaultOutline \/ \E j \in DOMAIN core : core[j].name = current
    BY <1>1 DEF ModInv, CurrentInstalled, CoreInstalled
  <2>2. CASE current = n
    BY <1>10, <2>2 DEF CurrentWithout, CurrentInstalled, DefaultOutline
  <2>3. CASE current # n
    <3>1. current' = current
      BY <1>10, <2>3 DEF CurrentWithout
    <3>2. current' \in DefaultOutline \/ \E j \in DOMAIN core' : core'[j].name = current'
      BY <1>5, <2>1, <2>3, <3>1 DEF NamesOf
    <3> QED BY <3>2 DEF CurrentInstalled, CoreInstalled
  <2> QED BY <2>2, <2>3
<1> QED BY <1>12, <1>14, <1>15, <1>16, <1>17, <1>18 DEF ModInv

\* FT_Add_Default_Modules keeps the invariant: the public array lists no module
\* of the caller any more.
LEMMA DefaultsStep ==
  ASSUME ModInv, FT_Add_Default_Modules
  PROVE  ModInv'
<1>1. /\ defaults' = TRUE /\ public' = Defaults /\ alive' = alive /\ core' = core
      /\ current' = current /\ abi' = abi /\ synth' = synth /\ rasters' = rasters
      /\ done' = done /\ used' = used
  BY DEF FT_Add_Default_Modules
<1>2. ModTypeOK'
  <2>1. Defaults \in Seq(ToSet(Defaults))
    BY DEF Defaults, ToSet
  <2>2. Defaults \in Seq(Handles \union ToSet(Defaults))
    BY <2>1
  <2> QED BY <1>1, <2>2 DEF ModInv, ModTypeOK
<1>3. RecordsDistinct' /\ DoneOnce' /\ ListsAgree' /\ CurrentInstalled'
  <2>1. RecordsDistinct' /\ DoneOnce'
    BY <1>1 DEF ModInv, RecordsDistinct, DoneOnce
  <2>2. ListsAgree'
    BY <1>1 DEF ModInv, ListsAgree, Count
  <2>3. CurrentInstalled'
    BY <1>1 DEF ModInv, CurrentInstalled, CoreInstalled
  <2> QED BY <2>1, <2>2, <2>3
<1>4. PublicSound'
  <2>1. ToSet(public') \ ToSet(Defaults) = {}
    BY <1>1
  <2> QED BY <2>1 DEF PublicSound
<1> QED BY <1>2, <1>3, <1>4 DEF ModInv

\* What is shown to the program is no part of the invariant.
LEMMA TablesKept ==
  ASSUME ModInv, UNCHANGED <<alive, defaults, core, current, abi, public, synth, rasters, done, used>>
  PROVE  ModInv'
<1>1. ModTypeOK'
  BY DEF ModInv, ModTypeOK
<1>2. RecordsDistinct' /\ DoneOnce'
  BY DEF ModInv, RecordsDistinct, DoneOnce
<1>3. ListsAgree'
  BY DEF ModInv, ListsAgree, Count
<1>4. PublicSound'
  BY DEF ModInv, PublicSound, Count
<1>5. CurrentInstalled'
  BY DEF ModInv, CurrentInstalled, CoreInstalled
<1> QED BY <1>1, <1>2, <1>3, <1>4, <1>5 DEF ModInv

\* Looking a renderer up changes what is shown only.
LEMMA GetStep ==
  ASSUME ModInv, NEW format, FT_Get_Renderer(format)
  PROVE  ModInv'
<1>1. UNCHANGED <<alive, defaults, core, current, abi, public, synth, rasters, done, used>>
  BY DEF FT_Get_Renderer
<1> QED BY <1>1, TablesKept

\* A renderer that is made current is a default one, or installed.
LEMMA SetStep ==
  ASSUME ModInv, NEW record, FT_Set_Renderer(record)
  PROVE  ModInv'
<1>1. /\ UNCHANGED <<alive, defaults, core, abi, public, synth, rasters, done, used>>
      /\ current' \in DefaultOutline \/ CoreInstalled(current') # {}
  BY DEF FT_Set_Renderer
<1>2. core \in Seq(CoreEntry)
  BY DEF ModInv, ModTypeOK
<1>3. \A i \in DOMAIN core : core[i].name \in Names
  <2>1. \A i \in DOMAIN core : core[i] \in CoreEntry
    BY <1>2
  <2> QED BY <2>1 DEF CoreEntry
<1>4. current' \in DefaultOutline \union Names
  BY <1>1, <1>3 DEF CoreInstalled
<1>5. ModTypeOK'
  BY <1>1, <1>4 DEF ModInv, ModTypeOK
<1>6. RecordsDistinct' /\ DoneOnce' /\ ListsAgree' /\ PublicSound'
  BY <1>1 DEF ModInv, RecordsDistinct, DoneOnce, ListsAgree, PublicSound, Count
<1>7. CurrentInstalled'
  BY <1>1 DEF CurrentInstalled, CoreInstalled
<1> QED BY <1>5, <1>6, <1>7 DEF ModInv

\* FT_Done_Library finishes what was installed, and nothing else.
LEMMA DoneStep ==
  ASSUME ModInv, FT_Done_Library
  PROVE  ModInv'
<1> DEFINE At(r) == {i \in DOMAIN abi : abi[i].reg = r}
<1>1. /\ alive' = FALSE /\ core' = <<>> /\ abi' = <<>> /\ public' = <<>> /\ defaults' = FALSE
      /\ done' = [r \in Reg |-> done[r] + Cardinality(At(r))]
      /\ rasters' \subseteq rasters
      /\ current' = current /\ synth' = synth /\ used' = used
  BY DEF FT_Done_Library
<1>2. /\ ModTypeOK /\ abi \in Seq(AbiEntry) /\ done \in [Reg -> Nat] /\ MaxAdds \in Nat
      /\ used \in 0..MaxAdds
  BY ModulesAssumption DEF ModInv, ModTypeOK
<1>3. /\ \A k \in DOMAIN abi : abi[k].reg <= used
      /\ \A k, l \in DOMAIN abi : abi[k].reg = abi[l].reg => k = l
      /\ \A r \in Reg : r > used => done[r] = 0
  BY DEF ModInv, RecordsDistinct
<1>4. ASSUME NEW r
      PROVE  Cardinality(At(r)) = IF \E i \in DOMAIN abi : abi[i].reg = r THEN 1 ELSE 0
  <2>1. CASE \E i \in DOMAIN abi : abi[i].reg = r
    <3>1. PICK i \in DOMAIN abi : abi[i].reg = r
      BY <2>1
    <3>2. At(r) = {i}
      BY <1>3, <3>1
    <3> QED BY <2>1, <3>2, FS_Singleton
  <2>2. CASE ~\E i \in DOMAIN abi : abi[i].reg = r
    <3>1. At(r) = {}
      BY <2>2
    <3> QED BY <2>2, <3>1, FS_EmptySet
  <2> QED BY <2>1, <2>2
<1> HIDE DEF At
<1>5. \A r \in Reg : done'[r] = done[r] + Cardinality(At(r)) /\ Cardinality(At(r)) \in {0, 1}
  BY <1>1, <1>4
<1>6. DOMAIN abi' = {} /\ DOMAIN core' = {} /\ ToSet(public') = {}
  BY <1>1 DEF ToSet
<1>7. ModTypeOK'
  <2>1. done' \in [Reg -> Nat]
    BY <1>1, <1>2, <1>5
  <2>2. core' \in Seq(CoreEntry) /\ abi' \in Seq(AbiEntry) /\ public' \in Seq(Handles \union ToSet(Defaults))
    BY <1>1
  <2>3. /\ alive' \in BOOLEAN /\ defaults' \in BOOLEAN /\ rasters' \subseteq Reg
        /\ current' \in DefaultOutline \union Names /\ used' \in 0..MaxAdds
    BY <1>1, <1>2 DEF ModTypeOK
  <2>4. synth' \in [name : {"fixture_renderer"} \union Names, format : {"outline", "bitmap"}, raster : {0} \union Reg]
    BY <1>1, <1>2 DEF ModTypeOK
  <2> QED BY <2>1, <2>2, <2>3, <2>4 DEF ModTypeOK
<1>8. RecordsDistinct'
  <2>1. ASSUME NEW r \in Reg, r > used
        PROVE  done'[r] = 0
    <3>1. \A i \in DOMAIN abi : abi[i].reg # r
      <4>1. \A i \in DOMAIN abi : abi[i] \in AbiEntry
        BY <1>2
      <4>2. \A i \in DOMAIN abi : abi[i].reg \in Nat
        BY <4>1 DEF AbiEntry, Reg
      <4> QED BY <1>2, <1>3, <2>1, <4>2
    <3>2. Cardinality(At(r)) = 0 /\ done[r] = 0
      BY <1>3, <1>4, <2>1, <3>1
    <3> QED BY <1>5, <3>2
  <2> QED BY <1>1, <1>6, <2>1 DEF RecordsDistinct
<1>9. DoneOnce'
  <2> SUFFICES ASSUME NEW r \in 1..used
               PROVE  done'[r] = 1
    BY <1>1, <1>6 DEF DoneOnce
  <2>1. done[r] = IF \E i \in DOMAIN abi : abi[i].reg = r THEN 0 ELSE 1
    BY DEF ModInv, DoneOnce
  <2>2. r \in Reg
    BY <1>2 DEF Reg
  <2> QED BY <1>4, <1>5, <2>1, <2>2
<1>10. ListsAgree'
  BY <1>6 DEF ListsAgree, Count
<1>11. PublicSound'
  BY <1>6 DEF PublicSound
<1>12. CurrentInstalled'
  BY <1>1 DEF CurrentInstalled
<1> QED BY <1>7, <1>8, <1>9, <1>10, <1>11, <1>12 DEF ModInv

LEMMA InvStep == ModInv /\ [ModNext]_modVars => ModInv'
<1> SUFFICES ASSUME ModInv, [ModNext]_modVars PROVE ModInv'
  OBVIOUS
<1>1. ASSUME NEW name \in Names, NEW v \in Versions, NEW s \in Shapes, FT_Add_Module(name, v, s)
      PROVE  ModInv'
  BY <1>1, AddStep
<1>2. ASSUME NEW name \in Names, NEW v \in Versions, FT_Add_Module_raster_new_fails(name, v)
      PROVE  ModInv'
  BY <1>2, RefusedStep
<1>3. ASSUME NEW h, FT_Remove_Module(h)
      PROVE  ModInv'
  BY <1>3, RemoveStep
<1>4. CASE FT_Add_Default_Modules
  BY <1>4, DefaultsStep
<1>5. ASSUME NEW f, FT_Get_Renderer(f)
      PROVE  ModInv'
  BY <1>5, GetStep
<1>6. ASSUME NEW r, FT_Set_Renderer(r)
      PROVE  ModInv'
  BY <1>6, SetStep
<1>7. CASE FT_Done_Library
  BY <1>7, DoneStep
<1>8. CASE UNCHANGED modVars
  BY <1>8, TablesKept DEF modVars
<1> QED BY <1>1, <1>2, <1>3, <1>4, <1>5, <1>6, <1>7, <1>8 DEF ModNext

-----------------------------------------------------------------------------
(* Theorems *)

\* The invariant holds in every state, whatever is added, refused, removed or
\* made current (FT_Add_Module, FT_Remove_Module, FT_Set_Renderer and the rest).
THEOREM ModulesInvariance == ModSpec => []ModInv
<1>1. ModInit => ModInv
  BY Start
<1>2. ModInv /\ [ModNext]_modVars => ModInv'
  BY InvStep
<1> QED BY <1>1, <1>2, PTL DEF ModSpec

\* The core and the C ABI list the same modules, as often: a lookup by name and
\* the records that own the callbacks never drift apart.
THEOREM ListsStayInStep == ModSpec => []ListsAgree
<1>1. ModInv => ListsAgree
  BY DEF ModInv
<1> QED BY <1>1, ModulesInvariance, PTL

\* module_done runs once for each registration, at its removal or at the end of
\* the library, and not before.
THEOREM FinishedOnce == ModSpec => []DoneOnce
<1>1. ModInv => DoneOnce
  BY DEF ModInv
<1> QED BY <1>1, ModulesInvariance, PTL

\* library->modules lists no module that is gone.
THEOREM PublicStaysSound == ModSpec => []PublicSound
<1>1. ModInv => PublicSound
  BY DEF ModInv
<1> QED BY <1>1, ModulesInvariance, PTL

\* The core's current renderer is a default one or installed, so that the lookup
\* of an outline renderer never names a module that was removed.
THEOREM CurrentStaysInstalled == ModSpec => []CurrentInstalled
<1>1. ModInv => CurrentInstalled
  BY DEF ModInv
<1> QED BY <1>1, ModulesInvariance, PTL
=============================================================================
