---------------------------- MODULE Sizes_proofs ----------------------------
(***************************************************************************)
(* Proofs about FaceSizes and SizeRecords.                                 *)
(*                                                                         *)
(* FaceSizes: whatever the numbers of faces, cells, addresses and threads, *)
(* a size handle is found on the thread that opened its face, and it is    *)
(* found there for the face that lists it now.                             *)
(*                                                                         *)
(* SizeRecords: what the core guarantees holds under the C API too, the    *)
(* records of a face stay in step with its sizes, a handle that is found   *)
(* through a record belongs to that record's face, and a C program sees    *)
(* the size list of ftsizes.h.                                             *)
(***************************************************************************)
EXTENDS SizeRecords, SeqLemmas

-----------------------------------------------------------------------------
(* Sequences of sizes *)

\* Head0: the first entry, if any, is an entry.
LEMMA HeadListed ==
  ASSUME NEW S, NEW es \in Seq(S), Head0(es) # NoSize
  PROVE  es # <<>> /\ Head0(es) = Head(es) /\ Head(es) = es[1] /\ Head0(es) \in ToSet(es)
BY DEF Head0, ToSet

-----------------------------------------------------------------------------
(* Helpers of the operations *)

\* Registration changes the entries of the listed addresses on one thread.
LEMMA Register ==
  ASSUME NEW reg \in [Thread -> [Addr -> Cell \union {NoCell}]],
         NEW t \in Thread, NEW es, NEW c \in Cell \union {NoCell}
  PROVE  /\ register_face_size_handles(reg, t, es, c)
              \in [Thread -> [Addr -> Cell \union {NoCell}]]
         /\ \A u \in Thread, a \in Addr :
              register_face_size_handles(reg, t, es, c)[u][a]
                = IF u = t /\ a \in ToSet(es) THEN c ELSE reg[u][a]
BY DEF register_face_size_handles

\* Unregistration clears those entries and no other.
LEMMA Unregister ==
  ASSUME NEW reg \in [Thread -> [Addr -> Cell \union {NoCell}]],
         NEW t \in Thread, NEW es
  PROVE  /\ unregister_size_handles(reg, t, es) \in [Thread -> [Addr -> Cell \union {NoCell}]]
         /\ \A u \in Thread, a \in Addr :
              unregister_size_handles(reg, t, es)[u][a]
                = IF u = t /\ a \in ToSet(es) THEN NoCell ELSE reg[u][a]
BY Register DEF unregister_size_handles

\* Freeing the boxes of a list of sizes touches no other size's state.
LEMMA Freed ==
  ASSUME NEW st \in [Addr -> Scale], NEW es
  PROVE  /\ freed(st, es) \in [Addr -> Scale]
         /\ \A a \in Addr : freed(st, es)[a] = IF a \in ToSet(es) THEN Unsized ELSE st[a]
BY SizesAssumption DEF freed

\* The default size of a new cell is a handle no cell lists.
LEMMA Initial ==
  ASSUME NEW isProbe, NEW es \in InitialEntries(isProbe)
  PROVE  /\ es \in Seq(Addr)
         /\ ToSet(es) \subseteq FreeAddr
         /\ Head0(es) \in Addr \union {NoSize}
         /\ Head0(es) # NoSize => Head0(es) \in ToSet(es)
         /\ \A i, j \in 1..Len(es) : es[i] = es[j] => i = j
<1>1. CASE es = <<>>
  BY <1>1, NoElements DEF Head0
<1>2. CASE \E a \in FreeAddr : es = <<a>>
  <2>1. PICK a \in FreeAddr : es = <<a>>
    BY <1>2
  <2>2. a \in Addr
    BY DEF FreeAddr
  <2> QED BY <2>1, <2>2, OneEntry DEF Head0
<1> QED BY <1>1, <1>2 DEF InitialEntries

-----------------------------------------------------------------------------
(* Types *)

\* Initially every variable is well typed.
LEMMA TypeInit == Init => TypeOK
BY SizesAssumption DEF Init, TypeOK

\* A scale request that succeeded keeps the types.
LEMMA TypeSync ==
  ASSUME TypeOK, NEW f \in Face, NEW s \in Scale, cell[f] # NoCell,
         sync_active_size_state(f, s)
  PROVE  TypeOK'
<1>1. cell[f] \in Cell
  BY DEF TypeOK
<1>2. state' \in [Addr -> Scale]
  BY <1>1 DEF TypeOK, sync_active_size_state
<1> QED BY <1>1, <1>2 DEF TypeOK, sync_active_size_state

\* Opening a face keeps the types.
LEMMA TypeOpen ==
  ASSUME TypeOK, NEW f \in Face, NEW t \in Thread, NEW isProbe \in BOOLEAN,
         open_face(f, t, isProbe)
  PROVE  TypeOK'
<1>1. PICK c \in FreeCell, es \in InitialEntries(isProbe) : open_face(f, t, isProbe)!(c, es)
  BY DEF open_face
<1>2. c \in Cell /\ es \in Seq(Addr) /\ Head0(es) \in Addr \union {NoSize}
  BY Initial DEF FreeCell
<1>3. registry' \in [Thread -> [Addr -> Cell \union {NoCell}]]
  BY <1>1, <1>2, Register DEF TypeOK
<1> QED BY <1>1, <1>2, <1>3, SizesAssumption DEF TypeOK

\* Dropping a face value, the last one of its cell or not, keeps the types.
LEMMA TypeDrop ==
  ASSUME TypeOK, NEW f \in Face, NEW t \in Thread, FT_Face_Drop(f, t)
  PROVE  TypeOK'
<1>1. cell[f] \in Cell
  BY DEF FT_Face_Drop, TypeOK
<1>2. /\ cell' \in [Face -> Cell \union {NoCell}]
      /\ probe' \in [Face -> BOOLEAN]
      /\ size' \in [Face -> Addr \union {NoSize}]
      /\ metrics' \in [Face -> Scale]
      /\ home' \in [Cell -> Thread]
  BY SizesAssumption DEF FT_Face_Drop, TypeOK
<1>3. CASE LastHolder(f)
  <2>1. /\ registry' = unregister_size_handles(registry, t, entries[cell[f]])
        /\ entries' = [entries EXCEPT ![cell[f]] = <<>>]
        /\ active' = [active EXCEPT ![cell[f]] = NoSize]
        /\ inner' = [inner EXCEPT ![cell[f]] = Unsized]
        /\ state' = freed(state, entries[cell[f]])
    BY <1>3 DEF FT_Face_Drop
  <2>2. registry' \in [Thread -> [Addr -> Cell \union {NoCell}]]
    BY <2>1, Unregister DEF TypeOK
  <2>3. state' \in [Addr -> Scale]
    BY <2>1, Freed DEF TypeOK
  <2>4. /\ entries' \in [Cell -> Seq(Addr)]
        /\ active' \in [Cell -> Addr \union {NoSize}]
        /\ inner' \in [Cell -> Scale]
    <3>1. <<>> \in Seq(Addr)
      OBVIOUS
    <3> QED BY <1>1, <2>1, <3>1, SizesAssumption DEF TypeOK
  <2> QED BY <1>2, <2>2, <2>3, <2>4 DEF TypeOK
<1>4. CASE ~LastHolder(f)
  BY <1>2, <1>4 DEF FT_Face_Drop, TypeOK
<1> QED BY <1>3, <1>4

\* FT_New_Size keeps the types.
LEMMA TypeNewSize ==
  ASSUME TypeOK, NEW f \in Face, FT_New_Size(f)
  PROVE  TypeOK'
<1> DEFINE c == cell[f]
<1>1. c \in Cell
  BY DEF FT_New_Size, TypeOK
<1>2. PICK a \in FreeAddr : /\ entries' = [entries EXCEPT ![c] = Append(@, a)]
                            /\ state' = [state EXCEPT ![a] = inner[c]]
                            /\ registry' = register_face_size_handles(registry, home[c], <<a>>, c)
  BY DEF FT_New_Size
<1>3. a \in Addr
  BY DEF FreeAddr
<1>4. registry' \in [Thread -> [Addr -> Cell \union {NoCell}]]
  BY <1>1, <1>2, Register DEF TypeOK
<1>5. Append(entries[c], a) \in Seq(Addr)
  BY <1>1, <1>3, Appended DEF TypeOK
<1>6. entries' \in [Cell -> Seq(Addr)] /\ state' \in [Addr -> Scale]
  BY <1>1, <1>2, <1>3, <1>5 DEF TypeOK
<1> QED BY <1>4, <1>6 DEF FT_New_Size, TypeOK

\* FT_Done_Size keeps the types, also when the next size takes over.
LEMMA TypeDoneSize ==
  ASSUME TypeOK, NEW t \in Thread, NEW a \in Addr, FT_Done_Size(t, a)
  PROVE  TypeOK'
<1>1. PICK c \in Cell : FT_Done_Size(t, a)!(c)
  BY DEF FT_Done_Size
<1>2. PICK i \in 1..Len(entries[c]) :
        LET left == RemoveAt(entries[c], i) IN
        /\ entries[c][i] = a
        /\ entries' = [entries EXCEPT ![c] = left]
        /\ IF active[c] = a
             THEN /\ active' = [active EXCEPT ![c] = Head0(left)]
                  /\ inner' = IF left = <<>> THEN inner
                              ELSE [inner EXCEPT ![c] = state[Head(left)]]
             ELSE UNCHANGED <<active, inner>>
  BY <1>1
<1> DEFINE left == RemoveAt(entries[c], i)
<1>3. left \in Seq(Addr)
  BY Shortened DEF TypeOK
<1> HIDE DEF left
<1>4. left # <<>> => Head(left) \in Addr
  BY <1>3
<1>5. entries' \in [Cell -> Seq(Addr)]
  BY <1>2, <1>3 DEF TypeOK, left
<1>6. active' \in [Cell -> Addr \union {NoSize}]
  BY <1>2, <1>4 DEF TypeOK, left, Head0
<1>7. inner' \in [Cell -> Scale]
  BY <1>2, <1>4 DEF TypeOK, left
<1>8. registry' \in [Thread -> [Addr -> Cell \union {NoCell}]]
  BY <1>1, Unregister DEF TypeOK
<1>9. state' \in [Addr -> Scale]
  BY <1>1, Freed DEF TypeOK
<1> QED BY <1>1, <1>5, <1>6, <1>7, <1>8, <1>9 DEF TypeOK

\* What the rebuild of a face does to each cell, size and registry.
LEMMA Rebuilt ==
  ASSUME TypeOK, NEW f \in Face, NEW s \in Scale,
         NEW c \in FreeCell, NEW es \in InitialEntries(probe[f]),
         cell[f] # NoCell, rebuild_face(f, s, c, es)
  PROVE  /\ cell[f] \in Cell /\ c \in Cell /\ c # cell[f]
         /\ entries' \in [Cell -> Seq(Addr)]
         /\ \A d \in Cell : entries'[d] = IF d = c THEN es
                                         ELSE IF d = cell[f] /\ LastHolder(f) THEN <<>>
                                         ELSE entries[d]
         /\ active' \in [Cell -> Addr \union {NoSize}]
         /\ \A d \in Cell : active'[d] = IF d = c THEN Head0(es)
                                        ELSE IF d = cell[f] /\ LastHolder(f) THEN NoSize
                                        ELSE active[d]
         /\ registry' \in [Thread -> [Addr -> Cell \union {NoCell}]]
         /\ \A u \in Thread, a \in Addr :
              registry'[u][a] =
                IF u = home[cell[f]] /\ LastHolder(f) /\ a \in Handles(cell[f]) THEN NoCell
                ELSE IF u = home[cell[f]] /\ a \in ToSet(es) THEN c
                ELSE registry[u][a]
         /\ inner' \in [Cell -> Scale]
         /\ \A d \in Cell : inner'[d] = IF d = c \/ (d = cell[f] /\ ~LastHolder(f)) THEN s
                                       ELSE IF d = cell[f] THEN Unsized
                                       ELSE inner[d]
         /\ state' \in [Addr -> Scale]
         /\ \A a \in Addr : state'[a] = IF a \in ToSet(es) THEN s
                                       ELSE IF LastHolder(f) /\ a \in Handles(cell[f]) THEN Unsized
                                       ELSE state[a]
<1> DEFINE old == cell[f]
           reg == register_face_size_handles(registry, home[old], es, c)
<1>1. old \in Cell /\ c \in Cell /\ c # old
  BY DEF TypeOK, FreeCell, Live
<1>2. /\ registry \in [Thread -> [Addr -> Cell \union {NoCell}]]
      /\ state \in [Addr -> Scale]
      /\ home[old] \in Thread
  BY <1>1 DEF TypeOK
<1>4. es \in Seq(Addr) /\ Head0(es) \in Addr \union {NoSize}
  BY Initial
<1>6. /\ reg \in [Thread -> [Addr -> Cell \union {NoCell}]]
      /\ \A u \in Thread, a \in Addr :
           reg[u][a] = IF u = home[old] /\ a \in ToSet(es) THEN c ELSE registry[u][a]
  BY <1>1, <1>2, Register
<1>8. CASE LastHolder(f)
  <2>1. /\ registry' = unregister_size_handles(reg, home[old], entries[old])
        /\ entries' = [entries EXCEPT ![old] = <<>>, ![c] = es]
        /\ active' = [active EXCEPT ![old] = NoSize, ![c] = Head0(es)]
        /\ inner' = [inner EXCEPT ![old] = Unsized, ![c] = s]
        /\ state' = [a \in Addr |-> IF a \in ToSet(es) THEN s
                                    ELSE freed(state, entries[old])[a]]
    BY <1>8 DEF rebuild_face
  <2>2. /\ registry' \in [Thread -> [Addr -> Cell \union {NoCell}]]
        /\ \A u \in Thread, a \in Addr :
             registry'[u][a] = IF u = home[old] /\ a \in Handles(old) THEN NoCell
                               ELSE IF u = home[old] /\ a \in ToSet(es) THEN c
                               ELSE registry[u][a]
    <3> HIDE DEF reg
    <3> QED BY <1>2, <1>6, <2>1, Unregister DEF Handles
  <2>3. <<>> \in Seq(Addr)
    OBVIOUS
  <2>4. /\ entries' \in [Cell -> Seq(Addr)]
        /\ \A d \in Cell : entries'[d] = IF d = c THEN es ELSE IF d = old THEN <<>> ELSE entries[d]
        /\ active' \in [Cell -> Addr \union {NoSize}]
        /\ \A d \in Cell : active'[d] = IF d = c THEN Head0(es)
                                       ELSE IF d = old THEN NoSize ELSE active[d]
        /\ inner' \in [Cell -> Scale]
        /\ \A d \in Cell : inner'[d] = IF d = c THEN s ELSE IF d = old THEN Unsized ELSE inner[d]
    BY <1>1, <1>4, <2>1, <2>3, SizesAssumption DEF TypeOK
  <2>5. /\ state' \in [Addr -> Scale]
        /\ \A a \in Addr : state'[a] = IF a \in ToSet(es) THEN s
                                      ELSE IF a \in Handles(old) THEN Unsized ELSE state[a]
    BY <1>2, <2>1, Freed DEF Handles
  <2> QED BY <1>1, <1>8, <2>2, <2>4, <2>5
<1>9. CASE ~LastHolder(f)
  <2>1. /\ registry' = reg
        /\ entries' = [entries EXCEPT ![c] = es]
        /\ active' = [active EXCEPT ![c] = Head0(es)]
        /\ inner' = [inner EXCEPT ![old] = s, ![c] = s]
        /\ state' = [a \in Addr |-> IF a \in ToSet(es) THEN s ELSE state[a]]
    BY <1>9 DEF rebuild_face
  <2>2. /\ entries' \in [Cell -> Seq(Addr)]
        /\ \A d \in Cell : entries'[d] = IF d = c THEN es ELSE entries[d]
        /\ active' \in [Cell -> Addr \union {NoSize}]
        /\ \A d \in Cell : active'[d] = IF d = c THEN Head0(es) ELSE active[d]
        /\ inner' \in [Cell -> Scale]
        /\ \A d \in Cell : inner'[d] = IF d = c \/ d = old THEN s ELSE inner[d]
        /\ state' \in [Addr -> Scale]
        /\ \A a \in Addr : state'[a] = IF a \in ToSet(es) THEN s ELSE state[a]
    BY <1>1, <1>4, <2>1 DEF TypeOK
  <2> HIDE DEF reg
  <2> QED BY <1>1, <1>6, <1>9, <2>1, <2>2
<1> QED BY <1>8, <1>9

\* Every call keeps the types.
LEMMA TypeStep ==
  ASSUME TypeOK, [Next]_vars
  PROVE  TypeOK'
<1>1. ASSUME NEW f \in Face, FT_New_Memory_Face(f)
      PROVE  TypeOK'
  BY <1>1, TypeOpen DEF FT_New_Memory_Face
<1>2. ASSUME NEW f \in Face, NEW g \in Face, FT_New_Memory_Face_From_Source(f, g)
      PROVE  TypeOK'
  <2>1. home[cell[g]] \in Thread
    BY <1>2 DEF FT_New_Memory_Face_From_Source, TypeOK
  <2> QED BY <1>2, <2>1, TypeOpen DEF FT_New_Memory_Face_From_Source
<1>3. ASSUME NEW f \in Face, NEW g \in Face, FT_Face_Clone(f, g)
      PROVE  TypeOK'
  BY <1>3 DEF FT_Face_Clone, TypeOK
<1>4. ASSUME NEW f \in Face, NEW t \in Thread, FT_Face_Drop(f, t)
      PROVE  TypeOK'
  BY <1>4, TypeDrop
<1>5. ASSUME NEW f \in Face, FT_New_Size(f)
      PROVE  TypeOK'
  BY <1>5, TypeNewSize
<1>6. ASSUME NEW f \in Face, NEW s \in Scale, FT_Request_Size(f, s)
      PROVE  TypeOK'
  BY <1>6, TypeSync DEF FT_Request_Size
<1>7. ASSUME NEW f \in Face, NEW s \in Scale, FT_Select_Size(f, s)
      PROVE  TypeOK'
  BY <1>7, TypeSync DEF FT_Select_Size
<1>8. ASSUME NEW f \in Face, NEW s \in Scale, refresh_sfnt_variation_fields(f, s)
      PROVE  TypeOK'
  BY <1>8, TypeSync DEF refresh_sfnt_variation_fields
<1>9. ASSUME NEW f \in Face, NEW s \in Scale, finish_variation_coordinate_update(f, s)
      PROVE  TypeOK'
  <2>1. PICK c \in FreeCell, es \in InitialEntries(probe[f]) : rebuild_face(f, s, c, es)
    BY <1>9 DEF finish_variation_coordinate_update
  <2>2. cell[f] # NoCell
    BY <1>9 DEF finish_variation_coordinate_update
  <2>3. c \in Cell /\ cell[f] \in Cell /\ Head0(es) \in Addr \union {NoSize}
    BY <2>2, Initial DEF FreeCell, TypeOK
  <2>4. /\ entries' \in [Cell -> Seq(Addr)]
        /\ active' \in [Cell -> Addr \union {NoSize}]
        /\ registry' \in [Thread -> [Addr -> Cell \union {NoCell}]]
        /\ inner' \in [Cell -> Scale]
        /\ state' \in [Addr -> Scale]
    BY <2>1, <2>2, Rebuilt
  <2>5. /\ cell' = [cell EXCEPT ![f] = c]
        /\ home' = [home EXCEPT ![c] = home[cell[f]]]
        /\ size' = [size EXCEPT ![f] = Head0(es)]
        /\ metrics' = [metrics EXCEPT ![f] = s]
        /\ probe' = probe
    BY <2>1 DEF rebuild_face
  <2> QED BY <2>3, <2>4, <2>5 DEF TypeOK
<1>10. ASSUME NEW t \in Thread, NEW a \in Addr, FT_Activate_Size(t, a)
       PROVE  TypeOK'
  BY <1>10 DEF FT_Activate_Size, TypeOK
<1>11. ASSUME NEW t \in Thread, NEW a \in Addr, FT_Done_Size(t, a)
       PROVE  TypeOK'
  BY <1>11, TypeDoneSize
<1>12. CASE UNCHANGED vars
  BY <1>12 DEF vars, TypeOK
<1> QED BY <1>1, <1>2, <1>3, <1>4, <1>5, <1>6, <1>7, <1>8, <1>9, <1>10, <1>11, <1>12
        DEF Next, FaceStep, HandleStep, FT_Set_Var_Design_Coordinates

\* FaceSizes is well typed: what a handle resolves to is a cell, what a face
\* value holds is a cell or nothing, and so on for every variable.
THEOREM TypeInvariant == Spec => []TypeOK
<1>1. TypeOK /\ [Next]_vars => TypeOK'
  BY TypeStep
<1> QED BY TypeInit, <1>1, PTL DEF Spec

-----------------------------------------------------------------------------
(* Registry and lists *)

\* The registry of a thread and the lists of the cells describe each other;
\* the five parts need one another to be inductive.
IInv ==
  /\ TypeOK
  /\ RegistrySound
  /\ HandlesRegistered
  /\ HandlesDistinct
  /\ ActiveListed

\* A face value takes the cell n: n lives, and its old cell only if shared.
LEMMA LiveAfter ==
  ASSUME TypeOK, NEW f \in Face, NEW n \in Cell \union {NoCell},
         cell' = [cell EXCEPT ![f] = n]
  PROVE  \A d \in Cell : Live(d)' <=> (d = n \/ \E g \in Face \ {f} : cell[g] = d)
BY DEF Live, TypeOK

\* A cell that can be allocated is dead, and no registry entry leads to it.
LEMMA Fresh ==
  ASSUME NEW a \in FreeAddr
  PROVE  a \in Addr /\ \A d \in Cell : a \notin Handles(d)
BY DEF FreeAddr

\* The part of the types that the registry depends on.
LEMMA Typed ==
  ASSUME TypeOK
  PROVE  /\ registry \in [Thread -> [Addr -> Cell \union {NoCell}]]
         /\ home \in [Cell -> Thread]
         /\ entries \in [Cell -> Seq(Addr)]
         /\ \A d \in Cell : Handles(d) \subseteq Addr
BY DEF TypeOK, Handles, ToSet

\* The invariant holds before the first call.
LEMMA InvInit == Init => IInv
<1> SUFFICES ASSUME Init PROVE IInv
  OBVIOUS
<1>1. TypeOK
  BY TypeInit
<1>2. \A c \in Cell : Handles(c) = {} /\ entries[c] = <<>> /\ active[c] = NoSize
  BY NoElements DEF Init, Handles
<1>3. RegistrySound
  BY SizesAssumption DEF Init, RegistrySound
<1> QED BY <1>1, <1>2, <1>3 DEF IInv, HandlesRegistered, HandlesDistinct, ActiveListed

\* Opening a face keeps the invariant: its cell and its handle are new.
LEMMA InvOpen ==
  ASSUME IInv, NEW f \in Face, NEW t \in Thread, NEW isProbe \in BOOLEAN,
         open_face(f, t, isProbe)
  PROVE  IInv'
<1>1. TypeOK'
  BY TypeOpen DEF IInv
<1>2. PICK c \in FreeCell, es \in InitialEntries(isProbe) : open_face(f, t, isProbe)!(c, es)
  BY DEF open_face
<1>3. /\ c \in Cell /\ ~Live(c)
      /\ \A u \in Thread, a \in Addr : registry[u][a] # c
  BY DEF FreeCell
<1>0. /\ TypeOK
      /\ registry \in [Thread -> [Addr -> Cell \union {NoCell}]]
      /\ home \in [Cell -> Thread]
      /\ \A d \in Cell : Handles(d) \subseteq Addr
  BY Typed DEF IInv
<1>4. \A a \in ToSet(es) : a \in Addr /\ \A d \in Cell : a \notin Handles(d)
  BY Initial, Fresh
<1>5. /\ \A d \in Cell : Handles(d)' = IF d = c THEN ToSet(es) ELSE Handles(d)
      /\ \A d \in Cell : entries'[d] = IF d = c THEN es ELSE entries[d]
      /\ \A d \in Cell : active'[d] = IF d = c THEN Head0(es) ELSE active[d]
      /\ \A d \in Cell : home'[d] = IF d = c THEN t ELSE home[d]
  BY <1>2, <1>3 DEF IInv, TypeOK, Handles
<1>6. \A u \in Thread, a \in Addr :
        registry'[u][a] = IF u = t /\ a \in ToSet(es) THEN c ELSE registry[u][a]
  BY <1>2, <1>3, <1>0, Register
<1>7. \A d \in Cell : Live(d)' <=> (d = c \/ Live(d))
  <2>1. cell' = [cell EXCEPT ![f] = c] /\ cell[f] = NoCell
    BY <1>2
  <2>2. \A d \in Cell : Live(d)' <=> (d = c \/ \E g \in Face \ {f} : cell[g] = d)
    BY <1>3, <1>0, <2>1, LiveAfter
  <2>3. \A d \in Cell : d # NoCell
    BY SizesAssumption
  <2> QED BY <2>1, <2>2, <2>3 DEF Live
<1>8. RegistrySound'
  BY <1>3, <1>4, <1>5, <1>6, <1>7, SMTT(30) DEF IInv, RegistrySound, TypeOK
<1>9. HandlesRegistered'
  <2> SUFFICES ASSUME NEW d \in Cell, Live(d)', NEW a \in Handles(d)'
               PROVE  registry'[home'[d]][a] = d
    BY DEF HandlesRegistered
  <2>1. CASE d = c
    BY <1>4, <1>5, <1>6, <2>1
  <2>2. CASE d # c
    <3>1. Live(d) /\ a \in Handles(d) /\ a \notin ToSet(es) /\ home'[d] = home[d]
      BY <1>4, <1>5, <1>7, <2>2
    <3>2. registry[home[d]][a] = d
      BY <3>1 DEF IInv, HandlesRegistered
    <3> QED BY <1>0, <1>6, <3>1, <3>2
  <2> QED BY <2>1, <2>2
<1>10. HandlesDistinct'
  BY <1>3, <1>4, <1>5, <1>7, Initial DEF IInv, HandlesDistinct
<1>11. ActiveListed'
  BY <1>5, Initial DEF IInv, ActiveListed
<1> QED BY <1>1, <1>8, <1>9, <1>10, <1>11 DEF IInv

\* Dropping a face value keeps it, on whichever thread: an entry that is left
\* behind elsewhere leads to a dead cell, whose memory it pins.
LEMMA InvDrop ==
  ASSUME IInv, NEW f \in Face, NEW t \in Thread, FT_Face_Drop(f, t)
  PROVE  IInv'
<1> DEFINE c == cell[f]
<1>1. TypeOK'
  BY TypeDrop DEF IInv
<1>2. c \in Cell /\ Live(c)
  BY DEF IInv, FT_Face_Drop, TypeOK, Live
<1>3. \A d \in Cell : Live(d)' <=> (Live(d) /\ ~(d = c /\ LastHolder(f)))
  <2>1. cell' = [cell EXCEPT ![f] = NoCell]
    BY DEF FT_Face_Drop
  <2>2. \A d \in Cell : Live(d)' <=> \E g \in Face \ {f} : cell[g] = d
    <3>1. TypeOK /\ \A d \in Cell : d # NoCell
      BY SizesAssumption DEF IInv
    <3> QED BY <2>1, <3>1, LiveAfter
  <2> QED BY <2>2 DEF Live, LastHolder
<1>4. home' = home
  BY DEF FT_Face_Drop
<1>5. CASE LastHolder(f)
  <2>1. /\ registry' = unregister_size_handles(registry, t, entries[c])
        /\ entries' = [entries EXCEPT ![c] = <<>>]
        /\ active' = [active EXCEPT ![c] = NoSize]
    BY <1>5 DEF FT_Face_Drop
  <2>2. /\ \A d \in Cell : Handles(d)' = IF d = c THEN {} ELSE Handles(d)
        /\ \A d \in Cell : entries'[d] = IF d = c THEN <<>> ELSE entries[d]
        /\ \A d \in Cell : active'[d] = IF d = c THEN NoSize ELSE active[d]
    BY <1>2, <2>1, NoElements DEF IInv, TypeOK, Handles
  <2>3. \A u \in Thread, a \in Addr :
          registry'[u][a] = IF u = t /\ a \in Handles(c) THEN NoCell ELSE registry[u][a]
    <3>1. registry \in [Thread -> [Addr -> Cell \union {NoCell}]]
      BY Typed DEF IInv
    <3> QED BY <2>1, <3>1, Unregister DEF Handles
  <2>4. RegistrySound'
    <3> SUFFICES ASSUME NEW u \in Thread, NEW a \in Addr, NEW d \in Cell,
                        registry'[u][a] = d, Live(d)'
                 PROVE  u = home'[d] /\ a \in Handles(d)'
      BY DEF RegistrySound
    <3>1. registry[u][a] = d /\ Live(d) /\ d # c
      BY <1>3, <1>5, <2>3, SizesAssumption
    <3> QED BY <1>4, <2>2, <3>1 DEF IInv, RegistrySound
  <2>5. HandlesRegistered'
    <3> SUFFICES ASSUME NEW d \in Cell, Live(d)', NEW a \in Handles(d)'
                 PROVE  registry'[home'[d]][a] = d
      BY DEF HandlesRegistered
    <3>1. d # c /\ Live(d) /\ a \in Handles(d)
      BY <1>3, <1>5, <2>2
    <3>2. a \notin Handles(c)
      BY <1>2, <3>1 DEF IInv, HandlesDistinct
    <3>3. a \in Addr /\ home[d] \in Thread
      BY <3>1 DEF IInv, TypeOK, Handles, ToSet
    <3> QED BY <1>4, <2>3, <3>1, <3>2, <3>3 DEF IInv, HandlesRegistered
  <2>6. HandlesDistinct'
    BY <1>3, <1>5, <2>2 DEF IInv, HandlesDistinct
  <2>7. ActiveListed'
    BY <2>2 DEF IInv, ActiveListed
  <2> QED BY <1>1, <2>4, <2>5, <2>6, <2>7 DEF IInv
<1>6. CASE ~LastHolder(f)
  <2>1. UNCHANGED <<registry, entries, active, home>>
    BY <1>6 DEF FT_Face_Drop
  <2>2. \A d \in Cell : Live(d)' <=> Live(d)
    BY <1>3, <1>6
  <2>3. \A d \in Cell : Handles(d)' = Handles(d)
    BY <2>1 DEF Handles
  <2> QED BY <1>1, <2>1, <2>2, <2>3
          DEF IInv, RegistrySound, HandlesRegistered, HandlesDistinct, ActiveListed, TypeOK
<1> QED BY <1>5, <1>6

\* FT_New_Size keeps it: the new handle was listed by no cell.
LEMMA InvNewSize ==
  ASSUME IInv, NEW f \in Face, FT_New_Size(f)
  PROVE  IInv'
<1> DEFINE c == cell[f]
<1>1. TypeOK'
  BY TypeNewSize DEF IInv
<1>2. c \in Cell /\ Live(c)
  BY DEF IInv, FT_New_Size, TypeOK, Live
<1>3. PICK a \in FreeAddr :
        /\ entries' = [entries EXCEPT ![c] = Append(@, a)]
        /\ registry' = register_face_size_handles(registry, home[c], <<a>>, c)
  BY DEF FT_New_Size
<1>4. a \in Addr /\ \A d \in Cell : a \notin Handles(d)
  BY Fresh
<1>5. /\ registry \in [Thread -> [Addr -> Cell \union {NoCell}]]
      /\ home[c] \in Thread
      /\ entries \in [Cell -> Seq(Addr)]
      /\ entries[c] \in Seq(Addr)
      /\ \A d \in Cell : Handles(d) \subseteq Addr
  BY <1>2, Typed DEF IInv
<1>6. /\ \A d \in Cell : entries'[d] = IF d = c THEN Append(entries[c], a) ELSE entries[d]
      /\ UNCHANGED <<cell, home, active>>
      /\ \A d \in Cell : Live(d)' <=> Live(d)
  BY <1>3, <1>5 DEF FT_New_Size, Live
<1>7. \A d \in Cell : Handles(d)' = IF d = c THEN Handles(c) \union {a} ELSE Handles(d)
  <2>1. ToSet(Append(entries[c], a)) = ToSet(entries[c]) \union {a}
    BY <1>4, <1>5, Appended
  <2> QED BY <1>6, <2>1 DEF Handles
<1>8. \A u \in Thread, b \in Addr :
        registry'[u][b] = IF u = home[c] /\ b = a THEN c ELSE registry[u][b]
  <2>1. ToSet(<<a>>) = {a}
    BY OneEntry
  <2> QED BY <1>2, <1>3, <1>5, <2>1, Register
<1>9. RegistrySound'
  <2> SUFFICES ASSUME NEW u \in Thread, NEW b \in Addr, NEW d \in Cell,
                      registry'[u][b] = d, Live(d)'
               PROVE  u = home'[d] /\ b \in Handles(d)'
    BY DEF RegistrySound
  <2>1. CASE u = home[c] /\ b = a
    BY <1>2, <1>6, <1>7, <1>8, <2>1
  <2>2. CASE ~(u = home[c] /\ b = a)
    <3>1. registry[u][b] = d /\ Live(d)
      BY <1>6, <1>8, <2>2
    <3>2. u = home[d] /\ b \in Handles(d)
      BY <3>1 DEF IInv, RegistrySound
    <3> QED BY <1>6, <1>7, <3>2
  <2> QED BY <2>1, <2>2
<1>10. HandlesRegistered'
  <2> SUFFICES ASSUME NEW d \in Cell, Live(d)', NEW b \in Handles(d)'
               PROVE  registry'[home'[d]][b] = d
    BY DEF HandlesRegistered
  <2>1. CASE d = c /\ b = a
    BY <1>4, <1>5, <1>6, <1>8, <2>1
  <2>2. CASE ~(d = c /\ b = a)
    <3>1. Live(d) /\ b \in Handles(d) /\ b # a
      BY <1>4, <1>6, <1>7, <2>2
    <3>2. registry[home[d]][b] = d /\ b \in Addr /\ home[d] \in Thread
      BY <1>5, <3>1, Typed DEF IInv, HandlesRegistered
    <3> QED BY <1>6, <1>8, <3>1, <3>2
  <2> QED BY <2>1, <2>2
<1>11. HandlesDistinct'
  <2>1. \A d, e \in Cell : Handles(d)' \cap Handles(e)' # {} => d = e
    BY <1>4, <1>7 DEF IInv, HandlesDistinct
  <2>2. ASSUME NEW d \in Cell, NEW i \in 1..Len(entries'[d]), NEW j \in 1..Len(entries'[d]),
               entries'[d][i] = entries'[d][j]
        PROVE  i = j
    <3>1. CASE d = c
      <4> DEFINE es == entries[c]
      <4>1. /\ Len(Append(es, a)) = Len(es) + 1
            /\ \A k \in 1..Len(es) : Append(es, a)[k] = es[k]
            /\ Append(es, a)[Len(es) + 1] = a
            /\ Len(es) \in Nat
        BY <1>4, <1>5, Appended
      <4>2. \A k \in 1..Len(es) : es[k] # a
        BY <1>2, <1>4, <1>5 DEF Handles, ToSet
      <4>3. \A k, l \in 1..Len(es) : es[k] = es[l] => k = l
        BY <1>2 DEF IInv, HandlesDistinct
      <4>4. entries'[d] = Append(es, a)
        BY <1>6, <3>1
      <4> HIDE DEF es
      <4>5. i \in 1..(Len(es) + 1) /\ j \in 1..(Len(es) + 1)
        BY <2>2, <4>1, <4>4
      <4> QED BY <2>2, <4>1, <4>2, <4>3, <4>4, <4>5
    <3>2. CASE d # c
      BY <1>6, <2>2, <3>2 DEF IInv, HandlesDistinct
    <3> QED BY <3>1, <3>2
  <2>3. \A d \in Cell : ~Live(d)' => entries'[d] = <<>>
    BY <1>2, <1>6 DEF IInv, HandlesDistinct
  <2> QED BY <2>1, <2>2, <2>3 DEF HandlesDistinct
<1>12. ActiveListed'
  BY <1>6, <1>7 DEF IInv, ActiveListed
<1> QED BY <1>1, <1>9, <1>10, <1>11, <1>12 DEF IInv

\* FT_Activate_Size keeps it: the handle it found is listed by its cell.
LEMMA InvActivate ==
  ASSUME IInv, NEW t \in Thread, NEW a \in Addr, FT_Activate_Size(t, a)
  PROVE  IInv'
<1>1. TypeOK'
  BY DEF IInv, FT_Activate_Size, TypeOK
<1>2. PICK c \in Cell : /\ Resolves(t, a, c)
                        /\ active' = [active EXCEPT ![c] = a]
                        /\ UNCHANGED <<cell, home, entries, registry>>
  BY DEF FT_Activate_Size
<1>3. \A d \in Cell : (Live(d)' <=> Live(d)) /\ Handles(d)' = Handles(d)
  BY <1>2 DEF Live, Handles
<1>4. a \in Handles(c) /\ \A d \in Cell : active'[d] = IF d = c THEN a ELSE active[d]
  BY <1>2 DEF IInv, TypeOK, Resolves
<1>5. RegistrySound' /\ HandlesRegistered' /\ HandlesDistinct'
  BY <1>2, <1>3 DEF IInv, RegistrySound, HandlesRegistered, HandlesDistinct, TypeOK
<1>6. ActiveListed'
  BY <1>3, <1>4 DEF IInv, ActiveListed
<1> QED BY <1>1, <1>5, <1>6 DEF IInv

\* A step that leaves cells, lists and registries alone.
LEMMA InvSame ==
  ASSUME IInv, TypeOK', UNCHANGED <<home, active, entries, registry>>,
         \A d \in Cell : Live(d)' <=> Live(d)
  PROVE  IInv'
<1>1. \A d \in Cell : Handles(d)' = Handles(d)
  BY DEF Handles
<1> QED BY <1>1 DEF IInv, RegistrySound, HandlesRegistered, HandlesDistinct, ActiveListed, TypeOK

\* A scale request keeps it: lists and registries are left alone.
LEMMA InvSync ==
  ASSUME IInv, NEW f \in Face, NEW s \in Scale, cell[f] # NoCell,
         sync_active_size_state(f, s)
  PROVE  IInv'
<1>1. TypeOK'
  BY TypeSync DEF IInv
<1>2. UNCHANGED <<cell, home, active, entries, registry>>
  BY DEF sync_active_size_state
<1>3. \A d \in Cell : Live(d)' <=> Live(d)
  BY <1>2 DEF Live
<1> QED BY <1>1, <1>2, <1>3, InvSame

\* A clone keeps it: the cell it shares was living before.
LEMMA InvClone ==
  ASSUME IInv, NEW f \in Face, NEW g \in Face, FT_Face_Clone(f, g)
  PROVE  IInv'
<1>1. TypeOK'
  BY DEF IInv, FT_Face_Clone, TypeOK
<1>2. \A d \in Cell : Live(d)' <=> Live(d)
  <2>1. cell' = [cell EXCEPT ![f] = cell[g]] /\ cell[f] = NoCell /\ cell[g] \in Cell
    BY DEF IInv, FT_Face_Clone, TypeOK
  <2>2. \A d \in Cell : Live(d)' <=> (d = cell[g] \/ \E h \in Face \ {f} : cell[h] = d)
    BY <2>1, LiveAfter DEF IInv
  <2>3. f # g /\ \A d \in Cell : d # NoCell
    BY <2>1, SizesAssumption
  <2> QED BY <2>1, <2>2, <2>3 DEF Live
<1> QED BY <1>1, <1>2, InvSame DEF FT_Face_Clone

\* FT_Done_Size keeps it: the handle leaves the list and the registry together.
LEMMA InvDoneSize ==
  ASSUME IInv, NEW t \in Thread, NEW a \in Addr, FT_Done_Size(t, a)
  PROVE  IInv'
<1>1. TypeOK'
  BY TypeDoneSize DEF IInv
<1>2. PICK c \in Cell : FT_Done_Size(t, a)!(c)
  BY DEF FT_Done_Size
<1>3. PICK i \in 1..Len(entries[c]) :
        /\ entries[c][i] = a
        /\ entries' = [entries EXCEPT ![c] = RemoveAt(entries[c], i)]
        /\ active' = IF active[c] = a
                      THEN [active EXCEPT ![c] = Head0(RemoveAt(entries[c], i))]
                      ELSE active
  BY <1>2
<1> DEFINE left == RemoveAt(entries[c], i)
<1>4. /\ registry \in [Thread -> [Addr -> Cell \union {NoCell}]]
      /\ active \in [Cell -> Addr \union {NoSize}]
      /\ entries \in [Cell -> Seq(Addr)]
      /\ entries[c] \in Seq(Addr)
      /\ \A d \in Cell : Handles(d) \subseteq Addr
  BY Typed DEF IInv, TypeOK
<1>5. /\ registry[t][a] = c /\ Live(c) /\ t = home[c] /\ a \in Handles(c)
      /\ registry' = unregister_size_handles(registry, t, <<a>>)
      /\ UNCHANGED <<cell, home>>
      /\ \A d \in Cell : Live(d)' <=> Live(d)
  BY <1>2 DEF IInv, RegistrySound, Resolves, Live
<1>6. /\ left \in Seq(Addr)
      /\ ToSet(left) = Handles(c) \ {a}
      /\ \A j, k \in 1..Len(left) : left[j] = left[k] => j = k
  <2>1. \A j, k \in 1..Len(entries[c]) : entries[c][j] = entries[c][k] => j = k
    BY DEF IInv, HandlesDistinct
  <2> QED BY <1>3, <1>4, <2>1, Shortened, ShortenedDistinct DEF Handles
<1>7. /\ \A d \in Cell : entries'[d] = IF d = c THEN left ELSE entries[d]
      /\ \A d \in Cell : active'[d] = IF d = c /\ active[c] = a THEN Head0(left) ELSE active[d]
  BY <1>3, <1>4
<1> HIDE DEF left
<1>8. \A d \in Cell : Handles(d)' = IF d = c THEN Handles(c) \ {a} ELSE Handles(d)
  BY <1>6, <1>7 DEF Handles
<1>9. \A u \in Thread, b \in Addr :
        registry'[u][b] = IF u = t /\ b = a THEN NoCell ELSE registry[u][b]
  <2>1. ToSet(<<a>>) = {a}
    BY OneEntry
  <2>2. /\ registry \in [Thread -> [Addr -> Cell \union {NoCell}]]
        /\ registry' = unregister_size_handles(registry, t, <<a>>)
    BY <1>4, <1>5
  <2>3. \A u \in Thread, b \in Addr :
          unregister_size_handles(registry, t, <<a>>)[u][b]
            = IF u = t /\ b \in ToSet(<<a>>) THEN NoCell ELSE registry[u][b]
    BY <2>2, Unregister
  <2> QED BY <2>1, <2>2, <2>3
<1>10. RegistrySound'
  <2> SUFFICES ASSUME NEW u \in Thread, NEW b \in Addr, NEW d \in Cell,
                      registry'[u][b] = d, Live(d)'
               PROVE  u = home'[d] /\ b \in Handles(d)'
    BY DEF RegistrySound
  <2>1. ~(u = t /\ b = a) /\ registry[u][b] = d /\ Live(d)
    BY <1>5, <1>9, SizesAssumption
  <2>2. u = home[d] /\ b \in Handles(d)
    BY <2>1 DEF IInv, RegistrySound
  <2>3. d = c => b # a
    BY <1>5, <2>1, <2>2
  <2> QED BY <1>5, <1>8, <2>2, <2>3
<1>11. HandlesRegistered'
  <2> SUFFICES ASSUME NEW d \in Cell, Live(d)', NEW b \in Handles(d)'
               PROVE  registry'[home'[d]][b] = d
    BY DEF HandlesRegistered
  <2>1. Live(d) /\ b \in Handles(d) /\ b \in Addr /\ home[d] \in Thread
    BY <1>4, <1>5, <1>8, Typed DEF IInv
  <2>2. registry[home[d]][b] = d
    BY <2>1 DEF IInv, HandlesRegistered
  <2>3. b # a
    <3>1. CASE d = c
      BY <1>8, <3>1
    <3>2. CASE d # c
      BY <1>5, <2>1, <3>2 DEF IInv, HandlesDistinct
    <3> QED BY <3>1, <3>2
  <2> QED BY <1>5, <1>9, <2>1, <2>2, <2>3
<1>12. HandlesDistinct'
  BY <1>5, <1>6, <1>7, <1>8 DEF IInv, HandlesDistinct
<1>13. ActiveListed'
  <2> SUFFICES ASSUME NEW d \in Cell, active'[d] # NoSize
               PROVE  active'[d] \in Handles(d)'
    BY DEF ActiveListed
  <2>1. CASE d = c /\ active[c] = a
    <3>1. Head0(left) # NoSize /\ active'[d] = Head0(left)
      BY <1>7, <2>1
    <3>2. Head0(left) \in ToSet(left)
      BY <1>6, <3>1, HeadListed
    <3> QED BY <1>6, <1>8, <2>1, <3>1, <3>2
  <2>2. CASE ~(d = c /\ active[c] = a)
    BY <1>7, <1>8, <2>2 DEF IInv, ActiveListed
  <2> QED BY <2>1, <2>2
<1> QED BY <1>1, <1>10, <1>11, <1>12, <1>13 DEF IInv

\* The rebuild of a face keeps it: the new cell is registered before the old
\* one is dropped, and their handles differ.
LEMMA InvRebuild ==
  ASSUME IInv, NEW f \in Face, NEW s \in Scale, finish_variation_coordinate_update(f, s)
  PROVE  IInv'
<1>1. TypeOK'
  BY TypeStep DEF IInv, Next, FaceStep, FT_Set_Var_Design_Coordinates
<1>2. PICK c \in FreeCell, es \in InitialEntries(probe[f]) : rebuild_face(f, s, c, es)
  BY DEF finish_variation_coordinate_update
<1> DEFINE old == cell[f]
           gone(d) == d = old /\ LastHolder(f)
<1>3. old # NoCell
  BY DEF finish_variation_coordinate_update
<1>4. /\ old \in Cell /\ c \in Cell /\ c # old
      /\ \A d \in Cell : entries'[d] = IF d = c THEN es
                                      ELSE IF gone(d) THEN <<>> ELSE entries[d]
      /\ \A d \in Cell : active'[d] = IF d = c THEN Head0(es)
                                     ELSE IF gone(d) THEN NoSize ELSE active[d]
      /\ \A u \in Thread, a \in Addr :
           registry'[u][a] =
             IF u = home[old] /\ LastHolder(f) /\ a \in Handles(old) THEN NoCell
             ELSE IF u = home[old] /\ a \in ToSet(es) THEN c
             ELSE registry[u][a]
  BY <1>2, <1>3, Rebuilt DEF IInv
<1>5. /\ cell' = [cell EXCEPT ![f] = c]
      /\ \A d \in Cell : home'[d] = IF d = c THEN home[old] ELSE home[d]
  <2>1. home' = [home EXCEPT ![c] = home[old]] /\ cell' = [cell EXCEPT ![f] = c]
    BY <1>2 DEF rebuild_face
  <2> QED BY <1>4, <2>1, Typed DEF IInv
<1>6. ~Live(c) /\ Live(old) /\ \A u \in Thread, a \in Addr : registry[u][a] # c
  BY <1>4 DEF FreeCell, Live
<1>7. \A d \in Cell : Live(d)' <=> (d = c \/ (Live(d) /\ ~gone(d)))
  <2>1. \A d \in Cell : Live(d)' <=> (d = c \/ \E g \in Face \ {f} : cell[g] = d)
    <3>1. TypeOK /\ cell' = [cell EXCEPT ![f] = c] /\ c \in Cell
      BY <1>4, <1>5 DEF IInv
    <3> QED BY <3>1, LiveAfter
  <2> QED BY <2>1 DEF Live, LastHolder
<1>8. \A a \in ToSet(es) : a \in Addr /\ \A d \in Cell : a \notin Handles(d)
  BY Initial, Fresh
<1>9. \A d \in Cell : Handles(d)' = IF d = c THEN ToSet(es)
                                  ELSE IF gone(d) THEN {} ELSE Handles(d)
  BY <1>4, NoElements DEF Handles
<1>10. \A d \in Cell : Handles(d) \subseteq Addr /\ home[d] \in Thread
  BY Typed DEF IInv
<1>11. RegistrySound'
  <2> SUFFICES ASSUME NEW u \in Thread, NEW b \in Addr, NEW d \in Cell,
                      registry'[u][b] = d, Live(d)'
               PROVE  u = home'[d] /\ b \in Handles(d)'
    BY DEF RegistrySound
  <2>1. d # NoCell
    BY SizesAssumption
  <2>2. CASE d = c
    BY <1>4, <1>5, <1>6, <1>9, <2>1, <2>2
  <2>3. CASE d # c
    <3>1. registry[u][b] = d /\ Live(d) /\ ~gone(d)
      BY <1>4, <1>7, <2>1, <2>3
    <3>2. u = home[d] /\ b \in Handles(d)
      BY <3>1 DEF IInv, RegistrySound
    <3> QED BY <1>5, <1>9, <2>3, <3>1, <3>2
  <2> QED BY <2>2, <2>3
<1>12. HandlesRegistered'
  <2> SUFFICES ASSUME NEW d \in Cell, Live(d)', NEW b \in Handles(d)'
               PROVE  registry'[home'[d]][b] = d
    BY DEF HandlesRegistered
  <2>1. CASE d = c
    BY <1>4, <1>5, <1>8, <1>9, <1>10, <2>1
  <2>2. CASE d # c
    <3>1. Live(d) /\ ~gone(d) /\ b \in Handles(d) /\ home'[d] = home[d]
      BY <1>5, <1>7, <1>9, <2>2
    <3>2. registry[home[d]][b] = d /\ b \notin ToSet(es)
      BY <1>8, <3>1 DEF IInv, HandlesRegistered
    <3>3. ~(LastHolder(f) /\ b \in Handles(old))
      BY <1>4, <3>1 DEF IInv, HandlesDistinct
    <3> QED BY <1>4, <1>10, <3>1, <3>2, <3>3
  <2> QED BY <2>1, <2>2
<1>13. HandlesDistinct'
  <2>1. \A d, e \in Cell : Handles(d)' \cap Handles(e)' # {} => d = e
    BY <1>8, <1>9 DEF IInv, HandlesDistinct
  <2>2. \A d \in Cell : \A i, j \in 1..Len(entries'[d]) : entries'[d][i] = entries'[d][j] => i = j
    <3> SUFFICES ASSUME NEW d \in Cell
                 PROVE  \A i, j \in 1..Len(entries'[d]) : entries'[d][i] = entries'[d][j] => i = j
      OBVIOUS
    <3>1. CASE d = c
      BY <1>4, <3>1, Initial
    <3>2. CASE d # c /\ gone(d)
      <4>1. entries'[d] = <<>>
        BY <1>4, <3>2
      <4> QED BY <4>1
    <3>3. CASE d # c /\ ~gone(d)
      BY <1>4, <3>3 DEF IInv, HandlesDistinct
    <3> QED BY <3>1, <3>2, <3>3
  <2>3. \A d \in Cell : ~Live(d)' => entries'[d] = <<>>
    BY <1>4, <1>7 DEF IInv, HandlesDistinct
  <2> QED BY <2>1, <2>2, <2>3 DEF HandlesDistinct
<1>14. ActiveListed'
  BY <1>4, <1>9, Initial DEF IInv, ActiveListed
<1> QED BY <1>1, <1>11, <1>12, <1>13, <1>14 DEF IInv

\* Every call keeps the invariant.
LEMMA InvStep ==
  ASSUME IInv, [Next]_vars
  PROVE  IInv'
<1>1. ASSUME NEW f \in Face, FT_New_Memory_Face(f)
      PROVE  IInv'
  BY <1>1, InvOpen DEF FT_New_Memory_Face
<1>2. ASSUME NEW f \in Face, NEW g \in Face, FT_New_Memory_Face_From_Source(f, g)
      PROVE  IInv'
  <2>1. home[cell[g]] \in Thread
    BY <1>2 DEF FT_New_Memory_Face_From_Source, IInv, TypeOK
  <2> QED BY <1>2, <2>1, InvOpen DEF FT_New_Memory_Face_From_Source
<1>3. ASSUME NEW f \in Face, NEW g \in Face, FT_Face_Clone(f, g)
      PROVE  IInv'
  BY <1>3, InvClone
<1>4. ASSUME NEW f \in Face, NEW t \in Thread, FT_Face_Drop(f, t)
      PROVE  IInv'
  BY <1>4, InvDrop
<1>5. ASSUME NEW f \in Face, FT_New_Size(f)
      PROVE  IInv'
  BY <1>5, InvNewSize
<1>6. ASSUME NEW f \in Face, NEW s \in Scale,
             FT_Request_Size(f, s) \/ FT_Select_Size(f, s) \/ refresh_sfnt_variation_fields(f, s)
      PROVE  IInv'
  BY <1>6, InvSync DEF FT_Request_Size, FT_Select_Size, refresh_sfnt_variation_fields
<1>7. ASSUME NEW f \in Face, NEW s \in Scale, finish_variation_coordinate_update(f, s)
      PROVE  IInv'
  BY <1>7, InvRebuild
<1>8. ASSUME NEW t \in Thread, NEW a \in Addr, FT_Activate_Size(t, a)
      PROVE  IInv'
  BY <1>8, InvActivate
<1>9. ASSUME NEW t \in Thread, NEW a \in Addr, FT_Done_Size(t, a)
      PROVE  IInv'
  BY <1>9, InvDoneSize
<1>10. CASE UNCHANGED vars
  <2>1. UNCHANGED <<cell, home, active, entries, registry>> /\ TypeOK'
    BY <1>10, TypeStep DEF vars, IInv
  <2>2. \A d \in Cell : Live(d)' <=> Live(d)
    BY <2>1 DEF Live
  <2> QED BY <2>1, <2>2, InvSame
<1> QED BY <1>1, <1>2, <1>3, <1>4, <1>5, <1>6, <1>7, <1>8, <1>9, <1>10
        DEF Next, FaceStep, HandleStep, FT_Set_Var_Design_Coordinates

\* Whatever the program does, the five parts hold together.
THEOREM Invariance == Spec => []IInv
<1>1. IInv /\ [Next]_vars => IInv'
  BY InvStep
<1> QED BY InvInit, <1>1, PTL DEF Spec

\* A registry entry that leads to a living face leads to the face whose list
\* holds the handle, even when its address was freed and handed out again.
THEOREM RegistryIsSound == Spec => []RegistrySound
BY Invariance, PTL DEF IInv

\* Every size of a living face is found on the thread that opened it.
THEOREM HandlesStayRegistered == Spec => []HandlesRegistered
BY Invariance, PTL DEF IInv

\* No two cells list a handle, no list repeats one, dead cells list none.
THEOREM HandlesStayDistinct == Spec => []HandlesDistinct
BY Invariance, PTL DEF IInv

\* The active handle of a face is one of its sizes.
THEOREM ActiveStaysListed == Spec => []ActiveListed
BY Invariance, PTL DEF IInv

-----------------------------------------------------------------------------
(* What a step does to the sizes it is not about *)

\* When one list is replaced, the sizes of every other cell are the same.
LEMMA ListReplaced ==
  ASSUME TypeOK, NEW c \in Cell, NEW es, entries' = [entries EXCEPT ![c] = es]
  PROVE  \A d \in Cell : Handles(d)' = IF d = c THEN ToSet(es) ELSE Handles(d)
<1>1. entries \in [Cell -> Seq(Addr)]
  BY Typed
<1> QED BY <1>1 DEF Handles

\* The sizes of each cell after one more was listed by the cell c.
LEMMA SizeAdded ==
  ASSUME TypeOK, NEW c \in Cell, NEW a \in Addr,
         entries' = [entries EXCEPT ![c] = Append(@, a)]
  PROVE  \A d \in Cell : Handles(d)' = IF d = c THEN Handles(c) \union {a} ELSE Handles(d)
<1>1. entries[c] \in Seq(Addr) /\ entries' = [entries EXCEPT ![c] = Append(entries[c], a)]
  BY Typed
<1>2. ToSet(Append(entries[c], a)) = Handles(c) \union {a}
  BY <1>1, Appended DEF Handles
<1> QED BY <1>1, <1>2, ListReplaced

\* The sizes of each cell after one was removed from the list of c.
LEMMA SizeRemoved ==
  ASSUME TypeOK, HandlesDistinct, NEW c \in Cell, NEW i \in 1..Len(entries[c]),
         entries' = [entries EXCEPT ![c] = RemoveAt(entries[c], i)]
  PROVE  /\ ToSet(RemoveAt(entries[c], i)) = Handles(c) \ {entries[c][i]}
         /\ \A d \in Cell : Handles(d)' = IF d = c THEN Handles(c) \ {entries[c][i]} ELSE Handles(d)
<1>1. entries[c] \in Seq(Addr)
  BY Typed
<1>2. \A j, k \in 1..Len(entries[c]) : entries[c][j] = entries[c][k] => j = k
  BY DEF HandlesDistinct
<1>3. ToSet(RemoveAt(entries[c], i)) = Handles(c) \ {entries[c][i]}
  BY <1>1, <1>2, ShortenedDistinct DEF Handles
<1> QED BY <1>3, ListReplaced

\* The scale request of a face writes the state of its active size alone.
LEMMA StateSynced ==
  ASSUME IInv, NEW f \in Face, NEW s \in Scale, cell[f] # NoCell,
         sync_active_size_state(f, s)
  PROVE  /\ cell[f] \in Cell
         /\ \A a \in Addr : state'[a] = IF a = active[cell[f]] THEN s ELSE state[a]
         /\ \A d \in Cell : inner'[d] = IF d = cell[f] THEN s ELSE inner[d]
         /\ UNCHANGED <<cell, home, active, entries, registry>>
<1>1. cell[f] \in Cell /\ state \in [Addr -> Scale] /\ inner \in [Cell -> Scale]
      /\ active[cell[f]] \in Addr \union {NoSize}
  BY DEF IInv, TypeOK
<1>2. \A a \in Addr : state'[a] = IF a = active[cell[f]] THEN s ELSE state[a]
  BY <1>1, SizesAssumption DEF sync_active_size_state
<1> QED BY <1>1, <1>2 DEF sync_active_size_state

\* The action of InactiveSizesKeepState.
KeepsInactive ==
  \A c \in Cell : \A a \in Handles(c) :
    (Live(c) /\ Live(c)' /\ a # active[c] /\ a \in Handles(c)') => state'[a] = state[a]

\* A scale request keeps the state of inactive sizes.
LEMMA KeepSync ==
  ASSUME IInv, NEW f \in Face, NEW s \in Scale, cell[f] # NoCell,
         sync_active_size_state(f, s)
  PROVE  KeepsInactive
<1> SUFFICES ASSUME NEW c \in Cell, NEW a \in Handles(c), a # active[c]
             PROVE  state'[a] = state[a]
  BY DEF KeepsInactive
<1>1. a \in Addr
  BY Typed DEF IInv
<1>2. a # active[cell[f]]
  <2>1. cell[f] \in Cell
    BY StateSynced
  <2>2. CASE active[cell[f]] = NoSize
    BY <1>1, <2>2, SizesAssumption
  <2>3. CASE active[cell[f]] # NoSize
    BY <2>1, <2>3 DEF IInv, ActiveListed, HandlesDistinct
  <2> QED BY <2>2, <2>3
<1> QED BY <1>1, <1>2, StateSynced

\* Dropping a face frees its own sizes only.
LEMMA KeepDrop ==
  ASSUME IInv, NEW f \in Face, NEW t \in Thread, FT_Face_Drop(f, t)
  PROVE  KeepsInactive
<1> SUFFICES ASSUME NEW c \in Cell, NEW a \in Handles(c), Live(c)'
             PROVE  state'[a] = state[a]
  BY DEF KeepsInactive
<1>1. a \in Addr /\ cell[f] \in Cell /\ state \in [Addr -> Scale]
  BY Typed DEF IInv, TypeOK, FT_Face_Drop
<1>2. CASE LastHolder(f)
  <2>1. cell' = [cell EXCEPT ![f] = NoCell] /\ state' = freed(state, entries[cell[f]])
    BY <1>2 DEF FT_Face_Drop
  <2>2. c # cell[f]
    BY <1>2, <2>1, SizesAssumption DEF IInv, TypeOK, Live, LastHolder
  <2>3. a \notin Handles(cell[f])
    BY <1>1, <2>2 DEF IInv, HandlesDistinct
  <2> QED BY <1>1, <2>1, <2>3, Freed DEF Handles
<1>3. CASE ~LastHolder(f)
  BY <1>3 DEF FT_Face_Drop
<1> QED BY <1>2, <1>3

\* FT_Done_Size frees one size only.
LEMMA KeepDone ==
  ASSUME IInv, NEW t \in Thread, NEW b \in Addr, FT_Done_Size(t, b)
  PROVE  KeepsInactive
<1> SUFFICES ASSUME NEW c \in Cell, NEW a \in Handles(c), a \in Handles(c)'
             PROVE  state'[a] = state[a]
  BY DEF KeepsInactive
<1>1. PICK d \in Cell : FT_Done_Size(t, b)!(d)
  BY DEF FT_Done_Size
<1>2. PICK i \in 1..Len(entries[d]) :
        entries[d][i] = b /\ entries' = [entries EXCEPT ![d] = RemoveAt(entries[d], i)]
  BY <1>1
<1>3. b \in Handles(d) /\ b \notin Handles(d)'
  <2>1. b \in Handles(d)
    BY <1>1 DEF Resolves
  <2>2. Handles(d)' = Handles(d) \ {entries[d][i]}
    <3>1. TypeOK /\ HandlesDistinct
      BY DEF IInv
    <3> QED BY <1>2, <3>1, SizeRemoved
  <2> QED BY <1>2, <2>1, <2>2
<1>4. a # b
  BY <1>3 DEF IInv, HandlesDistinct
<1>5. state' = freed(state, <<b>>) /\ state \in [Addr -> Scale] /\ a \in Addr
  BY <1>1, Typed DEF IInv, TypeOK
<1> QED BY <1>4, <1>5, Freed, OneEntry

\* A rebuild writes the state of handles of the new cell, which were free.
LEMMA KeepRebuild ==
  ASSUME IInv, NEW f \in Face, NEW s \in Scale, finish_variation_coordinate_update(f, s)
  PROVE  KeepsInactive
<1> SUFFICES ASSUME NEW d \in Cell, NEW a \in Handles(d), Live(d), Live(d)'
             PROVE  state'[a] = state[a]
  BY DEF KeepsInactive
<1>1. PICK c \in FreeCell, es \in InitialEntries(probe[f]) : rebuild_face(f, s, c, es)
  BY DEF finish_variation_coordinate_update
<1>2. cell[f] # NoCell /\ TypeOK
  BY DEF finish_variation_coordinate_update, IInv
<1>3. /\ cell[f] \in Cell /\ c \in Cell
      /\ \A b \in Addr : state'[b] = IF b \in ToSet(es) THEN s
                                    ELSE IF LastHolder(f) /\ b \in Handles(cell[f]) THEN Unsized
                                    ELSE state[b]
  BY <1>1, <1>2, Rebuilt
<1>4. a \in Addr /\ a \notin ToSet(es)
  BY Typed, Initial, Fresh DEF IInv
<1>5. ~(LastHolder(f) /\ a \in Handles(cell[f]))
  <2> SUFFICES ASSUME LastHolder(f), a \in Handles(cell[f]) PROVE FALSE
    OBVIOUS
  <2>1. d = cell[f]
    BY <1>3 DEF IInv, HandlesDistinct
  <2>2. cell' = [cell EXCEPT ![f] = c] /\ c # cell[f]
    BY <1>1, <2>1 DEF rebuild_face, FreeCell
  <2> QED BY <2>1, <2>2 DEF IInv, TypeOK, Live, LastHolder
<1> QED BY <1>3, <1>4, <1>5

\* Every call keeps the state of inactive sizes.
LEMMA KeepStep ==
  ASSUME IInv, Next
  PROVE  KeepsInactive
<1>1. ASSUME UNCHANGED state
      PROVE  KeepsInactive
  BY <1>1 DEF KeepsInactive
<1>2. ASSUME NEW f \in Face, FT_New_Size(f)
      PROVE  KeepsInactive
  <2> SUFFICES ASSUME NEW c \in Cell, NEW a \in Handles(c)
               PROVE  state'[a] = state[a]
    BY DEF KeepsInactive
  <2>1. PICK b \in FreeAddr : state' = [state EXCEPT ![b] = inner[cell[f]]]
    BY <1>2 DEF FT_New_Size
  <2>2. a # b /\ a \in Addr
    BY Fresh, Typed DEF IInv
  <2> QED BY <2>1, <2>2 DEF IInv, TypeOK
<1>3. ASSUME NEW f \in Face, NEW s \in Scale,
             FT_Request_Size(f, s) \/ FT_Select_Size(f, s) \/ refresh_sfnt_variation_fields(f, s)
      PROVE  KeepsInactive
  BY <1>3, KeepSync DEF FT_Request_Size, FT_Select_Size, refresh_sfnt_variation_fields
<1>4. ASSUME NEW f \in Face, FT_New_Memory_Face(f)
      PROVE  UNCHANGED state
  BY <1>4 DEF FT_New_Memory_Face, open_face
<1>5. ASSUME NEW f \in Face, NEW g \in Face,
             FT_New_Memory_Face_From_Source(f, g) \/ FT_Face_Clone(f, g)
      PROVE  UNCHANGED state
  BY <1>5 DEF FT_New_Memory_Face_From_Source, open_face, FT_Face_Clone
<1>6. ASSUME NEW t \in Thread, NEW a \in Addr, FT_Activate_Size(t, a)
      PROVE  UNCHANGED state
  BY <1>6 DEF FT_Activate_Size
<1> QED BY <1>1, <1>2, <1>3, <1>4, <1>5, <1>6, KeepDrop, KeepDone, KeepRebuild
        DEF Next, FaceStep, HandleStep, FT_Set_Var_Design_Coordinates

\* A size that is not active keeps its state through every call, whichever
\* face or size the call is about.
THEOREM InactiveSizesAreKept == Spec => InactiveSizesKeepState
<1>1. IInv /\ [Next]_vars => [KeepsInactive]_vars
  BY KeepStep
<1> QED BY <1>1, Invariance, PTL DEF Spec, InactiveSizesKeepState, KeepsInactive

-----------------------------------------------------------------------------
(* The scale in force *)

\* Without clones a cell has one holder; an address outside every list is
\* that of a freed box, whose next size starts unsized.
ForceInv ==
  /\ IInv
  /\ ~Cloning => \A f, g \in Face : cell[f] = cell[g] /\ cell[f] # NoCell => f = g
  /\ \A a \in FreeAddr : state[a] = Unsized
  /\ ActiveSizeInForce

\* Initially no cell has an active size.
LEMMA ForceInit == Init => ForceInv
<1> SUFFICES ASSUME Init PROVE ForceInv
  OBVIOUS
<1>1. IInv
  BY InvInit
<1>2. \A a \in FreeAddr : state[a] = Unsized
  BY DEF Init, FreeAddr
<1>3. \A f \in Face : cell[f] = NoCell
  BY DEF Init
<1>4. ActiveSizeInForce
  BY DEF Init, ActiveSizeInForce
<1> QED BY <1>1, <1>2, <1>3, <1>4 DEF ForceInv

\* The active size of a living face is one of its own.
LEMMA ActiveOwn ==
  ASSUME IInv, NEW d \in Cell, active[d] # NoSize
  PROVE  /\ active[d] \in Addr
         /\ active[d] \in Handles(d)
         /\ \A e \in Cell : active[d] \in Handles(e) => e = d
         /\ \A a \in FreeAddr : a # active[d]
<1>1. active[d] \in Handles(d)
  BY DEF IInv, ActiveListed
<1> QED BY <1>1, Typed, Fresh DEF IInv, HandlesDistinct

\* A face opens unsized, and so does its first size.
LEMMA ForceOpen ==
  ASSUME ForceInv, NEW f \in Face, NEW t \in Thread, NEW isProbe \in BOOLEAN,
         open_face(f, t, isProbe)
  PROVE  ForceInv'
<1>1. IInv'
  BY InvOpen DEF ForceInv
<1>2. PICK c \in FreeCell, es \in InitialEntries(isProbe) : open_face(f, t, isProbe)!(c, es)
  BY DEF open_face
<1>3. /\ c \in Cell /\ ~Live(c) /\ cell[f] = NoCell
      /\ cell' = [cell EXCEPT ![f] = c] /\ UNCHANGED state
      /\ entries' = [entries EXCEPT ![c] = es]
  BY <1>2 DEF FreeCell
<1>4. /\ \A d \in Cell : active'[d] = IF d = c THEN Head0(es) ELSE active[d]
      /\ \A d \in Cell : inner'[d] = IF d = c THEN Unsized ELSE inner[d]
  BY <1>2, <1>3 DEF ForceInv, IInv, TypeOK
<1>5. \A d \in Cell : Handles(d)' = IF d = c THEN ToSet(es) ELSE Handles(d)
  <2>1. TypeOK
    BY DEF ForceInv, IInv
  <2> QED BY <1>3, <2>1, ListReplaced
<1>6. ~Cloning => \A g, h \in Face : cell'[g] = cell'[h] /\ cell'[g] # NoCell => g = h
  BY <1>3 DEF ForceInv, IInv, TypeOK, Live
<1>7. \A a \in FreeAddr' : a \in FreeAddr
  <2>1. Handles(c) = {}
    BY <1>3, NoElements DEF ForceInv, IInv, HandlesDistinct, Handles
  <2> QED BY <1>3, <1>5, <2>1 DEF FreeAddr
<1>8. ActiveSizeInForce'
  <2> SUFFICES ASSUME ~Cloning, NEW d \in Cell, Live(d)', active'[d] # NoSize
               PROVE  state'[active'[d]] = inner'[d]
    BY DEF ActiveSizeInForce
  <2>1. CASE d = c
    <3>1. active'[d] \in FreeAddr /\ inner'[d] = Unsized
      BY <1>4, <2>1, Initial
    <3> QED BY <1>3, <3>1 DEF ForceInv
  <2>2. CASE d # c
    BY <1>3, <1>4, <2>2 DEF ForceInv, ActiveSizeInForce, IInv, TypeOK, Live
  <2> QED BY <2>1, <2>2
<1> QED BY <1>1, <1>3, <1>6, <1>7, <1>8 DEF ForceInv

\* Dropping a face leaves the active sizes of the others in force.
LEMMA ForceDrop ==
  ASSUME ForceInv, NEW f \in Face, NEW t \in Thread, FT_Face_Drop(f, t)
  PROVE  ForceInv'
<1> DEFINE c == cell[f]
<1>1. IInv'
  BY InvDrop DEF ForceInv
<1>2. c \in Cell /\ cell' = [cell EXCEPT ![f] = NoCell]
  BY DEF ForceInv, IInv, TypeOK, FT_Face_Drop
<1>3. ~Cloning => \A g, h \in Face : cell'[g] = cell'[h] /\ cell'[g] # NoCell => g = h
  BY <1>2 DEF ForceInv, IInv, TypeOK
<1>4. \A d \in Cell : Live(d)' => Live(d)
  BY <1>2, SizesAssumption DEF ForceInv, IInv, TypeOK, Live
<1>5. CASE LastHolder(f)
  <2>1. /\ entries' = [entries EXCEPT ![c] = <<>>]
        /\ active' = [active EXCEPT ![c] = NoSize]
        /\ inner' = [inner EXCEPT ![c] = Unsized]
        /\ state' = freed(state, entries[c])
    BY <1>5 DEF FT_Face_Drop
  <2>2. \A d \in Cell : Handles(d)' = IF d = c THEN {} ELSE Handles(d)
    <3>1. TypeOK
      BY DEF ForceInv, IInv
    <3> QED BY <1>2, <2>1, <3>1, ListReplaced, NoElements
  <2>3. /\ \A d \in Cell : active'[d] = IF d = c THEN NoSize ELSE active[d]
        /\ \A d \in Cell : inner'[d] = IF d = c THEN Unsized ELSE inner[d]
    BY <1>2, <2>1 DEF ForceInv, IInv, TypeOK
  <2>4. \A a \in Addr : state'[a] = IF a \in Handles(c) THEN Unsized ELSE state[a]
    <3>1. state \in [Addr -> Scale]
      BY DEF ForceInv, IInv, TypeOK
    <3> QED BY <2>1, <3>1, Freed DEF Handles
  <2>5. \A a \in FreeAddr' : state'[a] = Unsized
    BY <1>2, <2>2, <2>4 DEF ForceInv, FreeAddr
  <2>6. ActiveSizeInForce'
    <3> SUFFICES ASSUME ~Cloning, NEW d \in Cell, Live(d)', active'[d] # NoSize
                 PROVE  state'[active'[d]] = inner'[d]
      BY DEF ActiveSizeInForce
    <3>1. d # c /\ active'[d] = active[d] /\ inner'[d] = inner[d] /\ Live(d)
      BY <1>4, <2>3
    <3>2. active[d] \in Addr /\ active[d] \notin Handles(c)
      BY <1>2, <3>1, ActiveOwn DEF ForceInv
    <3> QED BY <2>4, <3>1, <3>2 DEF ForceInv, ActiveSizeInForce
  <2> QED BY <1>1, <1>3, <2>5, <2>6 DEF ForceInv
<1>6. CASE ~LastHolder(f)
  <2>1. UNCHANGED <<entries, active, inner, state>>
    BY <1>6 DEF FT_Face_Drop
  <2>2. FreeAddr' = FreeAddr
    BY <2>1 DEF FreeAddr, Handles
  <2> QED BY <1>1, <1>3, <1>4, <2>1, <2>2 DEF ForceInv, ActiveSizeInForce
<1> QED BY <1>5, <1>6

\* A new size is not the active one of any cell.
LEMMA ForceNewSize ==
  ASSUME ForceInv, NEW f \in Face, FT_New_Size(f)
  PROVE  ForceInv'
<1> DEFINE c == cell[f]
<1>1. IInv'
  BY InvNewSize DEF ForceInv
<1>2. PICK a \in FreeAddr : /\ entries' = [entries EXCEPT ![c] = Append(@, a)]
                            /\ state' = [state EXCEPT ![a] = inner[c]]
  BY DEF FT_New_Size
<1>3. c \in Cell /\ a \in Addr /\ UNCHANGED <<cell, inner, active>>
  BY Fresh DEF ForceInv, IInv, TypeOK, FT_New_Size
<1>4. \A d \in Cell : Handles(d)' = IF d = c THEN Handles(c) \union {a} ELSE Handles(d)
  <2>1. TypeOK
    BY DEF ForceInv, IInv
  <2> QED BY <1>2, <1>3, <2>1, SizeAdded
<1>5. \A b \in Addr : state'[b] = IF b = a THEN inner[c] ELSE state[b]
  BY <1>2 DEF ForceInv, IInv, TypeOK
<1>6. \A b \in FreeAddr' : b \in FreeAddr /\ b # a /\ b \in Addr
  BY <1>3, <1>4 DEF FreeAddr
<1>7. ActiveSizeInForce'
  <2> SUFFICES ASSUME ~Cloning, NEW d \in Cell, Live(d)', active'[d] # NoSize
               PROVE  state'[active'[d]] = inner'[d]
    BY DEF ActiveSizeInForce
  <2>1. active[d] \in Addr /\ active[d] # a
    BY <1>3, ActiveOwn DEF ForceInv
  <2> QED BY <1>3, <1>5, <2>1 DEF ForceInv, ActiveSizeInForce, Live
<1> QED BY <1>1, <1>3, <1>5, <1>6, <1>7 DEF ForceInv

\* FT_Activate_Size puts the state of the size it activates in force.
LEMMA ForceActivate ==
  ASSUME ForceInv, NEW t \in Thread, NEW a \in Addr, FT_Activate_Size(t, a)
  PROVE  ForceInv'
<1>1. IInv'
  BY InvActivate DEF ForceInv
<1>2. PICK c \in Cell : /\ active' = [active EXCEPT ![c] = a]
                        /\ inner' = [inner EXCEPT ![c] = state[a]]
                        /\ UNCHANGED <<cell, entries, state>>
  BY DEF FT_Activate_Size
<1>3. FreeAddr' = FreeAddr
  BY <1>2 DEF FreeAddr, Handles
<1>4. ActiveSizeInForce'
  BY <1>2 DEF ForceInv, IInv, TypeOK, ActiveSizeInForce, Live
<1> QED BY <1>1, <1>2, <1>3, <1>4 DEF ForceInv

\* After FT_Done_Size the size that takes over is in force.
LEMMA ForceDone ==
  ASSUME ForceInv, NEW t \in Thread, NEW a \in Addr, FT_Done_Size(t, a)
  PROVE  ForceInv'
<1>1. IInv'
  BY InvDoneSize DEF ForceInv
<1>2. PICK c \in Cell : FT_Done_Size(t, a)!(c)
  BY DEF FT_Done_Size
<1>3. PICK i \in 1..Len(entries[c]) :
        LET left == RemoveAt(entries[c], i) IN
        /\ entries[c][i] = a
        /\ entries' = [entries EXCEPT ![c] = left]
        /\ IF active[c] = a
             THEN /\ active' = [active EXCEPT ![c] = Head0(left)]
                  /\ inner' = IF left = <<>> THEN inner
                              ELSE [inner EXCEPT ![c] = state[Head(left)]]
             ELSE UNCHANGED <<active, inner>>
  BY <1>2
<1> DEFINE left == RemoveAt(entries[c], i)
<1>4. /\ state \in [Addr -> Scale]
      /\ active \in [Cell -> Addr \union {NoSize}]
      /\ inner \in [Cell -> Scale]
      /\ entries[c] \in Seq(Addr)
      /\ TypeOK /\ HandlesDistinct
  BY DEF ForceInv, IInv, TypeOK
<1>5. /\ a \in Handles(c) /\ UNCHANGED cell
      /\ state' = freed(state, <<a>>)
  BY <1>2 DEF Resolves
<1>6. left \in Seq(Addr) /\ ToSet(left) = Handles(c) \ {a}
  BY <1>3, <1>4, Shortened, SizeRemoved
<1>7. \A d \in Cell : Handles(d)' = IF d = c THEN Handles(c) \ {a} ELSE Handles(d)
  BY <1>3, <1>4, SizeRemoved
<1>8. \A b \in Addr : state'[b] = IF b = a THEN Unsized ELSE state[b]
  BY <1>4, <1>5, Freed, OneEntry
<1>9. \A b \in FreeAddr' : b \in Addr /\ (b = a \/ b \in FreeAddr)
  BY <1>7 DEF FreeAddr
<1>10. ActiveSizeInForce'
  <2> SUFFICES ASSUME ~Cloning, NEW d \in Cell, Live(d)', active'[d] # NoSize
               PROVE  state'[active'[d]] = inner'[d]
    BY DEF ActiveSizeInForce
  <2>1. CASE d = c /\ active[c] = a
    <3>1. active'[c] = Head0(left) /\ Head0(left) # NoSize
      BY <1>3, <1>4, <2>1
    <3>2. left # <<>> /\ Head0(left) = Head(left) /\ Head0(left) \in Handles(c) \ {a}
      BY <1>6, <3>1, HeadListed
    <3>3. inner'[c] = state[Head(left)]
      BY <1>3, <1>4, <2>1, <3>2
    <3>4. Head(left) \in Addr /\ Head(left) # a
      BY <1>4, <3>2, Typed
    <3> QED BY <1>8, <2>1, <3>1, <3>2, <3>3, <3>4
  <2>2. CASE ~(d = c /\ active[c] = a)
    <3>1. active'[d] = active[d] /\ inner'[d] = inner[d] /\ Live(d)
      BY <1>3, <1>4, <1>5, <2>2 DEF Live
    <3>2. active[d] \in Addr /\ active[d] # a
      BY <1>5, <2>2, <3>1, ActiveOwn DEF ForceInv
    <3> QED BY <1>8, <3>1, <3>2 DEF ForceInv, ActiveSizeInForce
  <2> QED BY <2>1, <2>2
<1> QED BY <1>1, <1>5, <1>8, <1>9, <1>10 DEF ForceInv

\* A scale request reaches both the face and its active size.
LEMMA ForceSync ==
  ASSUME ForceInv, NEW f \in Face, NEW s \in Scale, cell[f] # NoCell,
         sync_active_size_state(f, s)
  PROVE  ForceInv'
<1> DEFINE c == cell[f]
<1>1. IInv'
  BY InvSync DEF ForceInv
<1>2. /\ c \in Cell
      /\ \A a \in Addr : state'[a] = IF a = active[c] THEN s ELSE state[a]
      /\ \A d \in Cell : inner'[d] = IF d = c THEN s ELSE inner[d]
      /\ UNCHANGED <<cell, active, entries>>
  BY StateSynced DEF ForceInv
<1>3. FreeAddr' = FreeAddr /\ \A a \in FreeAddr : a \in Addr /\ a # active[c]
  <2>1. FreeAddr' = FreeAddr
    BY <1>2 DEF FreeAddr, Handles
  <2>2. CASE active[c] = NoSize
    BY <2>1, <2>2, SizesAssumption DEF FreeAddr
  <2>3. CASE active[c] # NoSize
    BY <1>2, <2>1, <2>3, ActiveOwn, Fresh DEF ForceInv
  <2> QED BY <2>2, <2>3
<1>4. ActiveSizeInForce'
  <2> SUFFICES ASSUME ~Cloning, NEW d \in Cell, Live(d)', active'[d] # NoSize
               PROVE  state'[active'[d]] = inner'[d]
    BY DEF ActiveSizeInForce
  <2>1. active'[d] = active[d] /\ active[d] \in Addr /\ active[d] \in Handles(d) /\ Live(d)
    BY <1>2, ActiveOwn DEF ForceInv, Live
  <2>2. d # c => active[d] # active[c]
    BY <1>2, <2>1, ActiveOwn DEF ForceInv
  <2> QED BY <1>2, <2>1, <2>2 DEF ForceInv, ActiveSizeInForce
<1> QED BY <1>1, <1>2, <1>3, <1>4 DEF ForceInv

\* After a rebuild without clones the new cell's only size is in force.
LEMMA ForceRebuild ==
  ASSUME ForceInv, NEW f \in Face, NEW s \in Scale, finish_variation_coordinate_update(f, s)
  PROVE  ForceInv'
<1>1. IInv'
  BY InvRebuild DEF ForceInv
<1>2. PICK c \in FreeCell, es \in InitialEntries(probe[f]) : rebuild_face(f, s, c, es)
  BY DEF finish_variation_coordinate_update
<1> DEFINE old == cell[f]
           gone(d) == d = old /\ LastHolder(f)
<1>3. old # NoCell /\ TypeOK
  BY DEF finish_variation_coordinate_update, ForceInv, IInv
<1>4. /\ old \in Cell /\ c \in Cell /\ c # old
      /\ \A d \in Cell : entries'[d] = IF d = c THEN es
                                      ELSE IF gone(d) THEN <<>> ELSE entries[d]
      /\ \A d \in Cell : active'[d] = IF d = c THEN Head0(es)
                                     ELSE IF gone(d) THEN NoSize ELSE active[d]
      /\ \A d \in Cell : inner'[d] = IF d = c \/ (d = old /\ ~LastHolder(f)) THEN s
                                    ELSE IF d = old THEN Unsized ELSE inner[d]
      /\ \A a \in Addr : state'[a] = IF a \in ToSet(es) THEN s
                                    ELSE IF LastHolder(f) /\ a \in Handles(old) THEN Unsized
                                    ELSE state[a]
  BY <1>2, <1>3, Rebuilt
<1>5. cell' = [cell EXCEPT ![f] = c] /\ ~Live(c)
  BY <1>2 DEF rebuild_face, FreeCell
<1>6. \A d \in Cell : Handles(d)' = IF d = c THEN ToSet(es)
                                  ELSE IF gone(d) THEN {} ELSE Handles(d)
  BY <1>4, NoElements DEF Handles
<1>7. ~Cloning => \A g, h \in Face : cell'[g] = cell'[h] /\ cell'[g] # NoCell => g = h
  BY <1>3, <1>4, <1>5 DEF ForceInv, TypeOK, Live
<1>8. ToSet(es) \subseteq FreeAddr /\ (Head0(es) # NoSize => Head0(es) \in ToSet(es))
  BY Initial
<1>9. Handles(c) = {}
  BY <1>4, <1>5, NoElements DEF ForceInv, IInv, HandlesDistinct, Handles
<1>10. \A a \in FreeAddr' : state'[a] = Unsized
  <2> SUFFICES ASSUME NEW a \in FreeAddr'
               PROVE  state'[a] = Unsized
    OBVIOUS
  <2>1. a \in Addr /\ a \notin ToSet(es)
    BY <1>4, <1>6 DEF FreeAddr
  <2>2. CASE LastHolder(f) /\ a \in Handles(old)
    BY <1>4, <2>1, <2>2
  <2>3. CASE ~(LastHolder(f) /\ a \in Handles(old))
    <3>1. a \in FreeAddr
      BY <1>6, <1>9, <2>1, <2>3 DEF FreeAddr
    <3> QED BY <1>4, <2>1, <2>3, <3>1 DEF ForceInv
  <2> QED BY <2>2, <2>3
<1>11. ActiveSizeInForce'
  <2> SUFFICES ASSUME ~Cloning, NEW d \in Cell, Live(d)', active'[d] # NoSize
               PROVE  state'[active'[d]] = inner'[d]
    BY DEF ActiveSizeInForce
  <2>1. LastHolder(f)
    BY <1>3 DEF ForceInv, LastHolder
  <2>2. CASE d = c
    <3>1. active'[d] \in ToSet(es) /\ active'[d] \in Addr
      BY <1>4, <1>8, <2>2 DEF FreeAddr
    <3> QED BY <1>4, <2>2, <3>1
  <2>3. CASE d # c
    <3>1. d # old /\ active'[d] = active[d] /\ inner'[d] = inner[d]
      BY <1>4, <2>1, <2>3
    <3>2. Live(d)
      BY <1>3, <1>5, <2>3 DEF Live, TypeOK
    <3>3. active[d] \in Addr /\ active[d] \notin Handles(old) /\ active[d] \notin ToSet(es)
      BY <1>4, <1>8, <3>1, ActiveOwn DEF ForceInv
    <3> QED BY <1>4, <3>1, <3>2, <3>3 DEF ForceInv, ActiveSizeInForce
  <2> QED BY <2>2, <2>3
<1> QED BY <1>1, <1>7, <1>10, <1>11 DEF ForceInv

\* Every call of a program without clones keeps the active sizes in force.
LEMMA ForceStep ==
  ASSUME ForceInv, [Next]_vars
  PROVE  ForceInv'
<1>1. ASSUME NEW f \in Face, FT_New_Memory_Face(f)
      PROVE  ForceInv'
  BY <1>1, ForceOpen DEF FT_New_Memory_Face
<1>2. ASSUME NEW f \in Face, NEW g \in Face, FT_New_Memory_Face_From_Source(f, g)
      PROVE  ForceInv'
  <2>1. home[cell[g]] \in Thread
    BY <1>2 DEF FT_New_Memory_Face_From_Source, ForceInv, IInv, TypeOK
  <2> QED BY <1>2, <2>1, ForceOpen DEF FT_New_Memory_Face_From_Source
<1>3. ASSUME NEW f \in Face, NEW g \in Face, FT_Face_Clone(f, g)
      PROVE  ForceInv'
  <2>1. IInv' /\ Cloning /\ UNCHANGED <<entries, state>>
    BY <1>3, InvClone DEF ForceInv, FT_Face_Clone
  <2>2. FreeAddr' = FreeAddr
    BY <2>1 DEF FreeAddr, Handles
  <2> QED BY <2>1, <2>2 DEF ForceInv, ActiveSizeInForce
<1>4. ASSUME NEW f \in Face, NEW s \in Scale,
             FT_Request_Size(f, s) \/ FT_Select_Size(f, s) \/ refresh_sfnt_variation_fields(f, s)
      PROVE  ForceInv'
  BY <1>4, ForceSync DEF FT_Request_Size, FT_Select_Size, refresh_sfnt_variation_fields
<1>5. CASE UNCHANGED vars
  <2>1. IInv'
    BY <1>5, InvStep DEF ForceInv
  <2>2. FreeAddr' = FreeAddr /\ (ActiveSizeInForce' <=> ActiveSizeInForce)
        /\ UNCHANGED <<cell, state>>
    BY <1>5 DEF vars, FreeAddr, Handles, ActiveSizeInForce, Live
  <2> QED BY <2>1, <2>2 DEF ForceInv
<1> QED BY <1>1, <1>2, <1>3, <1>4, <1>5, ForceDrop, ForceNewSize, ForceActivate, ForceDone,
           ForceRebuild
        DEF Next, FaceStep, HandleStep, FT_Set_Var_Design_Coordinates

\* The strengthened invariant holds after every call.
THEOREM ForceInvariance == Spec => []ForceInv
<1>1. ForceInv /\ [Next]_vars => ForceInv'
  BY ForceStep
<1> QED BY ForceInit, <1>1, PTL DEF Spec

\* Without clones, glyphs are loaded at the scale the active size remembers.
THEOREM ActiveSizeStaysInForce == Spec => []ActiveSizeInForce
<1>1. ForceInv => ActiveSizeInForce
  BY DEF ForceInv
<1> QED BY <1>1, ForceInvariance, PTL

-----------------------------------------------------------------------------
(* The promised size list *)

\* The operators on lists that the promise uses are those of the code's lists.
LEMMA PromisedLists ==
  /\ \A s : Promise!ToSet(s) = ToSet(s)
  /\ \A s, i : Promise!RemoveAt(s, i) = RemoveAt(s, i)
BY DEF Promise!ToSet, ToSet, Promise!RemoveAt, RemoveAt

\* A face in use shows the list, the active size and the scale of its cell.
LEMMA Shown ==
  ASSUME ForceInv, NEW f \in Face
  PROVE  /\ cell[f] # NoCell =>
              /\ cell[f] \in Cell /\ Live(cell[f])
              /\ SizesOf[f] = entries[cell[f]] /\ SizesOf[f] \in Seq(Addr)
              /\ ToSet(SizesOf[f]) = Handles(cell[f])
              /\ ActiveOf[f] = active[cell[f]]
              /\ ScaleOf[f] = inner[cell[f]]
              /\ BaseOf[f] = IF active[cell[f]] = NoSize THEN inner[cell[f]] ELSE Unsized
         /\ cell[f] = NoCell =>
              SizesOf[f] = <<>> /\ ActiveOf[f] = NoSize /\ ScaleOf[f] = Unsized /\ BaseOf[f] = Unsized
BY DEF ForceInv, IInv, TypeOK, Live, Handles, SizesOf, ActiveOf, ScaleOf, BaseOf, OfCell

\* The same after a step.
LEMMA ShownNext ==
  ASSUME NEW f \in Face
  PROVE  /\ cell'[f] # NoCell =>
              /\ SizesOf'[f] = entries'[cell'[f]]
              /\ ActiveOf'[f] = active'[cell'[f]]
              /\ ScaleOf'[f] = inner'[cell'[f]]
              /\ BaseOf'[f] = IF active'[cell'[f]] = NoSize THEN inner'[cell'[f]] ELSE Unsized
         /\ cell'[f] = NoCell =>
              SizesOf'[f] = <<>> /\ ActiveOf'[f] = NoSize /\ ScaleOf'[f] = Unsized /\ BaseOf'[f] = Unsized
BY DEF SizesOf, ActiveOf, ScaleOf, BaseOf, OfCell

\* A step on the cell of one face is not seen by any other.
SameElsewhere(f) ==
  \A g \in Face \ {f} :
    /\ cell'[g] = cell[g]
    /\ cell[g] # NoCell =>
         /\ entries'[cell[g]] = entries[cell[g]]
         /\ active'[cell[g]] = active[cell[g]]
         /\ inner'[cell[g]] = inner[cell[g]]

LEMMA OneFace ==
  ASSUME NEW f \in Face, SameElsewhere(f)
  PROVE  /\ SizesOf' = [SizesOf EXCEPT ![f] = SizesOf'[f]]
         /\ ActiveOf' = [ActiveOf EXCEPT ![f] = ActiveOf'[f]]
         /\ BaseOf' = [BaseOf EXCEPT ![f] = BaseOf'[f]]
         /\ SizesOf'[f] = SizesOf[f] => UNCHANGED SizesOf
         /\ ActiveOf'[f] = ActiveOf[f] => UNCHANGED ActiveOf
         /\ BaseOf'[f] = BaseOf[f] => UNCHANGED BaseOf
<1>1. \A g \in Face \ {f} : SizesOf'[g] = SizesOf[g] /\ ActiveOf'[g] = ActiveOf[g]
                            /\ BaseOf'[g] = BaseOf[g]
  BY DEF SameElsewhere, SizesOf, ActiveOf, ScaleOf, BaseOf, OfCell
<1>2. /\ SizesOf = [g \in Face |-> SizesOf[g]] /\ SizesOf' = [g \in Face |-> SizesOf'[g]]
      /\ ActiveOf = [g \in Face |-> ActiveOf[g]] /\ ActiveOf' = [g \in Face |-> ActiveOf'[g]]
      /\ BaseOf = [g \in Face |-> BaseOf[g]] /\ BaseOf' = [g \in Face |-> BaseOf'[g]]
  BY DEF SizesOf, ActiveOf, BaseOf
<1> QED BY <1>1, <1>2

\* Glyphs are loaded at the current size's scale: the active size is in force.
LEMMA LoadsAtScale ==
  ASSUME ~Cloning, ForceInv'
  PROVE  Promise!LoadsAtCurrentSize
<1>1. ASSUME NEW f \in Face
      PROVE  ScaleOf'[f] = IF ActiveOf'[f] = NoSize THEN BaseOf'[f] ELSE state'[ActiveOf'[f]]
  <2>1. CASE cell'[f] = NoCell
    BY <2>1, ShownNext
  <2>2. CASE cell'[f] # NoCell /\ active'[cell'[f]] = NoSize
    BY <2>2, ShownNext
  <2>3. CASE cell'[f] # NoCell /\ active'[cell'[f]] # NoSize
    <3>1. cell'[f] \in Cell /\ (\E g \in Face : cell'[g] = cell'[f])
      BY <2>3 DEF ForceInv, IInv, TypeOK
    <3>2. state'[active'[cell'[f]]] = inner'[cell'[f]]
      BY <2>3, <3>1 DEF ForceInv, ActiveSizeInForce, Live
    <3> QED BY <2>3, <3>2, ShownNext
  <2> QED BY <2>1, <2>2, <2>3
<1>2. ScaleOf' = [f \in Face |-> ScaleOf'[f]]
  BY DEF ScaleOf
<1> QED BY <1>1, <1>2 DEF Promise!LoadsAtCurrentSize

\* An address no cell lists is free for the promised list too.
LEMMA FreeForPromise ==
  ASSUME ForceInv, NEW a \in FreeAddr
  PROVE  a \in Promise!Free
<1>1. ASSUME NEW f \in Face
      PROVE  a \notin ToSet(SizesOf[f])
  BY Shown, Fresh, NoElements
<1> QED BY <1>1, Fresh, PromisedLists DEF Promise!Free

\* Without clones no other face holds the cell of a face.
LEMMA HeldAlone ==
  ASSUME ~Cloning, ForceInv, NEW f \in Face, cell[f] # NoCell
  PROVE  LastHolder(f) /\ \A g \in Face \ {f} : cell[g] # cell[f]
BY DEF ForceInv, LastHolder

LEMMA PromiseInit ==
  ASSUME Init
  PROVE  Promise!Init
<1>1. cell = [f \in Face |-> NoCell] /\ state = [a \in Addr |-> Unsized]
  BY DEF Init
<1>2. \A f \in Face : SizesOf[f] = <<>> /\ ActiveOf[f] = NoSize /\ ScaleOf[f] = Unsized
                      /\ BaseOf[f] = Unsized
  BY <1>1 DEF SizesOf, ActiveOf, ScaleOf, BaseOf, OfCell
<1>3. OpenFaces = {}
  BY <1>1 DEF OpenFaces
<1>4. /\ SizesOf = [f \in Face |-> <<>>]
      /\ ActiveOf = [f \in Face |-> NoSize]
      /\ ScaleOf = [f \in Face |-> Unsized]
      /\ BaseOf = [f \in Face |-> Unsized]
  BY <1>2 DEF SizesOf, ActiveOf, ScaleOf, BaseOf
<1> QED BY <1>1, <1>3, <1>4 DEF Promise!Init

\* face_to_ffi opens a face with its default size, or a probe with none.
LEMMA PromiseOpen ==
  ASSUME ~Cloning, ForceInv, NEW f \in Face, NEW t \in Thread, NEW isProbe \in BOOLEAN,
         open_face(f, t, isProbe)
  PROVE  Promise!Open(f)
<1>1. PICK c \in FreeCell, es \in InitialEntries(isProbe) : open_face(f, t, isProbe)!(c, es)
  BY DEF open_face
<1>2. /\ TypeOK /\ c \in Cell /\ ~Live(c) /\ c # NoCell /\ cell[f] = NoCell
      /\ cell' = [cell EXCEPT ![f] = c] /\ UNCHANGED state
      /\ entries' = [entries EXCEPT ![c] = es]
      /\ active' = [active EXCEPT ![c] = Head0(es)]
      /\ inner' = [inner EXCEPT ![c] = Unsized]
  BY <1>1, SizesAssumption DEF FreeCell, ForceInv, IInv
<1>3. SameElsewhere(f)
  BY <1>2 DEF SameElsewhere, TypeOK, Live
<1>4. cell'[f] = c /\ entries'[c] = es /\ active'[c] = Head0(es) /\ inner'[c] = Unsized
  BY <1>2 DEF TypeOK
<1>5. SizesOf'[f] = es /\ ActiveOf'[f] = Head0(es) /\ BaseOf'[f] = Unsized
  BY <1>2, <1>4, ShownNext
<1>6. BaseOf[f] = Unsized
  BY <1>2, Shown
<1>7. UNCHANGED BaseOf
  BY <1>3, <1>5, <1>6, OneFace
<1>8. es \in {<<>>} \union {<<a>> : a \in Promise!Free}
  BY FreeForPromise DEF InitialEntries
<1>9. Promise!First(es) = Head0(es)
  BY DEF Promise!First, Head0
<1>10. OpenFaces' = OpenFaces \union {f} /\ f \notin OpenFaces
  BY <1>2 DEF OpenFaces, TypeOK
<1>11. SizesOf' = [SizesOf EXCEPT ![f] = es] /\ ActiveOf' = [ActiveOf EXCEPT ![f] = Promise!First(es)]
  BY <1>3, <1>5, <1>9, OneFace
<1> QED BY <1>2, <1>7, <1>8, <1>10, <1>11 DEF Promise!Open

\* Drop for FaceSizeState closes the face and frees its sizes.
LEMMA PromiseClose ==
  ASSUME ~Cloning, ForceInv, NEW f \in Face, NEW t \in Thread, FT_Face_Drop(f, t)
  PROVE  Promise!Close(f)
<1> DEFINE c == cell[f]
<1>1. c # NoCell /\ LastHolder(f) /\ \A g \in Face \ {f} : cell[g] # c
  BY HeldAlone DEF FT_Face_Drop
<1>2. /\ TypeOK /\ c \in Cell
      /\ cell' = [cell EXCEPT ![f] = NoCell]
      /\ entries' = [entries EXCEPT ![c] = <<>>]
      /\ active' = [active EXCEPT ![c] = NoSize]
      /\ inner' = [inner EXCEPT ![c] = Unsized]
      /\ state' = freed(state, entries[c])
  BY <1>1 DEF FT_Face_Drop, ForceInv, IInv, TypeOK
<1>3. SameElsewhere(f) /\ cell'[f] = NoCell
  BY <1>1, <1>2 DEF SameElsewhere, TypeOK
<1>4. SizesOf'[f] = <<>> /\ ActiveOf'[f] = NoSize /\ BaseOf'[f] = Unsized
  BY <1>3, ShownNext
<1>5. SizesOf[f] = entries[c]
  BY <1>1, Shown
<1>6. state' = [a \in Addr |-> IF a \in ToSet(SizesOf[f]) THEN Unsized ELSE state[a]]
  BY <1>2, <1>5 DEF freed
<1>7. OpenFaces' = OpenFaces \ {f} /\ f \in OpenFaces
  BY <1>1, <1>2 DEF OpenFaces, TypeOK
<1>8. /\ SizesOf' = [SizesOf EXCEPT ![f] = <<>>]
      /\ ActiveOf' = [ActiveOf EXCEPT ![f] = NoSize]
      /\ BaseOf' = [BaseOf EXCEPT ![f] = Unsized]
  BY <1>3, <1>4, OneFace
<1> QED BY <1>6, <1>7, <1>8, PromisedLists DEF Promise!Close

\* FT_New_Size adds a size at the scale in force.
LEMMA PromiseNew ==
  ASSUME ~Cloning, ForceInv, NEW f \in Face, FT_New_Size(f)
  PROVE  Promise!New(f)
<1> DEFINE c == cell[f]
<1>1. c # NoCell /\ \A g \in Face \ {f} : cell[g] # c
  BY HeldAlone DEF FT_New_Size
<1>2. PICK a \in FreeAddr : /\ entries' = [entries EXCEPT ![c] = Append(@, a)]
                            /\ state' = [state EXCEPT ![a] = inner[c]]
  BY DEF FT_New_Size
<1>3. TypeOK /\ c \in Cell /\ UNCHANGED <<cell, active, inner>>
  BY <1>1 DEF FT_New_Size, ForceInv, IInv, TypeOK
<1>4. SameElsewhere(f) /\ entries'[c] = Append(entries[c], a)
  BY <1>1, <1>2, <1>3 DEF SameElsewhere, TypeOK
<1>5. /\ SizesOf'[f] = Append(SizesOf[f], a) /\ ActiveOf'[f] = ActiveOf[f] /\ BaseOf'[f] = BaseOf[f]
      /\ ScaleOf[f] = inner[c]
  BY <1>1, <1>3, <1>4, Shown, ShownNext
<1>6. UNCHANGED <<ActiveOf, BaseOf>>
  BY <1>3, <1>4, <1>5, OneFace
<1>7. UNCHANGED OpenFaces /\ f \in OpenFaces
  BY <1>1, <1>3 DEF OpenFaces
<1>8. SizesOf' = [SizesOf EXCEPT ![f] = Append(@, a)]
  BY <1>4, <1>5, OneFace
<1>9. state' = [state EXCEPT ![a] = ScaleOf[f]] /\ a \in Promise!Free
  BY <1>2, <1>5, FreeForPromise
<1> QED BY <1>6, <1>7, <1>8, <1>9 DEF Promise!New

\* The face of a cell that a handle resolves to.
LEMMA Holder ==
  ASSUME ~Cloning, ForceInv, NEW t \in Thread, NEW a \in Addr, NEW c \in Cell, Resolves(t, a, c)
  PROVE  \E f \in Face : /\ cell[f] = c /\ cell[f] # NoCell
                         /\ a \in ToSet(SizesOf[f])
                         /\ \A g \in Face \ {f} : cell[g] # c
<1>1. PICK f \in Face : cell[f] = c
  BY DEF Resolves, Live
<1>2. c # NoCell /\ a \in Handles(c)
  BY DEF Resolves
<1> QED BY <1>1, <1>2, HeldAlone, Shown

\* FT_Activate_Size makes one of a face's sizes its current one.
LEMMA PromiseActivate ==
  ASSUME ~Cloning, ForceInv, NEW t \in Thread, NEW a \in Addr, FT_Activate_Size(t, a)
  PROVE  \E f \in Face : Promise!Activate(f, a)
<1>1. PICK c \in Cell : /\ Resolves(t, a, c)
                        /\ active' = [active EXCEPT ![c] = a]
                        /\ inner' = [inner EXCEPT ![c] = state[a]]
                        /\ UNCHANGED <<cell, entries, state>>
  BY DEF FT_Activate_Size
<1>2. PICK f \in Face : /\ cell[f] = c /\ cell[f] # NoCell
                        /\ a \in ToSet(SizesOf[f])
                        /\ \A g \in Face \ {f} : cell[g] # c
  BY <1>1, Holder
<1>3. TypeOK /\ a # NoSize
  BY SizesAssumption DEF ForceInv, IInv
<1>4. SameElsewhere(f) /\ active'[c] = a
  BY <1>1, <1>2, <1>3 DEF SameElsewhere, TypeOK
<1>5. SizesOf'[f] = SizesOf[f] /\ ActiveOf'[f] = a /\ BaseOf'[f] = Unsized
  BY <1>1, <1>2, <1>3, <1>4, Shown, ShownNext
<1>6. UNCHANGED <<SizesOf, OpenFaces>>
  BY <1>1, <1>4, <1>5, OneFace DEF OpenFaces
<1>7. ActiveOf' = [ActiveOf EXCEPT ![f] = a] /\ BaseOf' = [BaseOf EXCEPT ![f] = Unsized]
  BY <1>4, <1>5, OneFace
<1> QED BY <1>1, <1>2, <1>6, <1>7, PromisedLists DEF Promise!Activate

\* FT_Done_Size removes a size; the oldest one left takes over from the active
\* size, and after the last one the face keeps its scale.
LEMMA PromiseDone ==
  ASSUME ~Cloning, ForceInv, NEW t \in Thread, NEW a \in Addr, FT_Done_Size(t, a)
  PROVE  \E f \in Face : Promise!Done(f, a)
<1>1. PICK c \in Cell : FT_Done_Size(t, a)!(c)
  BY DEF FT_Done_Size
<1>2. PICK i \in 1..Len(entries[c]) :
        LET left == RemoveAt(entries[c], i) IN
        /\ entries[c][i] = a
        /\ entries' = [entries EXCEPT ![c] = left]
        /\ IF active[c] = a
             THEN /\ active' = [active EXCEPT ![c] = Head0(left)]
                  /\ inner' = IF left = <<>> THEN inner
                              ELSE [inner EXCEPT ![c] = state[Head(left)]]
             ELSE UNCHANGED <<active, inner>>
  BY <1>1
<1> DEFINE left == RemoveAt(entries[c], i)
<1>3. Resolves(t, a, c) /\ UNCHANGED cell /\ state' = freed(state, <<a>>)
  BY <1>1
<1>4. PICK f \in Face : /\ cell[f] = c /\ cell[f] # NoCell
                        /\ a \in ToSet(SizesOf[f])
                        /\ \A g \in Face \ {f} : cell[g] # c
  BY <1>3, Holder
<1>5. TypeOK /\ a # NoSize
  BY SizesAssumption DEF ForceInv, IInv
<1>6. left \in Seq(Addr)
  BY <1>5, Shortened DEF TypeOK
<1> HIDE DEF left
<1>7. /\ entries[c][i] = a /\ entries' = [entries EXCEPT ![c] = left]
      /\ active[c] = a => /\ active' = [active EXCEPT ![c] = Head0(left)]
                          /\ left = <<>> => inner' = inner
                          /\ left # <<>> => inner' = [inner EXCEPT ![c] = state[Head(left)]]
      /\ active[c] # a => UNCHANGED <<active, inner>>
  BY <1>2 DEF left
<1>8. SameElsewhere(f) /\ entries'[c] = left
  BY <1>3, <1>4, <1>5, <1>7 DEF SameElsewhere, TypeOK
<1>9. SizesOf'[f] = left /\ SizesOf[f] = entries[c] /\ ActiveOf[f] = active[c]
      /\ ScaleOf[f] = inner[c]
  BY <1>3, <1>4, <1>8, Shown, ShownNext
<1>10. UNCHANGED OpenFaces /\ SizesOf' = [SizesOf EXCEPT ![f] = left]
  BY <1>3, <1>8, <1>9, OneFace DEF OpenFaces
<1>11. state' = [state EXCEPT ![a] = Unsized]
  <2>1. state' = [b \in Addr |-> IF b = a THEN Unsized ELSE state[b]]
    BY <1>3, OneEntry DEF freed
  <2>2. state \in [Addr -> Scale]
    BY <1>5 DEF TypeOK
  <2> QED BY <2>1, <2>2
<1>12. CASE active[c] = a
  <2>1. active'[c] = Head0(left) /\ Promise!First(left) = Head0(left)
    BY <1>4, <1>5, <1>7, <1>12 DEF TypeOK, Promise!First, Head0
  <2>2. ActiveOf' = [ActiveOf EXCEPT ![f] = Promise!First(left)]
    BY <1>3, <1>4, <1>8, <2>1, OneFace, ShownNext
  <2>3. BaseOf' = IF left = <<>> THEN [BaseOf EXCEPT ![f] = ScaleOf[f]] ELSE BaseOf
    <3>1. CASE left = <<>>
      <4>1. BaseOf'[f] = inner[c]
        BY <1>3, <1>4, <1>7, <1>12, <2>1, <3>1, ShownNext DEF Head0
      <4> QED BY <1>8, <1>9, <3>1, <4>1, OneFace
    <3>2. CASE left # <<>>
      <4>1. Head0(left) # NoSize
        BY <1>6, <3>2, SizesAssumption DEF Head0
      <4>2. BaseOf'[f] = Unsized /\ BaseOf[f] = Unsized
        BY <1>3, <1>4, <1>5, <1>12, <2>1, <4>1, Shown, ShownNext
      <4> QED BY <1>8, <3>2, <4>2, OneFace
    <3> QED BY <3>1, <3>2
  <2>4. ActiveOf[f] = a
    BY <1>9, <1>12
  <2> QED BY <1>2, <1>7, <1>9, <1>10, <1>11, <2>2, <2>3, <2>4, PromisedLists DEF Promise!Done, left
<1>13. CASE active[c] # a
  <2>1. ActiveOf'[f] = ActiveOf[f] /\ BaseOf'[f] = BaseOf[f]
    BY <1>3, <1>4, <1>7, <1>13, Shown, ShownNext
  <2>2. UNCHANGED <<ActiveOf, BaseOf>>
    BY <1>8, <2>1, OneFace
  <2>3. ActiveOf[f] # a
    BY <1>9, <1>13
  <2> QED BY <1>2, <1>7, <1>9, <1>10, <1>11, <2>2, <2>3, PromisedLists DEF Promise!Done, left
<1> QED BY <1>12, <1>13

\* The setters of scales: the current size takes the scale, or the face when it
\* has none.
LEMMA PromiseRequest ==
  ASSUME ~Cloning, ForceInv, NEW f \in Face, NEW s \in Scale, cell[f] # NoCell,
         sync_active_size_state(f, s)
  PROVE  Promise!Request(f, s)
<1> DEFINE c == cell[f]
<1>1. TypeOK /\ c \in Cell /\ \A g \in Face \ {f} : cell[g] # c
  BY HeldAlone DEF ForceInv, IInv, TypeOK
<1>2. /\ inner' = [inner EXCEPT ![c] = s]
      /\ state' = IF active[c] = NoSize THEN state ELSE [state EXCEPT ![active[c]] = s]
      /\ UNCHANGED <<cell, active, entries>>
  BY DEF sync_active_size_state
<1>3. SameElsewhere(f) /\ inner'[c] = s
  BY <1>1, <1>2 DEF SameElsewhere, TypeOK
<1>4. SizesOf'[f] = SizesOf[f] /\ ActiveOf'[f] = ActiveOf[f] /\ ActiveOf[f] = active[c]
  BY <1>2, Shown, ShownNext
<1>5. UNCHANGED <<SizesOf, ActiveOf>>
  BY <1>3, <1>4, OneFace
<1>6. UNCHANGED OpenFaces /\ f \in OpenFaces
  BY <1>2 DEF OpenFaces
<1>7. CASE active[c] = NoSize
  <2>1. BaseOf' = [BaseOf EXCEPT ![f] = s]
    BY <1>2, <1>3, <1>7, OneFace, ShownNext
  <2> QED BY <1>2, <1>4, <1>5, <1>6, <1>7, <2>1 DEF Promise!Request
<1>8. CASE active[c] # NoSize
  <2>1. BaseOf'[f] = BaseOf[f]
    BY <1>2, <1>8, Shown, ShownNext
  <2>2. UNCHANGED BaseOf
    BY <1>3, <2>1, OneFace
  <2> QED BY <1>2, <1>4, <1>5, <1>6, <1>8, <2>2 DEF Promise!Request
<1> QED BY <1>7, <1>8

\* A face that is parsed anew has its default size only, at the requested scale.
LEMMA PromiseRebuild ==
  ASSUME ~Cloning, ForceInv, NEW f \in Face, NEW s \in Scale,
         finish_variation_coordinate_update(f, s)
  PROVE  Promise!Rebuild(f, s)
<1> DEFINE old == cell[f]
<1>1. PICK c \in FreeCell, es \in InitialEntries(probe[f]) : rebuild_face(f, s, c, es)
  BY DEF finish_variation_coordinate_update
<1>2. TypeOK /\ old # NoCell /\ LastHolder(f) /\ (\A g \in Face \ {f} : cell[g] # old)
  BY HeldAlone DEF finish_variation_coordinate_update, ForceInv, IInv
<1>3. /\ old \in Cell /\ c \in Cell /\ c # old
      /\ \A d \in Cell : entries'[d] = IF d = c THEN es ELSE IF d = old THEN <<>> ELSE entries[d]
      /\ \A d \in Cell : active'[d] = IF d = c THEN Head0(es) ELSE IF d = old THEN NoSize ELSE active[d]
      /\ \A d \in Cell : inner'[d] = IF d = c THEN s ELSE IF d = old THEN Unsized ELSE inner[d]
      /\ state' \in [Addr -> Scale]
      /\ \A a \in Addr : state'[a] = IF a \in ToSet(es) THEN s
                                    ELSE IF a \in Handles(old) THEN Unsized ELSE state[a]
  BY <1>1, <1>2, Rebuilt
<1>4. /\ cell' = [cell EXCEPT ![f] = c] /\ ~Live(c) /\ c # NoCell
  BY <1>1, <1>3, SizesAssumption DEF rebuild_face, FreeCell
<1>5. SameElsewhere(f)
  BY <1>2, <1>3, <1>4 DEF SameElsewhere, TypeOK, Live
<1>6. /\ cell'[f] = c /\ SizesOf'[f] = es /\ ActiveOf'[f] = Head0(es)
      /\ BaseOf'[f] = IF Head0(es) = NoSize THEN s ELSE Unsized
  <2>1. cell'[f] = c
    BY <1>2, <1>4 DEF TypeOK
  <2>2. entries'[c] = es /\ active'[c] = Head0(es) /\ inner'[c] = s
    BY <1>3
  <2> QED BY <1>4, <2>1, <2>2, ShownNext
<1>7. es \in {<<>>} \union {<<a>> : a \in Promise!Free}
  BY FreeForPromise DEF InitialEntries
<1>8. Promise!First(es) = Head0(es) /\ (Head0(es) = NoSize <=> es = <<>>)
  <2>1. es \in Seq(Addr)
    BY Initial
  <2> QED BY <2>1, SizesAssumption DEF Promise!First, Head0
<1>9. state' = [a \in Addr |-> IF a \in ToSet(es) THEN s
                               ELSE IF a \in ToSet(SizesOf[f]) THEN Unsized ELSE state[a]]
  <2>1. ToSet(SizesOf[f]) = Handles(old)
    BY <1>2, Shown
  <2> QED BY <1>3, <2>1
<1>10. UNCHANGED OpenFaces /\ f \in OpenFaces
  BY <1>2, <1>4 DEF OpenFaces, TypeOK
<1>11. /\ SizesOf' = [SizesOf EXCEPT ![f] = es]
       /\ ActiveOf' = [ActiveOf EXCEPT ![f] = Promise!First(es)]
       /\ BaseOf' = [BaseOf EXCEPT ![f] = IF es = <<>> THEN s ELSE Unsized]
  BY <1>5, <1>6, <1>8, OneFace
<1> QED BY <1>7, <1>9, <1>10, <1>11, PromisedLists DEF Promise!Rebuild

\* Every call is one of the promised calls or changes nothing that they show.
LEMMA PromiseStep ==
  ASSUME ~Cloning, ForceInv, Next
  PROVE  Promise!Next
<1>1. Promise!LoadsAtCurrentSize
  BY ForceStep, LoadsAtScale
<1>2. ASSUME NEW f \in Face, FT_New_Memory_Face(f)
      PROVE  Promise!Open(f)
  BY <1>2, PromiseOpen DEF FT_New_Memory_Face
<1>3. ASSUME NEW f \in Face, NEW g \in Face, FT_New_Memory_Face_From_Source(f, g)
      PROVE  Promise!Open(f)
  <2>1. home[cell[g]] \in Thread
    BY <1>3 DEF FT_New_Memory_Face_From_Source, ForceInv, IInv, TypeOK
  <2> QED BY <1>3, <2>1, PromiseOpen DEF FT_New_Memory_Face_From_Source
<1>4. ASSUME NEW f \in Face, NEW g \in Face, FT_Face_Clone(f, g)
      PROVE  FALSE
  BY <1>4 DEF FT_Face_Clone
<1>5. ASSUME NEW f \in Face, NEW s \in Scale,
             FT_Request_Size(f, s) \/ FT_Select_Size(f, s) \/ refresh_sfnt_variation_fields(f, s)
      PROVE  Promise!Request(f, s)
  BY <1>5, PromiseRequest DEF FT_Request_Size, FT_Select_Size, refresh_sfnt_variation_fields
<1>6. ASSUME NEW f \in Face, FaceStep(f)
      PROVE  Promise!Next
  <2>1. \/ Promise!Open(f) \/ Promise!Close(f) \/ Promise!New(f)
        \/ \E s \in Scale : Promise!Request(f, s) \/ Promise!Rebuild(f, s)
    BY <1>2, <1>3, <1>4, <1>5, <1>6, PromiseClose, PromiseNew, PromiseRebuild
       DEF FaceStep, FT_Set_Var_Design_Coordinates
  <2> QED BY <1>1, <2>1 DEF Promise!Next
<1>7. ASSUME NEW t \in Thread, NEW a \in Addr, HandleStep(t, a)
      PROVE  Promise!Next
  BY <1>1, <1>7, PromiseActivate, PromiseDone DEF HandleStep, Promise!Next
<1> QED BY <1>6, <1>7 DEF Next

\* Without clones the faces, cells, threads and registries implement the size
\* list that ftsizes.h promises: every call is a promised call, whatever the
\* numbers of faces, sizes and threads (FaceSizeState, SIZE_HANDLE_REGISTRY).
THEOREM SizeListImplemented ==
  ASSUME ~Cloning
  PROVE  Spec => ImplementsSizeList
<1>1. Init => Promise!Init
  BY PromiseInit
<1>2. ForceInv /\ [Next]_vars => [Promise!Next]_(Promise!vars)
  <2>1. UNCHANGED vars => UNCHANGED Promise!vars
    BY DEF vars, Promise!vars, OpenFaces, SizesOf, ActiveOf, ScaleOf, BaseOf, OfCell
  <2> QED BY <2>1, PromiseStep
<1> QED BY <1>1, <1>2, ForceInvariance, PTL DEF Spec, ImplementsSizeList, Promise!Spec

-----------------------------------------------------------------------------
(* The records of the C API *)

-----------------------------------------------------------------------------
(* Types, and the calls of the core *)

\* A record whose handle is found stands for a size.
LEMMA FoundHandle ==
  ASSUME RecTypeOK, NEW t \in Thread, NEW f \in Face, NEW r \in ToSet(recs[f]), NEW c,
         Resolves(t, rust[r], c)
  PROVE  r \in Rec /\ rust[r] \in Addr
<1>1. r \in Rec
  BY DEF RecTypeOK, ToSet
<1> QED BY <1>1 DEF RecTypeOK, Resolves

\* Every call of the C API makes one call of the core or none.
LEMMA CoreStep ==
  ASSUME RecTypeOK, [RecNext]_allVars
  PROVE  [Next]_vars
<1>1. ASSUME NEW f \in Face,
             \/ Abi_FT_New_Face(f) \/ Abi_FT_New_Size(f)
             \/ \E t \in Thread : Abi_FT_Done_Face(f, t)
             \/ \E s \in Scale : \/ Abi_FT_Request_Size(f, s) \/ Abi_FT_Select_Size(f, s)
                                 \/ Abi_FT_Set_Var_Design_Coordinates(f, s)
      PROVE  FaceStep(f)
  BY <1>1 DEF Abi_FT_New_Face, Abi_FT_New_Size, Abi_FT_Done_Face, Abi_FT_Request_Size,
              Abi_FT_Select_Size, Abi_FT_Set_Var_Design_Coordinates, FaceStep,
              FT_Set_Var_Design_Coordinates
<1>2. ASSUME NEW f \in Face, Abi_FT_Set_Charmap(f)
      PROVE  UNCHANGED vars
  BY <1>2 DEF Abi_FT_Set_Charmap
<1>3. ASSUME NEW t \in Thread, NEW f \in Face, NEW r \in Rec,
             Abi_FT_Activate_Size(t, f, r) \/ Abi_FT_Done_Size(t, f, r)
      PROVE  \E a \in Addr : HandleStep(t, a)
  <2>1. FT_Activate_Size(t, rust[r]) \/ FT_Done_Size(t, rust[r])
    BY <1>3 DEF Abi_FT_Activate_Size, Abi_FT_Done_Size
  <2>2. \E c \in Cell : Resolves(t, rust[r], c)
    BY <2>1 DEF FT_Activate_Size, FT_Done_Size
  <2>3. rust[r] \in Addr
    BY <2>2 DEF Resolves, RecTypeOK
  <2> QED BY <2>1, <2>3 DEF HandleStep
<1>4. UNCHANGED allVars => UNCHANGED vars
  BY DEF allVars
<1> QED BY <1>1, <1>2, <1>3, <1>4 DEF RecNext, Next

\* Freed records lose their handles, and no other record does.
LEMMA Dropped ==
  ASSUME RecTypeOK, NEW rs, drop_sizes(rs)
  PROVE  /\ rust' \in [Rec -> Addr \union {NoSize}] /\ shown' \in [Rec -> Scale]
         /\ \A r \in Rec : rust'[r] = IF r \in ToSet(rs) THEN NoSize ELSE rust[r]
BY SizesAssumption DEF drop_sizes, RecTypeOK

LEMMA RecTypeInit == RecInit => RecTypeOK
BY TypeInit, SizesAssumption DEF RecInit, RecTypeOK

LEMMA RecTypeStep ==
  ASSUME RecTypeOK, [RecNext]_allVars
  PROVE  RecTypeOK'
<1>1. TypeOK'
  BY CoreStep, TypeStep DEF RecTypeOK
<1>2. metrics' \in [Face -> Scale] /\ size' \in [Face -> Addr \union {NoSize}]
      /\ metrics \in [Face -> Scale]
  BY <1>1 DEF TypeOK, RecTypeOK
<1>3. /\ recs \in [Face -> Seq(Rec)] /\ cur \in [Face -> Rec \union {NoRec}]
      /\ rust \in [Rec -> Addr \union {NoSize}] /\ shown \in [Rec -> Scale]
  BY DEF RecTypeOK
<1>4. ASSUME NEW f \in Face, Abi_FT_New_Face(f)
      PROVE  RecTypeOK'
  <2>1. PICK r \in FreeRec : /\ recs' = [recs EXCEPT ![f] = <<r>>]
                             /\ cur' = [cur EXCEPT ![f] = r]
                             /\ rust' = [rust EXCEPT ![r] = size'[f]]
                             /\ shown' = [shown EXCEPT ![r] = metrics'[f]]
    BY <1>4 DEF Abi_FT_New_Face
  <2>2. r \in Rec /\ <<r>> \in Seq(Rec)
    BY DEF FreeRec
  <2> QED BY <1>1, <1>2, <1>3, <2>1, <2>2 DEF RecTypeOK
<1>5. ASSUME NEW f \in Face, NEW t \in Thread, Abi_FT_Done_Face(f, t)
      PROVE  RecTypeOK'
  <2>1. /\ drop_sizes(recs[f]) /\ recs' = [recs EXCEPT ![f] = <<>>]
        /\ cur' = [cur EXCEPT ![f] = NoRec]
    BY <1>5 DEF Abi_FT_Done_Face
  <2>2. <<>> \in Seq(Rec)
    OBVIOUS
  <2> QED BY <1>1, <1>3, <2>1, <2>2, Dropped DEF RecTypeOK
<1>6. ASSUME NEW f \in Face, Abi_FT_New_Size(f)
      PROVE  RecTypeOK'
  <2>1. PICK r \in FreeRec : /\ recs' = [recs EXCEPT ![f] = Append(@, r)]
                             /\ rust' = [rust EXCEPT ![r] = Last(entries'[cell[f]])]
                             /\ shown' = [shown EXCEPT ![r] = metrics[f]]
    BY <1>6 DEF Abi_FT_New_Size
  <2>2. r \in Rec /\ UNCHANGED cur
    BY <1>6 DEF FreeRec, Abi_FT_New_Size
  <2>3. Last(entries'[cell[f]]) \in Addr
    <3>1. PICK a \in FreeAddr : entries' = [entries EXCEPT ![cell[f]] = Append(@, a)]
      BY <1>6 DEF Abi_FT_New_Size, FT_New_Size
    <3>2. cell[f] \in Cell /\ entries[cell[f]] \in Seq(Addr) /\ entries \in [Cell -> Seq(Addr)]
      BY <1>6 DEF Abi_FT_New_Size, FT_New_Size, RecTypeOK, TypeOK
    <3>3. a \in Addr /\ entries'[cell[f]] = Append(entries[cell[f]], a)
      BY <3>1, <3>2, Fresh
    <3> QED BY <3>2, <3>3, Appended DEF Last
  <2>4. recs' \in [Face -> Seq(Rec)]
    BY <1>3, <2>1, <2>2
  <2> QED BY <1>1, <1>2, <1>3, <2>1, <2>2, <2>3, <2>4 DEF RecTypeOK
<1>7. ASSUME NEW t \in Thread, NEW f \in Face, NEW r \in Rec, Abi_FT_Activate_Size(t, f, r)
      PROVE  RecTypeOK'
  BY <1>1, <1>3, <1>7 DEF Abi_FT_Activate_Size, RecTypeOK
<1>8. ASSUME NEW t \in Thread, NEW f \in Face, NEW r \in Rec, Abi_FT_Done_Size(t, f, r)
      PROVE  RecTypeOK'
  <2>1. PICK i \in 1..Len(recs[f]) :
          LET left == RemoveAt(recs[f], i) IN
          /\ recs[f][i] = r
          /\ recs' = [recs EXCEPT ![f] = left]
          /\ cur' = IF cur[f] # r THEN cur
                    ELSE [cur EXCEPT ![f] = IF left = <<>> THEN NoRec ELSE Head(left)]
    BY <1>8 DEF Abi_FT_Done_Size
  <2> DEFINE left == RemoveAt(recs[f], i)
  <2>2. left \in Seq(Rec)
    BY <1>3, Shortened
  <2>3. recs' = [recs EXCEPT ![f] = left] /\ drop_sizes(<<r>>)
    BY <1>8, <2>1 DEF Abi_FT_Done_Size
  <2>4. cur' = IF cur[f] # r THEN cur
               ELSE [cur EXCEPT ![f] = IF left = <<>> THEN NoRec ELSE Head(left)]
    BY <2>1
  <2> HIDE DEF left
  <2>5. cur' \in [Face -> Rec \union {NoRec}]
    <3>1. left # <<>> => Head(left) \in Rec
      BY <2>2
    <3> QED BY <1>3, <2>4, <3>1
  <2> QED BY <1>1, <1>3, <2>2, <2>3, <2>5, Dropped DEF RecTypeOK
<1>9. ASSUME NEW f \in Face, update_size_metrics(f)
      PROVE  RecTypeOK'
  <2>1. shown' \in [Rec -> Scale]
    BY <1>2, <1>3, <1>9 DEF update_size_metrics
  <2> QED BY <1>1, <1>3, <1>9, <2>1 DEF update_size_metrics, RecTypeOK
<1>10. CASE UNCHANGED allVars
  BY <1>1, <1>3, <1>10 DEF allVars, recVars, RecTypeOK
<1> QED BY <1>4, <1>5, <1>6, <1>7, <1>8, <1>9, <1>10
        DEF RecNext, Abi_FT_Set_Charmap, Abi_FT_Request_Size, Abi_FT_Select_Size,
            Abi_FT_Set_Var_Design_Coordinates, sync_face_public_record

\* The records of the C API and their handles are well typed.
THEOREM RecTypeInvariant == RecSpec => []RecTypeOK
<1>1. RecTypeOK /\ [RecNext]_allVars => RecTypeOK'
  BY RecTypeStep
<1> QED BY RecTypeInit, <1>1, PTL DEF RecSpec

\* The C API calls the core as a program of the core's own API could: all that
\* is proved of the sizes of the core holds under the records.
THEOREM RecordsCallCore == RecSpec => Spec
<1>1. RecInit => Init
  BY DEF RecInit
<1>2. RecTypeOK /\ [RecNext]_allVars => [Next]_vars
  BY CoreStep
<1> QED BY <1>1, <1>2, RecTypeInvariant, PTL DEF RecSpec, Spec

-----------------------------------------------------------------------------
(* Records and handles *)

\* No face value is cloned through the C API, so a cell has one holder.
OneHolder == \A f, g \in Face : cell[f] = cell[g] /\ cell[f] # NoCell => f = g

\* A record is listed once, by one open face; the current record is listed; a
\* record that is given back has lost its handle.
RecordsListed ==
  /\ \A f \in Face : \A i, j \in 1..Len(recs[f]) : recs[f][i] = recs[f][j] => i = j
  /\ \A f, g \in Face : ToSet(recs[f]) \cap ToSet(recs[g]) # {} => f = g
  /\ \A f \in Face : cell[f] = NoCell => recs[f] = <<>>
  /\ \A f \in Face : cur[f] # NoRec => cur[f] \in ToSet(recs[f])
  /\ \A r \in FreeRec : rust[r] = NoSize

\* As long as no face is rebuilt under its records, the handle of a record is
\* a size of its face and of no other record.  (A probe's record has none.)
HandlesOwned ==
  ~Rebuilding =>
    /\ \A f \in Face : \A r \in ToSet(recs[f]) : rust[r] # NoSize => rust[r] \in Handles(cell[f])
    /\ \A r, q \in Rec : rust[r] = rust[q] /\ rust[r] # NoSize => r = q

\* What the record lists need beyond the core's invariant to be inductive.
RecInv ==
  /\ RecTypeOK
  /\ OneHolder
  /\ RecordsListed
  /\ HandlesOwned
  /\ RecordsInStep

\* A list of sizes is the list of the handles of a list of records.
Mirrors(es, rs, ru) == es = [i \in 1..Len(rs) |-> ru[rs[i]]]

\* Handles of records outside the list do not matter.
LEMMA MirrorsOther ==
  ASSUME NEW rs \in Seq(Rec), NEW es, NEW ru, NEW sv, Mirrors(es, rs, ru),
         \A r \in ToSet(rs) : sv[r] = ru[r]
  PROVE  Mirrors(es, rs, sv)
<1>1. \A i \in 1..Len(rs) : rs[i] \in ToSet(rs)
  BY DEF ToSet
<1> QED BY <1>1 DEF Mirrors

\* A size and its record are appended.
LEMMA MirrorsAppend ==
  ASSUME NEW rs \in Seq(Rec), NEW es \in Seq(Addr), NEW ru, Mirrors(es, rs, ru),
         NEW r \in Rec, NEW a \in Addr, ru[r] = a
  PROVE  Mirrors(Append(es, a), Append(rs, r), ru)
<1>1. Len(es) = Len(rs) /\ Len(rs) \in Nat
  <2>1. DOMAIN es = 1..Len(es) /\ Len(es) \in Nat /\ Len(rs) \in Nat
    OBVIOUS
  <2>2. DOMAIN es = 1..Len(rs)
    BY DEF Mirrors
  <2> QED BY <2>1, <2>2
<1>2. \A i \in 1..Len(rs) : es[i] = ru[rs[i]]
  BY DEF Mirrors
<1> DEFINE fs == Append(es, a)
           ts == Append(rs, r)
<1>3. /\ fs \in Seq(Addr) /\ Len(fs) = Len(es) + 1
      /\ \A i \in 1..Len(es) : fs[i] = es[i]
      /\ fs[Len(es) + 1] = a
  BY Appended
<1>4. /\ ts \in Seq(Rec) /\ Len(ts) = Len(rs) + 1
      /\ \A i \in 1..Len(rs) : ts[i] = rs[i]
      /\ ts[Len(rs) + 1] = r
  BY Appended
<1> HIDE DEF fs, ts
<1>5. \A i \in 1..Len(ts) : fs[i] = ru[ts[i]]
  <2> SUFFICES ASSUME NEW i \in 1..Len(ts)
               PROVE  fs[i] = ru[ts[i]]
    OBVIOUS
  <2>1. i \in 1..Len(rs) \/ i = Len(rs) + 1
    BY <1>1, <1>4
  <2> QED BY <1>1, <1>2, <1>3, <1>4, <2>1
<1>6. fs = [i \in 1..Len(ts) |-> fs[i]]
  BY <1>1, <1>3, <1>4
<1> QED BY <1>5, <1>6 DEF Mirrors, fs, ts

\* A size and its record are removed.
LEMMA MirrorsRemove ==
  ASSUME NEW rs \in Seq(Rec), NEW es \in Seq(Addr), NEW ru, Mirrors(es, rs, ru),
         NEW i \in 1..Len(rs)
  PROVE  i \in 1..Len(es) /\ Mirrors(RemoveAt(es, i), RemoveAt(rs, i), ru)
<1>1. Len(es) = Len(rs) /\ Len(rs) \in Nat
  <2>1. DOMAIN es = 1..Len(es) /\ Len(es) \in Nat /\ Len(rs) \in Nat
    OBVIOUS
  <2>2. DOMAIN es = 1..Len(rs)
    BY DEF Mirrors
  <2> QED BY <2>1, <2>2
<1>2. \A j \in 1..Len(rs) : es[j] = ru[rs[j]]
  BY DEF Mirrors
<1> DEFINE fs == RemoveAt(es, i)
           ts == RemoveAt(rs, i)
<1>3. /\ fs \in Seq(Addr) /\ Len(fs) = Len(es) - 1
      /\ \A j \in 1..(Len(es) - 1) : fs[j] = IF j < i THEN es[j] ELSE es[j + 1]
  BY <1>1, Shortened
<1>4. /\ ts \in Seq(Rec) /\ Len(ts) = Len(rs) - 1
      /\ \A j \in 1..(Len(rs) - 1) : ts[j] = IF j < i THEN rs[j] ELSE rs[j + 1]
  BY Shortened
<1> HIDE DEF fs, ts
<1>5. \A j \in 1..Len(ts) : fs[j] = ru[ts[j]]
  BY <1>1, <1>2, <1>3, <1>4
<1>6. fs = [j \in 1..Len(ts) |-> fs[j]]
  BY <1>1, <1>3, <1>4
<1> QED BY <1>1, <1>5, <1>6 DEF Mirrors, fs, ts

\* What lists of records are made of.
LEMMA Listing ==
  ASSUME RecTypeOK, NEW f \in Face
  PROVE  /\ recs[f] \in Seq(Rec) /\ ToSet(recs[f]) \subseteq Rec
         /\ \A i \in 1..Len(recs[f]) : recs[f][i] \in ToSet(recs[f]) /\ recs[f][i] \in Rec
BY DEF RecTypeOK, ToSet

\* The size records of one face change, and the record lists stay sound.
LEMMA ListedNext ==
  ASSUME RecTypeOK, RecordsListed, NEW f \in Face, NEW rs \in Seq(Rec), NEW q,
         recs' = [recs EXCEPT ![f] = rs], cur' = [cur EXCEPT ![f] = q],
         \A i, j \in 1..Len(rs) : rs[i] = rs[j] => i = j,
         \A g \in Face \ {f} : ToSet(rs) \cap ToSet(recs[g]) = {},
         \A g \in Face \ {f} : cell'[g] = NoCell => cell[g] = NoCell,
         cell'[f] = NoCell => rs = <<>>,
         q # NoRec => q \in ToSet(rs),
         \A r \in Rec : r \notin ToSet(rs) /\ (\A g \in Face \ {f} : r \notin ToSet(recs[g]))
                          => rust'[r] = NoSize
  PROVE  RecordsListed'
<1>1. /\ recs'[f] = rs /\ \A g \in Face \ {f} : recs'[g] = recs[g]
      /\ cur'[f] = q /\ \A g \in Face \ {f} : cur'[g] = cur[g]
  BY DEF RecTypeOK
<1>2. \A g \in Face : \A i, j \in 1..Len(recs'[g]) : recs'[g][i] = recs'[g][j] => i = j
  BY <1>1 DEF RecordsListed
<1>3. \A g, h \in Face : ToSet(recs'[g]) \cap ToSet(recs'[h]) # {} => g = h
  BY <1>1 DEF RecordsListed
<1>4. \A g \in Face : cell'[g] = NoCell => recs'[g] = <<>>
  BY <1>1 DEF RecordsListed
<1>5. \A g \in Face : cur'[g] # NoRec => cur'[g] \in ToSet(recs'[g])
  BY <1>1 DEF RecordsListed
<1>6. \A r \in FreeRec' : rust'[r] = NoSize
  BY <1>1 DEF FreeRec
<1> QED BY <1>2, <1>3, <1>4, <1>5, <1>6 DEF RecordsListed

\* A record with a handle is listed, by a face that lists the handle.
LEMMA OwnedHandle ==
  ASSUME IInv, RecInv, ~Rebuilding, NEW r \in Rec, rust[r] # NoSize
  PROVE  /\ rust[r] \in Addr /\ rust[r] \notin FreeAddr
         /\ \E f \in Face : r \in ToSet(recs[f]) /\ cell[f] \in Cell /\ rust[r] \in Handles(cell[f])
<1>1. PICK f \in Face : r \in ToSet(recs[f])
  BY DEF RecInv, RecordsListed, FreeRec
<1>2. rust[r] \in Handles(cell[f])
  BY <1>1 DEF RecInv, HandlesOwned
<1>3. cell[f] \in Cell
  BY <1>1, NoElements DEF RecInv, RecTypeOK, TypeOK, RecordsListed
<1>4. rust[r] \in Addr
  BY DEF RecInv, RecTypeOK
<1> QED BY <1>1, <1>2, <1>3, <1>4, Fresh

\* The cell that a record's handle leads to is its face's.
LEMMA OwnedCell ==
  ASSUME IInv, RecInv, ~Rebuilding, NEW f \in Face, NEW r \in ToSet(recs[f]),
         NEW t, NEW c \in Cell, Resolves(t, rust[r], c)
  PROVE  c = cell[f]
<1>1. rust[r] \in Handles(cell[f]) /\ rust[r] \in Handles(c)
  BY DEF RecInv, HandlesOwned, Resolves
<1>2. cell[f] \in Cell
  BY NoElements DEF RecInv, RecTypeOK, TypeOK, RecordsListed
<1> QED BY <1>1, <1>2 DEF IInv, HandlesDistinct

-----------------------------------------------------------------------------
(* Each call keeps the records in step *)

\* An unrelated face keeps its records, their handles and its sizes in step.
Unrelated(g) ==
  /\ cell'[g] = cell[g] /\ recs'[g] = recs[g] /\ cur'[g] = cur[g]
  /\ \A r \in ToSet(recs[g]) : rust'[r] = rust[r]
  /\ cell[g] \in Cell => entries'[cell[g]] = entries[cell[g]] /\ active'[cell[g]] = active[cell[g]]

InStepAt(g) ==
  /\ entries[cell[g]] = [i \in 1..Len(recs[g]) |-> rust[recs[g][i]]]
  /\ active[cell[g]] = IF cur[g] = NoRec THEN NoSize ELSE rust[cur[g]]

LEMMA UnrelatedFaces ==
  ASSUME RecInv, NEW f \in Face, \A g \in Face \ {f} : Unrelated(g)
  PROVE  /\ OneHolder /\ (\A g \in Face \ {f} : cell'[f] # NoCell => cell'[f] # cell[g]) => OneHolder'
         /\ ~Rebuilding => \A g \in Face \ {f} : \A r \in ToSet(recs'[g]) :
                             rust'[r] # NoSize => rust'[r] \in Handles(cell[g])'
         /\ ~Rebuilding /\ ~Probing /\ (cell'[f] # NoCell => InStepAt(f)') => RecordsInStep'
<1>1. OneHolder /\ (\A g \in Face \ {f} : cell'[f] # NoCell => cell'[f] # cell[g]) => OneHolder'
  BY DEF OneHolder, Unrelated
<1>2. ASSUME ~Rebuilding, NEW g \in Face \ {f}, NEW r \in ToSet(recs'[g]), rust'[r] # NoSize
      PROVE  rust'[r] \in Handles(cell[g])'
  <2>1. r \in ToSet(recs[g]) /\ rust'[r] = rust[r] /\ cell'[g] = cell[g]
    BY <1>2 DEF Unrelated
  <2>2. rust[r] \in Handles(cell[g])
    BY <1>2, <2>1 DEF RecInv, HandlesOwned
  <2>3. cell[g] \in Cell
    BY <2>1, NoElements DEF RecInv, RecordsListed, RecTypeOK, TypeOK
  <2>4. entries'[cell[g]] = entries[cell[g]]
    BY <2>3 DEF Unrelated
  <2> QED BY <2>1, <2>2, <2>4 DEF Handles
<1>3. ASSUME ~Rebuilding, ~Probing, cell'[f] # NoCell => InStepAt(f)'
      PROVE  RecordsInStep'
  <2> SUFFICES ASSUME NEW g \in Face, cell'[g] # NoCell
               PROVE  InStepAt(g)'
    BY DEF RecordsInStep, InStepAt
  <2>1. CASE g = f
    BY <1>3, <2>1
  <2>2. CASE g # f
    <3>1. Unrelated(g) /\ cell[g] \in Cell
      BY <2>2 DEF Unrelated, RecInv, RecTypeOK, TypeOK
    <3>2. InStepAt(g)
      BY <1>3, <3>1 DEF Unrelated, RecInv, RecordsInStep, InStepAt
    <3>3. Mirrors(entries[cell[g]], recs[g], rust) /\ recs[g] \in Seq(Rec)
      BY <3>2, Listing DEF InStepAt, Mirrors, RecInv
    <3>4. Mirrors(entries[cell[g]], recs[g], rust')
      BY <3>1, <3>3, MirrorsOther DEF Unrelated
    <3>5. cur[g] # NoRec => cur[g] \in ToSet(recs[g])
      BY DEF RecInv, RecordsListed
    <3> QED BY <3>1, <3>2, <3>4, <3>5 DEF Unrelated, InStepAt, Mirrors
  <2> QED BY <2>1, <2>2
<1> QED BY <1>1, <1>2, <1>3

\* A face opens with one record, for its default size or for none.
LEMMA RecOpen ==
  ASSUME IInv, RecInv, RecTypeOK', NEW f \in Face, Abi_FT_New_Face(f)
  PROVE  RecInv'
<1>1. PICK t \in Thread, isProbe \in BOOLEAN : open_face(f, t, isProbe)
  BY DEF Abi_FT_New_Face, FT_New_Memory_Face
<1>2. PICK c \in FreeCell, es \in InitialEntries(isProbe) : open_face(f, t, isProbe)!(c, es)
  BY <1>1 DEF open_face
<1>3. PICK r \in FreeRec : /\ recs' = [recs EXCEPT ![f] = <<r>>]
                           /\ cur' = [cur EXCEPT ![f] = r]
                           /\ rust' = [rust EXCEPT ![r] = size'[f]]
  BY DEF Abi_FT_New_Face
<1>4. /\ RecTypeOK /\ TypeOK /\ c \in Cell /\ ~Live(c) /\ c # NoCell
      /\ cell[f] = NoCell /\ cell' = [cell EXCEPT ![f] = c]
      /\ probe' = [probe EXCEPT ![f] = isProbe]
      /\ entries' = [entries EXCEPT ![c] = es]
      /\ active' = [active EXCEPT ![c] = Head0(es)]
      /\ size' = [size EXCEPT ![f] = Head0(es)]
  BY <1>2, SizesAssumption DEF FreeCell, RecInv, IInv
<1>5. /\ r \in Rec /\ \A g \in Face : r \notin ToSet(recs[g])
      /\ <<r>> \in Seq(Rec) /\ ToSet(<<r>>) = {r} /\ Len(<<r>>) = 1 /\ <<r>>[1] = r
  BY OneEntry DEF FreeRec
<1>6. /\ cell'[f] = c /\ \A g \in Face \ {f} : cell'[g] = cell[g]
      /\ recs'[f] = <<r>> /\ cur'[f] = r /\ probe'[f] = isProbe
      /\ rust'[r] = Head0(es) /\ \A q \in Rec \ {r} : rust'[q] = rust[q]
      /\ entries'[c] = es /\ active'[c] = Head0(es)
  BY <1>3, <1>4, <1>5 DEF RecTypeOK, TypeOK
<1>7. \A g \in Face \ {f} : Unrelated(g)
  <2> SUFFICES ASSUME NEW g \in Face \ {f}
               PROVE  Unrelated(g)
    OBVIOUS
  <2>1. cell'[g] = cell[g] /\ recs'[g] = recs[g] /\ cur'[g] = cur[g] /\ cell[g] # c
    BY <1>3, <1>4 DEF RecTypeOK, TypeOK, Live
  <2>2. \A q \in ToSet(recs[g]) : rust'[q] = rust[q]
    BY <1>4, <1>5, <1>6, Listing
  <2>3. cell[g] \in Cell => entries'[cell[g]] = entries[cell[g]] /\ active'[cell[g]] = active[cell[g]]
    BY <1>4, <2>1 DEF TypeOK
  <2> QED BY <2>1, <2>2, <2>3 DEF Unrelated
<1>8. RecordsListed'
  <2>1. \A q \in Rec : q # r /\ (\A g \in Face \ {f} : q \notin ToSet(recs[g])) => rust'[q] = NoSize
    <3>1. recs[f] = <<>>
      BY <1>4 DEF RecInv, RecordsListed
    <3>2. \A q \in Rec : (\A g \in Face \ {f} : q \notin ToSet(recs[g])) => q \in FreeRec
      BY <3>1, NoElements DEF FreeRec
    <3> QED BY <1>6, <3>2 DEF RecInv, RecordsListed
  <2>2. RecordsListed /\ r \in ToSet(<<r>>) /\ cell'[f] # NoCell
    BY <1>4, <1>5, <1>6 DEF RecInv
  <2>3. \A i, j \in 1..Len(<<r>>) : <<r>>[i] = <<r>>[j] => i = j
    BY <1>5
  <2>4. \A g \in Face \ {f} : ToSet(<<r>>) \cap ToSet(recs[g]) = {}
    BY <1>5
  <2> QED BY <1>3, <1>4, <1>5, <1>6, <2>1, <2>2, <2>3, <2>4, ListedNext
<1>9. OneHolder'
  BY <1>4, <1>6, <1>7, UnrelatedFaces DEF RecInv, Live
<1>10. HandlesOwned'
  <2> SUFFICES ASSUME ~Rebuilding
               PROVE  /\ \A g \in Face : \A q \in ToSet(recs'[g]) :
                           rust'[q] # NoSize => rust'[q] \in Handles(cell[g])'
                      /\ \A p, q \in Rec : rust'[p] = rust'[q] /\ rust'[p] # NoSize => p = q
    BY DEF HandlesOwned
  <2>1. \A q \in ToSet(recs'[f]) : rust'[q] # NoSize => rust'[q] \in Handles(cell[f])'
    BY <1>5, <1>6, Initial DEF Handles
  <2>2. rust'[r] # NoSize => rust'[r] \in FreeAddr
    BY <1>6, Initial
  <2>3. \A p, q \in Rec : rust'[p] = rust'[q] /\ rust'[p] # NoSize => p = q
    BY <1>6, <2>2, OwnedHandle DEF RecInv, HandlesOwned
  <2> QED BY <1>7, <2>1, <2>3, UnrelatedFaces
<1>11. RecordsInStep'
  <2> SUFFICES ASSUME ~Rebuilding, ~Probing
               PROVE  RecordsInStep'
    BY DEF RecordsInStep
  <2>1. ~isProbe
    BY <1>6 DEF Abi_FT_New_Face
  <2>2. PICK a \in FreeAddr : es = <<a>>
    BY <2>1 DEF InitialEntries
  <2>3. Head0(es) = a /\ es = [i \in 1..1 |-> a]
    BY <2>2 DEF Head0
  <2>4. InStepAt(f)'
    <3>1. recs'[f][1] = r
      BY <1>5, <1>6
    <3>2. es = [i \in 1..Len(recs'[f]) |-> rust'[recs'[f][i]]]
      BY <1>5, <1>6, <2>3, <3>1
    <3>3. cur'[f] # NoRec
      BY <1>5, <1>6, RecordsAssumption
    <3> QED BY <1>6, <3>2, <3>3 DEF InStepAt
  <2> QED BY <1>7, <2>4, UnrelatedFaces
<1> QED BY <1>8, <1>9, <1>10, <1>11 DEF RecInv

\* The end of a face frees its records with its sizes.
LEMMA RecClose ==
  ASSUME IInv, RecInv, RecTypeOK', NEW f \in Face, NEW t \in Thread, Abi_FT_Done_Face(f, t)
  PROVE  RecInv'
<1> DEFINE c == cell[f]
<1>1. /\ RecTypeOK /\ TypeOK /\ c \in Cell /\ LastHolder(f) /\ \A g \in Face \ {f} : cell[g] # c
  BY DEF Abi_FT_Done_Face, FT_Face_Drop, RecInv, RecTypeOK, TypeOK, OneHolder, LastHolder
<1>2. /\ cell' = [cell EXCEPT ![f] = NoCell]
      /\ entries' = [entries EXCEPT ![c] = <<>>]
      /\ active' = [active EXCEPT ![c] = NoSize]
      /\ recs' = [recs EXCEPT ![f] = <<>>]
      /\ cur' = [cur EXCEPT ![f] = NoRec]
      /\ drop_sizes(recs[f])
  BY <1>1 DEF Abi_FT_Done_Face, FT_Face_Drop
<1>3. \A q \in Rec : rust'[q] = IF q \in ToSet(recs[f]) THEN NoSize ELSE rust[q]
  BY <1>1, <1>2, Dropped
<1>4. cell'[f] = NoCell /\ recs'[f] = <<>> /\ \A g \in Face \ {f} : cell'[g] = cell[g]
  BY <1>1, <1>2 DEF RecTypeOK, TypeOK
<1>5. \A g \in Face \ {f} : Unrelated(g)
  <2> SUFFICES ASSUME NEW g \in Face \ {f}
               PROVE  Unrelated(g)
    OBVIOUS
  <2>1. cell'[g] = cell[g] /\ recs'[g] = recs[g] /\ cur'[g] = cur[g]
    BY <1>1, <1>2 DEF RecTypeOK, TypeOK
  <2>2. \A q \in ToSet(recs[g]) : q \in Rec /\ q \notin ToSet(recs[f])
    BY <1>1, Listing DEF RecInv, RecordsListed
  <2>3. cell[g] \in Cell => entries'[cell[g]] = entries[cell[g]] /\ active'[cell[g]] = active[cell[g]]
    BY <1>1, <1>2 DEF TypeOK
  <2> QED BY <1>3, <2>1, <2>2, <2>3 DEF Unrelated
<1>6. RecordsListed'
  <2>1. <<>> \in Seq(Rec) /\ Len(<<>>) = 0 /\ ToSet(<<>>) = {} /\ RecordsListed
    BY NoElements DEF RecInv
  <2>2. \A q \in Rec : q \notin ToSet(<<>>) /\ (\A g \in Face \ {f} : q \notin ToSet(recs[g]))
                         => rust'[q] = NoSize
    BY <1>3 DEF RecInv, RecordsListed, FreeRec
  <2>3. \A g \in Face \ {f} : cell'[g] = NoCell => cell[g] = NoCell
    BY <1>4
  <2>4. \A i, j \in 1..Len(<<>>) : <<>>[i] = <<>>[j] => i = j
    BY <2>1
  <2> QED BY <1>1, <1>2, <2>1, <2>2, <2>3, <2>4, ListedNext
<1>7. OneHolder'
  BY <1>4, <1>5, UnrelatedFaces DEF RecInv
<1>8. HandlesOwned'
  <2>1. \A q \in ToSet(recs'[f]) : FALSE
    BY <1>4, NoElements
  <2>2. ~Rebuilding => \A p, q \in Rec : rust'[p] = rust'[q] /\ rust'[p] # NoSize => p = q
    BY <1>3 DEF RecInv, HandlesOwned
  <2> QED BY <1>5, <2>1, <2>2, UnrelatedFaces DEF HandlesOwned
<1>9. RecordsInStep'
  BY <1>4, <1>5, UnrelatedFaces DEF RecordsInStep
<1> QED BY <1>6, <1>7, <1>8, <1>9 DEF RecInv

\* FT_New_Size makes one size and one record for it.
LEMMA RecNew ==
  ASSUME IInv, RecInv, RecTypeOK', NEW f \in Face, Abi_FT_New_Size(f)
  PROVE  RecInv'
<1> DEFINE c == cell[f]
<1>1. c # NoCell /\ FT_New_Size(f) /\ UNCHANGED cur
  BY DEF Abi_FT_New_Size, FT_New_Size
<1>2. PICK a \in FreeAddr : entries' = [entries EXCEPT ![c] = Append(@, a)]
  BY <1>1 DEF FT_New_Size
<1>3. PICK r \in FreeRec : /\ recs' = [recs EXCEPT ![f] = Append(@, r)]
                           /\ rust' = [rust EXCEPT ![r] = Last(entries'[c])]
  BY DEF Abi_FT_New_Size
<1>4. /\ RecTypeOK /\ TypeOK /\ c \in Cell /\ entries[c] \in Seq(Addr) /\ a \in Addr
      /\ UNCHANGED <<cell, active>> /\ \A g \in Face \ {f} : cell[g] # c
  BY <1>1, Fresh DEF FT_New_Size, RecInv, RecTypeOK, TypeOK, OneHolder
<1>5. r \in Rec /\ (\A g \in Face : r \notin ToSet(recs[g])) /\ recs[f] \in Seq(Rec)
      /\ ToSet(recs[f]) \subseteq Rec
  BY <1>4, Listing DEF FreeRec
<1> DEFINE rs == Append(recs[f], r)
<1>6. /\ rs \in Seq(Rec) /\ Len(rs) = Len(recs[f]) + 1
      /\ \A i \in 1..Len(recs[f]) : rs[i] = recs[f][i]
      /\ rs[Len(recs[f]) + 1] = r
      /\ ToSet(rs) = ToSet(recs[f]) \union {r}
  BY <1>5, Appended
<1>7. entries'[c] = Append(entries[c], a) /\ Last(entries'[c]) = a
  <2>1. entries'[c] = Append(entries[c], a)
    BY <1>2, <1>4 DEF TypeOK
  <2> QED BY <1>4, <2>1, Appended DEF Last
<1>8. recs' = [recs EXCEPT ![f] = rs] /\ recs'[f] = rs
  BY <1>3, <1>4 DEF RecTypeOK
<1>14. rust'[r] = a /\ \A q \in Rec \ {r} : rust'[q] = rust[q]
  BY <1>3, <1>4, <1>5, <1>7 DEF RecTypeOK
<1>15. \A g \in Face : \A q \in ToSet(recs[g]) : q \in Rec \ {r} /\ rust'[q] = rust[q]
  BY <1>4, <1>5, <1>14, Listing
<1> HIDE DEF rs
<1>9. \A g \in Face \ {f} : Unrelated(g)
  <2> SUFFICES ASSUME NEW g \in Face \ {f}
               PROVE  Unrelated(g)
    OBVIOUS
  <2>1. cell'[g] = cell[g] /\ recs'[g] = recs[g] /\ cur'[g] = cur[g]
    BY <1>1, <1>4, <1>8 DEF RecTypeOK
  <2>2. \A q \in ToSet(recs[g]) : rust'[q] = rust[q]
    BY <1>15
  <2>3. cell[g] \in Cell => entries'[cell[g]] = entries[cell[g]] /\ active'[cell[g]] = active[cell[g]]
    BY <1>2, <1>4 DEF TypeOK
  <2> QED BY <2>1, <2>2, <2>3 DEF Unrelated
<1>10. RecordsListed'
  <2>1. /\ RecordsListed
        /\ \A i, j \in 1..Len(recs[f]) : recs[f][i] = recs[f][j] => i = j
        /\ \A i \in 1..Len(recs[f]) : recs[f][i] # r
    <3>1. \A i \in 1..Len(recs[f]) : recs[f][i] \in ToSet(recs[f])
      BY <1>4, Listing
    <3>2. RecordsListed
      BY DEF RecInv
    <3>3. \A i, j \in 1..Len(recs[f]) : recs[f][i] = recs[f][j] => i = j
      BY <3>2 DEF RecordsListed
    <3> QED BY <1>15, <3>1, <3>2, <3>3
  <2>2. \A i, j \in 1..Len(rs) : rs[i] = rs[j] => i = j
    <3>1. \A i \in 1..Len(rs) : i \in 1..Len(recs[f]) \/ i = Len(recs[f]) + 1
      BY <1>5, <1>6
    <3> QED BY <1>6, <2>1, <3>1
  <2>3. \A g \in Face \ {f} : ToSet(rs) \cap ToSet(recs[g]) = {}
    <3>1. \A g \in Face \ {f} : ToSet(recs[f]) \cap ToSet(recs[g]) = {}
      BY <2>1 DEF RecordsListed
    <3> QED BY <1>6, <1>15, <3>1
  <2>4. cur' = [cur EXCEPT ![f] = cur[f]] /\ (cur[f] # NoRec => cur[f] \in ToSet(rs))
    BY <1>1, <1>4, <1>6, <2>1 DEF RecTypeOK, RecordsListed
  <2>5. \A q \in Rec : q \notin ToSet(rs) /\ (\A g \in Face \ {f} : q \notin ToSet(recs[g]))
                         => rust'[q] = NoSize
    BY <1>6, <1>14, <2>1 DEF RecordsListed, FreeRec
  <2> QED BY <1>1, <1>4, <1>6, <1>8, <2>1, <2>2, <2>3, <2>4, <2>5, ListedNext
<1>11. OneHolder'
  BY <1>4 DEF RecInv, OneHolder
<1>12. HandlesOwned'
  <2> SUFFICES ASSUME ~Rebuilding
               PROVE  /\ \A g \in Face : \A q \in ToSet(recs'[g]) :
                           rust'[q] # NoSize => rust'[q] \in Handles(cell[g])'
                      /\ \A p, q \in Rec : rust'[p] = rust'[q] /\ rust'[p] # NoSize => p = q
    BY DEF HandlesOwned
  <2>1. \A d \in Cell : Handles(d)' = IF d = c THEN Handles(c) \union {a} ELSE Handles(d)
    BY <1>2, <1>4, SizeAdded
  <2>2. \A q \in ToSet(recs'[f]) : rust'[q] # NoSize => rust'[q] \in Handles(cell[f])'
    BY <1>4, <1>6, <1>8, <1>14, <1>15, <2>1 DEF RecInv, HandlesOwned
  <2>3. \A p, q \in Rec : rust'[p] = rust'[q] /\ rust'[p] # NoSize => p = q
    BY <1>14, OwnedHandle DEF RecInv, HandlesOwned
  <2> QED BY <1>9, <2>2, <2>3, UnrelatedFaces
<1>13. RecordsInStep'
  <2> SUFFICES ASSUME ~Rebuilding, ~Probing
               PROVE  RecordsInStep'
    BY DEF RecordsInStep
  <2>1. InStepAt(f)
    BY <1>1 DEF RecInv, RecordsInStep, InStepAt
  <2>2. \A q \in ToSet(recs[f]) : rust'[q] = rust[q]
    BY <1>15
  <2>3. Mirrors(entries[c], recs[f], rust')
    <3>1. Mirrors(entries[c], recs[f], rust)
      BY <2>1 DEF InStepAt, Mirrors
    <3> QED BY <1>5, <2>2, <3>1, MirrorsOther
  <2>4. Mirrors(entries'[c], rs, rust')
    BY <1>4, <1>5, <1>7, <1>14, <2>3, MirrorsAppend DEF rs
  <2>5. cur[f] # NoRec => rust'[cur[f]] = rust[cur[f]]
    BY <2>2 DEF RecInv, RecordsListed
  <2>6. InStepAt(f)'
    BY <1>1, <1>4, <1>8, <2>1, <2>4, <2>5 DEF InStepAt, Mirrors
  <2> QED BY <1>9, <2>6, UnrelatedFaces
<1> QED BY <1>10, <1>11, <1>12, <1>13 DEF RecInv

\* FT_Activate_Size makes a record current with its size.
LEMMA RecActivate ==
  ASSUME IInv, RecInv, RecTypeOK', NEW t \in Thread, NEW f \in Face, NEW r \in Rec,
         Abi_FT_Activate_Size(t, f, r)
  PROVE  RecInv'
<1>1. /\ r \in ToSet(recs[f]) /\ FT_Activate_Size(t, rust[r])
      /\ cur' = [cur EXCEPT ![f] = r] /\ UNCHANGED <<recs, rust>>
  BY DEF Abi_FT_Activate_Size
<1>2. PICK c \in Cell : /\ Resolves(t, rust[r], c)
                        /\ active' = [active EXCEPT ![c] = rust[r]]
                        /\ UNCHANGED <<cell, entries>>
  BY <1>1 DEF FT_Activate_Size
<1>3. RecTypeOK /\ TypeOK /\ RecordsListed /\ recs[f] \in Seq(Rec)
  BY Listing DEF RecInv, RecTypeOK
<1>4. RecordsListed'
  <2>1. FreeRec' = FreeRec
    BY <1>1 DEF FreeRec
  <2>2. \A g \in Face : cur'[g] # NoRec => cur'[g] \in ToSet(recs[g])
    BY <1>1, <1>3 DEF RecTypeOK, RecordsListed
  <2> QED BY <1>1, <1>2, <1>3, <2>1, <2>2 DEF RecordsListed
<1>5. OneHolder' /\ HandlesOwned'
  BY <1>1, <1>2 DEF RecInv, OneHolder, HandlesOwned, Handles
<1>6. RecordsInStep'
  <2> SUFFICES ASSUME ~Rebuilding, ~Probing
               PROVE  RecordsInStep'
    BY DEF RecordsInStep
  <2>1. c = cell[f]
    BY <1>1, <1>2, OwnedCell
  <2>2. \A g \in Face \ {f} : cell[g] # c
    BY <2>1, <1>2 DEF RecInv, OneHolder, Resolves
  <2>3. \A g \in Face \ {f} : Unrelated(g)
    BY <1>1, <1>2, <1>3, <2>2 DEF Unrelated, RecTypeOK, TypeOK
  <2>4. InStepAt(f)
    BY <1>2, <2>1 DEF RecInv, RecordsInStep, InStepAt, Resolves
  <2>5. active'[c] = rust[r] /\ cur'[f] = r /\ r # NoRec
    BY <1>1, <1>2, <1>3, RecordsAssumption DEF RecTypeOK, TypeOK
  <2>6. InStepAt(f)'
    BY <1>1, <1>2, <2>1, <2>4, <2>5 DEF InStepAt
  <2> QED BY <2>3, <2>6, UnrelatedFaces
<1> QED BY <1>4, <1>5, <1>6 DEF RecInv

\* A size goes, and its record; both lists close up at the same place.
LEMMA RecDone ==
  ASSUME IInv, RecInv, RecTypeOK', NEW t \in Thread, NEW f \in Face, NEW r \in Rec,
         Abi_FT_Done_Size(t, f, r)
  PROVE  RecInv'
<1>1. FT_Done_Size(t, rust[r]) /\ drop_sizes(<<r>>)
  BY DEF Abi_FT_Done_Size
<1>2. PICK i \in 1..Len(recs[f]) :
        LET left == RemoveAt(recs[f], i) IN
        /\ recs[f][i] = r
        /\ recs' = [recs EXCEPT ![f] = left]
        /\ cur' = IF cur[f] # r THEN cur
                  ELSE [cur EXCEPT ![f] = IF left = <<>> THEN NoRec ELSE Head(left)]
  BY DEF Abi_FT_Done_Size
<1> DEFINE left == RemoveAt(recs[f], i)
<1>3. recs' = [recs EXCEPT ![f] = left] /\ recs[f][i] = r
      /\ cur' = IF cur[f] # r THEN cur
                ELSE [cur EXCEPT ![f] = IF left = <<>> THEN NoRec ELSE Head(left)]
  BY <1>2
<1>4. PICK c \in Cell : FT_Done_Size(t, rust[r])!(c)
  BY <1>1 DEF FT_Done_Size
<1>5. PICK j \in 1..Len(entries[c]) :
        LET rest == RemoveAt(entries[c], j) IN
        /\ entries[c][j] = rust[r]
        /\ entries' = [entries EXCEPT ![c] = rest]
        /\ IF active[c] = rust[r]
             THEN /\ active' = [active EXCEPT ![c] = Head0(rest)]
                  /\ inner' = IF rest = <<>> THEN inner
                              ELSE [inner EXCEPT ![c] = state[Head(rest)]]
             ELSE UNCHANGED <<active, inner>>
  BY <1>4
<1> DEFINE rest == RemoveAt(entries[c], j)
<1>6. /\ Resolves(t, rust[r], c) /\ UNCHANGED cell
      /\ entries[c][j] = rust[r] /\ entries' = [entries EXCEPT ![c] = rest]
      /\ active' = IF active[c] = rust[r] THEN [active EXCEPT ![c] = Head0(rest)] ELSE active
  BY <1>4, <1>5
<1>7. RecTypeOK /\ TypeOK /\ RecordsListed /\ HandlesDistinct
      /\ recs[f] \in Seq(Rec) /\ entries[c] \in Seq(Addr)
  BY Listing DEF RecInv, RecTypeOK, TypeOK, IInv
<1>8. \A k, l \in 1..Len(recs[f]) : recs[f][k] = recs[f][l] => k = l
  BY <1>7 DEF RecordsListed
<1>9. /\ left \in Seq(Rec) /\ ToSet(left) = ToSet(recs[f]) \ {r}
      /\ \A k, l \in 1..Len(left) : left[k] = left[l] => k = l
  BY <1>3, <1>7, <1>8, Shortened, ShortenedDistinct
<1>10. r \in ToSet(recs[f]) /\ rust[r] # NoSize /\ r # NoRec
  BY <1>3, <1>6, <1>7, Listing, RecordsAssumption DEF Resolves
<1>11. \A q \in Rec : rust'[q] = IF q = r THEN NoSize ELSE rust[q]
  BY <1>1, <1>7, Dropped, OneEntry
<1>12. \A d \in Cell : Handles(d)' = IF d = c THEN Handles(c) \ {rust[r]} ELSE Handles(d)
  BY <1>6, <1>7, SizeRemoved
<1> HIDE DEF left, rest
<1> DEFINE q0 == IF cur[f] # r THEN cur[f] ELSE IF left = <<>> THEN NoRec ELSE Head(left)
<1>13. cur' = [cur EXCEPT ![f] = q0] /\ cur'[f] = q0 /\ recs'[f] = left
  BY <1>3, <1>7 DEF RecTypeOK
<1>14. q0 # NoRec => q0 \in ToSet(left)
  <2>1. left # <<>> => Head(left) \in ToSet(left)
    <3>1. left # <<>> => 1 \in DOMAIN left /\ Head(left) = left[1]
      BY <1>9
    <3> QED BY <3>1 DEF ToSet
  <2>2. cur[f] # NoRec => cur[f] \in ToSet(recs[f])
    BY <1>7 DEF RecordsListed
  <2> QED BY <1>9, <2>1, <2>2
<1>15. RecordsListed'
  <2>1. \A g \in Face \ {f} : ToSet(left) \cap ToSet(recs[g]) = {}
    BY <1>7, <1>9 DEF RecordsListed
  <2>2. \A q \in Rec : q \notin ToSet(left) /\ (\A g \in Face \ {f} : q \notin ToSet(recs[g]))
                         => rust'[q] = NoSize
    BY <1>7, <1>9, <1>11 DEF RecordsListed, FreeRec
  <2>3. cell'[f] # NoCell
    BY <1>6, <1>7, <1>10, NoElements DEF RecordsListed
  <2> HIDE DEF q0
  <2> QED BY <1>3, <1>6, <1>7, <1>9, <1>13, <1>14, <2>1, <2>2, <2>3, ListedNext
<1>16. OneHolder'
  BY <1>6 DEF RecInv, OneHolder
<1>17. \A g \in Face \ {f} : \A q \in ToSet(recs[g]) : q \in Rec /\ q # r /\ rust'[q] = rust[q]
  <2> SUFFICES ASSUME NEW g \in Face \ {f}, NEW q \in ToSet(recs[g])
               PROVE  q \in Rec /\ q # r /\ rust'[q] = rust[q]
    OBVIOUS
  <2>1. q \in Rec
    <3>1. RecTypeOK /\ g \in Face
      BY <1>7
    <3>2. ToSet(recs[g]) \subseteq Rec
      BY <3>1, Listing
    <3> QED BY <3>2
  <2>2. q # r
    <3>1. ToSet(recs[f]) \cap ToSet(recs[g]) = {}
      BY <1>7 DEF RecordsListed
    <3> QED BY <1>10, <3>1
  <2> QED BY <1>11, <2>1, <2>2
<1>18. ASSUME ~Rebuilding
       PROVE  c = cell[f] /\ \A g \in Face \ {f} : Unrelated(g)
  <2>1. c = cell[f]
    BY <1>6, <1>10, <1>18, OwnedCell
  <2>2. \A g \in Face \ {f} : cell[g] # c
    BY <1>6, <2>1 DEF RecInv, OneHolder, Resolves
  <2>3. \A g \in Face \ {f} : recs'[g] = recs[g] /\ cur'[g] = cur[g] /\ cell'[g] = cell[g]
    BY <1>3, <1>6, <1>7, <1>13 DEF RecTypeOK
  <2>4. \A d \in Cell \ {c} : entries'[d] = entries[d] /\ active'[d] = active[d]
    BY <1>6, <1>7 DEF TypeOK
  <2> QED BY <1>17, <2>1, <2>2, <2>3, <2>4 DEF Unrelated
<1>19. HandlesOwned'
  <2> SUFFICES ASSUME ~Rebuilding
               PROVE  /\ \A g \in Face : \A q \in ToSet(recs'[g]) :
                           rust'[q] # NoSize => rust'[q] \in Handles(cell[g])'
                      /\ \A p, q \in Rec : rust'[p] = rust'[q] /\ rust'[p] # NoSize => p = q
    BY DEF HandlesOwned
  <2>1. \A p, q \in Rec : rust[p] = rust[q] /\ rust[p] # NoSize => p = q
    BY DEF RecInv, HandlesOwned
  <2>2. \A q \in ToSet(recs'[f]) : rust'[q] # NoSize => rust'[q] \in Handles(cell[f])'
    <3> SUFFICES ASSUME NEW q \in ToSet(left), rust'[q] # NoSize
                 PROVE  rust'[q] \in Handles(c)'
      BY <1>6, <1>13, <1>18
    <3>1. q \in ToSet(recs[f]) /\ q # r /\ q \in Rec
      BY <1>7, <1>9, Listing
    <3>2. rust'[q] = rust[q] /\ rust[q] # rust[r]
      BY <1>10, <1>11, <2>1, <3>1
    <3>3. rust[q] \in Handles(c)
      BY <1>18, <3>1, <3>2 DEF RecInv, HandlesOwned
    <3> QED BY <1>12, <3>2, <3>3
  <2>3. \A p, q \in Rec : rust'[p] = rust'[q] /\ rust'[p] # NoSize => p = q
    BY <1>11, <2>1
  <2> QED BY <1>18, <2>2, <2>3, UnrelatedFaces
<1>20. RecordsInStep'
  <2> SUFFICES ASSUME ~Rebuilding, ~Probing
               PROVE  RecordsInStep'
    BY DEF RecordsInStep
  <2>1. InStepAt(f) /\ c = cell[f]
    BY <1>6, <1>18 DEF RecInv, RecordsInStep, InStepAt, Resolves
  <2>2. Mirrors(entries[c], recs[f], rust)
    BY <2>1 DEF InStepAt, Mirrors
  <2>3. i \in 1..Len(entries[c]) /\ Mirrors(RemoveAt(entries[c], i), left, rust)
    BY <1>7, <2>2, MirrorsRemove DEF left
  <2>4. i = j
    <3>1. entries[c][i] = rust[recs[f][i]]
      BY <2>2 DEF Mirrors
    <3> QED BY <1>3, <1>6, <1>7, <2>3, <3>1 DEF HandlesDistinct
  <2>5. \A q \in ToSet(left) : rust'[q] = rust[q]
    BY <1>7, <1>9, <1>11, Listing
  <2>6. Mirrors(rest, left, rust')
    BY <1>9, <2>3, <2>4, <2>5, MirrorsOther DEF rest
  <2>7. entries'[c] = rest
    BY <1>6, <1>7 DEF TypeOK
  <2>8. active'[c] = IF q0 = NoRec THEN NoSize ELSE rust'[q0]
    <3>1. CASE cur[f] = r
      <4>1. active'[c] = Head0(rest)
        BY <1>6, <1>7, <1>10, <2>1, <3>1 DEF InStepAt, TypeOK
      <4>2. CASE left = <<>>
        <5>1. rest = <<>>
          BY <2>6, <4>2 DEF Mirrors
        <5> QED BY <3>1, <4>1, <4>2, <5>1 DEF Head0
      <4>3. CASE left # <<>>
        <5>1. 1 \in 1..Len(left) /\ Head(left) = left[1] /\ Head(left) \in Rec
          BY <1>9, <4>3
        <5>2. rest[1] = rust'[left[1]] /\ 1 \in DOMAIN rest
          BY <2>6, <5>1 DEF Mirrors
        <5>3. rest # <<>> /\ Head(rest) = rest[1]
          BY <5>2
        <5>4. Head(left) # NoRec
          BY <5>1, RecordsAssumption
        <5> QED BY <3>1, <4>1, <4>3, <5>1, <5>2, <5>3, <5>4 DEF Head0
      <4> QED BY <4>2, <4>3
    <3>2. CASE cur[f] # r
      <4>1. cur[f] # NoRec => cur[f] \in Rec /\ cur[f] \in ToSet(left)
        BY <1>7, <1>9, <3>2, Listing DEF RecordsListed
      <4>2. active[c] # rust[r]
        <5>1. active[c] = IF cur[f] = NoRec THEN NoSize ELSE rust[cur[f]]
          BY <2>1 DEF InStepAt
        <5> QED BY <1>10, <3>2, <4>1, <5>1 DEF RecInv, HandlesOwned
      <4> QED BY <1>6, <2>1, <2>5, <3>2, <4>1, <4>2 DEF InStepAt
    <3> QED BY <3>1, <3>2
  <2>9. InStepAt(f)'
    BY <1>6, <1>13, <2>1, <2>6, <2>7, <2>8 DEF InStepAt, Mirrors
  <2> QED BY <1>18, <2>9, UnrelatedFaces
<1> QED BY <1>15, <1>16, <1>19, <1>20 DEF RecInv

\* The calls that publish metrics leave lists, handles and records alone.
LEMMA RecSame ==
  ASSUME RecInv, RecTypeOK', UNCHANGED <<cell, active, entries, recs, cur, rust>>
  PROVE  RecInv'
<1>1. OneHolder' /\ HandlesOwned' /\ RecordsInStep'
  BY DEF RecInv, OneHolder, HandlesOwned, Handles, RecordsInStep
<1>2. RecordsListed'
  <2>1. FreeRec' = FreeRec
    BY DEF FreeRec
  <2> QED BY <2>1 DEF RecInv, RecordsListed
<1> QED BY <1>1, <1>2 DEF RecInv

\* A rebuild replaces the cell under the records; the records stay as they are.
LEMMA RecRebuild ==
  ASSUME IInv, RecInv, RecTypeOK', NEW f \in Face, NEW s \in Scale, Rebuilding,
         finish_variation_coordinate_update(f, s), UNCHANGED <<recs, cur, rust>>
  PROVE  RecInv'
<1>1. PICK c \in FreeCell : cell' = [cell EXCEPT ![f] = c]
  BY DEF finish_variation_coordinate_update, rebuild_face
<1>2. c \in Cell /\ c # NoCell /\ ~Live(c) /\ cell[f] # NoCell
      /\ cell \in [Face -> Cell \union {NoCell}]
  BY SizesAssumption DEF FreeCell, finish_variation_coordinate_update, IInv, TypeOK
<1>3. OneHolder'
  BY <1>1, <1>2 DEF RecInv, OneHolder, Live
<1>4. RecordsListed'
  <2>1. FreeRec' = FreeRec /\ \A g \in Face : cell'[g] = NoCell => cell[g] = NoCell
    BY <1>1, <1>2 DEF FreeRec
  <2> QED BY <2>1 DEF RecInv, RecordsListed
<1> QED BY <1>3, <1>4 DEF RecInv, HandlesOwned, RecordsInStep

LEMMA RecInvInit == RecInit => RecInv
<1> SUFFICES ASSUME RecInit PROVE RecInv
  OBVIOUS
<1>1. RecTypeOK
  BY RecTypeInit
<1>2. /\ \A f \in Face : cell[f] = NoCell /\ recs[f] = <<>> /\ cur[f] = NoRec
      /\ \A r \in Rec : rust[r] = NoSize
  BY DEF RecInit, Init
<1>3. RecordsListed
  BY <1>2, NoElements DEF RecordsListed, FreeRec
<1>4. OneHolder /\ HandlesOwned /\ RecordsInStep
  BY <1>2, NoElements DEF OneHolder, HandlesOwned, RecordsInStep
<1> QED BY <1>1, <1>3, <1>4 DEF RecInv

LEMMA RecInvStep ==
  ASSUME IInv, RecInv, [RecNext]_allVars
  PROVE  RecInv'
<1>1. RecTypeOK'
  BY RecTypeStep DEF RecInv
<1>2. ASSUME NEW f \in Face, NEW s \in Scale, sync_active_size_state(f, s), update_size_metrics(f)
      PROVE  RecInv'
  BY <1>1, <1>2, RecSame DEF sync_active_size_state, update_size_metrics
<1>3. ASSUME NEW f \in Face, NEW s \in Scale,
             Abi_FT_Request_Size(f, s) \/ Abi_FT_Select_Size(f, s)
      PROVE  RecInv'
  BY <1>2, <1>3 DEF Abi_FT_Request_Size, Abi_FT_Select_Size, FT_Request_Size, FT_Select_Size
<1>4. ASSUME NEW f \in Face, NEW s \in Scale, Abi_FT_Set_Var_Design_Coordinates(f, s)
      PROVE  RecInv'
  <2>1. update_size_metrics(f)
    BY <1>4 DEF Abi_FT_Set_Var_Design_Coordinates, sync_face_public_record
  <2>2. CASE refresh_sfnt_variation_fields(f, s)
    BY <1>2, <2>1, <2>2 DEF refresh_sfnt_variation_fields
  <2>3. CASE Rebuilding /\ finish_variation_coordinate_update(f, s)
    BY <1>1, <2>1, <2>3, RecRebuild DEF update_size_metrics
  <2> QED BY <1>4, <2>2, <2>3 DEF Abi_FT_Set_Var_Design_Coordinates
<1>5. ASSUME NEW f \in Face, Abi_FT_Set_Charmap(f)
      PROVE  RecInv'
  BY <1>1, <1>5, RecSame DEF Abi_FT_Set_Charmap, sync_face_public_record, update_size_metrics, vars
<1>6. CASE UNCHANGED allVars
  BY <1>1, <1>6, RecSame DEF allVars, recVars, vars
<1> QED BY <1>1, <1>3, <1>4, <1>5, <1>6, RecOpen, RecClose, RecNew, RecActivate, RecDone
        DEF RecNext

\* Whatever is called through the C API, the record lists stay sound.
THEOREM RecordsInvariance == RecSpec => []RecInv
<1>1. RecInv /\ IInv /\ [RecNext]_allVars => RecInv'
  BY RecInvStep
<1> QED BY RecInvInit, <1>1, RecordsCallCore, Invariance, PTL DEF RecSpec

\* The list of records of a face and the list of its sizes, and the current
\* record and the active size, agree after every call, as long as no face is
\* rebuilt and none is a probe (FaceState::size_records, FaceSizeState).
THEOREM RecordsStayInStep == RecSpec => []RecordsInStep
<1>1. RecInv => RecordsInStep
  BY DEF RecInv
<1> QED BY <1>1, RecordsInvariance, PTL

\* A handle that is found through a record belongs to that record's face and to
\* no other record, probes or not, as long as no face is rebuilt: FT_Done_Size
\* and FT_Activate_Size never reach a size of another face.
THEOREM RecordsOwnHandles ==
  ASSUME ~Rebuilding
  PROVE  RecSpec => []RecordsOwnTheirHandles
<1>1. ASSUME IInv, RecInv
      PROVE  RecordsOwnTheirHandles
  <2> SUFFICES ASSUME NEW f \in Face, NEW r \in Rec, NEW t \in Thread, NEW c \in Cell,
                      r \in ToSet(recs[f]), Resolves(t, rust[r], c),
                      NEW g \in Face, NEW q \in ToSet(recs[g])
               PROVE  c = cell[f] /\ (rust[q] = rust[r] => q = r)
    BY <1>1, OwnedCell DEF RecordsOwnTheirHandles
  <2>1. c = cell[f]
    BY <1>1, OwnedCell
  <2>2. q \in Rec /\ rust[r] # NoSize
    BY <1>1, Listing DEF RecInv, Resolves
  <2> QED BY <1>1, <2>1, <2>2 DEF RecInv, HandlesOwned
<1> QED BY <1>1, RecordsInvariance, RecordsCallCore, Invariance, PTL

-----------------------------------------------------------------------------
(* The promised size list, with records for sizes *)

\* The program clones no face value, opens no probe and rebuilds no face.
Plain == ~Cloning /\ ~Probing /\ ~Rebuilding

AbiInv == ForceInv /\ RecInv

\* The sizes of an open face are those its records stand for.
LEMMA OwnHandles ==
  ASSUME Plain, AbiInv, NEW f \in Face, cell[f] # NoCell
  PROVE  /\ cell[f] \in Cell /\ Len(entries[cell[f]]) = Len(recs[f])
         /\ \A r \in ToSet(recs[f]) : r \in Rec /\ rust[r] \in Addr /\ rust[r] \in Handles(cell[f])
         /\ \A a \in Handles(cell[f]) : \E r \in ToSet(recs[f]) : a = rust[r]
         /\ cur[f] = NoRec => active[cell[f]] = NoSize
         /\ cur[f] # NoRec => cur[f] \in ToSet(recs[f]) /\ active[cell[f]] = rust[cur[f]]
         /\ active[cell[f]] = NoSize => cur[f] = NoRec
<1>1. RecTypeOK /\ RecordsListed /\ RecordsInStep /\ cell[f] \in Cell /\ entries[cell[f]] \in Seq(Addr)
  BY DEF AbiInv, RecInv, RecTypeOK, TypeOK
<1>2. /\ entries[cell[f]] = [i \in 1..Len(recs[f]) |-> rust[recs[f][i]]]
      /\ active[cell[f]] = IF cur[f] = NoRec THEN NoSize ELSE rust[cur[f]]
  BY <1>1 DEF Plain, RecordsInStep
<1>3. recs[f] \in Seq(Rec) /\ ToSet(recs[f]) \subseteq Rec
  BY <1>1, Listing
<1>4. DOMAIN entries[cell[f]] = 1..Len(recs[f]) /\ Len(recs[f]) \in Nat
  BY <1>2, <1>3
<1>5. Len(entries[cell[f]]) = Len(recs[f])
  <2>1. DOMAIN entries[cell[f]] = 1..Len(entries[cell[f]]) /\ Len(entries[cell[f]]) \in Nat
    BY <1>1
  <2> QED BY <1>4, <2>1
<1>6. \A r \in ToSet(recs[f]) : rust[r] \in Addr /\ rust[r] \in Handles(cell[f])
  <2> SUFFICES ASSUME NEW r \in ToSet(recs[f])
               PROVE  rust[r] \in Addr /\ rust[r] \in Handles(cell[f])
    OBVIOUS
  <2>1. PICK i \in 1..Len(recs[f]) : r = recs[f][i]
    BY <1>3 DEF ToSet
  <2>2. entries[cell[f]][i] = rust[r]
    BY <1>2, <2>1
  <2>3. i \in DOMAIN entries[cell[f]] /\ entries[cell[f]][i] \in Addr
    BY <1>1, <1>4, <1>5
  <2> QED BY <2>2, <2>3 DEF Handles, ToSet
<1>7. \A a \in Handles(cell[f]) : \E r \in ToSet(recs[f]) : a = rust[r]
  <2> SUFFICES ASSUME NEW i \in 1..Len(recs[f])
               PROVE  \E r \in ToSet(recs[f]) : entries[cell[f]][i] = rust[r]
    BY <1>4 DEF Handles, ToSet
  <2>1. recs[f][i] \in ToSet(recs[f])
    BY <1>1, Listing
  <2> QED BY <1>2, <2>1
<1>8. cur[f] # NoRec => cur[f] \in ToSet(recs[f])
  BY <1>1 DEF RecordsListed
<1>9. active[cell[f]] = NoSize => cur[f] = NoRec
  BY <1>2, <1>6, <1>8, SizesAssumption
<1> QED BY <1>1, <1>2, <1>3, <1>5, <1>6, <1>7, <1>8, <1>9

\* A closed face has no record, and no current one.
LEMMA ClosedFace ==
  ASSUME AbiInv, NEW f \in Face, cell[f] = NoCell
  PROVE  recs[f] = <<>> /\ cur[f] = NoRec
BY NoElements DEF AbiInv, RecInv, RecordsListed

\* A face has a current record when it has an active size: their bases agree.
LEMMA SameBase == Plain /\ AbiInv => BaseOfRec = BaseOf
<1> SUFFICES ASSUME Plain, AbiInv
             PROVE  BaseOfRec = BaseOf
  OBVIOUS
<1>1. ASSUME NEW f \in Face
      PROVE  cur[f] = NoRec <=> ActiveOf[f] = NoSize
  <2>1. CASE cell[f] = NoCell
    BY <2>1, ClosedFace, Shown DEF AbiInv
  <2>2. CASE cell[f] # NoCell
    BY <2>2, OwnHandles, Shown DEF AbiInv
  <2> QED BY <2>1, <2>2
<1> QED BY <1>1 DEF BaseOfRec, BaseOf

\* Glyphs are loaded at the scale of the current record.
RecLoads ==
  ScaleOf = [f \in Face |-> IF cur[f] = NoRec THEN BaseOfRec[f] ELSE ScaleOfRec[cur[f]]]

LEMMA LoadsAtRecord == Plain /\ AbiInv => RecLoads
<1> SUFFICES ASSUME Plain, AbiInv
             PROVE  RecLoads
  OBVIOUS
<1>1. ASSUME NEW f \in Face
      PROVE  ScaleOf[f] = IF cur[f] = NoRec THEN BaseOfRec[f] ELSE ScaleOfRec[cur[f]]
  <2>1. CASE cur[f] = NoRec
    BY <2>1 DEF BaseOfRec
  <2>2. CASE cur[f] # NoRec
    <3>1. cell[f] # NoCell
      BY <2>2, ClosedFace
    <3>2. /\ cell[f] \in Cell /\ cur[f] \in Rec /\ rust[cur[f]] # NoSize
          /\ active[cell[f]] = rust[cur[f]]
      BY <2>2, <3>1, OwnHandles, SizesAssumption
    <3>3. ScaleOfRec[cur[f]] = state[active[cell[f]]]
      BY <3>2 DEF ScaleOfRec
    <3>4. state[active[cell[f]]] = inner[cell[f]]
      BY <3>2 DEF Plain, AbiInv, ForceInv, ActiveSizeInForce, Live
    <3>5. ScaleOf[f] = inner[cell[f]]
      BY <3>1, Shown DEF AbiInv
    <3> QED BY <2>2, <3>3, <3>4, <3>5
  <2> QED BY <2>1, <2>2
<1>2. ScaleOf = [f \in Face |-> ScaleOf[f]]
  BY DEF ScaleOf
<1> QED BY <1>1, <1>2 DEF RecLoads

\* Both after a step.
LEMMA BaseAndLoads ==
  ASSUME Plain, AbiInv'
  PROVE  BaseOfRec' = BaseOf' /\ AbiPromise!LoadsAtCurrentSize
<1>1. AbiInv' => (Plain => BaseOfRec = BaseOf)' /\ (Plain => RecLoads)'
  BY SameBase, LoadsAtRecord, PTL
<1>2. (Plain => BaseOfRec = BaseOf)' => BaseOfRec' = BaseOf'
  BY DEF Plain
<1>3. (Plain => RecLoads)' => RecLoads'
  BY DEF Plain
<1> QED BY <1>1, <1>2, <1>3 DEF RecLoads, AbiPromise!LoadsAtCurrentSize

\* Lists of records, as the promise speaks of them.
LEMMA RecLists ==
  /\ \A s : AbiPromise!ToSet(s) = ToSet(s)
  /\ \A s, i : AbiPromise!RemoveAt(s, i) = RemoveAt(s, i)
  /\ \A s : AbiPromise!First(s) = IF s = <<>> THEN NoRec ELSE Head(s)
  /\ AbiPromise!Free = FreeRec
BY DEF AbiPromise!ToSet, ToSet, AbiPromise!RemoveAt, RemoveAt, AbiPromise!First,
       AbiPromise!Free, FreeRec

\* The scale a record remembers is that of its size.
LEMMA RecScale ==
  ASSUME NEW r \in Rec
  PROVE  /\ ScaleOfRec[r] = IF rust[r] = NoSize THEN Unsized ELSE state[rust[r]]
         /\ ScaleOfRec'[r] = IF rust'[r] = NoSize THEN Unsized ELSE state'[rust'[r]]
BY DEF ScaleOfRec

LEMMA RecScales ==
  /\ ScaleOfRec = [r \in Rec |-> ScaleOfRec[r]]
  /\ ScaleOfRec' = [r \in Rec |-> ScaleOfRec'[r]]
BY DEF ScaleOfRec

LEMMA AbiInit ==
  ASSUME RecInit
  PROVE  AbiPromise!Init
<1>1. Init /\ recs = [f \in Face |-> <<>>] /\ cur = [f \in Face |-> NoRec]
      /\ rust = [r \in Rec |-> NoSize]
  BY DEF RecInit
<1>2. OpenFaces = {} /\ ScaleOf = [f \in Face |-> Unsized]
  BY <1>1, PromiseInit DEF Promise!Init
<1>3. ScaleOfRec = [r \in Rec |-> Unsized] /\ BaseOfRec = [f \in Face |-> Unsized]
  BY <1>1, <1>2 DEF ScaleOfRec, BaseOfRec
<1> QED BY <1>1, <1>2, <1>3 DEF AbiPromise!Init

\* A size of a face has its record in that face's list.
LEMMA RecordOfSize ==
  ASSUME Plain, AbiInv, NEW f \in Face, cell[f] # NoCell,
         NEW r \in Rec, rust[r] \in Handles(cell[f])
  PROVE  r \in ToSet(recs[f])
<1>1. PICK q \in ToSet(recs[f]) : rust[r] = rust[q]
  BY OwnHandles
<1>2. q \in Rec /\ rust[q] # NoSize
  BY OwnHandles, SizesAssumption
<1> QED BY <1>1, <1>2 DEF Plain, AbiInv, RecInv, HandlesOwned

\* A size is shown by one face.
LEMMA ShownOnce ==
  ASSUME Plain, AbiInv, NEW f \in Face, NEW g \in Face, NEW a,
         a \in ToSet(SizesOf[f]), a \in ToSet(SizesOf[g])
  PROVE  f = g
<1>1. ForceInv /\ cell[f] # NoCell /\ cell[g] # NoCell
  BY Shown, NoElements DEF AbiInv
<1>2. /\ cell[f] \in Cell /\ a \in Handles(cell[f])
      /\ cell[g] \in Cell /\ a \in Handles(cell[g])
  BY <1>1, Shown
<1>3. cell[f] = cell[g]
  BY <1>1, <1>2 DEF ForceInv, IInv, HandlesDistinct
<1> QED BY <1>1, <1>3 DEF Plain, ForceInv

\* ft_store_opened_face lists one record, of the face's default size.
LEMMA AbiOpen ==
  ASSUME Plain, AbiInv, AbiInv', NEW f \in Face, Abi_FT_New_Face(f)
  PROVE  AbiPromise!Open(f)
<1>1. PICK t \in Thread, isProbe \in BOOLEAN : open_face(f, t, isProbe)
  BY DEF Abi_FT_New_Face, FT_New_Memory_Face
<1>2. Promise!Open(f)
  BY <1>1, PromiseOpen DEF Plain, AbiInv
<1>3. PICK r \in FreeRec : /\ recs' = [recs EXCEPT ![f] = <<r>>]
                           /\ cur' = [cur EXCEPT ![f] = r]
                           /\ rust' = [rust EXCEPT ![r] = size'[f]]
  BY DEF Abi_FT_New_Face
<1>4. RecTypeOK /\ TypeOK /\ ForceInv /\ r \in Rec /\ rust[r] = NoSize
  BY DEF AbiInv, RecInv, RecTypeOK, RecordsListed, FreeRec
<1>5. ~isProbe
  <2>1. probe' = [probe EXCEPT ![f] = isProbe] /\ (probe'[f] => Probing)
    BY <1>1 DEF open_face, Abi_FT_New_Face
  <2>2. probe \in [Face -> BOOLEAN]
    BY <1>4 DEF TypeOK
  <2> QED BY <2>1, <2>2 DEF Plain
<1>6. PICK a \in FreeAddr : size'[f] = a /\ UNCHANGED state
  <2>1. PICK es \in InitialEntries(isProbe) : size' = [size EXCEPT ![f] = Head0(es)]
                                              /\ UNCHANGED state
    BY <1>1 DEF open_face
  <2>2. PICK a \in FreeAddr : es = <<a>>
    BY <1>5, <2>1 DEF InitialEntries
  <2>3. size'[f] = Head0(<<a>>)
    BY <1>4, <2>1, <2>2 DEF TypeOK
  <2>4. Head0(<<a>>) = a
    BY DEF Head0
  <2> QED BY <2>1, <2>3, <2>4
<1>7. state[a] = Unsized /\ a # NoSize
  BY <1>4, Fresh, SizesAssumption DEF ForceInv
<1>8. UNCHANGED ScaleOfRec
  <2>1. ASSUME NEW q \in Rec
        PROVE  ScaleOfRec'[q] = ScaleOfRec[q]
    <3>1. CASE q = r
      <4>1. rust'[q] = a
        BY <1>3, <1>4, <1>6, <3>1 DEF RecTypeOK
      <4> QED BY <1>4, <1>6, <1>7, <3>1, <4>1, RecScale
    <3>2. CASE q # r
      <4>1. rust'[q] = rust[q]
        BY <1>3, <1>4, <3>2 DEF RecTypeOK
      <4> QED BY <1>6, <4>1, RecScale
    <3> QED BY <3>1, <3>2
  <2> QED BY <2>1, RecScales
<1>9. UNCHANGED BaseOfRec
  BY <1>2, SameBase, BaseAndLoads DEF Promise!Open
<1>10. AbiPromise!First(<<r>>) = r /\ r \in AbiPromise!Free
  BY RecLists
<1> QED BY <1>2, <1>3, <1>8, <1>9, <1>10 DEF Promise!Open, AbiPromise!Open

\* Drop for FaceState frees the records of the sizes it frees.
LEMMA AbiClose ==
  ASSUME Plain, AbiInv, AbiInv', NEW f \in Face, NEW t \in Thread, Abi_FT_Done_Face(f, t)
  PROVE  AbiPromise!Close(f)
<1>1. Promise!Close(f)
  BY PromiseClose DEF Plain, AbiInv, Abi_FT_Done_Face
<1>2. /\ drop_sizes(recs[f]) /\ recs' = [recs EXCEPT ![f] = <<>>]
      /\ cur' = [cur EXCEPT ![f] = NoRec]
  BY DEF Abi_FT_Done_Face
<1>3. RecTypeOK /\ ForceInv /\ cell[f] # NoCell
  BY DEF AbiInv, RecInv, Abi_FT_Done_Face, FT_Face_Drop
<1>4. \A r \in Rec : rust'[r] = IF r \in ToSet(recs[f]) THEN NoSize ELSE rust[r]
  BY <1>2, <1>3, Dropped
<1>5. \A a \in Addr : a \notin Handles(cell[f]) => state'[a] = state[a]
  BY <1>1, <1>3, Shown, PromisedLists DEF Promise!Close
<1>6. ASSUME NEW r \in Rec
      PROVE  ScaleOfRec'[r] = IF r \in ToSet(recs[f]) THEN Unsized ELSE ScaleOfRec[r]
  <2>1. CASE r \in ToSet(recs[f])
    BY <1>4, <2>1, RecScale
  <2>2. CASE r \notin ToSet(recs[f])
    <3>1. rust'[r] = rust[r] /\ rust[r] \in Addr \union {NoSize}
      BY <1>3, <1>4, <2>2 DEF RecTypeOK
    <3>2. rust[r] \notin Handles(cell[f])
      BY <1>3, <2>2, RecordOfSize
    <3> QED BY <1>5, <2>2, <3>1, <3>2, RecScale
  <2> QED BY <2>1, <2>2
<1>7. ScaleOfRec' = [r \in Rec |-> IF r \in AbiPromise!ToSet(recs[f]) THEN Unsized
                                   ELSE ScaleOfRec[r]]
  BY <1>6, RecScales, RecLists
<1>8. BaseOfRec' = [BaseOfRec EXCEPT ![f] = Unsized]
  BY <1>1, SameBase, BaseAndLoads DEF Promise!Close
<1> QED BY <1>1, <1>2, <1>7, <1>8 DEF Promise!Close, AbiPromise!Close

\* FT_New_Size lists a new record for the new size.
LEMMA AbiNew ==
  ASSUME Plain, AbiInv, AbiInv', NEW f \in Face, Abi_FT_New_Size(f)
  PROVE  AbiPromise!New(f)
<1>1. Promise!New(f) /\ FT_New_Size(f)
  BY PromiseNew DEF Plain, AbiInv, Abi_FT_New_Size
<1>2. PICK a \in Promise!Free : /\ SizesOf' = [SizesOf EXCEPT ![f] = Append(@, a)]
                                /\ state' = [state EXCEPT ![a] = ScaleOf[f]]
  BY <1>1 DEF Promise!New
<1>3. PICK r \in FreeRec : /\ recs' = [recs EXCEPT ![f] = Append(@, r)]
                           /\ rust' = [rust EXCEPT ![r] = Last(entries'[cell[f]])]
  BY DEF Abi_FT_New_Size
<1>4. /\ RecTypeOK /\ TypeOK /\ ForceInv /\ r \in Rec /\ UNCHANGED cur /\ UNCHANGED cell
      /\ cell[f] # NoCell
  BY <1>1 DEF AbiInv, RecInv, RecTypeOK, FreeRec, Abi_FT_New_Size, FT_New_Size
<1>5. a \in Addr /\ a # NoSize /\ \A g \in Face : a \notin ToSet(SizesOf[g])
  BY PromisedLists, SizesAssumption DEF Promise!Free
<1>6. rust'[r] = a
  <2>1. SizesOf[f] \in Seq(Addr) /\ SizesOf'[f] = entries'[cell[f]]
    BY <1>4, Shown, ShownNext
  <2>2. SizesOf'[f] = Append(SizesOf[f], a)
    BY <1>2 DEF SizesOf
  <2>3. Last(Append(SizesOf[f], a)) = a
    BY <1>5, <2>1, Appended DEF Last
  <2>4. rust'[r] = Last(entries'[cell[f]])
    BY <1>3, <1>4 DEF RecTypeOK
  <2> QED BY <2>1, <2>2, <2>3, <2>4
<1>7. ASSUME NEW q \in Rec, q # r
      PROVE  rust'[q] = rust[q] /\ rust[q] # a /\ rust[q] \in Addr \union {NoSize}
  <2>1. rust'[q] = rust[q] /\ rust[q] \in Addr \union {NoSize}
    BY <1>3, <1>4, <1>7 DEF RecTypeOK
  <2>2. rust[q] # NoSize => \E g \in Face : cell[g] \in Cell /\ rust[q] \in Handles(cell[g])
    BY OwnedHandle DEF Plain, AbiInv, ForceInv
  <2>3. \A g \in Face : cell[g] \in Cell => Handles(cell[g]) = ToSet(SizesOf[g])
    BY <1>4, Shown, SizesAssumption
  <2> QED BY <1>5, <2>1, <2>2, <2>3
<1>8. \A b \in Addr : state'[b] = IF b = a THEN ScaleOf[f] ELSE state[b]
  BY <1>2, <1>4 DEF TypeOK
<1>9. ScaleOfRec' = [ScaleOfRec EXCEPT ![r] = ScaleOf[f]]
  <2>1. ScaleOfRec'[r] = ScaleOf[f]
    BY <1>4, <1>5, <1>6, <1>8, RecScale
  <2>2. \A q \in Rec : q # r => ScaleOfRec'[q] = ScaleOfRec[q]
    BY <1>7, <1>8, RecScale
  <2> QED BY <1>4, <2>1, <2>2, RecScales
<1>10. UNCHANGED BaseOfRec
  BY <1>1, SameBase, BaseAndLoads DEF Promise!New
<1>11. r \in AbiPromise!Free
  BY RecLists
<1> QED BY <1>1, <1>3, <1>4, <1>9, <1>10, <1>11 DEF Promise!New, AbiPromise!New

\* FT_Activate_Size makes the record of the size current in its own face.
LEMMA AbiActivate ==
  ASSUME Plain, AbiInv, AbiInv', NEW t \in Thread, NEW f \in Face, NEW r \in Rec,
         Abi_FT_Activate_Size(t, f, r)
  PROVE  AbiPromise!Activate(f, r)
<1> DEFINE a == rust[r]
<1>1. /\ r \in ToSet(recs[f]) /\ FT_Activate_Size(t, a)
      /\ cur' = [cur EXCEPT ![f] = r] /\ UNCHANGED <<recs, rust>>
  BY DEF Abi_FT_Activate_Size
<1>2. cell[f] # NoCell
  BY <1>1, ClosedFace, NoElements
<1>3. a \in Addr /\ a \in ToSet(SizesOf[f])
  BY <1>1, <1>2, OwnHandles, Shown DEF AbiInv
<1>4. PICK g \in Face : Promise!Activate(g, a)
  BY <1>1, <1>3, PromiseActivate DEF Plain, AbiInv
<1>5. g = f
  BY <1>3, <1>4, ShownOnce, PromisedLists DEF Promise!Activate
<1>6. UNCHANGED <<OpenFaces, state>> /\ BaseOf' = [BaseOf EXCEPT ![f] = Unsized]
  BY <1>4, <1>5 DEF Promise!Activate
<1>7. UNCHANGED ScaleOfRec
  BY <1>1, <1>6 DEF ScaleOfRec
<1>8. BaseOfRec' = [BaseOfRec EXCEPT ![f] = Unsized]
  BY <1>6, SameBase, BaseAndLoads
<1> QED BY <1>1, <1>6, <1>7, <1>8, RecLists DEF AbiPromise!Activate

\* FT_Done_Size removes the record with its size; the oldest record left and
\* the oldest size left take over together.
LEMMA AbiDone ==
  ASSUME Plain, AbiInv, AbiInv', NEW t \in Thread, NEW f \in Face, NEW r \in Rec,
         Abi_FT_Done_Size(t, f, r)
  PROVE  AbiPromise!Done(f, r)
<1> DEFINE a == rust[r]
<1>1. FT_Done_Size(t, a) /\ drop_sizes(<<r>>)
  BY DEF Abi_FT_Done_Size
<1>2. PICK i \in 1..Len(recs[f]) :
        LET left == RemoveAt(recs[f], i) IN
        /\ recs[f][i] = r
        /\ recs' = [recs EXCEPT ![f] = left]
        /\ cur' = IF cur[f] # r THEN cur
                  ELSE [cur EXCEPT ![f] = IF left = <<>> THEN NoRec ELSE Head(left)]
  BY DEF Abi_FT_Done_Size
<1> DEFINE left == RemoveAt(recs[f], i)
<1>3. RecTypeOK /\ TypeOK /\ ForceInv
  BY DEF AbiInv, RecInv, RecTypeOK
<1>4. r \in ToSet(recs[f])
  BY <1>2, <1>3, Listing
<1>5. cell[f] # NoCell
  BY <1>4, ClosedFace, NoElements
<1>6. /\ a \in Addr /\ a \in ToSet(SizesOf[f]) /\ Len(SizesOf[f]) = Len(recs[f])
      /\ SizesOf[f] \in Seq(Addr) /\ recs[f] \in Seq(Rec)
  BY <1>3, <1>4, <1>5, OwnHandles, Shown, Listing
<1>7. PICK g \in Face : Promise!Done(g, a)
  BY <1>1, <1>6, PromiseDone DEF Plain, AbiInv
<1>8. PICK j \in 1..Len(SizesOf[g]) :
        LET sizes == Promise!RemoveAt(SizesOf[g], j) IN
        /\ SizesOf[g][j] = a
        /\ SizesOf' = [SizesOf EXCEPT ![g] = sizes]
        /\ IF ActiveOf[g] = a
             THEN /\ ActiveOf' = [ActiveOf EXCEPT ![g] = Promise!First(sizes)]
                  /\ BaseOf' = IF sizes = <<>> THEN [BaseOf EXCEPT ![g] = ScaleOf[g]] ELSE BaseOf
             ELSE UNCHANGED <<ActiveOf, BaseOf>>
  BY <1>7 DEF Promise!Done
<1> DEFINE sizes == RemoveAt(SizesOf[g], j)
<1>9. g = f
  <2>1. a \in ToSet(SizesOf[g])
    BY <1>8 DEF ToSet
  <2> QED BY <1>6, <2>1, ShownOnce
<1>10. left = <<>> <=> sizes = <<>>
  <2>1. left \in Seq(Rec) /\ Len(left) = Len(recs[f]) - 1
    BY <1>6, Shortened
  <2>2. sizes \in Seq(Addr) /\ Len(sizes) = Len(recs[f]) - 1
    BY <1>6, <1>8, <1>9, Shortened
  <2> HIDE DEF left, sizes
  <2> QED BY <2>1, <2>2
<1>11. sizes = Promise!RemoveAt(SizesOf[g], j)
  BY PromisedLists
<1> HIDE DEF sizes
<1>12. ActiveOf[f] = a => BaseOf' = IF left = <<>> THEN [BaseOf EXCEPT ![f] = ScaleOf[f]] ELSE BaseOf
  BY <1>8, <1>9, <1>10, <1>11
<1>13. ActiveOf[f] # a => UNCHANGED BaseOf
  BY <1>8, <1>9
<1>14. UNCHANGED OpenFaces /\ state' = [state EXCEPT ![a] = Unsized]
  BY <1>7 DEF Promise!Done
<1>15. cur[f] = r <=> ActiveOf[f] = a
  <2>1. ActiveOf[f] = active[cell[f]]
    BY <1>3, <1>5, Shown
  <2>2. cur[f] = NoRec => active[cell[f]] = NoSize
    BY <1>5, OwnHandles
  <2>3. cur[f] # NoRec => active[cell[f]] = rust[cur[f]] /\ cur[f] \in Rec
    BY <1>5, OwnHandles
  <2>4. \A q \in Rec : rust[q] = a => q = r
    BY <1>6, SizesAssumption DEF Plain, AbiInv, RecInv, HandlesOwned
  <2>5. a # NoSize /\ r # NoRec
    BY <1>6, SizesAssumption, RecordsAssumption
  <2> QED BY <2>1, <2>2, <2>3, <2>4, <2>5
<1>16. ScaleOfRec' = [ScaleOfRec EXCEPT ![r] = Unsized]
  <2>1. ToSet(<<r>>) = {r}
    BY OneEntry
  <2>2. \A q \in Rec : rust'[q] = IF q = r THEN NoSize ELSE rust[q]
    BY <1>1, <1>3, <2>1, Dropped
  <2>3. \A q \in Rec : q # r => rust[q] # a /\ rust[q] \in Addr \union {NoSize}
    BY <1>3, <1>6, SizesAssumption DEF Plain, AbiInv, RecInv, HandlesOwned, RecTypeOK
  <2>4. \A b \in Addr : b # a => state'[b] = state[b]
    BY <1>3, <1>14 DEF TypeOK
  <2>5. \A q \in Rec : ScaleOfRec'[q] = IF q = r THEN Unsized ELSE ScaleOfRec[q]
    BY <2>2, <2>3, <2>4, RecScale
  <2> QED BY <2>5, RecScales
<1>17. UNCHANGED OpenFaces /\ BaseOfRec = BaseOf /\ BaseOfRec' = BaseOf'
  BY <1>14, SameBase, BaseAndLoads
<1>18. left = AbiPromise!RemoveAt(recs[f], i)
       /\ AbiPromise!First(left) = IF left = <<>> THEN NoRec ELSE Head(left)
  BY RecLists
<1>19. /\ recs[f][i] = r /\ recs' = [recs EXCEPT ![f] = left]
       /\ cur' = IF cur[f] # r THEN cur ELSE [cur EXCEPT ![f] = AbiPromise!First(left)]
  BY <1>2, <1>18
<1> HIDE DEF left
<1>20. IF cur[f] = r
         THEN /\ cur' = [cur EXCEPT ![f] = AbiPromise!First(left)]
              /\ BaseOfRec' = IF left = <<>> THEN [BaseOfRec EXCEPT ![f] = ScaleOf[f]] ELSE BaseOfRec
         ELSE UNCHANGED <<cur, BaseOfRec>>
  BY <1>12, <1>13, <1>15, <1>17, <1>19
<1> QED BY <1>2, <1>16, <1>17, <1>18, <1>19, <1>20 DEF AbiPromise!Done

\* The setters of scales reach the current record's size.
LEMMA AbiRequest ==
  ASSUME Plain, AbiInv, AbiInv', NEW f \in Face, NEW s \in Scale, cell[f] # NoCell,
         sync_active_size_state(f, s), UNCHANGED <<recs, cur, rust>>
  PROVE  AbiPromise!Request(f, s)
<1>1. Promise!Request(f, s)
  BY PromiseRequest DEF Plain, AbiInv
<1>2. RecTypeOK /\ TypeOK /\ ForceInv
  BY DEF AbiInv, RecInv, RecTypeOK
<1>3. ActiveOf[f] = active[cell[f]] /\ UNCHANGED OpenFaces /\ f \in OpenFaces
  BY <1>1, <1>2, Shown DEF Promise!Request
<1>4. BaseOfRec = BaseOf /\ BaseOfRec' = BaseOf'
  BY SameBase, BaseAndLoads
<1>5. CASE cur[f] = NoRec
  <2>1. ActiveOf[f] = NoSize
    BY <1>3, <1>5, OwnHandles
  <2>2. BaseOf' = [BaseOf EXCEPT ![f] = s] /\ UNCHANGED state
    BY <1>1, <2>1 DEF Promise!Request
  <2>3. UNCHANGED ScaleOfRec
    BY <2>2 DEF ScaleOfRec
  <2> QED BY <1>3, <1>4, <1>5, <2>2, <2>3 DEF AbiPromise!Request
<1>6. CASE cur[f] # NoRec
  <2> DEFINE r == cur[f]
             a == rust[r]
  <2>1. r \in Rec /\ ActiveOf[f] = a /\ a \in Addr /\ a # NoSize
    BY <1>3, <1>6, OwnHandles, SizesAssumption
  <2>2. state' = [state EXCEPT ![a] = s] /\ UNCHANGED BaseOf
    BY <1>1, <2>1 DEF Promise!Request
  <2>3. \A q \in Rec : q # r => rust[q] # a /\ rust[q] \in Addr \union {NoSize}
    BY <1>2, <2>1 DEF Plain, AbiInv, RecInv, HandlesOwned, RecTypeOK
  <2>4. \A b \in Addr : state'[b] = IF b = a THEN s ELSE state[b]
    BY <1>2, <2>2 DEF TypeOK
  <2> HIDE DEF r
  <2>5. \A q \in Rec : ScaleOfRec'[q] = IF q = r THEN s ELSE ScaleOfRec[q]
    BY <2>1, <2>3, <2>4, RecScale
  <2>6. ScaleOfRec' = [ScaleOfRec EXCEPT ![r] = s]
    BY <2>5, RecScales
  <2> QED BY <1>3, <1>4, <1>6, <2>2, <2>6 DEF AbiPromise!Request, r
<1> QED BY <1>5, <1>6

\* Every call of the C API is a promised call, or shows nothing new.
LEMMA AbiStep ==
  ASSUME Plain, AbiInv, AbiInv', [RecNext]_allVars
  PROVE  [AbiPromise!Next]_(AbiPromise!vars)
<1>1. AbiPromise!LoadsAtCurrentSize
  BY BaseAndLoads
<1>2. ASSUME NEW f \in Face, Abi_FT_New_Face(f)
      PROVE  AbiPromise!Next
  BY <1>1, <1>2, AbiOpen DEF AbiPromise!Next
<1>3. ASSUME NEW f \in Face, NEW t \in Thread, Abi_FT_Done_Face(f, t)
      PROVE  AbiPromise!Next
  BY <1>1, <1>3, AbiClose DEF AbiPromise!Next
<1>4. ASSUME NEW f \in Face, Abi_FT_New_Size(f)
      PROVE  AbiPromise!Next
  BY <1>1, <1>4, AbiNew DEF AbiPromise!Next
<1>5. ASSUME NEW f \in Face, NEW s \in Scale,
             \/ Abi_FT_Request_Size(f, s) \/ Abi_FT_Select_Size(f, s)
             \/ Abi_FT_Set_Var_Design_Coordinates(f, s)
      PROVE  AbiPromise!Next
  <2>1. cell[f] # NoCell /\ sync_active_size_state(f, s) /\ UNCHANGED <<recs, cur, rust>>
    BY <1>5 DEF Plain, Abi_FT_Request_Size, Abi_FT_Select_Size, Abi_FT_Set_Var_Design_Coordinates,
                FT_Request_Size, FT_Select_Size, refresh_sfnt_variation_fields,
                update_size_metrics, sync_face_public_record
  <2>2. AbiPromise!Request(f, s)
    BY <2>1, AbiRequest
  <2> QED BY <1>1, <2>2 DEF AbiPromise!Next
<1>6. ASSUME NEW t \in Thread, NEW f \in Face, NEW r \in Rec,
             Abi_FT_Activate_Size(t, f, r) \/ Abi_FT_Done_Size(t, f, r)
      PROVE  AbiPromise!Next
  <2>1. AbiPromise!Activate(f, r) \/ AbiPromise!Done(f, r)
    BY <1>6, AbiActivate, AbiDone
  <2> QED BY <1>1, <2>1 DEF AbiPromise!Next
<1>7. ASSUME UNCHANGED vars, UNCHANGED <<recs, cur, rust>>
      PROVE  UNCHANGED AbiPromise!vars
  BY <1>7 DEF vars, AbiPromise!vars, OpenFaces, ScaleOf, ScaleOfRec, BaseOfRec, OfCell
<1>8. ASSUME NEW f \in Face, Abi_FT_Set_Charmap(f)
      PROVE  UNCHANGED AbiPromise!vars
  BY <1>7, <1>8 DEF Abi_FT_Set_Charmap, sync_face_public_record, update_size_metrics
<1>9. UNCHANGED allVars => UNCHANGED AbiPromise!vars
  BY <1>7 DEF allVars, recVars
<1> QED BY <1>2, <1>3, <1>4, <1>5, <1>6, <1>8, <1>9 DEF RecNext

\* A C program that opens no probe and rebuilds no face sees the size list of
\* ftsizes.h, with FT_Size records for sizes: the record lists of the facade,
\* the sizes of the core, threads and registries together implement it.
THEOREM RecordsListImplemented ==
  ASSUME ~Cloning, ~Probing, ~Rebuilding
  PROVE  RecSpec => RecordsImplementSizeList
<1>1. RecInit => AbiPromise!Init
  BY AbiInit
<1>2. Plain
  BY DEF Plain
<1>3. AbiInv /\ AbiInv' /\ [RecNext]_allVars => [AbiPromise!Next]_(AbiPromise!vars)
  BY <1>2, AbiStep
<1>4. RecSpec => []ForceInv /\ []RecInv
  BY RecordsCallCore, ForceInvariance, RecordsInvariance, PTL
<1>5. ForceInv /\ RecInv => AbiInv
  BY DEF AbiInv
<1>6. RecSpec => []AbiInv
  BY <1>4, <1>5, PTL
<1> QED BY <1>1, <1>3, <1>6, PTL DEF RecSpec, RecordsImplementSizeList, AbiPromise!Spec
===============================================================================
