----------------------------- MODULE FaceSizes -----------------------------
(***************************************************************************)
(* FT_Size objects of the core crate (src/ffi/handles.rs).                 *)
(*                                                                         *)
(* An FT_Face value owns, behind two Rc<RefCell<_>> that always travel     *)
(* together, the parsed face (whose "active size state" decides at which   *)
(* scale glyphs are loaded) and a FaceSizeState, the list of its sizes.    *)
(* Such a pair is a CELL here.  A size is a boxed SizeToken: the FT_Size   *)
(* handle a program holds is the address of the box, so the allocator may  *)
(* give the address of a destroyed size to a later one.  A handle is       *)
(* resolved through a registry local to the calling thread, which maps     *)
(* addresses to Weak references to a cell.                                 *)
(*                                                                         *)
(* A step is one call of the API.  Calls that return an error before they  *)
(* change anything are stuttering steps.                                   *)
(***************************************************************************)
EXTENDS Integers, SequencesExt

CONSTANTS
  Face,      \* the FT_Face values the program can hold at the same time
  Cell,      \* allocations of the Rc pair (api::Face, FaceSizeState)
  Addr,      \* addresses the allocator can give to a SizeToken
  Thread,    \* threads, each with its own SIZE_HANDLE_REGISTRY
  Scale,     \* the values of an ActiveSizeState
  Unsized,   \* the state of a face before its first size request
  NoCell,    \* "no FT_Face here", "no registry entry"
  NoSize,    \* the null FT_Size
  Cloning    \* does the program clone FT_Face values (they are Clone)?

ASSUME SizesAssumption ==
  /\ Unsized \in Scale
  /\ NoCell \notin Cell
  /\ NoSize \notin Addr
  /\ Cloning \in BOOLEAN

VARIABLES
  cell,      \* FT_Face::inner and ::sizes, the cell a face value holds
  probe,     \* FT_Face::probe_only
  home,      \* the thread that opened the cell; FT_Face is not Send
  inner,     \* api::Face: the scale at which glyphs are loaded
  active,    \* FaceSizeState::active
  entries,   \* FaceSizeState::entries, by address, in order of creation
  state,     \* SizeEntry::state, by address
  registry,  \* SIZE_HANDLE_REGISTRY of every thread
  size,      \* FT_Face::size, the public copy of the active handle
  metrics    \* FT_Face::size_metrics, the public copy of its metrics

vars == <<cell, probe, home, inner, active, entries, state, registry,
          size, metrics>>

-----------------------------------------------------------------------------

\* The strong references keep a cell alive; Weak::upgrade asks for nothing else.
Live(c) == \E f \in Face : cell[f] = c

\* The sizes of a cell; a dead cell has none.
Handles(c) == ToSet(entries[c])

\* A boxed token has an address no other box has while it lives.
FreeAddr == Addr \ UNION {Handles(c) : c \in Cell}

\* Mutant: a registry of raw pointers, which keeps no allocation from reuse.
FreeCell_raw == {c \in Cell : ~Live(c)}

\* The memory of an Rc is given back when neither a strong nor a Weak
\* reference is left: a Weak in a registry keeps its allocation from reuse.
FreeCell == {c \in Cell : ~Live(c) /\ \A t \in Thread, a \in Addr : registry[t][a] # c}

TypeOK ==
  /\ cell \in [Face -> Cell \union {NoCell}]
  /\ probe \in [Face -> BOOLEAN]
  /\ home \in [Cell -> Thread]
  /\ inner \in [Cell -> Scale]
  /\ active \in [Cell -> Addr \union {NoSize}]
  /\ entries \in [Cell -> Seq(Addr)]
  /\ state \in [Addr -> Scale]
  /\ registry \in [Thread -> [Addr -> Cell \union {NoCell}]]
  /\ size \in [Face -> Addr \union {NoSize}]
  /\ metrics \in [Face -> Scale]

Init ==
  /\ cell = [f \in Face |-> NoCell]
  /\ probe = [f \in Face |-> FALSE]
  /\ home \in [Cell -> Thread]
  /\ inner = [c \in Cell |-> Unsized]
  /\ active = [c \in Cell |-> NoSize]
  /\ entries = [c \in Cell |-> <<>>]
  /\ state = [a \in Addr |-> Unsized]
  /\ registry = [t \in Thread |-> [a \in Addr |-> NoCell]]
  /\ size = [f \in Face |-> NoSize]
  /\ metrics = [f \in Face |-> Unsized]

-----------------------------------------------------------------------------
(* Helpers of the operations *)

Head0(es) == IF es = <<>> THEN NoSize ELSE Head(es)

\* FaceSizeState::new, or FaceSizeState::empty for a metadata-only probe
InitialEntries(isProbe) == IF isProbe THEN {<<>>} ELSE {<<a>> : a \in FreeAddr}

register_face_size_handles(reg, t, es, c) ==
  [reg EXCEPT ![t] = [a \in Addr |-> IF a \in ToSet(es) THEN c ELSE reg[t][a]]]

unregister_everything(reg, t, es) == [reg EXCEPT ![t] = [a \in Addr |-> NoCell]]

unregister_size_handles(reg, t, es) == register_face_size_handles(reg, t, es, NoCell)

\* The boxes of the sizes es are freed.
freed(st, es) == [a \in Addr |-> IF a \in ToSet(es) THEN Unsized ELSE st[a]]

\* lookup_size_owner and the two Weak::upgrade: the cell that thread t finds
\* for a handle, if FaceSizeState still lists the handle.
Resolves(t, a, c) ==
  /\ a # NoSize
  /\ registry[t][a] = c
  /\ c # NoCell
  /\ Live(c)
  /\ a \in Handles(c)

\* Mutant: every size of the face takes the new state.
sync_every_size(f, s) ==
  LET c == cell[f] IN
  /\ inner' = [inner EXCEPT ![c] = s]
  /\ state' = [a \in Addr |-> IF a \in Handles(c) THEN s ELSE state[a]]
  /\ size' = [size EXCEPT ![f] = active[c]]
  /\ metrics' = [metrics EXCEPT ![f] = s]
  /\ UNCHANGED <<cell, probe, home, active, entries, registry>>

\* The setter has put scale s in the face; copy it to the active entry and to
\* the public fields of the face value it was called on.
sync_active_size_state(f, s) ==
  LET c == cell[f] IN
  /\ inner' = [inner EXCEPT ![c] = s]
  /\ state' = IF active[c] = NoSize THEN state ELSE [state EXCEPT ![active[c]] = s]
  /\ size' = [size EXCEPT ![f] = active[c]]
  /\ metrics' = [metrics EXCEPT ![f] = s]
  /\ UNCHANGED <<cell, probe, home, active, entries, registry>>

-----------------------------------------------------------------------------
(* Faces *)

\* face_to_ffi for a face value that is not in use: a new cell with the
\* default size, none for a probe, registered on the thread that opens it.
open_face(f, t, isProbe) ==
  \E c \in FreeCell, es \in InitialEntries(isProbe) :
    /\ cell[f] = NoCell
    /\ cell' = [cell EXCEPT ![f] = c]
    /\ probe' = [probe EXCEPT ![f] = isProbe]
    /\ home' = [home EXCEPT ![c] = t]
    /\ inner' = [inner EXCEPT ![c] = Unsized]
    /\ active' = [active EXCEPT ![c] = Head0(es)]
    /\ entries' = [entries EXCEPT ![c] = es]
    /\ registry' = register_face_size_handles(registry, t, es, c)
    /\ size' = [size EXCEPT ![f] = Head0(es)]
    /\ metrics' = [metrics EXCEPT ![f] = Unsized]
    /\ UNCHANGED state

FT_New_Memory_Face(f) == \E t \in Thread, isProbe \in BOOLEAN : open_face(f, t, isProbe)

\* A face recreated from another one shares its parsed tables and nothing else.
FT_New_Memory_Face_From_Source(f, g) ==
  /\ cell[g] # NoCell
  /\ open_face(f, home[cell[g]], FALSE)

\* FT_Face derives Clone: the copy shares the cell and copies the public fields.
FT_Face_Clone(f, g) ==
  /\ Cloning
  /\ cell[f] = NoCell
  /\ cell[g] # NoCell
  /\ cell' = [cell EXCEPT ![f] = cell[g]]
  /\ probe' = [probe EXCEPT ![f] = probe[g]]
  /\ size' = [size EXCEPT ![f] = size[g]]
  /\ metrics' = [metrics EXCEPT ![f] = metrics[g]]
  /\ UNCHANGED <<home, inner, active, entries, state, registry>>

LastHolder(f) == \A g \in Face \ {f} : cell[g] # cell[f]

\* The face value goes out of scope on thread t.  With the last holder the
\* cell goes too: Drop for FaceSizeState clears its sizes from the registry
\* of the thread it runs on, which need not be the one that opened the face
\* (a library, and its faces with it, may be destroyed by another thread).
FT_Face_Drop(f, t) ==
  LET c == cell[f] IN
  /\ c # NoCell
  /\ cell' = [cell EXCEPT ![f] = NoCell]
  /\ probe' = [probe EXCEPT ![f] = FALSE]
  /\ size' = [size EXCEPT ![f] = NoSize]
  /\ metrics' = [metrics EXCEPT ![f] = Unsized]
  /\ IF LastHolder(f)
       THEN /\ registry' = unregister_size_handles(registry, t, entries[c])
            /\ entries' = [entries EXCEPT ![c] = <<>>]
            /\ active' = [active EXCEPT ![c] = NoSize]
            /\ inner' = [inner EXCEPT ![c] = Unsized]
            /\ state' = freed(state, entries[c])
       ELSE UNCHANGED <<registry, entries, active, inner, state>>
  /\ UNCHANGED home

-----------------------------------------------------------------------------
(* Sizes *)

\* A new size is a copy of the active size state and is not activated.
FT_New_Size(f) ==
  LET c == cell[f] IN
  /\ c # NoCell
  /\ \E a \in FreeAddr :
       /\ entries' = [entries EXCEPT ![c] = Append(@, a)]
       /\ state' = [state EXCEPT ![a] = inner[c]]
       /\ registry' = register_face_size_handles(registry, home[c], <<a>>, c)
  /\ UNCHANGED <<cell, probe, home, inner, active, size, metrics>>

\* Mutant: the active handle moves, the face keeps its scale.
activate_without_state(t, a) ==
  \E c \in Cell :
    /\ Resolves(t, a, c)
    /\ active' = [active EXCEPT ![c] = a]
    /\ UNCHANGED <<cell, probe, home, inner, entries, state, registry, size, metrics>>

\* The handle is looked up on the calling thread; the public fields of the
\* faces that hold the cell are out of reach from here and are left alone.
FT_Activate_Size(t, a) ==
  \E c \in Cell :
    /\ Resolves(t, a, c)
    /\ active' = [active EXCEPT ![c] = a]
    /\ inner' = [inner EXCEPT ![c] = state[a]]
    /\ UNCHANGED <<cell, probe, home, entries, state, registry, size, metrics>>

\* FaceSizeState::remove: a destroyed active size is replaced by the first of
\* those left, whose state the face takes over; without one it keeps its own.
FT_Done_Size(t, a) ==
  \E c \in Cell :
    /\ Resolves(t, a, c)
    /\ \E i \in 1..Len(entries[c]) :
         LET left == RemoveAt(entries[c], i) IN
         /\ entries[c][i] = a
         /\ entries' = [entries EXCEPT ![c] = left]
         /\ IF active[c] = a
              THEN /\ active' = [active EXCEPT ![c] = Head0(left)]
                   /\ inner' = IF left = <<>> THEN inner
                               ELSE [inner EXCEPT ![c] = state[Head(left)]]
              ELSE UNCHANGED <<active, inner>>
    /\ registry' = unregister_size_handles(registry, t, <<a>>)
    /\ state' = freed(state, <<a>>)
    /\ UNCHANGED <<cell, probe, home, size, metrics>>

\* FT_Set_Char_Size, FT_Set_Pixel_Sizes, FT_Request_Size: refused without an
\* active size; a scale the request cannot be converted to is an early return.
FT_Request_Size(f, s) ==
  /\ cell[f] # NoCell
  /\ active[cell[f]] # NoSize
  /\ s # Unsized
  /\ sync_active_size_state(f, s)

\* FT_Select_Size asks for a fixed strike, never for an active size.
FT_Select_Size(f, s) ==
  /\ cell[f] # NoCell
  /\ ~probe[f]
  /\ s # Unsized
  /\ sync_active_size_state(f, s)

-----------------------------------------------------------------------------
(* Variation coordinates *)

\* VariationUpdate::ReusedParsedTables: the metrics of the active size follow
\* the new tables (an unsized face stays unsized) and the handles survive.
refresh_sfnt_variation_fields(f, s) ==
  /\ cell[f] # NoCell
  /\ inner[cell[f]] = Unsized <=> s = Unsized
  /\ sync_active_size_state(f, s)

\* VariationUpdate::Rebuilt, named instances and Type 1 blends: the shared
\* face takes the new state, then this face value is replaced by a new one
\* with a new cell, and drops its reference to the old one.
rebuild_face(f, s, c, es) ==
  LET old == cell[f]
      reg == register_face_size_handles(registry, home[old], es, c) IN
  /\ cell' = [cell EXCEPT ![f] = c]
  /\ home' = [home EXCEPT ![c] = home[old]]
  /\ size' = [size EXCEPT ![f] = Head0(es)]
  /\ metrics' = [metrics EXCEPT ![f] = s]
  /\ IF LastHolder(f)
       THEN /\ registry' = unregister_size_handles(reg, home[old], entries[old])
            /\ entries' = [entries EXCEPT ![old] = <<>>, ![c] = es]
            /\ active' = [active EXCEPT ![old] = NoSize, ![c] = Head0(es)]
            /\ inner' = [inner EXCEPT ![old] = Unsized, ![c] = s]
            /\ state' = [a \in Addr |-> IF a \in ToSet(es) THEN s
                                        ELSE freed(state, entries[old])[a]]
       ELSE /\ registry' = reg
            /\ entries' = [entries EXCEPT ![c] = es]
            /\ active' = [active EXCEPT ![c] = Head0(es)]
            /\ inner' = [inner EXCEPT ![old] = s, ![c] = s]
            /\ state' = [a \in Addr |-> IF a \in ToSet(es) THEN s ELSE state[a]]
  /\ UNCHANGED probe

finish_variation_coordinate_update(f, s) ==
  /\ cell[f] # NoCell
  /\ \E c \in FreeCell, es \in InitialEntries(probe[f]) : rebuild_face(f, s, c, es)

\* Every setter of coordinates ends in one of the two ways.
FT_Set_Var_Design_Coordinates(f, s) ==
  \/ refresh_sfnt_variation_fields(f, s)
  \/ finish_variation_coordinate_update(f, s)

-----------------------------------------------------------------------------

FaceStep(f) ==
  \/ FT_New_Memory_Face(f)
  \/ \E g \in Face : FT_New_Memory_Face_From_Source(f, g)
  \/ \E g \in Face : FT_Face_Clone(f, g)
  \/ \E t \in Thread : FT_Face_Drop(f, t)
  \/ FT_New_Size(f)
  \/ \E s \in Scale : \/ FT_Request_Size(f, s)
                      \/ FT_Select_Size(f, s)
                      \/ FT_Set_Var_Design_Coordinates(f, s)

HandleStep(t, a) ==
  \/ FT_Activate_Size(t, a)
  \/ FT_Done_Size(t, a)

Next ==
  \/ \E f \in Face : FaceStep(f)
  \/ \E t \in Thread, a \in Addr : HandleStep(t, a)

Spec == Init /\ [][Next]_vars

-----------------------------------------------------------------------------
(* Properties *)

\* What a thread finds for a handle is the cell that lists it now: an entry
\* that outlived its size (its cell died on another thread) leads nowhere,
\* even after the allocator has given the address to a size of another face.
RegistrySound ==
  \A t \in Thread, a \in Addr, c \in Cell :
    registry[t][a] = c /\ Live(c) => t = home[c] /\ a \in Handles(c)

\* Every size of a living face can be found on the thread that opened it, so
\* the program can activate and destroy it.
HandlesRegistered ==
  \A c \in Cell : Live(c) => \A a \in Handles(c) : registry[home[c]][a] = c

\* A handle is listed once, by one living cell, and dead cells list nothing.
HandlesDistinct ==
  /\ \A c, d \in Cell : Handles(c) \cap Handles(d) # {} => c = d
  /\ \A c \in Cell : \A i, j \in 1..Len(entries[c]) :
       entries[c][i] = entries[c][j] => i = j
  /\ \A c \in Cell : ~Live(c) => entries[c] = <<>>

\* The active handle of a face is one of its sizes; none only without sizes,
\* or on a probe, whose first size must be activated by hand.
ActiveListed ==
  \A c \in Cell : active[c] # NoSize => active[c] \in Handles(c)

\* Glyphs are loaded at the scale the active size remembers.  (A clone whose
\* twin got other variation coordinates is the exception: see FT_Face_Clone.)
ActiveSizeInForce ==
  ~Cloning => \A c \in Cell : Live(c) /\ active[c] # NoSize => state[active[c]] = inner[c]

\* A size that is not active keeps its state through every call, whichever
\* face or size the call is about.
InactiveSizesKeepState ==
  [][\A c \in Cell : \A a \in Handles(c) :
       (Live(c) /\ Live(c)' /\ a # active[c] /\ a \in Handles(c)')
         => state'[a] = state[a]]_vars

-----------------------------------------------------------------------------
(* Without clones, the cells, threads and registries implement the promise *)

OfCell(f, g, none) == IF cell[f] = NoCell THEN none ELSE g[cell[f]]

OpenFaces == {f \in Face : cell[f] # NoCell}
SizesOf == [f \in Face |-> OfCell(f, entries, <<>>)]
ActiveOf == [f \in Face |-> OfCell(f, active, NoSize)]
ScaleOf == [f \in Face |-> OfCell(f, inner, Unsized)]
BaseOf == [f \in Face |-> IF ActiveOf[f] = NoSize THEN ScaleOf[f] ELSE Unsized]

Promise == INSTANCE SizeList WITH
  open <- OpenFaces, list <- SizesOf, cur <- ActiveOf, scale <- state, base <- BaseOf,
  loads <- ScaleOf

\* Every call of the size API is a call of the promised one, or changes
\* nothing a caller of that one could see.
ImplementsSizeList == Promise!Spec
=============================================================================
