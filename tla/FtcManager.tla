----------------------------- MODULE FtcManager -----------------------------
(***************************************************************************)
(* The cache manager of the C ABI (fontdone-c-abi/src/implementation.rs).  *)
(*                                                                         *)
(* A manager keeps the faces a program asked for by id, and caches on top  *)
(* of them: image and small-bitmap caches, whose entries lead to nodes the *)
(* manager owns and the program may hold references to, and character map  *)
(* caches, whose entries are plain glyph indices.  A face that is not      *)
(* cached is obtained by calling the program back (the requester), and the *)
(* program may call the manager again before the requester returns.  A     *)
(* lookup that misses is therefore two steps: its start, which leaves the  *)
(* call on a stack, and its end, which the requester's result decides.     *)
(* The same is true of removals and resets: destroying a face runs the     *)
(* finalizer the program gave it, and only then are the entries removed.   *)
(*                                                                         *)
(* Which bitmap a node holds, sizes (LookupSize ends like LookupFace, with *)
(* the face's one size record, see SizeRecords) and the limits on faces,   *)
(* sizes and bytes (stored and never read by the code) have no part here.  *)
(***************************************************************************)
EXTENDS Integers, SequencesExt

CONSTANTS
  Id,          \* FTC_FaceID
  Face,        \* FT_Face handles the requester may return
  Key,         \* the rest of a lookup key: scaler, flags, glyph; or char code
  Node,        \* FTC_NodeRec allocations
  Cache,       \* cache handles of every kind
  NoFace, NoNode,
  MaxCaches,   \* 16 in the code
  MaxCalls,    \* bound: requesters and finalizers nested in each other
  MaxRefs,     \* bound: references the program holds to one node
  SelfRequests \* may a requester look up the very face it is asked for?

ASSUME FtcAssumption ==
  /\ NoFace \notin Face
  /\ NoNode \notin Node
  /\ MaxCaches \in Nat /\ MaxCalls \in Nat /\ MaxRefs \in Nat
  /\ SelfRequests \in BOOLEAN

VARIABLES
  live,     \* is the manager in live_cache_managers?
  faces,    \* FTC_ManagerRec::faces
  nodes,    \* FTC_ManagerRec::nodes
  kind,     \* the kind of each cache handle, "none" while it is not in use
  entries,  \* entries of the image and sbit caches: key to node
  answers,  \* entries of the cmap caches: key to the face that was asked
  shows,    \* FTC_NodeRec::payload: the kind and key of the lookup it answers
            \* and the face it was loaded from
  refs,     \* FTC_NodeRec::ref_count
  held,     \* references the program got from lookups and has not given back
  open,     \* faces the program opened for the manager and nobody destroyed
  calls     \* calls that wait for a requester or a finalizer, innermost first

vars == <<live, faces, nodes, kind, entries, answers, shows, refs, held, open, calls>>

Slot == Id \X Key
GlyphKind == {"image", "sbit"}
Kind == GlyphKind \union {"cmap"}
Nothing == [kind |-> "none", slot |-> <<>>, face |-> NoFace]
Payload == [kind : GlyphKind, slot : Slot, face : Face]

\* A lookup waits for a requester: FTC_Manager_LookupFace and LookupSize want
\* the face only.
Lookup == [for : {"face"}, id : Id]
            \union [for : {"entry"}, id : Id, cache : Cache, key : Key, lock : BOOLEAN]

\* A removal or a reset waits for the finalizers of the faces it took.
Removal == [for : {"remove"}, id : Id, left : SUBSET Face]
             \union [for : {"reset"}, left : SUBSET Face]

Call == Lookup \union Removal

FtcTypeOK ==
  /\ live \in BOOLEAN
  /\ faces \in [Id -> Face \union {NoFace}]
  /\ nodes \subseteq Node
  /\ kind \in [Cache -> Kind \union {"none"}]
  /\ entries \in [Cache -> [Slot -> Node \union {NoNode}]]
  /\ answers \in [Cache -> [Slot -> Face \union {NoFace}]]
  /\ shows \in [Node -> Payload \union {Nothing}]
  /\ refs \in [Node -> 0..MaxRefs]
  /\ held \in [Node -> 0..MaxRefs]
  /\ open \subseteq Face
  /\ calls \in Seq(Call) /\ Len(calls) <= MaxCalls

NoEntries == [s \in Slot |-> NoNode]
NoAnswers == [s \in Slot |-> NoFace]

Init ==
  /\ live = FALSE
  /\ faces = [i \in Id |-> NoFace]
  /\ nodes = {}
  /\ kind = [x \in Cache |-> "none"]
  /\ entries = [x \in Cache |-> NoEntries]
  /\ answers = [x \in Cache |-> NoAnswers]
  /\ shows = [n \in Node |-> Nothing]
  /\ refs = [n \in Node |-> 0]
  /\ held = [n \in Node |-> 0]
  /\ open = {}
  /\ calls = <<>>

-----------------------------------------------------------------------------
(* Helpers *)

Cached == {faces[i] : i \in Id} \ {NoFace}

Caches == {x \in Cache : kind[x] # "none"}

Waiting(k) == k \in DOMAIN calls /\ calls[k] \in Lookup

\* Is some call below a reset that has not emptied the caches yet, or for the
\* face i a removal?
Resetting == \E k \in DOMAIN calls : calls[k].for = "reset"
Removing(i) == \E k \in DOMAIN calls : calls[k].for = "remove" /\ calls[k].id = i

\* The allocator's choices.  A program that kept a reference to a destroyed
\* node could not tell it from a new one at its address, and neither could
\* FTC_Node_Unref: such an address is not given out again here.
FreeNode == {n \in Node \ nodes : held[n] = 0}

\* Mutant: a reference is counted whether or not the caller takes one.
lock_node_always(n, lock) ==
  /\ refs[n] < MaxRefs /\ held[n] < MaxRefs
  /\ refs' = [refs EXCEPT ![n] = @ + 1]
  /\ held' = IF lock THEN [held EXCEPT ![n] = @ + 1] ELSE held

\* A lookup with a non-null anode adds a reference (ref_count is an FT_Short
\* that saturates; the bound on the program's references keeps it below).
lock_node(n, lock) ==
  IF lock THEN /\ held[n] < MaxRefs
               /\ refs' = [refs EXCEPT ![n] = @ + 1]
               /\ held' = [held EXCEPT ![n] = @ + 1]
          ELSE UNCHANGED <<refs, held>>

\* The face of call c is at hand: apply the scaler, load the glyph, keep it in
\* a node of the manager and enter it in the cache.  The image cache returns
\* the error of a glyph that cannot be scaled or loaded; the sbit cache enters
\* a sentinel for one that cannot be loaded.
ftc_image_or_sbit_lookup_end(c, f) ==
  \/ UNCHANGED <<nodes, entries, shows, refs, held>>
  \/ \E n \in FreeNode :
       /\ nodes' = nodes \union {n}
       /\ entries' = [entries EXCEPT ![c.cache][<<c.id, c.key>>] = n]
       /\ shows' = [shows EXCEPT ![n] = [kind |-> kind[c.cache],
                                         slot |-> <<c.id, c.key>>, face |-> f]]
       /\ lock_node(n, c.lock)

\* What a lookup does once it has its face, cached before or just obtained.
lookup_end(c, f) ==
  CASE c.for = "face" ->
         UNCHANGED <<nodes, entries, answers, shows, refs, held>>
    [] c.for = "entry" /\ kind[c.cache] = "cmap" ->
         /\ answers' = [answers EXCEPT ![c.cache][<<c.id, c.key>>] = f]
         /\ UNCHANGED <<nodes, entries, shows, refs, held>>
    [] c.for = "entry" /\ kind[c.cache] \in GlyphKind ->
         /\ ftc_image_or_sbit_lookup_end(c, f)
         /\ UNCHANGED answers

\* ftc_manager_lookup_face_impl: a cached face ends the lookup at once, and
\* another one is asked for by calling the requester.
lookup(c) ==
  IF faces[c.id] # NoFace
    THEN lookup_end(c, faces[c.id]) /\ UNCHANGED calls
    ELSE /\ Len(calls) < MaxCalls
         /\ SelfRequests \/ \A k \in DOMAIN calls : Waiting(k) => calls[k].id # c.id
         /\ calls' = <<c>> \o calls
         /\ UNCHANGED <<nodes, entries, answers, shows, refs, held>>

-----------------------------------------------------------------------------
(* The manager and its caches *)

FTC_Manager_New ==
  /\ ~live
  /\ live' = TRUE
  /\ UNCHANGED <<faces, nodes, kind, entries, answers, shows, refs, held, open, calls>>

\* FTC_CMapCache_New, FTC_ImageCache_New, FTC_SBitCache_New
FTC_Cache_New(x, k) ==
  /\ live
  /\ kind[x] = "none"
  /\ Cardinality(Caches) < MaxCaches
  /\ kind' = [kind EXCEPT ![x] = k]
  /\ UNCHANGED <<live, faces, nodes, entries, answers, shows, refs, held, open, calls>>

\* The faces in left have been taken out of the table and are destroyed, which
\* runs their finalizers.  With none left the call c ends with done.
destroy_faces(c, done) ==
  IF c.left = {}
    THEN done /\ UNCHANGED calls
    ELSE Len(calls) < MaxCalls /\ calls' = <<c>> \o calls /\ UNCHANGED <<entries, answers>>

\* Mutant: only the character map caches are emptied.
clear_answers ==
  /\ answers' = [x \in Cache |-> NoAnswers]
  /\ UNCHANGED entries

\* Every cache is emptied; the entries of one id leave every cache.
clear_entries ==
  /\ entries' = [x \in Cache |-> NoEntries]
  /\ answers' = [x \in Cache |-> NoAnswers]

remove_entries(i) ==
  /\ entries' = [x \in Cache |-> [s \in Slot |-> IF s[1] = i THEN NoNode ELSE entries[x][s]]]
  /\ answers' = [x \in Cache |-> [s \in Slot |-> IF s[1] = i THEN NoFace ELSE answers[x][s]]]

\* Faces and nodes are moved out.
take_all ==
  /\ faces' = [i \in Id |-> NoFace]
  /\ nodes' = {}
  /\ shows' = [n \in Node |-> Nothing]
  /\ refs' = [n \in Node |-> 0]

\* Nodes and faces are moved out and destroyed, then every cache is emptied.
ftc_reset_manager ==
  /\ take_all
  /\ destroy_faces([for |-> "reset", left |-> Cached], clear_entries)
  /\ UNCHANGED open

FTC_Manager_Reset ==
  /\ live
  /\ ftc_reset_manager
  /\ UNCHANGED <<live, kind, held>>

\* A requester must not destroy the manager it works for, and a finalizer must
\* not call a manager that is being destroyed.
FTC_Manager_Done ==
  /\ live
  /\ calls = <<>>
  /\ take_all
  /\ open' = open \ Cached
  /\ clear_entries
  /\ live' = FALSE
  /\ kind' = [x \in Cache |-> "none"]
  /\ UNCHANGED <<held, calls>>

-----------------------------------------------------------------------------
(* Lookups *)

\* FTC_Manager_LookupFace, FTC_Manager_LookupSize
FTC_Manager_Lookup(i) ==
  /\ live
  /\ lookup([for |-> "face", id |-> i])
  /\ UNCHANGED <<live, faces, kind, shows, open>>

FTC_CMapCache_Lookup(x, i, k) ==
  /\ kind[x] = "cmap"
  /\ answers[x][<<i, k>>] = NoFace
  /\ lookup([for |-> "entry", id |-> i, cache |-> x, key |-> k, lock |-> FALSE])
  /\ UNCHANGED <<live, faces, kind, open>>

\* FTC_ImageCache_Lookup, FTC_SBitCache_Lookup and their LookupScaler forms
\* A finalizer that runs in a reset must not use them: their entries lead to
\* nodes that are gone.
FTC_GlyphCache_Lookup(x, i, k, lock) ==
  /\ kind[x] \in GlyphKind
  /\ ~Resetting
  /\ LET n == entries[x][<<i, k>>] IN
     IF n # NoNode
       THEN /\ lock_node(n, lock)
            /\ UNCHANGED <<nodes, entries, answers, shows, calls>>
       ELSE lookup([for |-> "entry", id |-> i, cache |-> x, key |-> k, lock |-> lock])
  /\ UNCHANGED <<live, faces, kind, open>>

\* The requester of the innermost lookup returns: an error ends the lookup, a
\* new face (a requester opens one face for each call) is entered for the id,
\* whatever happened to the manager since the lookup began.
requester_fails ==
  /\ Waiting(1)
  /\ calls' = Tail(calls)
  /\ UNCHANGED <<live, faces, nodes, kind, entries, answers, shows, refs, held, open>>

requester_returns(f) ==
  /\ Waiting(1)
  /\ f \notin open
  /\ open' = open \union {f}
  /\ faces' = [faces EXCEPT ![Head(calls).id] = f]
  /\ lookup_end(Head(calls), f)
  /\ calls' = Tail(calls)
  /\ UNCHANGED <<live, kind>>

-----------------------------------------------------------------------------
(* Removing and giving back *)

\* Mutants: the face is not destroyed; the nodes of the id go with the face.
remove_leaks_face(i) ==
  /\ live
  /\ faces' = [faces EXCEPT ![i] = NoFace]
  /\ remove_entries(i)
  /\ UNCHANGED <<live, nodes, kind, shows, refs, held, open, calls>>

remove_drops_nodes(i) ==
  LET gone == {n \in nodes : shows[n].slot[1] = i} IN
  /\ live
  /\ faces' = [faces EXCEPT ![i] = NoFace]
  /\ open' = open \ {faces[i]}
  /\ nodes' = nodes \ gone
  /\ shows' = [n \in Node |-> IF n \in gone THEN Nothing ELSE shows[n]]
  /\ refs' = [n \in Node |-> IF n \in gone THEN 0 ELSE refs[n]]
  /\ remove_entries(i)
  /\ UNCHANGED <<live, kind, held, calls>>

\* The face goes, and then the entries of its id; its nodes stay.
FTC_Manager_RemoveFaceID(i) ==
  /\ live
  /\ faces' = [faces EXCEPT ![i] = NoFace]
  /\ destroy_faces([for |-> "remove", id |-> i, left |-> {faces[i]} \ {NoFace}], remove_entries(i))
  /\ UNCHANGED <<live, nodes, kind, shows, refs, held, open>>

\* Mutant: the entries stay.
finalizer_keeps_entries(f) ==
  /\ calls # <<>>
  /\ Head(calls) \in Removal
  /\ f \in Head(calls).left
  /\ open' = open \ {f}
  /\ calls' = IF Head(calls).left = {f} THEN Tail(calls)
              ELSE [calls EXCEPT ![1].left = @ \ {f}]
  /\ UNCHANGED <<live, faces, nodes, kind, entries, answers, shows, refs, held>>

\* The finalizer of one of the faces returns and the face is gone; after the
\* last one the entries go too, with those made by the finalizers themselves.
finalizer_returns(f) ==
  /\ calls # <<>>
  /\ Head(calls) \in Removal
  /\ f \in Head(calls).left
  /\ open' = open \ {f}
  /\ IF Head(calls).left # {f}
       THEN /\ calls' = [calls EXCEPT ![1].left = @ \ {f}]
            /\ UNCHANGED <<entries, answers>>
       ELSE /\ calls' = Tail(calls)
            /\ IF Head(calls).for = "reset" THEN clear_entries
               ELSE remove_entries(Head(calls).id)
  /\ UNCHANGED <<live, faces, nodes, kind, shows, refs, held>>

\* A node that the manager does not retain, or a manager that is not live,
\* makes the call a no-op; either way the program has given a reference back.
FTC_Node_Unref(n) ==
  /\ held[n] > 0
  /\ held' = [held EXCEPT ![n] = @ - 1]
  /\ refs' = IF live /\ n \in nodes /\ refs[n] > 0 THEN [refs EXCEPT ![n] = @ - 1] ELSE refs
  /\ UNCHANGED <<live, faces, nodes, kind, entries, answers, shows, open, calls>>

-----------------------------------------------------------------------------

Next ==
  \/ FTC_Manager_New
  \/ FTC_Manager_Reset
  \/ FTC_Manager_Done
  \/ \E x \in Cache, k \in Kind : FTC_Cache_New(x, k)
  \/ \E i \in Id : \/ FTC_Manager_Lookup(i)
                   \/ FTC_Manager_RemoveFaceID(i)
  \/ \E x \in Cache, i \in Id, k \in Key :
       \/ FTC_CMapCache_Lookup(x, i, k)
       \/ \E lock \in BOOLEAN : FTC_GlyphCache_Lookup(x, i, k, lock)
  \/ requester_fails
  \/ \E f \in Face : requester_returns(f) \/ finalizer_returns(f)
  \/ \E n \in Node : FTC_Node_Unref(n)

Spec == Init /\ [][Next]_vars

-----------------------------------------------------------------------------
(* Properties *)

\* A cache entry leads to a node the manager retains, of the cache's own kind
\* and made for that very key, and no two entries share a node: a lookup that
\* hits never returns a destroyed or somebody else's glyph.  (A reset destroys
\* the nodes first; its finalizers must not look glyphs up.)
EntriesLeadToNodes ==
  ~Resetting =>
    /\ \A x \in Cache, s \in Slot : LET n == entries[x][s] IN
         n # NoNode => n \in nodes /\ shows[n].kind = kind[x] /\ shows[n].slot = s
    /\ \A x, y \in Cache, s, u \in Slot :
         entries[x][s] = entries[y][u] /\ entries[x][s] # NoNode => <<x, s>> = <<y, u>>

\* What a cache answers for an id comes from the face that the manager has for
\* the id now; after RemoveFaceID or Reset, also one called by a requester or a
\* finalizer, nothing of the old face is answered again, and nothing that the
\* finalizers themselves looked up meanwhile.
EntriesFollowFaces ==
  \A x \in Cache, s \in Slot :
    ~Resetting /\ ~Removing(s[1]) =>
      /\ entries[x][s] # NoNode => shows[entries[x][s]].face = faces[s[1]] /\ faces[s[1]] # NoFace
      /\ answers[x][s] # NoFace => answers[x][s] = faces[s[1]]

\* "The returned face becomes manager-owned until removal, reset, or
\* destruction": each face a requester opened is in the table, under one id, or
\* waits to be destroyed by one call, until it is destroyed.
FacesOwnedOnce ==
  /\ open = Cached \union UNION {calls[k].left : k \in {j \in DOMAIN calls : ~Waiting(j)}}
  /\ \A i, j \in Id : faces[i] = faces[j] /\ faces[i] # NoFace => i = j
  /\ \A k \in DOMAIN calls : ~Waiting(k) =>
       /\ calls[k].left \intersect Cached = {}
       /\ \A j \in DOMAIN calls \ {k} : ~Waiting(j) => calls[k].left \intersect calls[j].left = {}

\* The reference count of a retained node is the number of references the
\* program holds, through hits, misses, removals and stale unrefs.
RefsCountHolders == \A n \in nodes : refs[n] = held[n]

\* Nodes are destroyed all together or not at all, and with the faces and the
\* entries that lead to them, now or when the faces' finalizers are done:
\* RemoveFaceID and Unref leave the nodes of others, and their own, in place.
NodesKeptUntilReset ==
  [][ ~(nodes \subseteq nodes')
        => /\ nodes' = {} /\ faces' = [i \in Id |-> NoFace]
           /\ Resetting' \/ entries' = [x \in Cache |-> NoEntries] ]_vars
=============================================================================
