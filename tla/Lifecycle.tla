----------------------------- MODULE Lifecycle ------------------------------
(***************************************************************************)
(* Libraries, faces, caller streams and glyphs of the C ABI                *)
(* (fontdone-c-abi/src/implementation.rs): who owns what, and when it is   *)
(* given back.                                                             *)
(*                                                                         *)
(* A library handle is checked against a process-wide registry of live     *)
(* libraries before it is used.  A face belongs to the library it was      *)
(* opened with, may own a stream the program supplied, and is destroyed    *)
(* with its last reference or with its library, whichever comes first.     *)
(* Glyphs belong to the program and may outlive both.  In a library made   *)
(* with the program's own FT_Memory each object also owns blocks obtained  *)
(* from its callbacks, which may fail.                                     *)
(*                                                                         *)
(* Reading a stream calls the program back, so opening a face from one is  *)
(* two steps, and any other call may come between them.  Destroying a face *)
(* calls it back too (the face's finalizer, the close function of its      *)
(* stream), and so does destroying a library, face by face and then module *)
(* by module: what is being destroyed waits on a stack while the program   *)
(* makes other calls.                                                      *)
(***************************************************************************)
EXTENDS Integers, SequencesExt

CONSTANTS
  Lib, Face, Stream, Glyph,   \* the addresses of the four kinds of object
  NoLib, NoStream, NoGlyph,
  Modules,                    \* default modules of a library
  MaxRefs,                    \* bound: references to one library or face
  MaxObjects                  \* bound: live libraries, faces and glyphs at a time

ASSUME LifeAssumption ==
  /\ NoLib \notin Lib /\ NoStream \notin Stream
  /\ NoGlyph \notin [library : Lib, memory : BOOLEAN, shape : {"outline", "empty", "filled"}]
  /\ Modules \in Nat /\ MaxRefs \in Nat \ {0}

VARIABLES
  live,      \* live_libraries
  custom,    \* LibraryState::allocation_memory has callbacks
  libRefs,   \* rust_ffi::FT_Library::refcount
  faces,     \* LibraryState::faces
  owner,     \* FaceState::library; NoLib: no such face
  faceRefs,  \* FaceState::refcount
  memory,    \* FaceState::allocation_memory has callbacks
  stream,    \* FaceState::stream with its close callback, if it is a caller's
  reading,   \* streams being read by an FT_Open_Face call, and its library
  closes,    \* how often each stream's close callback ran
  glyph,     \* OwnedBitmapGlyph, OwnedSvgGlyph, OwnedOutlineGlyph
  blocks,    \* blocks of custom memory not given back, by what they are for
  ending,    \* calls that destroy a face or a library, innermost first
  libHeld,   \* references to each library the program has not given back
  faceHeld   \* the same for faces

libVars == <<live, custom, libRefs, libHeld>>
faceVars == <<owner, faceRefs, memory, stream, faceHeld>>
vars == <<libVars, faces, faceVars, reading, closes, glyph, blocks, ending>>

Block == ({"library", "modules"} \X Lib) \union ({"face"} \X Face)
           \union ({"record", "payload"} \X Glyph)

\* A glyph remembers the library it came from and whether it has blocks of
\* custom memory; it is an outline, or a bitmap or document, empty or filled.
GlyphRec == [library : Lib, memory : BOOLEAN, shape : {"outline", "empty", "filled"}]

\* FT_Done_Face with its face (lib is NoLib), or drop_library_rec with the faces
\* it still has to destroy and whether it gives the custom blocks back.
Ending == [lib : Lib \union {NoLib}, free : BOOLEAN, left : Seq(Face)]

LifeTypeOK ==
  /\ live \subseteq Lib
  /\ custom \in [Lib -> BOOLEAN]
  /\ libRefs \in [Lib -> 0..MaxRefs]
  /\ faces \in [Lib -> Seq(Face)]
  /\ owner \in [Face -> Lib \union {NoLib}]
  /\ faceRefs \in [Face -> 0..MaxRefs]
  /\ memory \in [Face -> BOOLEAN]
  /\ stream \in [Face -> Stream \union {NoStream}]
  /\ reading \in [Stream -> Lib \union {NoLib}]
  /\ closes \in [Stream -> 0..1]
  /\ glyph \in [Glyph -> GlyphRec \union {NoGlyph}]
  /\ blocks \in [Block -> 0..Modules + 1]
  /\ ending \in Seq(Ending)
  /\ libHeld \in [Lib -> 0..MaxRefs]
  /\ faceHeld \in [Face -> 0..MaxRefs]

Init ==
  /\ live = {}
  /\ custom = [l \in Lib |-> FALSE]
  /\ libRefs = [l \in Lib |-> 0]
  /\ faces = [l \in Lib |-> <<>>]
  /\ owner = [f \in Face |-> NoLib]
  /\ faceRefs = [f \in Face |-> 0]
  /\ memory = [f \in Face |-> FALSE]
  /\ stream = [f \in Face |-> NoStream]
  /\ reading = [s \in Stream |-> NoLib]
  /\ closes = [s \in Stream |-> 0]
  /\ glyph = [g \in Glyph |-> NoGlyph]
  /\ blocks = [b \in Block |-> 0]
  /\ ending = <<>>
  /\ libHeld = [l \in Lib |-> 0]
  /\ faceHeld = [f \in Face |-> 0]

-----------------------------------------------------------------------------
(* Helpers *)

Alive(f) == owner[f] # NoLib

\* An object that is being destroyed is still allocated, but the program, which
\* has no reference to it any more, neither adds one nor gives one back.
Dying(f) == \E k \in DOMAIN ending : f \in ToSet(ending[k].left)
Dropping(l) == \E k \in DOMAIN ending : ending[k].lib = l

Room == Cardinality(live) + Cardinality({f \in Face : Alive(f)})
          + Cardinality({g \in Glyph : glyph[g] # NoGlyph}) < MaxObjects

\* A stream the program may hand over: once, and not while it is in use.
Fresh(s) == closes[s] = 0 /\ reading[s] = NoLib /\ \A f \in Face : stream[f] # s

\* custom_memory_block, free_custom_memory_block: nothing happens in a library
\* without callbacks, where no block was ever obtained.
custom_memory_block(bs, m, b) == IF m THEN [bs EXCEPT ![b] = @ + 1] ELSE bs
free_custom_memory_block(bs, m, b) == IF m THEN [bs EXCEPT ![b] = @ - 1] ELSE bs

\* The first of a library's faces that is f; what the list loses with f.
position(fs, f) == CHOOSE i \in DOMAIN fs : fs[i] = f /\ \A j \in 1..(i - 1) : fs[j] # f
unlisted(fs, f) == IF f \in ToSet(fs) THEN RemoveAt(fs, position(fs, f)) ELSE fs

\* A face record for library l, listed and with one reference.
ft_store_opened_face(l, f, s) ==
  /\ ~Alive(f) /\ Room
  /\ owner' = [owner EXCEPT ![f] = l]
  /\ faceRefs' = [faceRefs EXCEPT ![f] = 1]
  /\ memory' = [memory EXCEPT ![f] = custom[l]]
  /\ faceHeld' = [faceHeld EXCEPT ![f] = 1]
  /\ stream' = [stream EXCEPT ![f] = s]
  /\ faces' = [faces EXCEPT ![l] = Append(@, f)]
  /\ blocks' = custom_memory_block(blocks, custom[l], <<"face", f>>)

-----------------------------------------------------------------------------
(* Libraries *)

into_library_handle(l, callbacks) ==
  /\ l \notin live /\ ~Dropping(l) /\ Room
  /\ live' = live \union {l}
  /\ custom' = [custom EXCEPT ![l] = callbacks]
  /\ libRefs' = [libRefs EXCEPT ![l] = 1]
  /\ libHeld' = [libHeld EXCEPT ![l] = 1]
  /\ blocks' = custom_memory_block(blocks, callbacks, <<"library", l>>)
  /\ UNCHANGED <<faces, faceVars, reading, closes, glyph, ending>>

FT_Init_FreeType(l) == into_library_handle(l, FALSE)

\* Without a block for the library itself the call fails and changes nothing.
FT_New_Library(l) == into_library_handle(l, TRUE)

\* Blocks for the default modules are obtained when there are none yet; the
\* first failure ends the attempt and the modules are installed regardless.
FT_Add_Default_Modules(l) ==
  /\ l \in live
  /\ custom[l]
  /\ blocks[<<"modules", l>>] = 0
  /\ \E n \in 0..Modules : blocks' = [blocks EXCEPT ![<<"modules", l>>] = n]
  /\ UNCHANGED <<libVars, faces, faceVars, reading, closes, glyph, ending>>

FT_Reference_Library(l) ==
  /\ l \in live
  /\ libRefs[l] < MaxRefs
  /\ libRefs' = [libRefs EXCEPT ![l] = @ + 1]
  /\ libHeld' = [libHeld EXCEPT ![l] = @ + 1]
  /\ UNCHANGED <<live, custom, faces, faceVars, reading, closes, glyph, blocks, ending>>

\* The library leaves the registry, and its faces are to be destroyed one after
\* the other, whatever their references.
drop_library_rec(l, free) ==
  /\ live' = live \ {l}
  /\ libRefs' = [libRefs EXCEPT ![l] = 0]
  /\ libHeld' = [libHeld EXCEPT ![l] = 0]
  /\ faces' = [faces EXCEPT ![l] = <<>>]
  /\ faceHeld' = [f \in Face |-> IF f \in ToSet(faces[l]) THEN 0 ELSE faceHeld[f]]
  /\ ending' = <<[lib |-> l, free |-> free, left |-> faces[l]]>> \o ending
  /\ UNCHANGED <<custom, owner, faceRefs, memory, stream, reading, closes, glyph, blocks>>

FT_Done_Library(l) ==
  /\ l \in live
  /\ IF libRefs[l] = 1
       THEN drop_library_rec(l, TRUE)
       ELSE /\ libRefs' = [libRefs EXCEPT ![l] = @ - 1]
            /\ libHeld' = [libHeld EXCEPT ![l] = @ - 1]
            /\ UNCHANGED <<live, custom, faces, faceVars, reading, closes, glyph,
                           blocks, ending>>

\* FT_Done_FreeType ends a library made by FT_Init_FreeType, references or not
\* (it leaves custom blocks alone: those are for FT_Done_Library to give back).
FT_Done_FreeType(l) ==
  /\ l \in live
  /\ ~custom[l]
  /\ drop_library_rec(l, FALSE)

\* The faces are gone and the callbacks of the modules have run (see Modules): the
\* library's own blocks go last.
drop_library_rec_ends ==
  /\ ending # <<>> /\ Head(ending).lib # NoLib /\ Head(ending).left = <<>>
  /\ blocks' = [b \in Block |->
       IF Head(ending).free /\ b \in {"library", "modules"} \X {Head(ending).lib}
         THEN 0 ELSE blocks[b]]
  /\ custom' = [custom EXCEPT ![Head(ending).lib] = FALSE]
  /\ ending' = Tail(ending)
  /\ UNCHANGED <<live, libRefs, libHeld, faces, faceVars, reading, closes, glyph>>

-----------------------------------------------------------------------------
(* Faces *)

\* FT_New_Face, FT_New_Memory_Face.  A font that cannot be parsed, a library
\* that is not live and a face block that cannot be had change nothing.
FT_New_Memory_Face(l, f) ==
  /\ l \in live
  /\ ft_store_opened_face(l, f, NoStream)
  /\ UNCHANGED <<libVars, reading, closes, glyph, ending>>

\* FT_Open_Face with FT_OPEN_STREAM: only null handles, a negative size and a driver
\* that is no font driver are refused before the stream is read.
FT_Open_Face_read(l, s) ==
  /\ Fresh(s)
  /\ reading' = [reading EXCEPT ![s] = l]
  /\ UNCHANGED <<libVars, faces, faceVars, closes, glyph, blocks, ending>>

\* Mutant: an error path that returns without closing the stream.
open_fails_without_close(s) ==
  /\ reading[s] # NoLib
  /\ reading' = [reading EXCEPT ![s] = NoLib]
  /\ UNCHANGED <<libVars, faces, faceVars, closes, glyph, blocks, ending>>

\* A stream that cannot be read, a library destroyed meanwhile, a font that
\* cannot be parsed or a block that cannot be had: the stream is closed.
FT_Open_Face_fails(s) ==
  /\ reading[s] # NoLib
  /\ reading' = [reading EXCEPT ![s] = NoLib]
  /\ closes' = [closes EXCEPT ![s] = @ + 1]
  /\ UNCHANGED <<libVars, faces, faceVars, glyph, blocks, ending>>

\* Mutant: the call still owns the stream it has given to the face.
open_keeps_stream(s, f) ==
  /\ reading[s] \in live
  /\ ft_store_opened_face(reading[s], f, s)
  /\ UNCHANGED <<libVars, reading, closes, glyph, ending>>

FT_Open_Face_succeeds(s, f) ==
  /\ reading[s] \in live
  /\ ft_store_opened_face(reading[s], f, s)
  /\ reading' = [reading EXCEPT ![s] = NoLib]
  /\ UNCHANGED <<libVars, closes, glyph, ending>>

FT_Reference_Face(f) ==
  /\ Alive(f) /\ ~Dying(f)
  /\ faceRefs[f] < MaxRefs
  /\ faceRefs' = [faceRefs EXCEPT ![f] = @ + 1]
  /\ faceHeld' = [faceHeld EXCEPT ![f] = @ + 1]
  /\ UNCHANGED <<libVars, faces, owner, memory, stream, reading, closes, glyph, blocks,
                 ending>>

one_reference_less(f) ==
  /\ faceRefs' = [faceRefs EXCEPT ![f] = @ - 1]
  /\ faceHeld' = [faceHeld EXCEPT ![f] = @ - 1]
  /\ UNCHANGED <<libVars, faces, owner, memory, stream, reading, closes, glyph, blocks,
                 ending>>

\* The face f leaves its library's list fs and waits for its finalizer.
last_reference(f, fs) ==
  /\ faces' = [faces EXCEPT ![owner[f]] = fs]
  /\ faceHeld' = [faceHeld EXCEPT ![f] = 0]
  /\ ending' = <<[lib |-> NoLib, free |-> FALSE, left |-> <<f>>]>> \o ending
  /\ UNCHANGED <<libVars, owner, faceRefs, memory, stream, reading, closes, glyph, blocks>>

\* Mutants: the library keeps listing the face; the last reference but none.
done_face_stays_listed(f) ==
  /\ Alive(f) /\ ~Dying(f)
  /\ IF faceRefs[f] > 1 THEN one_reference_less(f) ELSE last_reference(f, faces[owner[f]])

done_face_off_by_one(f) ==
  /\ Alive(f) /\ ~Dying(f)
  /\ IF faceRefs[f] > 0 THEN one_reference_less(f)
     ELSE last_reference(f, unlisted(faces[owner[f]], f))

FT_Done_Face(f) ==
  /\ Alive(f) /\ ~Dying(f)
  /\ IF faceRefs[f] > 1 THEN one_reference_less(f)
     ELSE last_reference(f, unlisted(faces[owner[f]], f))

\* The finalizer of the face that is next to go has returned: its stream's close
\* callback runs and Drop for FaceState gives its block back.  The finalizer and
\* the close callback see the same state, so that they are one interruption.
drop_face_record ==
  /\ ending # <<>> /\ Head(ending).left # <<>>
  /\ LET f == Head(Head(ending).left) IN
       /\ owner' = [owner EXCEPT ![f] = NoLib]
       /\ faceRefs' = [faceRefs EXCEPT ![f] = 0]
       /\ memory' = [memory EXCEPT ![f] = FALSE]
       /\ stream' = [stream EXCEPT ![f] = NoStream]
       /\ closes' = IF stream[f] = NoStream THEN closes
                    ELSE [closes EXCEPT ![stream[f]] = @ + 1]
       /\ blocks' = free_custom_memory_block(blocks, memory[f], <<"face", f>>)
  /\ ending' = IF Head(ending).lib = NoLib THEN Tail(ending)
               ELSE [ending EXCEPT ![1].left = Tail(@)]
  /\ UNCHANGED <<libVars, faces, faceHeld, reading, glyph>>

-----------------------------------------------------------------------------
(* Glyphs *)

\* Mutant: the record's block is kept when the payload's cannot be had.
tokens_leak_record(l, g, shape) ==
  LET payload == shape = "filled"
      record == custom_memory_block(blocks, custom[l], <<"record", g>>)
      both == custom_memory_block(record, custom[l] /\ payload, <<"payload", g>>)
  IN
  /\ glyph[g] = NoGlyph /\ Room
  /\ \/ /\ glyph' = [glyph EXCEPT ![g] =
                       [library |-> l, memory |-> custom[l], shape |-> shape]]
        /\ blocks' = both
     \/ payload /\ blocks' = record /\ UNCHANGED glyph
  /\ UNCHANGED <<libVars, faces, faceVars, reading, closes, ending>>

\* A new glyph with a block for its record and, when it is filled, one for the
\* payload.  When the second cannot be had, glyph_allocation_tokens gives the
\* first back and the call fails.
glyph_allocation_tokens(l, g, shape) ==
  LET payload == shape = "filled"
      record == custom_memory_block(blocks, custom[l], <<"record", g>>)
      both == custom_memory_block(record, custom[l] /\ payload, <<"payload", g>>)
  IN
  /\ glyph[g] = NoGlyph /\ Room
  /\ \/ /\ glyph' = [glyph EXCEPT ![g] =
                       [library |-> l, memory |-> custom[l], shape |-> shape]]
        /\ blocks' = both
     \/ /\ payload
        /\ blocks' = free_custom_memory_block(record, custom[l], <<"record", g>>)
        /\ UNCHANGED glyph
  /\ UNCHANGED <<libVars, faces, faceVars, reading, closes, ending>>

\* The outline of a slot or of another glyph is copied without custom blocks.
outline_copy(l, g) ==
  /\ glyph[g] = NoGlyph /\ Room
  /\ glyph' = [glyph EXCEPT ![g] = [library |-> l, memory |-> FALSE, shape |-> "outline"]]
  /\ UNCHANGED <<libVars, faces, faceVars, reading, closes, blocks, ending>>

\* The slot of a face keeps the handle of its library, which may be gone while
\* the face's finalizer runs: then only an outline can be had.
FT_Get_Glyph(f, g) ==
  /\ Alive(f)
  /\ \/ outline_copy(owner[f], g)
     \/ owner[f] \in live /\ glyph_allocation_tokens(owner[f], g, "filled")

FT_New_Glyph(l, g) ==
  /\ l \in live
  /\ \E shape \in {"outline", "empty"} : glyph_allocation_tokens(l, g, shape)

\* An outline is copied at once.  Anything else takes its memory from the
\* source's library, if it is live (or another one has its address by now).
FT_Glyph_Copy(g, h) ==
  /\ glyph[g] # NoGlyph
  /\ IF glyph[g].shape = "outline" THEN outline_copy(glyph[g].library, h)
     ELSE /\ glyph[g].library \in live
          /\ glyph_allocation_tokens(glyph[g].library, h, glyph[g].shape)

\* Drop for the owned glyph uses the memory it was made with, not its library.
FT_Done_Glyph(g) ==
  /\ glyph[g] # NoGlyph
  /\ LET r == glyph[g]
         left == free_custom_memory_block(blocks, r.memory, <<"record", g>>)
     IN blocks' = free_custom_memory_block(left, r.memory /\ r.shape = "filled",
                                            <<"payload", g>>)
  /\ glyph' = [glyph EXCEPT ![g] = NoGlyph]
  /\ UNCHANGED <<libVars, faces, faceVars, reading, closes, ending>>

-----------------------------------------------------------------------------

Next ==
  \/ \E l \in Lib :
       \/ FT_Init_FreeType(l)
       \/ FT_New_Library(l)
       \/ FT_Add_Default_Modules(l)
       \/ FT_Reference_Library(l)
       \/ FT_Done_Library(l)
       \/ FT_Done_FreeType(l)
       \/ \E f \in Face : FT_New_Memory_Face(l, f)
       \/ \E s \in Stream : FT_Open_Face_read(l, s)
       \/ \E g \in Glyph : FT_New_Glyph(l, g)
  \/ \E s \in Stream : \/ FT_Open_Face_fails(s)
                       \/ \E f \in Face : FT_Open_Face_succeeds(s, f)
  \/ \E f \in Face : \/ FT_Reference_Face(f)
                     \/ FT_Done_Face(f)
                     \/ \E g \in Glyph : FT_Get_Glyph(f, g)
  \/ \E g \in Glyph : \/ FT_Done_Glyph(g)
                      \/ \E h \in Glyph : FT_Glyph_Copy(g, h)
  \/ drop_face_record
  \/ drop_library_rec_ends

Spec == Init /\ [][Next]_vars

-----------------------------------------------------------------------------
(* Properties *)

\* A stream that FT_Open_Face took is closed exactly once: by the call if it fails
\* from then on, else with its face.  At every moment it is being read, or owned
\* by one living face, or closed, or was never taken.  (A call that is refused for
\* its arguments, before the stream is looked at, takes nothing.)
StreamsClosedOnce ==
  \A s \in Stream :
    LET users == {f \in Face : Alive(f) /\ stream[f] = s}
        stages == Cardinality(users) + closes[s] + IF reading[s] # NoLib THEN 1 ELSE 0
    IN stages <= 1

\* A stream in use stays in use or is closed; it is never just forgotten.
StreamsNotForgotten ==
  [][ \A s \in Stream : ~Fresh(s) => ~Fresh(s)' ]_vars

\* Every living face is listed once, by its library, which is live, so that it
\* is destroyed with it, or waits once to be destroyed; a list never holds a face
\* that is destroyed or about to be.
FacesListedByOwner ==
  /\ \A f \in Face : Alive(f) /\ ~Dying(f) =>
       owner[f] \in live /\ f \in ToSet(faces[owner[f]])
  /\ \A l \in Lib : /\ l \notin live => faces[l] = <<>>
                    /\ \A i, j \in DOMAIN faces[l] :
                         /\ owner[faces[l][i]] = l /\ ~Dying(faces[l][i])
                         /\ faces[l][i] = faces[l][j] => i = j
  /\ \A k, m \in DOMAIN ending :
       \A i \in DOMAIN ending[k].left, j \in DOMAIN ending[m].left :
         /\ Alive(ending[k].left[i])
         /\ ending[k].left[i] = ending[m].left[j] => k = m /\ i = j

\* Blocks of custom memory are given back exactly once and when their object
\* goes: nothing is left of a destroyed library but the program's glyphs, and the
\* faces whose finalizers destroyed it.
BlocksBalanced ==
  /\ \A l \in Lib : blocks[<<"library", l>>] =
                    IF (l \in live \/ Dropping(l)) /\ custom[l] THEN 1 ELSE 0
  /\ \A l \in Lib : blocks[<<"modules", l>>] > 0 => (l \in live \/ Dropping(l)) /\ custom[l]
  /\ \A f \in Face : blocks[<<"face", f>>] = IF Alive(f) /\ memory[f] THEN 1 ELSE 0
  /\ \A f \in Face : Alive(f) /\ ~Dying(f) => memory[f] = custom[owner[f]]
  /\ \A g \in Glyph :
       LET has == glyph[g] # NoGlyph /\ glyph[g].memory IN
       /\ blocks[<<"record", g>>] = IF has THEN 1 ELSE 0
       /\ blocks[<<"payload", g>>] = IF has /\ glyph[g].shape = "filled" THEN 1 ELSE 0

\* An object lives exactly as long as the program has references to it.
AliveWhileReferenced ==
  /\ \A l \in Lib : l \in live <=> libHeld[l] > 0
  /\ \A f \in Face : Alive(f) /\ ~Dying(f) <=> faceHeld[f] > 0
=============================================================================
