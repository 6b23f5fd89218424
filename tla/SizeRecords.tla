---------------------------- MODULE SizeRecords ----------------------------
(***************************************************************************)
(* FT_Size records of the C ABI (fontdone-c-abi/src/implementation.rs).    *)
(*                                                                         *)
(* A C program does not hold the handles of the core crate: it holds       *)
(* FT_SizeRec pointers.  FaceState::size_records lists those of a face in  *)
(* order of creation, each remembers the core handle it stands for, and    *)
(* FT_FaceRec::size points to the current one.  The records are a second   *)
(* copy of the core's list of sizes, kept in step call by call.            *)
(*                                                                         *)
(* Every action is a call of the C API: the core's action and what the     *)
(* facade does after it succeeded.  When the core returns an error the     *)
(* facade returns it too and the call is a stuttering step.                *)
(***************************************************************************)
EXTENDS FaceSizes

CONSTANTS
  Rec,        \* FT_SizeRec allocations
  NoRec,      \* the null FT_SizeRec pointer
  Probing,    \* does the program open metadata-only probes (face index < 0)?
  Rebuilding  \* do the fonts at hand take the VariationUpdate::Rebuilt path
              \* (CFF2, Type 1 blends, named instances)?

ASSUME RecordsAssumption ==
  /\ NoRec \notin Rec
  /\ Probing \in BOOLEAN
  /\ Rebuilding \in BOOLEAN

VARIABLES
  recs,   \* FaceState::size_records
  cur,    \* FT_FaceRec::size
  rust,   \* FT_Size_InternalRecCompat::rust_size
  shown   \* FT_SizeRec::metrics, what the program reads

recVars == <<recs, cur, rust, shown>>
allVars == <<vars, recVars>>

FreeRec == Rec \ UNION {ToSet(recs[f]) : f \in Face}

RecTypeOK ==
  /\ TypeOK
  /\ recs \in [Face -> Seq(Rec)]
  /\ cur \in [Face -> Rec \union {NoRec}]
  /\ rust \in [Rec -> Addr \union {NoSize}]
  /\ shown \in [Rec -> Scale]

RecInit ==
  /\ Init
  /\ recs = [f \in Face |-> <<>>]
  /\ cur = [f \in Face |-> NoRec]
  /\ rust = [r \in Rec |-> NoSize]
  /\ shown = [r \in Rec |-> Unsized]

-----------------------------------------------------------------------------
(* Helpers *)

\* drop_size: a freed record is given back to the allocator.
drop_sizes(rs) ==
  /\ rust' = [r \in Rec |-> IF r \in ToSet(rs) THEN NoSize ELSE rust[r]]
  /\ shown' = [r \in Rec |-> IF r \in ToSet(rs) THEN Unsized ELSE shown[r]]

\* Publish in the current record, if there is one, the metrics that the core
\* face value shows after the call.
update_size_metrics(f) ==
  /\ shown' = IF cur[f] = NoRec THEN shown ELSE [shown EXCEPT ![cur[f]] = metrics'[f]]
  /\ UNCHANGED <<recs, cur, rust>>

\* The same write, with the face-wide fields that have no part in this model.
sync_face_public_record(f) == update_size_metrics(f)

-----------------------------------------------------------------------------
(* Faces *)

\* ft_store_opened_face makes one record, for whatever the core reports as its
\* size: a probe's face has none, and its record stands for the null handle.
Abi_FT_New_Face(f) ==
  /\ FT_New_Memory_Face(f)
  /\ probe'[f] => Probing
  /\ \E r \in FreeRec :
       /\ recs' = [recs EXCEPT ![f] = <<r>>]
       /\ cur' = [cur EXCEPT ![f] = r]
       /\ rust' = [rust EXCEPT ![r] = size'[f]]
       /\ shown' = [shown EXCEPT ![r] = metrics'[f]]

\* The last reference to the face: Drop for FaceState frees its records.
Abi_FT_Done_Face(f, t) ==
  /\ FT_Face_Drop(f, t)
  /\ drop_sizes(recs[f])
  /\ recs' = [recs EXCEPT ![f] = <<>>]
  /\ cur' = [cur EXCEPT ![f] = NoRec]

-----------------------------------------------------------------------------
(* Sizes *)

\* Mutant: the record takes the face's current handle for the new one.
new_size_current_handle(f) ==
  /\ FT_New_Size(f)
  /\ \E r \in FreeRec :
       /\ recs' = [recs EXCEPT ![f] = Append(@, r)]
       /\ rust' = [rust EXCEPT ![r] = active[cell[f]]]
       /\ shown' = [shown EXCEPT ![r] = metrics[f]]
  /\ UNCHANGED cur

\* The new record shows the public metrics of the core face value.
Abi_FT_New_Size(f) ==
  /\ FT_New_Size(f)
  /\ \E r \in FreeRec :
       /\ recs' = [recs EXCEPT ![f] = Append(@, r)]
       /\ rust' = [rust EXCEPT ![r] = Last(entries'[cell[f]])]
       /\ shown' = [shown EXCEPT ![r] = metrics[f]]
  /\ UNCHANGED cur

\* Mutant: the face record is not told.
activate_keeps_current(t, f, r) ==
  /\ r \in ToSet(recs[f])
  /\ FT_Activate_Size(t, rust[r])
  /\ UNCHANGED recVars

\* The record's owner makes it current once the core has found the handle.
Abi_FT_Activate_Size(t, f, r) ==
  /\ r \in ToSet(recs[f])
  /\ FT_Activate_Size(t, rust[r])
  /\ cur' = [cur EXCEPT ![f] = r]
  /\ UNCHANGED <<recs, rust, shown>>

done_size_newest(t, f, r) ==
  /\ FT_Done_Size(t, rust[r])
  /\ \E i \in 1..Len(recs[f]) :
       LET left == RemoveAt(recs[f], i) IN
       /\ recs[f][i] = r
       /\ recs' = [recs EXCEPT ![f] = left]
       /\ cur' = IF cur[f] # r THEN cur
                 ELSE [cur EXCEPT ![f] = IF left = <<>> THEN NoRec ELSE Last(left)]
  /\ drop_sizes(<<r>>)

Abi_FT_Done_Size(t, f, r) ==
  /\ FT_Done_Size(t, rust[r])
  /\ \E i \in 1..Len(recs[f]) :
       LET left == RemoveAt(recs[f], i) IN
       /\ recs[f][i] = r
       /\ recs' = [recs EXCEPT ![f] = left]
       /\ cur' = IF cur[f] # r THEN cur
                 ELSE [cur EXCEPT ![f] = IF left = <<>> THEN NoRec ELSE Head(left)]
  /\ drop_sizes(<<r>>)

\* FT_Set_Char_Size, FT_Set_Pixel_Sizes and FT_Request_Size
Abi_FT_Request_Size(f, s) == FT_Request_Size(f, s) /\ update_size_metrics(f)

Abi_FT_Select_Size(f, s) == FT_Select_Size(f, s) /\ update_size_metrics(f)

-----------------------------------------------------------------------------
(* Calls that publish the face record without a size request *)

\* FT_Select_Charmap, FT_Set_Charmap, and coordinates that do not change
Abi_FT_Set_Charmap(f) ==
  /\ cell[f] # NoCell
  /\ UNCHANGED vars
  /\ sync_face_public_record(f)

Abi_FT_Set_Var_Design_Coordinates(f, s) ==
  /\ \/ refresh_sfnt_variation_fields(f, s)
     \/ Rebuilding /\ finish_variation_coordinate_update(f, s)
  /\ sync_face_public_record(f)

-----------------------------------------------------------------------------

RecNext ==
  \/ \E f \in Face :
       \/ Abi_FT_New_Face(f)
       \/ \E t \in Thread : Abi_FT_Done_Face(f, t)
       \/ Abi_FT_New_Size(f)
       \/ Abi_FT_Set_Charmap(f)
       \/ \E s \in Scale : \/ Abi_FT_Request_Size(f, s)
                           \/ Abi_FT_Select_Size(f, s)
                           \/ Abi_FT_Set_Var_Design_Coordinates(f, s)
  \/ \E t \in Thread, f \in Face, r \in Rec : \/ Abi_FT_Activate_Size(t, f, r)
                                              \/ Abi_FT_Done_Size(t, f, r)

RecSpec == RecInit /\ [][RecNext]_allVars

-----------------------------------------------------------------------------
(* Properties *)

\* The two lists of a face, and the two notions of its current size, agree as
\* long as no face is rebuilt under its records and none is a probe.
RecordsInStep ==
  ~Rebuilding /\ ~Probing => \A f \in Face : cell[f] # NoCell =>
    /\ entries[cell[f]] = [i \in 1..Len(recs[f]) |-> rust[recs[f][i]]]
    /\ active[cell[f]] = IF cur[f] = NoRec THEN NoSize ELSE rust[cur[f]]

\* A core handle found through a record belongs to the face of that record
\* and to no other record.
RecordsOwnTheirHandles ==
  \A f \in Face, r \in Rec, t \in Thread, c \in Cell :
    (r \in ToSet(recs[f]) /\ Resolves(t, rust[r], c)) =>
      /\ c = cell[f]
      /\ \A q \in UNION {ToSet(recs[g]) : g \in Face} : rust[q] = rust[r] => q = r

\* Without rebuilds and probes a C program sees the promised size list, with
\* records for sizes.
ScaleOfRec == [r \in Rec |-> IF rust[r] = NoSize THEN Unsized ELSE state[rust[r]]]
BaseOfRec == [f \in Face |-> IF cur[f] = NoRec THEN ScaleOf[f] ELSE Unsized]

AbiPromise == INSTANCE SizeList WITH
  Addr <- Rec, NoSize <- NoRec,
  open <- OpenFaces, list <- recs, cur <- cur, scale <- ScaleOfRec, base <- BaseOfRec,
  loads <- ScaleOf

RecordsImplementSizeList == AbiPromise!Spec
=============================================================================
