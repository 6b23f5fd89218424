------------------------------ MODULE Modules -------------------------------
(***************************************************************************)
(* The modules and renderers of one library.  Three tables describe them:  *)
(* the core's list, which answers lookups by name, the C ABI's list, which *)
(* owns the module records and their callbacks, and the public array of    *)
(* the library record.  A registration has an identity (Reg), so that      *)
(* callbacks can be counted per registration.                              *)
(***************************************************************************)
EXTENDS SequencesExt

CONSTANTS
  Names,        \* names of caller's classes; may include default modules' names
  Versions,     \* module_version
  MaxAdds,      \* registrations that may succeed; bounds the run
  Capacity      \* 32, the length of the module tables

ASSUME ModulesAssumption == Versions \subseteq Nat /\ Capacity \in Nat /\ MaxAdds \in Nat

Reg == 1..MaxAdds

Defaults == <<"truetype", "smooth", "raster1", "bsdf">>   \* in registration order
DefaultOutline == {"smooth", "raster1"}
Synth == "synthetic_renderer"   \* the record that all caller's renderers share
NoName == "none"

\* What a class is: a plain module, a renderer too small to be read as one, or a
\* renderer of a glyph format, with or without a rasterizer to create.
Shapes == {"plain", "small", "outline", "bitmap", "raster"}
IsRenderer(shape) == shape # "plain"

VARIABLES
  alive,      \* the library exists
  defaults,   \* the core's module_names lists the default modules
  core,       \* synthetic_modules of the core: name, version, renderer
  current,    \* current_outline_renderer of the core
  abi,        \* synthetic_modules of the C ABI: reg, name, handle
  public,     \* library->modules up to num_modules, as handles
  shown,      \* library->cur_renderer
  synth,      \* the shared renderer record: name, format, raster
  rasters,    \* ghost: rasters that exist, named by their registration
  done,       \* ghost: how often module_done was called, by registration
  used        \* ghost: registrations made so far

modVars == <<alive, defaults, core, current, abi, public, shown, synth, rasters, done, used>>

-----------------------------------------------------------------------------
(* The core.                                                               *)

CoreInstalled(name) == {i \in DOMAIN core : core[i].name = name}
HasModule(name) == (defaults /\ name \in ToSet(Defaults)) \/ CoreInstalled(name) # {}
Flagged(mods, name) == \E i \in DOMAIN mods : mods[i].name = name /\ mods[i].renderer
FirstOf(mods, name) == CHOOSE i \in DOMAIN mods :
  mods[i].name = name /\ \A j \in 1..(i - 1) : mods[j].name # name

\* The renderer that answers for a format, by name.
RendererClass(mods, cur, format) ==
  LET first == CHOOSE i \in DOMAIN Defaults : Defaults[i] \in DefaultOutline
                 /\ \A j \in 1..(i - 1) : Defaults[j] \notin DefaultOutline
      named == \E i \in DOMAIN mods : mods[i].name = cur
  IN IF format = "bitmap" THEN (IF defaults THEN "bsdf" ELSE NoName)
     ELSE IF named /\ mods[FirstOf(mods, cur)].renderer THEN cur
     ELSE IF defaults THEN (IF cur \in ToSet(Defaults) THEN cur ELSE Defaults[first])
     ELSE NoName

\* A class is refused when a module of its name has its version, or when the
\* table is full; otherwise it goes to the end.
CoreAccepts(name, version) ==
  /\ HasModule(name) =>
       CoreInstalled(name) # {} /\ version > core[FirstOf(core, name)].version
  /\ Len(core) + (IF defaults THEN Len(Defaults) ELSE 0) < Capacity

CoreWith(name, version, renderer) ==
  Append(core, [name |-> name, version |-> version, renderer |-> renderer])

\* A renderer becomes the current one when nothing renders outlines so far.
CurrentWith(mods, name, renderer) ==
  IF renderer /\ RendererClass(mods, current, "outline") = NoName THEN name ELSE current

\* FT_Remove_Module of the core: the first module of the name goes.
CoreWithout(mods, name) == RemoveAt(mods, FirstOf(mods, name))
\* Mutant: a removed renderer stays the current one.
CurrentKept(cur, name) == cur
CurrentWithout(cur, name) == IF cur = name THEN "smooth" ELSE cur

-----------------------------------------------------------------------------
(* The C ABI.                                                              *)

ModInit ==
  /\ alive = TRUE
  /\ defaults \in BOOLEAN       \* FT_Init_FreeType or FT_New_Library
  /\ core = <<>> /\ abi = <<>>
  /\ current = "smooth"
  /\ public = IF defaults THEN Defaults ELSE <<>>
  /\ shown = NoName
  /\ synth = [name |-> "fixture_renderer", format |-> "outline", raster |-> 0]
  /\ rasters = {}
  /\ done = [r \in Reg |-> 0]
  /\ used = 0

\* done_synthetic_renderer_raster: the raster the shared record holds.
RasterDone(s, handle) ==
  IF handle = Synth /\ s.raster # 0 THEN {s.raster} ELSE {}

\* Mutant: the public table is cut at its end, wherever the module was.
PublicCut(handle) ==
  IF handle \in ToSet(public) THEN SubSeq(public, 1, Len(public) - 1) ELSE public

PublicWithout(handle) ==
  IF handle \in ToSet(public)
  THEN RemoveAt(public, CHOOSE i \in DOMAIN public :
                  public[i] = handle /\ \A j \in 1..(i - 1) : public[j] # handle)
  ELSE public

\* What the record holds after a renderer class of that shape was accepted.
SynthWith(name, shape, raster) ==
  [name |-> name, raster |-> raster,
   format |-> CASE shape = "small" -> synth.format
                [] shape = "bitmap" -> "bitmap"
                [] OTHER -> "outline"]

\* A module is entered in the three tables, and then module_init runs; its
\* error is returned but nothing is taken back.
FT_Add_Module(name, version, shape) ==
  LET reg == used + 1
      renderer == IsRenderer(shape)
      handle == IF renderer THEN Synth ELSE ToString(reg)
      raster == IF shape = "raster" THEN reg ELSE 0
      mods == CoreWith(name, version, renderer)
  IN
  /\ alive /\ reg \in Reg
  /\ CoreAccepts(name, version)
  /\ core' = mods
  /\ current' = CurrentWith(mods, name, renderer)
  /\ abi' = Append(abi, [reg |-> reg, name |-> name, handle |-> handle])
  /\ public' = IF Len(public) < Capacity THEN Append(public, handle) ELSE public
  /\ synth' = IF renderer THEN SynthWith(name, shape, raster) ELSE synth
  /\ rasters' = rasters \union ({raster} \ {0})
  /\ used' = reg
  /\ UNCHANGED <<alive, defaults, shown, done>>

\* Mutant: the core keeps a renderer whose rasterizer could not be made.
raster_new_fails_listed(name, version) ==
  LET mods == CoreWith(name, version, TRUE)
  IN /\ alive /\ CoreAccepts(name, version)
     /\ core' = mods
     /\ current' = CurrentWith(mods, name, TRUE)
     /\ synth' = [synth EXCEPT !.format = "outline", !.raster = 0]
     /\ UNCHANGED <<alive, defaults, abi, public, shown, rasters, done, used>>

\* raster_new fails: the core forgets a module of that name again, and the
\* shared record has forgotten the raster it held.
FT_Add_Module_raster_new_fails(name, version) ==
  LET mods == CoreWith(name, version, TRUE)
  IN /\ alive /\ CoreAccepts(name, version)
     /\ core' = CoreWithout(mods, name)
     /\ current' = CurrentWithout(CurrentWith(mods, name, TRUE), name)
     /\ synth' = [synth EXCEPT !.format = "outline", !.raster = 0]
     /\ UNCHANGED <<alive, defaults, abi, public, shown, rasters, done, used>>

\* Mutant: the record stays in the ABI's list when its callback has run.
remove_keeps_record(handle) ==
  \E i \in DOMAIN abi :
    /\ alive
    /\ abi[i].handle = handle /\ \A j \in 1..(i - 1) : abi[j].handle # handle
    /\ core' = core /\ current' = current /\ abi' = abi
    /\ public' = PublicWithout(handle)
    /\ rasters' = rasters \ RasterDone(synth, handle)
    /\ synth' = IF handle = Synth THEN [synth EXCEPT !.raster = 0] ELSE synth
    /\ done' = [done EXCEPT ![abi[i].reg] = @ + 1]
    /\ UNCHANGED <<alive, defaults, shown, used>>

\* The ABI finds a module by its handle, the core by its name; library->
\* cur_renderer is left alone.
FT_Remove_Module(handle) ==
  \E i \in DOMAIN abi :
    /\ alive
    /\ abi[i].handle = handle /\ \A j \in 1..(i - 1) : abi[j].handle # handle
    /\ core' = CoreWithout(core, abi[i].name)
    /\ current' = CurrentWithout(current, abi[i].name)
    /\ abi' = RemoveAt(abi, i)
    /\ public' = PublicWithout(handle)
    /\ rasters' = rasters \ RasterDone(synth, handle)
    /\ synth' = IF handle = Synth THEN [synth EXCEPT !.raster = 0] ELSE synth
    /\ done' = [done EXCEPT ![abi[i].reg] = @ + 1]
    /\ UNCHANGED <<alive, defaults, shown, used>>

\* The public array is filled anew: modules of the caller are dropped from it.
FT_Add_Default_Modules ==
  /\ alive
  /\ defaults' = TRUE
  /\ public' = Defaults
  /\ UNCHANGED <<alive, core, current, abi, shown, synth, rasters, done, used>>

\* The record FT_Get_Renderer returns for a format.
RendererOf(format) ==
  LET class == RendererClass(core, current, format)
  IN CASE class = NoName ->
            IF synth.format = format /\ \E i \in DOMAIN abi : abi[i].handle = Synth
            THEN Synth ELSE NoName
       [] class \in DefaultOutline \union {"bsdf"} -> class
       [] OTHER -> IF class = synth.name /\ synth.format = format THEN Synth ELSE NoName

\* An outline renderer that was looked up is shown as the current one, but not
\* when only the shared record's format matched.
FT_Get_Renderer(format) ==
  /\ alive
  /\ RendererClass(core, current, format) # NoName /\ RendererOf(format) # NoName
  /\ format = "outline"
  /\ shown' = RendererOf(format)
  /\ UNCHANGED <<alive, defaults, core, current, abi, public, synth, rasters, done, used>>

\* A record of the library is made current when the core knows its module; one
\* of another format is accepted without a look.
FT_Set_Renderer(record) ==
  LET name == IF record = Synth THEN synth.name ELSE record
      known == \/ defaults /\ name \in ToSet(Defaults)
               \/ Flagged(core, name)
      accepted == \/ name \in DefaultOutline
                  \/ CoreInstalled(name) # {} /\ core[FirstOf(core, name)].renderer
  IN /\ alive
     /\ record = Synth => synth.format = "outline"
     /\ known /\ accepted
     /\ current' = name
     /\ shown' = record
     /\ UNCHANGED <<alive, defaults, core, abi, public, synth, rasters, done, used>>

\* drop_library_rec: modules go in the reverse order; the shared record's raster
\* goes with the first renderer among them.
FT_Done_Library ==
  /\ alive
  /\ alive' = FALSE
  /\ core' = <<>> /\ abi' = <<>> /\ public' = <<>>
  /\ defaults' = FALSE
  /\ done' = [r \in Reg |-> done[r] + Cardinality({i \in DOMAIN abi : abi[i].reg = r})]
  /\ rasters' = IF \E i \in DOMAIN abi : abi[i].handle = Synth
                THEN rasters \ {synth.raster} ELSE rasters
  /\ UNCHANGED <<current, shown, synth, used>>

ModNext ==
  \/ \E name \in Names, v \in Versions, s \in Shapes : FT_Add_Module(name, v, s)
  \/ \E name \in Names, v \in Versions : FT_Add_Module_raster_new_fails(name, v)
  \/ \E h \in {Synth} \union {abi[i].handle : i \in DOMAIN abi} : FT_Remove_Module(h)
  \/ FT_Add_Default_Modules
  \/ \E f \in {"outline", "bitmap"} : FT_Get_Renderer(f)
  \/ \E r \in DefaultOutline \union {Synth} : FT_Set_Renderer(r)
  \/ FT_Done_Library

ModSpec == ModInit /\ [][ModNext]_modVars

-----------------------------------------------------------------------------
(* Properties.                                                             *)

Handles == {Synth} \union {ToString(r) : r \in Reg}
CoreEntry == [name : Names, version : Versions, renderer : BOOLEAN]
AbiEntry == [reg : Reg, name : Names, handle : Handles]

\* The type invariant of the tables (SyntheticModule of the core and the ABI).
ModTypeOK ==
  /\ alive \in BOOLEAN /\ defaults \in BOOLEAN
  /\ core \in Seq(CoreEntry)
  /\ abi \in Seq(AbiEntry)
  /\ public \in Seq(Handles \union ToSet(Defaults))
  /\ current \in DefaultOutline \union Names
  /\ synth \in [name : {"fixture_renderer"} \union Names, format : {"outline", "bitmap"}, raster : {0} \union Reg]
  /\ rasters \subseteq Reg
  /\ done \in [Reg -> Nat]
  /\ used \in 0..MaxAdds

\* Records stand for registrations that were made, each for its own.
RecordsDistinct ==
  /\ \A i \in DOMAIN abi : abi[i].reg <= used
  /\ \A i, j \in DOMAIN abi : abi[i].reg = abi[j].reg => i = j
  /\ \A r \in Reg : r > used => done[r] = 0

Count(s, Test(_)) == Cardinality({i \in DOMAIN s : Test(s[i])})

\* The core's list and the ABI's list name the same modules, as often: a lookup
\* by name succeeds exactly for the modules that have a record, whatever was
\* added, refused, upgraded or removed.
ListsAgree ==
  \A n \in Names : Count(core, LAMBDA x : x.name = n) = Count(abi, LAMBDA x : x.name = n)

\* Each registration is finished once: not while its module is installed, and
\* not twice; none is forgotten when the library goes.
DoneOnce ==
  \A r \in 1..used :
    done[r] = IF \E i \in DOMAIN abi : abi[i].reg = r THEN 0 ELSE 1

\* The public array lists default modules and installed modules only, no module
\* more often than it is installed.
PublicSound ==
  \A h \in ToSet(public) \ ToSet(Defaults) :
    Count(public, LAMBDA x : x = h) <= Count(abi, LAMBDA x : x.handle = h)

\* The core's current renderer is the default one or an installed module.
CurrentInstalled ==
  alive => current \in DefaultOutline \/ CoreInstalled(current) # {}

\* implementation.rs:20148 "`raster` is the exact handle produced by this table's
\* `raster_new` callback and is released once before module_done": when
\* module_done was called, no raster of that registration is left.
RasterReleased == \A r \in 1..used : done[r] > 0 => r \notin rasters
=============================================================================
