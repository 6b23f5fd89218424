# A verification project for fontdone

fontdone is a port of FreeType 2.14 to Rust: a core crate (`src/src`), a C ABI
that a C program links instead of FreeType (`src/fontdone-c-abi`), and a
JavaScript API (`src/fontdone-wasm`). Most of its lines decode fonts and compute
pixels: functions without memory between calls. Two things are hard to test. One
is the objects that C programs hold handles to: who owns them, how long a handle
is good for, how two copies of one list are kept in step, and what a callback may
do in the middle of a call. The other is the machines inside some of the
functions: the bytecode interpreter, the stroker, the rasterizer, the
auto-hinter, each a long loop over state of its own. This directory models those
parts in TLA+, checks them with TLC on small instances, and proves properties of
the size objects, of the cache manager, of the module tables and of the arithmetic
with TLAPS.

Paths below are relative to the directory that holds `src/` and `tla/`.

## 1. The system's parts

| Part | State | Operations | Where it is hard |
|---|---|---|---|
| Size objects of the core (`src/src/ffi/handles.rs`, `src/src/font.rs`) | per face a list of sizes, the active one, the scale in force; per thread a registry from handle address to face | `FT_New_Size`, `FT_Activate_Size`, `FT_Done_Size`, every scale request, variation updates, opening, cloning and dropping faces | addresses are reused, registries are thread-local, clones share state, a rebuild replaces the shared part |
| Size records of the C ABI (`src/fontdone-c-abi/src/implementation.rs`) | a second list of sizes per face, `face->size`, published metrics | the C entry points of the same calls | two copies of one state, synchronised call by call |
| Cache manager of the C ABI | faces by id, nodes, image, bitmap and charmap caches, reference counts | `FTC_*` lookups, removal, reset, unref | the requester runs in the middle of a lookup, face finalizers in the middle of a removal or reset, and both may call the manager |
| Libraries, faces, streams, glyphs of the C ABI | registry of live libraries, face lists, reference counts, the program's streams and memory | `FT_New_Library` ... `FT_Done_Library`, opening and closing faces, glyph making and copying | partial failure, exactly-once release, objects that outlive their library, reading a stream calls the program back |
| Modules and renderers | a table of modules in the core, a second one in the C ABI, one shared synthetic renderer | `FT_Add_Module`, `FT_Remove_Module`, `FT_Set_Renderer` | two tables, callbacks that fail half-way |
| TrueType interpreter (`src/src/tt/hinter`) | stack, call stack, function and instruction tables, graphics state | bytecode instructions | limits, skips over operands, loops |
| Stroker | two borders, state of a sub-path | `FT_Stroker_*` | a state machine over call sequences |
| Compressed streams | registries of open gzip, bzip2 and LZW streams | open, read, close | handles by address, decoder state |
| Charmaps, variations | the current charmap; normalised coordinates | select, set | temporary selections during lookups |
| Arithmetic (`src/src/fixed.rs`) | none | products, quotients, rounding to pixels | signs, ties, boundaries of fixed-width integers |
| Smooth rasterizer (`src/src/grays.rs`) | during a run: the cells of the box, the current cell and position | move, line, conic, cubic, sweep | corners of pixels, clipped parts, curves cut in pieces |
| Latin auto-hinter (`src/src/autohint/latin.rs`) | during a run: points, segments, edges, links between them | detection of features, placement of edges, alignment of points | lists whose elements name each other by index, phases that build on what earlier ones placed |
| Font parsers, scaler, rendering plumbing | none between calls | functions | malformed input |
| Cache manager of the core, WASM facade | a second manager that clones faces, tables of integer handles | the same calls | clones of a face share its sizes |

How they interact: a C call goes to the facade, which finds its record, calls
the core, and then brings its own records in step with what the core did. The
core finds a size through the registry of the calling thread. The facade's
managers and libraries call the program back: the requester of a cache manager,
the read and close functions of a stream, allocation functions, finalizers, the
callbacks of modules. A glyph that is loaded passes through the interpreter or
the auto-hinter and then the rasterizer; the stroker and the rasterizer walk an
outline with the same loop (`FT_Outline_Decompose`).

Properties that make the parts correct, in one sentence each. Sizes: a handle is
good where, and only where, the face that lists it lives, and glyphs are loaded
at the scale the active size remembers. Records: a C program sees the same list
of sizes as the core. Cache manager: what is answered for an id comes from the
face it has now, nodes live until a reset, every face a requester opened is
destroyed once. Ownership: each object is given back once, when its owner goes.
Modules: the core and the C ABI list the same modules and each is finished once.
Interpreter: it executes instructions and never data, stays within its limits,
moves no point that compatibility mode holds, and ends. Stroker: every sub-path
is counted and exported, whichever of its paths made it. Rasterizer: coverage is
the exact area up to a rounding error, and spans stay in the box. Auto-hinter:
lists of segments and edges that name each other agree, every edge is placed, in
order, and points stay between the edges they lay between.

## 2. Modules

| Module | What it models |
|---|---|
| `SizeList` | the abstract promise of the size API: a list of sizes, one of them current, each with its scale |
| `FaceSizes` | the core's sizes: shared cells, active size, entries, thread-local registries, address reuse |
| `SizeRecords` | the C ABI's records on top of `FaceSizes` (it EXTENDS it, every action contains the core's action) |
| `FtcManager` | the C ABI's cache manager, with the returns of requesters and of finalizers as steps of their own |
| `Lifecycle` | libraries, faces, streams, glyphs and custom memory of the C ABI, with the returns of stream reads and of finalizers as steps of their own |
| `Modules` | the core's list of modules, the C ABI's, the public array, the current renderer and the shared renderer record |
| `Fixed` | products and quotients in 16.16, rounding in 26.6 |
| `Interpreter` | the TrueType interpreter, from the font program to the hinted outline (EXTENDS `Fixed`) |
| `Outline` | the loop that walks an outline's contours, used by the next two |
| `Stroker` | sub-paths, borders, joins, caps, curves, counts and export |
| `GrayRaster` | the smooth rasterizer: lines, conics, cubics, cells, sweep |
| `GlyphHints` | the auto-hinter's segments: outline, directions, scan, links (EXTENDS `Fixed`) |
| `LatinFeatures` | its metrics, standard widths, edges and blue zones (EXTENDS `GlyphHints`) |
| `LatinHints` | the phases that place edges, the alignment of points, a whole glyph (EXTENDS `LatinFeatures`) |
| `SeqLemmas` | what appending, removing, stacking and unstacking do to a sequence; loops that count, scans that read on, and folds |
| `Sizes_proofs`, `Registries_proofs` (of `FtcManager` and `Modules`), `Lifecycle_proofs`, `Arithmetic_proofs`, `Interpreter_proofs`, `Stroker_proofs`, `LatinHints_proofs` | theorems |
| `MC*` | the instances the runs check: symmetry sets, programs, outlines, fonts |

Correspondence with the code:

* `FaceSizes`. A *cell* is the pair of `Rc<RefCell<api::Face>>` and
  `Rc<RefCell<FaceSizeState>>` of an `FT_Face`; the two always travel together.
  `inner` is the active size state of the parsed face, `active` and `entries` are
  the fields of `FaceSizeState`, `registry` is `SIZE_HANDLE_REGISTRY` of each
  thread. A size is named by the address of its boxed token; an address is free
  when no cell lists it. `Weak` references keep a cell's allocation from reuse but
  not its contents, which is what `FreeCell` and `Live` say. The scale setters are
  one action for each path through `sync_active_size_state`; the variation setters
  are the two outcomes of `finish_variation_coordinate_update`.
  A face is used on the thread that opened it (`FT_Face` holds an `Rc`), but it may
  be *dropped* on another, with its library.
* `SizeRecords`. `recs` is `FaceState::size_records`, `cur` is `FT_FaceRec::size`,
  `rust` is the core handle a record stands for, `shown` its published metrics.
* `FtcManager`. `faces` and `nodes` are the fields of `FTC_ManagerRec`, `entries`
  and `answers` the hash tables of the caches. `calls` is the stack of calls that
  wait for the program: lookups for the requester, removals and resets for the
  finalizers of the faces they took, one face at a time, before they remove the
  entries. `open` and `held` are ghosts: the faces the program opened and nobody
  destroyed, and the references it has not given back.
* `Lifecycle`. One variable per registry, list, count and owner; `libHeld` and
  `faceHeld` are ghosts. `reading` is the stretch of `FT_Open_Face` in which the
  stream's callbacks run; `ending` is the stack of `FT_Done_Face` and
  `drop_library_rec` calls in progress, with the faces each still has to destroy.
  Between two steps of a call the program may make any other, at any depth: that is
  how the finalizer of a face, the close function of its stream and the callbacks of
  the modules are modelled.
* `Modules`. `core` is the core's `synthetic_modules`, `abi` the C ABI's, `public`
  the array in `FT_LibraryRec`, `synth` the one renderer record all of a caller's
  renderers share. A registration has an identity (`Reg`), which the code has not:
  it is what makes "once" countable. `done` and `rasters` are ghosts.
* `Interpreter`. One record `m` holds the execution context; an action stands for
  one group of instructions of `exec.rs` and ends with the bookkeeping of `run`
  (step count, instruction pointer). Points keep their original, scaled and
  current coordinates in two zones. Programs are byte sequences, as in a font:
  skipping over operands is the point. The freedom and projection vectors are
  parallel to an axis, and both scales are equal and whole.
* `Outline`, `Stroker`. Coordinates are a lattice and directions multiples of 45
  degrees; what arithmetic decides (is a turn a corner, does a curve turn enough to
  be cut) is computed on them. A border is its tagged points with the flags for
  begin, end and on-curve. The outlines written down in the source for particular
  inputs are shortcuts here too, with the same tests before them. A second stroker
  without shortcuts runs beside it as a ghost, for `FastPathAgrees` to compare with.
* `GrayRaster`. Cells of height and area as in the code, by position; the cells of
  one pass are what the next starts from. Sub-pixels are 4 bits where the code has
  8, and the reciprocals and curve subdivision are scaled alike (`PixelBits`,
  `Upscale`, `UdivBits`, `CurveBits`).
* `GlyphHints`, `LatinFeatures`, `LatinHints`. Widths are real: 16.16 scales and
  26.6 coordinates. Segments and edges are numbered from 1 and 0 is the code's
  `usize::MAX`. One step is one stage of the code, or one edge of a phase of
  `hint_edges`; the metrics of a font are found anew for each job. `u` and `v` are the
  scratch fields of a point, with what each stage leaves in them.

An operation that returns an error before it changed anything is a stuttering
step and is left out of the actions. Lines whose data is abstracted are named with
their definition in `PROJECT.json` ("map").

Operators whose comment begins with *Mutant* are wrong on purpose: each is a
plausible slip in the definition below it, and with it in place TLC finds the
property that guards against it violated (`PROJECT.json`, "mutants").

## 3. Runs

| Run | Bounds | Shows |
|---|---|---|
| `FaceSizes` | 2 face values, 3 cells, 2 addresses, 2 threads, 2 scales, clones allowed | the registry never leads to a wrong face (`RegistrySound`) and always to the right one (`HandlesRegistered`); inactive sizes keep their state |
| `SizeRecords` | 2 faces, 3 cells, 3 addresses, 3 records, 1 thread, no clones, probes or rebuilds | the C records are in step with the core, and both implement `SizeList` |
| `FtcManager` | 2 ids, 3 faces, 2 nodes, 3 cache handles of which 2 can exist, nesting of 2, 2 references | no stale entry, lost face or wrong count through nested requesters and finalizers |
| `Lifecycle` | 2 libraries, 2 faces, 1 stream, 2 glyphs, 4 objects at a time, 2 modules, 2 references | everything is given back once, also when callbacks open and destroy objects while others are being destroyed; a living face is listed by a live library or waits once to be destroyed |
| `Interpreter` | thousands of short programs in three code ranges, 9 points; limits below | instructions and never data are executed (`InStep`), definitions point at code (`DefinitionsSound`) and a glyph changes none (`DefinitionsKept`), limits hold, compatibility mode freezes what it should, moved points are touched, every run ends |
| `SpinningLoop` | the same with a negative loop counter | violated: section 5 |
| `Modules` | 2 versions, 3 registrations, tables of 6 | the two lists agree, each registration is finished once, the public array and the current renderer are sound |
| `RasterLeaked` | the same | violated: section 5 |
| `Stroker` | 5 attribute sets, sub-paths of at most 3 segments, 5 calls, 8 parsed outlines | every general sub-path is counted, whole contours are exported, the shortcuts agree with the general path but for the two cases of section 5, the export with the counts |
| `SegmentsLost` | the same | violated: section 5 |
| `GrayRaster` | pixels of 4 bits, boxes of 2 by 2, 2592 triangles and 12 other outlines, 2 passes | coverage is the exact area up to rounding, spans stay in the box, each line step gets nearer, curves meet their end points |
| `LatinHints` | an em of 256 units, three fonts, sizes 7, 12 and 20, five render modes, glyphs with stems of equal and unequal widths, serifs, bowls, slants and stacked bars | segments and edges agree with each other, no stem is erased (`StemsKept`, with the exceptions of section 5), every linked edge is placed (`EdgesPlaced`), points stay between edges |

Why the bounds are enough to meet the interesting cases:

* Two faces and two addresses let the address of a destroyed size come back in
  another face while a registry entry of the first is still there, with three cells
  so that a rebuild has a cell to go to while both faces hold one. `Rebuilding` and
  `Probing` are `FALSE` for the records, because with them the code does not keep
  the properties (section 5).
* Two ids and a nesting of two let a requester or a finalizer remove, reset or look
  up the other id, and a removal wait for one that waits (159,828 states; a nesting
  of three gives 635,535 and no violation either). Two references are the least for which a count can be wrong without being
  zero. `MaxCaches` is 2 where the code has 16 so that the limit is reached;
  `SelfRequests` is `FALSE` (section 5). One stream meets two faces and two
  libraries. `MaxRefs`, `MaxCalls` and the constant `Modules` bound the runs.
  In `Lifecycle` four objects at a time (`MaxObjects`) are two libraries with a face
  each, so that the finalizer of one face can destroy the other's library, or one
  library with both, of which one goes alone (958,793 states).
* `Modules`: two versions give an upgrade and a refusal, three registrations two
  modules of one name and a renderer of another. `Capacity` is 6 where the code has
  32, four default modules included, so that the tables fill up.
* `Interpreter`: `StackLimit` 8, `MaxCallDepth` 3 (the code: 10), `FunctionBudget`
  3, `InstructionBudget` 1, `FunctionSlots` 8 (the code: 256) and `MaxSteps` 250
  are each reached by a program of the run. `MCInterpreter` combines pairs of
  instructions that move points, pieces that compute, call and fail, and all
  programs of up to three bytes of the twelve that skipping may confuse, as font
  program, as function body and as glyph program. `One` is 1024 and `Grid` 64: at
  a scale of 2 no rounding of a product is involved.
* `Stroker`: five attribute sets cover the four joins and three caps, a radius of
  zero, and the radii that the shortcuts ask for. Three segments give a first one, two
  joins and a closing, with a curve before, between or behind two lines; five calls
  two sub-paths and a count or an export between them. 124,642 states. (Four
  segments, with the attributes of the shortcuts alone, show nothing else of
  `FastPathAgrees`.)
* `GrayRaster`: triangles with corners on a grid that includes pixel borders and
  points outside the box give every way a line crosses a cell; the other outlines
  cover winding, crossing, cusps, loops, lone control points, and curves outside
  the box. 143,260 states.
* `LatinHints`: the outlines were chosen so that each branch is taken: anchors,
  blue edges, serifs with and without a base, stems in threes and sixes at equal
  distance, stems of unequal widths close behind each other, where one is held back
  by the other, two zones that round to the same pixel, edges in the way of each
  other, interpolation. 113,889 states.

`CHECK_DEADLOCK` is off in every run: a program may stop calling the library, a
bytecode program or a glyph ends.

Fairness is assumed in one place: `WF_clock(Tick)` for the interpreter. Its loop
runs in the calling thread and waits for nothing, so that it takes the next step as
long as there is one; with it `Terminates` says that every program ends, by its own
means or at a limit. Elsewhere every step is a call of the program, so none of them
must eventually happen. `Stroker`, `GrayRaster` and `LatinHints` walk finite lists.

## 4. Proofs

The first part of `Sizes_proofs` proves of `FaceSizes`, for any sets of faces, cells, addresses, threads and
scales, from the assumption `SizesAssumption` alone (the null values are no values,
the unsized state is a state):

* `TypeInvariant`: `Spec => []TypeOK`.
* `Invariance`: `Spec => []IInv`, where `IInv` is the conjunction of types,
  `RegistrySound`, `HandlesRegistered`, `HandlesDistinct` and `ActiveListed`. None
  of them is inductive alone: that a registry entry is sound after a new size was
  registered needs its address to be unlisted everywhere (distinctness), that a
  drop unregisters no size of another face needs distinctness too, and
  distinctness survives `FT_Done_Size` because the handle found through the
  registry is one of the cell's own (soundness). `RegistryIsSound`,
  `HandlesStayRegistered`, `HandlesStayDistinct`, `ActiveStaysListed` follow.
* `InactiveSizesAreKept`: `Spec => InactiveSizesKeepState`, an action property,
  from `IInv`.
* `ForceInvariance`: `Spec => []ForceInv`, which adds to `IInv` that without clones
  a cell has one holder, that the state of a free address is unsized, and
  `ActiveSizeInForce` (glyphs are loaded at the scale the active size remembers);
  `ActiveSizeStaysInForce` follows. No run repeats it: it is what `ImplementsSizeList`
  says of `loads`.
* `SizeListImplemented`: without clones, `Spec` implements `SizeList` under the
  mapping named by the operators from `OpenFaces` to `BaseOf`. The promise has no
  cells, threads, registries or mirrored metrics: that two faces share no cell, and
  that a glyph is loaded at the scale of the size that is listed as current, is
  `ForceInv`. A call through a handle of another face, or of a size that is gone, is
  the call for the face the registry leads to or no step at all. With clones the
  promise cannot hold, since two faces then change together; the run `FaceSizes`
  has them on, for the other properties.

Each step lemma has one conjunct of the invariant per level and `InvStep` one case
per action. Lemmas about `RemoveAt`, `Append` and `ToSet` come first. `TypeOK`,
`ActiveListed` and `HandlesDistinct` are proved and no run repeats them.

Its second part proves of `SizeRecords`, for the same constants and any set of records, from
`SizesAssumption` alone:

* `RecordsCallCore`: `RecSpec => Spec`, so that every theorem about the core's sizes
  is one about a program that uses the C ABI.
* `RecordsInvariance`: `RecSpec => []RecInv`, and with it `RecordsStayInStep` and, if
  no face is rebuilt, `RecordsOwnHandles`. That the two lists agree is not inductive:
  `FT_Done_Size` takes the record out of the list it finds by the record's owner and
  the size out of the cell it finds by the handle, and only `OneHolder` (a cell has
  one face), `RecordsListed` (a record is in one list, once) and `HandlesOwned` (the
  handle of a listed record leads to no other cell) make these the same place.
* `RecordsListImplemented`: without clones, probes and rebuilds, what a C program
  sees implements `SizeList`, with records for sizes.

The three hypotheses are choices of the program, `Cloning`, `Probing` and
`Rebuilding`, and each run fixes them. Where they are `TRUE` the code breaks the
properties (section 5), so that the theorems need them.

The first part of `Registries_proofs` proves of `FtcManager`, for any ids, faces, keys, nodes and caches and any depth
of nesting, from `FtcAssumption` (null values are no values, bounds are natural
numbers):

* `NodesInvariance`: `Spec => [](NodesInv /\ Idle)`, where `NodesInv` is the
  conjunction of types, `EntriesLeadToNodes`, `RefsCountHolders`, that a call waits
  for a cache that is there (`CallsServed`), and that a node shows what some lookup
  put in it (`NodesFilled`). `Idle` says that a manager that is not live has no
  caches, nodes or waiting calls. `EntriesStaySound` and `CountsStayRight` follow.
* `FacesStayOwned`, `EntriesStayFresh`: under `~SelfRequests`, `FacesOwnedOnce` and
  `EntriesFollowFaces`. They need each other's help and a third fact, `Asked`: of the
  lookups that wait no two are for one id, and such an id has no face. Without it a
  requester's answer could take the place of a face, which is what happens in the
  code when a requester looks up its own id (section 5), so that the hypothesis is
  not a convenience. With it an answer that
  arrives after a nested removal or reset meets no entry of an earlier face.
* `NodesStayUntilReset`: `Spec => NodesKeptUntilReset`, an action property: only a
  reset and the end of the manager destroy nodes, and they destroy all of them.

A step at the end of a call is split by what it does to the stack (push, pop, one
face less) and to the tables; `Owned`, `Asked` and `Follow` state the properties of
given stacks and tables, so that each of these has one lemma.

`Lifecycle_proofs` proves for any libraries, faces, streams and glyphs, any number of
references and any depth of callbacks, from `LifeAssumption` (null values are no
values, `MaxRefs` is positive), all five properties of the run:
`StreamsStayClosedOnce`, `StreamsAreNotForgotten`, `FacesStayListed`,
`BlocksStayBalanced`, `AliveStaysReferenced`. `MaxObjects` is no part of the
argument. The invariant `LifeInv` adds to them

* `StreamsUsed`: a stream is being read, or has one face, or is closed; the property
  counts what this says directly;
* `CountsHeld`: a library's or face's own count is that of the program, without
  which the last reference could not be told;
* `Sound` of the stack: a face waits at one place, a `FT_Done_Face` waits for one
  face, a library is dropped once;
* `Owes`: a library that is being dropped is not live and either gives its custom
  blocks back or has none, without which `FT_Done_FreeType` would keep them.

`Placed` is `FacesListedByOwner` of given lists, owners, libraries and a stack; the
calls move faces from nowhere to a list (`PlacedFace`), from a list to the stack
(`PlacedUnlisted`, `PlacedDrained`) and from the stack to nowhere (`PlacedGone`), and
each of these has one lemma, as has each thing that happens to the stack
(`EndingPushed`, `FaceEnded`, `LibraryEnded`).

`Arithmetic_proofs` is about `Fixed` and about what `GrayRaster` computes with it. For
all operands it proves, from `FixedAssumption` (`One` and `Grid` are positive and even):

* `ProductsNearest`: a product differs from the exact one by half a unit at most,
  and signs only change its sign.
* `QuotientsRound`: the same of `FT_MulDiv` and `FT_DivFix`; without rounding a
  quotient never gets larger in magnitude.
* `PixelsSnap`: floor, ceiling and rounding give whole pixels, less than one away,
  or half of one.
* `RoundingKeepsOrder`: rounding is monotone and idempotent: two sides of a stem may
  fall together but never change places.

They are about integers without a width: results beyond `i64` wrap in the code, and
are not covered. Lemmas about `\div` by a positive number and about signs come
first, because SMT has no rounding division of its own to reason with.

Of the smooth rasterizer it proves, for all outlines, clip boxes, shifts and widths of
its numbers:

* `LinesArrive`: `Spec => EachStepNearer`. Each step of a line leaves by the side the
  end lies beyond, so that a line of any slope takes no more steps than there are
  pixels between its ends.
* `CurvesAlwaysMeet`: `Spec => []CurvesMeet`. When the pieces of a curve are rendered
  the path is where the outline says, however often the curve was halved and whatever
  was skipped as out of the band.
* `SpansStayInBox`: `Spec => []SpansInBox`. Spans are written row by row and from
  left to right, inside the clip box, and no pixel is written twice.
* `RasterTypesHold`: the types of the state, the cells apart.

The assumptions are `RasterAssumption` (boxes are not empty), `PowersAssumption` (the
laws of powers of two, for those that occur as shifts: the provers know none) and
`OutlinesAssumption` (what `decompose` makes of an outline are calls on integer points;
`Tasks` is a fold, which they cannot type). All three are true of the code for every
outline, and TLC evaluates them. The invariant `PathInv` has three parts besides the
types:

* `OnTheWay`: `prod` is the cross product of the line's direction and the way from the
  pixel's lower left corner to its end; on neither axis has the line passed its end;
  and a slanted line `Cut`s the pixel it is in. It is the third that makes the choice
  among the four sides right: the corners do not all lie on one side, or the line goes
  to the right, and not upwards, from the corner at the lower left. The exception is
  needed because a side is left by when one of its corners is `> 0` and the next is
  `<= 0`, except that the right side admits `p_right >= 0`; with `> 0` there
  (`LeavesRight_strict`) a line through that corner leaves by the wrong side.
* `Meeting`: the pieces of a curve come first of what is to be done, and the last
  of them ends at `due`. For a conic this says that `2^n` forward differences with the
  bits of `CurveBits` add up to the end point exactly (`FollowedToEnd`), for a cubic
  that a half keeps the end of the whole (`HalvesTyped`).
* No task is left when the pass does not run.

`SpansInBox` has an invariant of its own, `RowsInv`: the cells of a row are in order
of x (`Cells`), and a line is drawn only while its pass runs. Below
it lies the sweep, a loop over a row's cells that carries the cover along and writes
spans as it goes. It is a recursive function, and what is true of its state after each
round follows from `Rounds` of `SeqLemmas`: induction over a loop's counter can be had
without the library's theorems by asking for the least number of rounds after which
the statement is false, because a set of natural numbers is a set like any other.

Wrapping additions are not in the model and so not in the theorems.

The second part of `Registries_proofs` proves of `Modules`, for any names, versions and
lengths of the tables, from `ModulesAssumption` (versions and bounds are natural numbers), the four properties of
the run `Modules`: `ListsStayInStep`, `FinishedOnce`, `PublicStaysSound` and
`CurrentStaysInstalled`. The invariant is their conjunction with the types and with
`RecordsDistinct` (a record stands for a registration that was made, each for its
own). They lean on each other: that a removal by name finds an entry in the core's
list needs the lists to agree; that it leaves the current renderer installed needs
the entry to have been found; that a callback runs once needs distinct records. The
lists are compared by counting: `CountPushed` and `CountRemoved` say what a push
and a removal do to the number of entries in any set, the second by a bijection of
positions, and the first of several entries exists because `<` on naturals is
well-founded.

`Interpreter_proofs` proves for every font and glyph, every control value and all
limits, from `InterpreterAssumption` (programs are sequences of bytes, limits are
natural numbers):

* `LimitsHold`: `Spec => []LimitsKept`. The run reaches each limit with values as
  small as 3 and 8; the theorem has the code's own, 10 calls and a million steps.
* `DefinitionsStay`: `Spec => []DefinitionsKept`.
* `DefinitionsEndWell`: `Spec => []DefinitionsSound`, also after jumps.
* `ControlStaysInStep`: `Spec => []InStep`.

The invariant `LimitsInv` says that a machine is `Sound`: it has its fields, its
stacks are sequences, calls, steps and backward jumps are counted within their
limits, and its tables of definitions are finite and within the budgets. A glyph's
machine also is one that was started by the glyph (`initial = 2`): the range that
executes is no help, because a glyph calls functions that execute in the font
program's range, which is the mistake `RunsGlyphCode` makes. There are two kinds
of instruction. Those that move points, compute, store or set the graphics state
*keep* the control state (`Keeps`): calls, counters, ranges and definitions are the
same after them and the stack is a sequence, whatever numbers they produce, so that
nothing has to be known about rounding, vectors or zones. Only jumps, calls, the end
of functions and definitions change control state, and each of them *obeys* the
limits (`Obeys`), one lemma for each. `ExecutePreserves` adds the head and the end
of the loop, where steps and the stack are tested.

The last two rest on a second invariant, `PlacesInv`, which needs `LimitsInv`:

* `Ordered`: each definition in the tables is `Filed`: it was made in the font program
  or the control value program, and the search from its start finds its end; a machine
  that no glyph started, and the calls that wait in it, are in these two programs.
* `InRow`: definitions start, and waiting calls return, where reading the code in order
  meets an instruction (`OnInstruction`).
* `Placed`: so does the machine, unless it failed.

`Ordered` always holds, the other two until a program jumps. The machine alone is
not enough: ENDF returns to a place that was remembered long before, and a repeated
call starts again where a definition says. What the scans of the code find is known
for all programs: `ReadInOrder` (the set of offsets that are read in order is closed),
`SkipsInOrder` (IF and ELSE come to rest on an instruction), `EndsInOrder` (FDEF and
IDEF too) and `DefinitionsWhole` (the search for an ENDF has met every instruction of
the body, which is `DefinitionsSound`). A scan is a recursive function that reads on to
the end of its code; `Scans` of `SeqLemmas` says that there is such a function and
`Backwards` that what holds at each offset, if it holds at all later ones, holds
everywhere. `StepsPush`, `StepsSkip`, `StepsEnter`, `StepsEndf` and `StepsDefine` say
of one instruction each that it keeps the machine ordered and in step.

`Stroker_proofs` proves of the stroker, for any starts, vectors, curves, outlines and
number of segments and in any order of calls, from `StrokerAssumption` (joins):

* `SubpathsStayCounted`: `Spec => []GeneralSubpathsCounted`.
* `ExportsStayWhole`: `Spec => []ExportsWholeContours`.
* `ExportsAgree`: `Spec => []ExportAgreesWithCounts`.

Where the points lie plays no part: neither the corners and caps that are chosen nor
the number of arcs they are made of matter to the marks of begin and end. The
invariant `StrokerInv` has three parts:

* `PathInv`: the stroker and its ghost without shortcuts are well formed and draw at
  the same place, and their borders can be exported.
* `AgreedInv`: when counts were given, or an outline was stored, that outline is what
  was published; an outline is stored only while a sub-path is being drawn.
* `CountedInv`: without shortcuts each border is `Contoured`, whole contours as many as
  the sub-paths promised; between sub-paths both borders rest, within one they are at
  work with two points or more.

Calls are known by what they do to a border: `Grown` (points are moved or added, and
those that are added neither begin nor end a contour), `Begun` (a part is open, and what
was closed before stays), `More` (each border has as many contours more as `EndSubPath`
gives it). `CloseContour` says that closing makes exactly one contour more, `Reversing`
that a border which takes the open part of the other grows by plain points and leaves
the other with its whole contours alone.

`LatinHints_proofs` proves of the hinter, for any glyphs, fonts, sizes and modes, from
`OutlineAssumption` (a glyph is a sequence of contours, each a sequence of points with
whole coordinates) and `FixedAssumption`:

* `EdgesStaySound`: `Spec => []EdgesSound`.
* `EdgesStayPlaced`: `Spec => []EdgesPlaced`.

Both follow from `HintingInvariant`, `Spec => []IInv`. Its parts are

* `EdgesSettled`: the edges of each dimension are `Settled`, which says `EdgesSound` of
  positions and numbers, without counting. It must hold of both dimensions at once, since
  the vertical edges are found first and placed last.
* `PointsLoaded`: contours are rings of points; what the segments of a dimension were
  found from, and that before there are edges no segment is in one (`Fresh`). An edge
  would otherwise begin with a segment that another lists.
* `StillEmpty`: edges are found once.
* `NoZones`: only horizontal edges (`Vert`) lie in blue zones; the vertical ones get
  none, and so skip the first phase without harm.
* `EdgesInTurn`: within a phase, what holds of the edges before the one whose turn it is:
  after phase 1 an edge is placed, or linked to none in a zone (`Clear`); after phase 2
  it is placed, or not linked at all (`Set`). `EdgesPlaced` is what this says when a
  phase is over.

The argument has three layers. The passes over points, segments and edges are folds;
`FoldsBy` of `SeqLemmas` says that what the steps of a fold keep, the fold keeps, and one
lemma for each pass says what its steps keep: `SegmentsFound`, `SegmentsLinked`,
`SegmentsGrouped` (no segment is put into two edges, edges are inserted in order and the
numbers behind them move), `OrderedListed` (turning the order round is a permutation of
numbers), `AllVisited`. The phases of `hint_edges` never change what an edge lists or
where it leads, and never unplace one: that is `Moved`, and `BlueEdgeKept`,
`AnchorStemKept`, `RelativeStemKept`, `Symmetry3Kept` and `SerifEdgeKept` show it of each
of them, so that what was established for an edge survives when a later one pulls it
along. Last, one lemma for each stage. Where things lie plays no part: fields that hold
positions and zones range over an arbitrary set.

Only model-checked:

* `FastPathAgrees` of `Stroker`: it compares with outlines that the source writes down
  number by number, which is a matter of data and not of steps.
* `CoverageNearExact` of `GrayRaster`: the reference is an area.
* `CompatFreezes` and `MovedAreTouched` of `Interpreter`: what a group of instructions
  does to each point is decided by a loop over points that earlier rounds have moved.
* `StemsKept` and `PointsBetween` of `LatinHints`: they are about distances. What a
  placed stem keeps of its width depends on roundings, standard widths and where other
  edges were put, and is not a consequence of the order of the phases.
* `Terminates`: liveness under fairness, out of the prover's reach.

`LifeTypeOK` is proved as a part of `LifeInv` and `RecTypeOK` by `RecTypeInvariant`;
`MachineTypeOK` is stated as documentation of the state.

## 5. Where the code and its documents disagree

Shown by a run:

* `SpinningLoop`: `ALIGNRP` and `SHP` cast the loop counter of `SLOOP` to `usize`
  (`exec.rs:1600`, 1616). A negative one makes about 2^64 rounds inside a single
  instruction, and the step limit, "the final malformed-bytecode guard"
  (`exec.rs:32`), counts instructions. `IP`, `SHPIX` and `FLIPPT` do nothing instead.
* `RasterLeaked`: a rasterizer "is released once before module_done"
  (`implementation.rs:20148`); the one renderer record that all renderers share holds
  the last one made (20903), so that the first is forgotten, and removing the first
  renderer releases the second's.
* `SegmentsLost`: "a following segment must continue through the live border state"
  (`handles.rs:4793`), but an open sub-path whose first curve is a written-down one
  publishes that curve's outline at its end, whatever was drawn after it (6561, 6831).

Observed while modelling, without a run of its own:

* Sizes. After a variation update that rebuilds the face, C size records keep the
  addresses of destroyed core sizes, and an address may come back as a size of
  another face. `FT_Activate_Size` and `FT_Done_Size` change the scale in force
  without `FT_Face.size_metrics` (`handles.rs:11327`); the next call that publishes
  the face copies the stale metrics, and `FT_Get_Kerning` uses them
  (`implementation.rs:26232`, 26248). A metadata-only probe should have a null
  `face->size`; the C ABI gives it a record.
* Cache manager. A requester that looks up its own id makes the manager lose the
  first of two faces (`implementation.rs:1845`, 1851). A finalizer that looks a glyph
  up while a reset destroys the faces gets a node that the reset has destroyed: the
  nodes go first, the entries last (1880-1904). A finalizer that looks up a face of a
  manager that is being destroyed may open one that nobody destroys. The models leave
  these three cases out: the first is `SelfRequests`, the second is the guard
  `~Resetting` of the glyph lookups, and in the third a manager goes in one step.
* Lifetimes. While a library is destroyed it is in the registry no more, so that
  `FT_Done_Face` takes no face off the list that `drop_library_rec` works through
  (`implementation.rs:20194`, 22323): a finalizer that gives back another face of the
  library has it destroyed twice. The guard `~Dying` leaves this out. A glyph that a
  finalizer gets from such a face can only be an outline.
* Modules. A failing `module_init` leaves the module registered. A higher version
  is added beside the lower one, where a fixture expects "remove_old_then_install_new"
  (`ftmodapi.FT_Add_Module.json:212`). A failing `raster_new` removes by name, which
  may be the older version, and makes `smooth` current. `FT_Add_Default_Modules`
  drops a caller's modules from the public array. `library->cur_renderer` stays on
  a removed renderer.
* Interpreter. `FIXED_POP_COUNT` gives opcode 4Ah 0 operands instead of 2. `SPVTCA`
  sets the projection vector and not the dual one. The font program's call stack
  survives into the control-value program (`exec.rs:1103`).
* Stroker. Of two open horizontal lines only the last is counted and exported, where
  a fixture says "all open-stroke points/contours"
  (`ftstroke.FT_Stroker_GetBorderCounts.json:109`). A horizontal line followed by
  anything else leaves a contour of one point. `line_segments` is not reset, so that
  ending an empty sub-path may publish a line. A pending curve that is not reset
  merges sub-paths, and its replay drops earlier ones. A sub-path that is begun and
  abandoned after a stored curve makes counts and export disagree. With radius 0
  and butt or square caps the shortcuts have other sizes than the general path
  (`FastPathAgrees` leaves that radius out). The outline written down for a right
  angle is that of a "two-line path" (5978), but its test (5967-5972) counts lines and
  looks at three points: a closed sub-path with a curve before, between or behind the
  two lines passes it, such as line, curve to (640, 0), line to (640, 640) at radius
  96, and the curve is in neither the counts nor the export. (The test for one line
  asks whether there was a curve.) The ghost `skipped` marks these paths; without
  `~path.skipped`, TLC finds `FastPathAgrees` violated.
* Auto-hinter. For edges at equal positions a comment puts those of the major
  direction first (`latin.rs:3680`); the code puts them last (3691). Comments say
  that edges have no links here (4444, and near 4700); they have, and phase 2
  places stems. Where directions are identical a merged segment does not refresh
  the previous point (3400); no outline gets there. A stem whose sides both lie in
  blue zones gets the distance of the zones, which may be none at small sizes
  (`StemsKept` leaves such stems out). An edge is held back behind its neighbour "only
  when preserving the linked stem still leaves more than a quarter pixel" (4641), but
  the test (4640) is about the absolute distance: where the neighbour lies more than a
  quarter pixel past the linked edge, the edge is moved there too, and a narrow stem
  close behind a wide one is turned around. Bars at 8, 56 and 92 of widths 12, 32 and 4
  at 7 pixels show it: the third stem is first placed at 157 and 163, behind an edge
  at 188, and ends at 188 and 163. `StemsKept` has `HeldBack` for it; without, TLC
  finds it violated by the outlines of the run. The bound checks of the last
  phase never apply, because of what `EdgesPlaced` says.

## 6. Not modelled, and why

* Coverage. About an eighth of the implementation's lines is modelled. Much of the
  rest has no behaviour of its own: the WASM implementation is wrappers, checks of
  arguments and support for tests; `font.rs` and `scaler.rs` are parsers and
  accessors of byte tables; generated tables, fixtures written down in code, and
  the plumbing from outline to bitmap make up most of what is left.
* Auto-hinter: the CJK variant; tildes, ignored marks and vertical separation with
  their database of characters; glyphs that are not base glyphs; detection of blue
  zones and choice of scripts; more than 1000 segments; saturation at `i16`.
* Rasterizers: the monochrome one, LCD filters.
* Interpreter: vectors that are not parallel to an axis, and unequal scales: both
  are arithmetic on unit vectors that has no small instance.
* Integers that wrap beyond the machine's width in `fixed.rs`.
* `FT_Done_FreeType` on a library made by `FT_New_Library`: FreeType's contract is
  `FT_Done_Library`; the code would keep the custom blocks.
* Scalers and the single size of a cached face: in the plan. Limits of the cache manager on faces, sizes and bytes: there is no
  code for them.
* A reference to a node that a reset has destroyed is not confused with a new node
  at the same address (`FreeNode`): the code cannot tell them apart, and neither
  can the program.
* The callbacks of a custom `FT_Memory` may fail but call nothing; the finalizers of
  sizes and slots.
* Reference counts that saturate (`FT_Short`, `usize`): the bounds stay below.
* The stroker's registry of handles, `FT_Stroker_Done`, and the glyph functions
  built on it. Module properties and debug hooks.

## 7. Plan

Done: sizes and their records, the cache manager, lifetimes, modules, the
interpreter, the stroker, the smooth rasterizer, the Latin auto-hinter, and the
arithmetic below them; proofs of the sizes and their records with the refinement of
`SizeList`, the cache manager, the lifetimes, the modules, the interpreter's limits and
control, the stroker's contours, the arithmetic, and the lines, curves and spans of the
rasterizer, and the edges of the hinter.

Next, in order of what matters most:

1. `FtcManager` over `Lifecycle` and `SizeRecords`: a manager whose library goes, the
   size of a cached face.
2. Compressed streams: the registries of open streams and the LZW decoder.
3. The charmap in force and the temporary selections of lookups.
4. The core's cache manager, as an instance over `FaceSizes`, and the WASM handle tables.
5. The CJK hinter and the adjustments for single characters.
