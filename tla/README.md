# A TLA+ model of phenotype-gfx

phenotype-gfx is a Rust library of graphics algorithms (voxel storage and
meshing, chunk streaming, compute shaders, post-processing, terrain, water) with
a C API and a Unity package around it. This directory holds TLA+ modules for
nearly all of its logic, TLC configurations that check them on small instances,
and TLAPS proofs that hold for every instance.

Paths below are relative to the repository's `src/` crate directory unless they
start with another directory of the repository.

## 1. The system

### Components

| Component | State | Operations | Talks to |
|---|---|---|---|
| `StreamingManager` (`streaming_io.rs`) | resident chunks, LOD levels, access ticks, tick, camera anchor and velocity, statistics | request, insert (with or without LOD), evict, prefetch, flush, camera and clock setters | calls its `ChunkStorage`; asks `lod_priority` for scores and predictions |
| `lod_priority.rs`, `ring_distance` (`streaming.rs`) | none | score of a chunk, chunks the camera will need | called by the manager |
| `DiskChunkStorage` (`streaming_io.rs`) | one file per chunk | save (write to a temporary file, rename), load, delete | file system; shared by threads (`Send + Sync`, `&self`) |
| `MemoryChunkStorage` (`streaming_io.rs`) | a map behind a mutex | the same | tests |
| Window policy (`streaming.rs`, `lod.rs`) | a policy, an anchor | classify a chunk by ring, cohort, prefetch cone, eviction key; ring plan and budget | the engine |
| `VoxelWorld` (`voxel/world.rs`, `voxel/delta.rs`) | dense chunks, octree, write sequence, dirty events | write, read, compact, drain | a consumer drains events and rebuilds chunk meshes |
| `VoxelOctree` (`voxel/octree.rs`) | nodes by chunk coordinate | insert, look up, compact | owned by the world, which never calls its `compact`; its adapter does |
| Coordinates (`voxel/coord.rs`) | none | chunk of a position, packed chunk identifier | world, events |
| Meshers (`voxel/greedy_mesher.rs`, `voxel/cubic_mesher.rs`) | none | chunk to mesh | adapters, C API |
| Serialisation (`voxel/serial.rs`) | none | run-length encoding | - |
| SIMD (`voxel/simd.rs`, `crates/phenotype-voxel/src/simd.rs`) | the instruction set found | normals, centres, dot products, mixes of slices | the cubic mesher |
| Sprites (`voxel/sprite_voxelizer.rs`, `voxel/shape_hints.rs`) | a hint registry | pixels to voxels, hint of an asset | engine side |
| Materials (`voxel/material.rs`, `voxel/material_pbr.rs`, `voxel/ports/material.rs`) | palettes, manifests | add, get, resolve overrides and textures | C API, meshers |
| Renderer port (`voxel/ports/renderer.rs`, `voxel/adapters/renderer.rs`) | frame handles, counters | begin, submit, end | forwards to another renderer |
| `GpuMesher` and its kernel (`compute/gpu_mesher.rs`, `compute/mesh_generator.rs`) | two atomic counters, vertex and index buffer | dispatch, one invocation per voxel, read back | GPU device |
| Other kernels (`compute/voxel_processor.rs`, `compute/sorting.rs`) | voxel, scratch, key and histogram buffers | fill, carve, smooth; three sort passes | no dispatcher in the repository |
| `PostFxPassRegistry`, in C# (`unity/postfx/`) and in Rust (`postfx/`) | providers by effect, render order | register, unregister, reorder, bind to an owner | the Rust one mirrors the C# one |
| `PostStack` (`unity/postfx/Runtime/PostStack.cs`) | its registry, materials, support flags, a temporary texture | Awake, OnRenderImage, OnDestroy, choice of availability provider | Unity calls it; it calls the providers; scripts change its registry and toggles |
| Passes (`postfx/*_pass.rs`) | configuration, lookup table, sample kernel | set up, dispose, configure, compute a pixel | the Rust stack |
| Terrain (`terrain/`) and water (`water/`) | height field, wave bank, LOD thresholds, materials | set, mesh, shade, select a level | engine side |
| Snapshots (`postfx`, `terrain`, `water` `ports/serialization.rs`) | files | save, load | file system |
| Material registries (`*/ports/material_registry.rs`) | materials by id | register, unregister, get | a recording mock beside each |
| C API (`bindings/c_api.rs`) and its wrappers (`unity/PhenotypeGfx.cs`) | boxed objects behind handles, a load-order set, one atomic counter | one function per operation; dispose, finalize | Unity through P/Invoke |
| Plugin manager (`plugin.rs`) | list of plugins | register, execute all | plugins |
| Observability (`obs.rs`, `otlp.rs`) | exporter state | metrics, blocking HTTP endpoint | - |

### What is hard here

* **Failure in the middle of a call.** Inserting evicts, evicting saves, and a
  save can fail; a prefetch is a loop of such steps; a flush stops at the first
  failure; snapshots are written in place. Between any two steps the process may
  die.
* **Interleaving.** The disk storage is shared by threads and every call is
  several system calls. Kernels run thousands of invocations that share counters
  and buffers, and claim from two counters by two separate atomic additions.
* **Stale data.** The consumer of dirty events rebuilds from the world as it is
  when it gets to an event. Bookkeeping that an insert writes before its eviction
  outlives a failure. Lookup tables and kernels are built for a size that
  `config_mut` changes afterwards.
* **Ownership across a boundary.** C# wrappers hold addresses of native objects
  that may be freed and given out again; sizes of vertices and counts of indices
  are derived on both sides.
* **Other people's code inside a call.** A frame runs whatever passes are
  registered and a plugin manager whatever plugins; what they do to the rest must
  be bounded.
* **Limits and lanes.** The resident set, the prefetch budget, the mesh buffers,
  the 64 bits of a chunk identifier, the 16 bits of a material and of a run are
  all reached in legal use; vector code must agree with scalar code in every lane,
  block and remainder.

### What makes each part correct

* *Manager*: a request returns what was last inserted whatever was evicted,
  prefetched, flushed or refused in between, and after a crash what was once
  current; the least important chunk goes first; the resident set outgrows its
  capacity only by disk hits; the statistics add up.
* *Disk storage*: save and delete are atomic, a load returns a whole payload.
* *Window*: nothing is drawn, simulated or kept in more detail farther away than
  nearer; a step of the camera passes through the seam; residents fit the plan.
* *World*: voxels read as written, every stale mesh has an event on its way,
  compaction settles. *Octree*: compaction invents no value and takes no node but
  of eight like siblings.
* *Coordinates*: positions in one voxel, and only those that an `i32` chunk
  coordinate can tell apart, share chunk and index; identifiers order chunks where
  their bits suffice.
* *Meshers*: every face between solid and air is covered once, outwards. *Mesh
  kernel*: slots are written once, indices refer to vertices, the whole surface is
  drawn when it fits, what is missing is no more than what does not fit, every
  dispatch ends.
* *Other kernels*: an operation changes what it is about; a scatter gives the
  elements of a digit slots of their own.
* *Post-processing*: a frame shows every running pass once and in order; a frame
  throws for known reasons only and keeps no texture; both registries agree; a
  table for the configured size leaves colours alone.
* *C API*: every native object has one live owner and is destroyed once; a call
  works on its own wrapper's object, or on memory that is nobody else's; an
  eviction takes the oldest load; a material identifier names what was added.
* *Recorders and files*: what is reported is what happened; a snapshot that loads
  was saved.

## 2. Modules

| Module | Models | Built on |
|---|---|---|
| `ChunkPriority` | `ring_distance`, `compute_priority`, `predict_chunks` | |
| `StreamingManager` | the manager over an abstract storage | `ChunkPriority` |
| `ChunkCache` | abstract: a map with a durable shadow | refined by `StreamingManager` |
| `DiskChunkStorage` | the storage, one action per system call | |
| `ChunkStore` | abstract: an atomic map for concurrent callers | refined by `DiskChunkStorage` |
| `StreamingWindow` | window policy, ring plan and resident budget around a moving camera | |
| `VoxelCoords` | coordinate arithmetic and identifiers | |
| `VoxelWorld` | the world and a consumer of its events | `VoxelCoords` |
| `SparseOctree` | the octree and its compaction, a pass at a time | |
| `EventOrder` | a batch of events as its consumer sorts it | |
| `DenseChunk` | a chunk of small edge, its views, loop order and run-length form | |
| `CpuMesher` | both CPU meshers | `DenseChunk` |
| `VectorBatch` | SIMD and scalar operations on slices | |
| `SpriteVoxelizer` | edge distances, balloons, extrusion into a chunk | |
| `ShapeHints` | the registry of shape hints | |
| `MeshGenerator` | kernel and dispatch | |
| `ComputeDispatch` | workgroups of a dispatch | |
| `VoxelProcessor` | fill, carve, smooth | `ComputeDispatch` |
| `RadixSort` | histogram, prefix sum, scatter | `ComputeDispatch` |
| `PostStack` | both pass registries as functions on records; the Unity component, its frames, and a Rust registry given the same calls | |
| `PostFxPasses` | the seven Rust passes and their shader variants | |
| `ShaderStages` | shadow cascades, occlusion kernel, blending and dithering | |
| `DetailLevels` | levels of voxels, terrain and water by distance; the gestalt of cohorts | |
| `GridMesh` | height fields, wave banks and the meshes built from them | `DetailLevels` |
| `MaterialRules` | terrain material properties, override manifests, texture channels | |
| `MaterialRegistries` | four material registries, each beside its recording mock | |
| `SnapshotFiles` | the three snapshot ports over one directory | |
| `FrameCounter` | the counting renderer over one that keeps the frame protocol | |
| `PluginManager` | registration and execution of plugins | |
| `CApi` | the native objects behind the C functions and the C# wrappers that own them | |
| `Induction` | nothing: induction, recursion and sorting over numbers, as lemmas for the proofs | `TLAPS` |
| `Host_proofs` | theorems about `CApi`, `RadixSort`, `VoxelProcessor`, `StreamingWindow`, `DetailLevels` and `GridMesh`, parts of `MCHost` | `MCHost`, `Induction` |
| `Voxel_proofs` | theorems about `VoxelWorld`, `SparseOctree`, `VoxelCoords`, `DenseChunk`, `CpuMesher`, `VectorBatch` and `SpriteVoxelizer` | `VoxelWorld`, `MCVoxelData`, `Induction` |
| `Services_proofs` | theorems about `SnapshotFiles`, `ShapeHints`, `FrameCounter`, `PluginManager`, `MaterialRegistries`, `EventOrder`, `PostFxPasses`, `MaterialRules` and `ShaderStages`, the parts of `MCServices` | `MCServices`, `Induction` |
| other `*_proofs` | theorems about the module they are named after, `StreamingManager_proofs` about `ChunkPriority` too | `TLAPS` |
| `MC*` | small instances for TLC | |

Names of actions and variables are those of the code. Operators that a comment
calls *Mutant* are broken variants of the definition below them; no
specification uses them. Each property is known to fail when the definition it
guards is replaced by its mutant.

Three `MC` modules compose parts that share no state: `MCVoxelData` (naming, the
world, meshing, encoding, sprites, octree, vectors), `MCHost` (C API, window, levels,
surfaces, reports, kernels) and `MCServices` (renderer, plugins, hints,
registries, palettes, snapshots, passes, materials, shaders, events). A
behaviour of one of them moves a single part, its `subject`, and leaves the
others as they are: their product would be larger and show no more. Each property
of such a run is a conjunction of its parts' named properties, one for each
subject it speaks of.

### StreamingManager

Methods take `&mut self`, so a method is one action. `request_chunk`,
`insert_chunk` and `evict_chunk` are split into their outcomes (hit, load, miss,
error; room, eviction, failed eviction). `prefetch_next_frame` is one action per
turn of its loop, because an error or a crash can stop it between turns; other
methods wait until it has returned. `save_all_chunks` saves a subset of the
resident chunks, all of them unless the storage fails; a crash in the middle of
it is a partial save followed by a crash. A `HashMap` yields chunks in no
particular order, so among equally unimportant chunks any may be the victim.

The storage is the map that `DiskChunkStorage` implements: it may refuse any
call, and when it says a chunk is not there the chunk is not there. The score is
a fraction instead of an `f32`: ties and orderings agree as long as `f32` tells
the scores apart. `Crash` forgets the manager and keeps the storage. Time and
counters are bounded by `MaxTick` and `MaxCount`, which only stop clients from
calling.

`Visible` maps the manager to the abstract cache: memory if resident, else disk.

### DiskChunkStorage

The file system is POSIX: names refer to inodes, an open file keeps its inode,
truncation and writes act on the inode. A file has `Blocks` blocks so that a
reader can meet a half-written file. `Exclusive` says that one chunk is not saved
by two threads at once: a manager calls its storage from `&mut self` methods, so
it holds for one manager per directory. With `Exclusive` set to `FALSE`,
`SavedFilesWhole` fails: two savers share one temporary file. A crash is the
death of the process, not of the machine. `StatMayFail` is separate from the
other failures because `Path::exists` turns it into a "no" that the caller cannot
tell from absence: a load then answers `NotFound` for a saved chunk, and
`ImplementsChunkStore` fails. The run assumes a stat that answers.

`Pending` maps the program counters to the abstract calls: a load has chosen its
answer when it has opened the file.

### StreamingWindow

The policy, the ring plan and the anchor are the state; ring, lifecycle state,
cohort, eviction key and prefetch cone of a chunk are functions of them, as in
the code. Policies are offered good and bad, and the constructor's checks decide
which become the policy in force. Directions are in units of 1/128, as the code's
`Q0.7` is, and of any length, as the API takes three `i32`. The product of such a
direction with the way to a chunk may be no `i32`: `Wrapped` is what an unchecked
build keeps of it, and a checked one panics there. The threshold saturates as in
the code. Differences of chunk coordinates (`streaming.rs:277-279`) are exact: a
camera and a chunk 2^31 chunks apart are left out.

### VoxelCoords

`div_euclid` and `rem_euclid` by a positive number are `\div` and `%`, and the
quotient is cut to an `i32` (`AsI32`), so that the chunks along an axis begin again
after `2 * I32Half` of them. `NamesAreVoxels` says so exactly: chunk and index
coincide for two positions whose voxels are whole turns apart, and for no others.
In `MCVoxelData` two cursors walk over the positions, so that every state is a pair
of positions and the invariants compare what the functions say of them.

### VoxelWorld and EventOrder

A world position is a pair of chunk and voxel; `LatticeNames` checks that this
loses nothing. Identifiers are real: the sets of one bits of a `u64`, so that
colliding chunks collide in the model as well. The consumer drains when it has
handled its last batch, and rebuilds every chunk that bears the identifier of an
event, as `delta.rs` asks. `wrote`, `forgotten` and `events` are history. A chunk
enters `forgotten` when it is written to after having been promoted with a
non-default value: the code then starts from an empty chunk, and
`ReadsMatchWrites` and `StaleMeshesHaveEvent` speak of the other chunks.
`SeqModulus` stands for 2^64 and bounds the number of events. `EventOrder` is
what a consumer does with a batch before handling it: sort by chunk and sequence
number and drop repeats.

### SparseOctree

`compact` is one action per pass of its loop; a pass looks at all nodes as they
were when it began. A behaviour starts from trees with whole, odd, dense and
incomplete groups of siblings on both sides of the origin, may have a node
inserted, and compacts. The history `said` has what the nodes said when the
compaction was called, what follows from that once for every pass - eight equal
siblings say their value at half their coordinate too - and what was inserted
since; `former` has the nodes themselves. `CompactionExplained` says that no node
ever holds anything else, and that a chunk whose node is gone went with its seven
siblings, all of one value. Half the coordinate is the coordinate of another
chunk, where a node may have been: what that does to the answers is the subject
of the run `octree_queries`.

### DenseChunk and CpuMesher

A chunk of edge 3 is written one voxel at a time, six of its 27 voxels with one of
three materials, and every chunk reached is meshed by both meshers and encoded
and decoded. A quad keeps its corners, its face, its material and its ambient
occlusion; the plain definition it is compared with is the set of unit faces
between a solid voxel and one that is not, which the quads cover without two of
them covering one face. A stream is a sequence of fields, so
the codec's refusals are all reached, and `SavesLoadBack` names them: another
magic, any other version, another element size, a number of runs that is one too
small, a run missing, a stream that ends anywhere. `MaxRun` is 9 here; in the code
it is 65535, which a chunk of 4096 voxels does not reach.

### VectorBatch

An operation of an instruction set is a function from registers to registers, a
register a sequence of lanes. Numbers are exact: `x * d^(k/4)` is kept as
`<<x, d, k>>`, so that reciprocal square roots are exponents and a wrong lane or a
wrong exponent shows, while rounding does not. A slice grows by one vector at a
time, so blocks and remainders of every length up to 13 are met. What differs
between the normals of the instruction sets is the subject of the run
`simd_normals`.

### SpriteVoxelizer and ShapeHints

The breadth-first search is one action per pixel taken from its queue. The
volumes built from its distances are functions of the finished search. Hint
lookups are by prefix; a name is a sequence of parts so that a prefix may begin
in the middle of a word, as the default prefixes can.

### MeshGenerator

An invocation has two steps per face, its two `atomicAdd`s; what it writes after
the second goes to slots nobody else touches, so the writes belong to that step.
The upload is read-only during a dispatch, so the list of faces an invocation
will emit is fixed when it starts. Refusals, device loss and read-back are
actions of the host. `GpuMesher` uses the default configuration, whose buffers
are as large as its constants say; `for_grid` keeps those capacities for any
grid, so short buffers are reachable and are part of the model.

### VoxelProcessor and RadixSort

The repository ships these kernels with descriptors and shader text and without a
dispatcher, so the host is the one the descriptors describe: the buffers they
bind, workgroups as `dispatch_count` gives them, one pass after the other. A step
is one read, one write or one atomic addition of one invocation. The smoothing
kernel copies its own voxel to the scratch buffer and reads its neighbours'
there without a barrier that all workgroups share; what it reads is whatever is
there, and `OperationsLocal` says what stays true all the same: a smoothed voxel
lies within its own neighbourhood's values, old or left over. In the sort a
scatter takes its rank within a digit from an atomic counter, so the order of
equal digits is open; `RanksCompact` says that the elements of a digit get slots
of their own without a gap. The run `radix_sort` shows what offsets that start at
zero for every digit do to the whole.

### PostStack

A frame is one action per pass, because any pass may throw; Unity runs
everything on one thread, so scripts act between frames only. A texture's content
is the sequence of effects applied to it. Providers are of four kinds:
*bound* and *unbound* are built-in ones whose owner was or was not set by `Init`
(a provider taken from a second default registry has none), *custom* has a
material of its own, *bare* draws without one, as the mock of the registry's
tests does. Toggles and the LUT texture are public fields read during a frame;
they are arguments of the frame. `Awake` finds any subset of the shaders; an
injected availability provider claims what it likes. Bloom's two temporaries are
taken and given back within one call and are left out, and so are frames without
a source or destination, which do nothing.

Scripts hand `SetRenderOrder` lists without repeats (`RenderOrdersAssumption`),
though possibly of effects nobody registered. With a repeated effect the C#
`List.Remove` and the Rust `retain` differ, and the registries part.

### PostFxPasses and ShaderStages

One pass is driven through set-up, disposal, new configurations and, for the
lookup table, a table of the caller's; a pixel's colour is a function of that
state. Colours are whole parts and inputs those on which the arithmetic is
exact; `powf` and noise are left out. `lut_for` remembers for which size the
table was built and `ready` whether the kernel has the configured size, because
`config_mut` changes the size without rebuilding; what a stale table or kernel
does is part of `GradingNeutral` and `KernelCurrent`. The number of floats of a
table and the index into it are `u32` (`Overflows`, `Wrapped`), and
`overflow_checks` says which of the two kinds of build is running. In
`ShaderStages` a draw call's bindings are variables and a fragment is an
argument.

### DetailLevels and GridMesh

Distances are whole numbers, so a level that the code rounds is rounded here
too. Waves run along an axis and are sampled at quarters of their length, where
sine and cosine are -1, 0 or 1. A mesh's triangles are compared with the field or
the patch they stand for: each cell covered, indices within the vertices,
neighbouring patches with equal edges.

### MaterialRegistries and MaterialRules

Every registry is given the calls of its mock, so that the two can be compared,
and the mock's log is replayed. The voxel palette is one of them; its adapter and
its mock treat blank names differently, which `PalettesReplay` takes into
account. `MaterialRules` holds what is resolved from a material: typed
properties, overrides by identifier, sources of texture channels, and what
happens when a texture is missing.

### SnapshotFiles

Saves open and truncate the file, then write piece by piece; a save may fail or
the process die in between, and a load may run meanwhile. A text is a sequence of
fields closed by a brace. `SnapshotsLoad` says that what loads was saved whole
and passes validation; nothing promises that a file outlives a failed save, as it
is written in place.

### FrameCounter and PluginManager

The renderer inside the counter is external: it keeps the frame protocol of
`ports/renderer.rs` and may refuse any call. The counter counts a begin before it
knows that it succeeded (`voxel/adapters/renderer.rs:92`), so `FramesAccounted`
relates the counts to what was lost. Plugins are external too: one initialises a
step, writes to the shared configuration, and may fail without stopping the
others.

### CApi

The native heap is a function from addresses to objects; an address is free again
once its object is destroyed, and is then given out anew. Destroying or using an
address acts on whatever lies there, so a wrapper that kept a handle too long
would reach another wrapper's object: `HandlesOwned` says that wrappers, through
disposal and failed constructors, never do. A native call takes time: `Enter` has
tested the flag and passed the handle on, and every method of a wrapper is the
return of such a call. `PhenotypeGfx.cs` has no `GC.KeepAlive`, `HandleRef` or
`SafeHandle`, so in between the collector may finalize a wrapper that the program
has let go, under its own last call; `ReturnFromFreed` is how such a call ends.
`HandlesOwned` allows that and nothing worse: with one thread using the wrappers
no address is given out before the call is over. A refused call has the
C function's sentinel as its reply. Load identifiers count modulo `U32`, which
the instance makes small enough to wrap; `EvictsOldestLoad` holds all the same,
and `MaterialIdsLast` says that an identifier names the material it was given
for, although a failed insertion answers with the last identifier.

## 3. Runs

| Run | Question | Properties |
|---|---|---|
| `streaming_persist` | do payloads survive evictions, errors, crashes? | `TypeOK`, `ImplementsChunkCache` |
| `streaming_policy` | are the right chunks evicted and the books kept, in calls that fail too? | `OvershootBoundedByHits`, `LoadsAccounted`, `BetterChunksStay`, `FailureKeepsMemory` |
| `disk_storage` | is the storage atomic under two threads, failures, crashes? | `SavedFilesWhole`, `ImplementsChunkStore` |
| `mesh_generator` | is the surface drawn under any interleaving? | `WritesOnce`, `IndicesResolve`, `SurfaceComplete`, `ShortfallBounded`, `DispatchEnds` |
| `post_stack` | what do frames show, and what do they leave behind? | `FramesShowChain`, `TemporaryReturned`, `FailuresExplained`, `RegistriesMirror` |
| `voxel_data` | do voxels, events and meshes stay consistent, and do the voxel algorithms compute what a plain definition says? | `ReadsMatchWrites`, `StaleMeshesHaveEvent`, `CompactSettles`, `LatticeNames`, `MeshesDrawSurface`, `ChunksLoadBack`, `SpriteVolumes`, `CompactionExplained`, `BatchesAgree` |
| `host` | do handles, window, surfaces, reports and kernels keep their books in every order, collections during a call included? | `HandlesOwned`, `MeshesClosed`, `EvictsOldestLoad`, `MaterialIdsLast`, `DetailFollowsViewer`, `DetailIsPlanned`, `SurfacesAreWhole`, `AggregatesAgree`, `DispatchesLocal`, `ScattersCompact` |
| `services` | do recorders, registries and snapshots tell the truth, and do settings decide what is drawn? | `BooksBalance`, `SnapshotsLoad`, `DrawnAsSet`, `HintsLast` |

The parts of `MCVoxelData` and `MCHost` that keep a state of their own between
calls are `VoxelWorld` and `CApi`; their properties are named by the runs as they
are. Other properties of the composing modules name these of their parts:

| Property | Parts |
|---|---|
| `LatticeNames` | `NamesAreVoxels`, `IdsFollowChunks` |
| `MeshesDrawSurface` | `SurfaceCovered`, `WindingOutward` |
| `ChunksLoadBack` | `SavesLoadBack` |
| `SpriteVolumes` | `DistancesFound`, `BalloonNests`, `ChunkHoldsSprite` |
| `DetailIsPlanned` | `FartherIsCoarser`, `BudgetsHold`, `PrefetchAhead`, `TiersAndScalesCompose` |
| `DetailFollowsViewer` | `SeamAbsorbsSteps`, `WithdrawingCoarsens` |
| `SurfacesAreWhole` | `HeightsDrawn`, `PatchesJoin` |
| `AggregatesAgree` | `FoldOrderBlind` |
| `DispatchesLocal`, `ScattersCompact` | `OperationsLocal`, `RanksCompact` |
| `BooksBalance` | `FramesAccounted`, `PluginsAnswer`, `RegistriesReplay`, `PalettesReplay`, `BatchesInOrder` |
| `DrawnAsSet` | `GradingNeutral`, `KernelCurrent`, `EffectsInRange`, `VariantsAsDescribed`, `CascadesInOrder`, `DitherRamps`, `TypedReads`, `PoliciesAgree` |

Four runs check a sentence of the repository that the code does not keep, and end
with a counterexample:

| Run | The sentence | What the code does |
|---|---|---|
| `c_api_vertices` | "Copy the native vertex buffer into a managed array." (`unity/PhenotypeGfx.cs:418`) | the copy steps by 34 bytes through vertices 36 bytes apart |
| `radix_sort` | "Keys and values are written to the output buffer at the computed offsets." (`compute/sorting.rs:17-18`) | offsets start at zero for every digit, so digits overwrite each other |
| `simd_normals` | "batch of 7 normals (4 SIMD + 3 scalar) all normalise correctly." (`crates/phenotype-voxel/src/simd.rs:345-346`) | the sum of squares is whole in one lane only |
| `octree_queries` | "queries return identical results before and after compaction" (`voxel/octree.rs:328-329`; `:358-360` lets a collapsed child be unknown, but not be answered with another value) | a parent is put at half its children's coordinates, which is another chunk's coordinate, and takes the place of that chunk's node |

Elsewhere, too, code and words part. No run is spent on these; the models follow
the code:

* the resident set outgrows "Maximum number of chunks to keep resident"
  (`streaming_io.rs:278`), since a disk hit is not charged (`:472`);
* chunk identifiers are not "unique for every distinct (cx, cy, cz) triple"
  (`voxel/coord.rs:39-40`): a negative `cy` covers bits of `cx`;
* a write of the value that is already there to a compacted chunk emits an event,
  against `voxel/world.rs:57-58`;
* an insert with a level at capacity may choose its own chunk as victim and lose
  the level it just recorded (`streaming_io.rs:507`);
* "LUT is applied as a final composite pass to dst"
  (`unity/postfx/Runtime/PostStack.cs:611`), but a pass ordered after it is drawn
  and thrown away;
* a prefetch cone narrower than a half-space holds no chunk beyond the meshed
  ones for any unit vector: both sides of the comparison at `streaming.rs:284` are
  scaled by 128, one of them twice. A test (`:753-766`) passes with a direction
  twice as long, "overscaled i32, valid in API"; `PrefetchAhead` says how long a
  direction must be. For a very long one the product is no `i32`: a panic in a
  checked build, any sign in another;
* positions 2^32 chunks apart are given one chunk coordinate, since the quotient is
  cut by `as i32` (`voxel/coord.rs:54-56`);
* the methods of `unity/PhenotypeGfx.cs` keep nothing alive across a native call
  (`:259` and the others), so a finalizer may destroy the object under it, although
  every C function wants a "valid, non-null pointer" (`bindings/c_api.rs:138`);
* `phenotype_gfx_streaming_load` "returns a monotonic load-id (> 0)"
  (`bindings/c_api.rs:514`), which wraps (`:534`) and may then be 0, the reply for
  a chunk that is loaded already;
* the counting renderer documents its counters as the "calls forwarded so far" and
  says of an end "Bump the counter on every forwarded call (matches `begin_frame`
  semantics)" (`voxel/adapters/renderer.rs:28`, `:67`, `:107-108`), but an end that
  the inner renderer refuses is not counted, while a begin that it refuses is;
* the number of floats of a colour table is computed in `u32`
  (`postfx/lut_pass.rs:79`, and `:71` for an index): from a size of 1128 on it
  is no `u32`, so that a checked build panics at every pixel; another compares
  with the remainder, and at 2048 the remainder is 0 and an index may lie beyond
  the table;
* in `Primitive` mode "overrides layer on top of the exemplar"
  (`voxel/material_pbr.rs:190`), but a material without override is an error;
* `fluid_mesh` calls its winding counter-clockwise and the terrain builder calls
  the same order clockwise;
* the SSAO pass says of `kernel()` "Regenerates if `kernel_size` was changed"
  (`postfx/ssao_pass.rs:122-123`), but it only returns the kernel; nor is the lookup
  table built anew (`postfx/lut_pass.rs:173`);
* the Rust stack validates other shader names than its passes describe;
* NEON normals multiply two reciprocal roots into the power -3/4
  (`voxel/simd.rs:704-706`).

### Bounds

* `streaming_persist`: three chunks, capacity two, two interchangeable payloads,
  one camera anchor, `MaxCount` for each counter: two evictions, two prefetched
  chunks, one hit and one miss by request, between crashes. An insert evicts
  another chunk or itself, a prefetch loads two chunks and evicts for them, a
  chunk's payload on disk differs from the one in memory. Levels and ticks are
  left to the other run, where payloads are left out: neither depends on the
  other except through the choice of the victim, which the model leaves open to
  ties.
* `streaming_policy`: the same chunks, a camera that changes between two of them,
  two ticks and a level, storage errors, and three evictions: one pushes a predicted chunk out to the disk, so that a
  prefetch has something to load, and two are left for that prefetch, which begins
  only if its whole budget is. Ring, level and age take two values each, so the
  factors of the score can disagree, and an insert with a level can fail after it
  has written the ranking.
* `disk_storage`: two threads on one chunk (files of different chunks share
  nothing), two payloads, two blocks, and four inodes: one under each of the two
  names and one open in each of two readers is the most a state needs.
* `mesh_generator`: a column of two voxels, solid or half empty, with three
  invocations (one past the grid); room for everything, ten faces on two vertex
  groups, and nine vertex groups on three index groups; uploads with a wrong
  number of voxels and with the right number in another shape are refused.
* `post_stack`: a pass with parameters, bloom and the LUT; every provider of the
  four kinds on each, every subset of shaders found and of effects enabled, and an
  injected provider that vouches for all shaders. Three effects are enough for a
  pass before and a pass after the LUT and for two that change places; the three
  orders name one or two effects, registered or not.
* `voxel_data`: every pair of 96 positions, around the origin on every axis,
  where rounding matters, at the last packable chunk, at the first chunk that
  the cast takes for a negative one and where the chunks begin again (`I32Half`
  is 2^24 instead of 2^31, one bit more than the packable chunks need); two
  chunks of the world with one identifier and one above ground, two voxels of
  two values, three events: one drained, one queued and one more; chunks of 27
  voxels with six of them written in three materials, among them corner, edge
  and centre, and a longest run of 9, so that runs break at the limit; images of
  12 pixels with up to three transparent pixels or up to one opaque; octrees of
  up to two groups of siblings and one that collapses twice; slices of up to 13
  vectors, a block of eight, one of four and a remainder of one.
* `host`: two wrappers over two addresses, so that an address is reused while the
  other wrapper lives, load identifiers that wrap at the third load, two material
  identifiers (wrappers and addresses are interchangeable, `Alike`); policies over
  a neighbourhood of 7 by 7 by 7 chunks, seen in a direction of unit length, twice
  that, and so long that the product does not fit (`I32Half` is 2^15); patches of up
  to three quads a side; five cohorts; a row of three voxels in workgroups of two
  with two dispatches; three keys in two workgroups with two digits.
* `services`: four frames, two plugins, four shape hints, two materials in each
  registry, palettes of three, two saves over three file names, batches of five
  events; lookup tables for the sizes 0 to 5, of which 4 and 5 have more floats
  than a `u32` of `U32Values` = 100 values can say, and 5 more entries too; 12
  parts to a unit of colour, in which the steps of all these sizes are whole.

Deadlock is checked except in the three composing modules, where a bounded walk
over inputs ends when its bound is reached.

### Fairness

Only `MeshGenerator` has liveness. An invocation has no loop and waits for
nothing, so the device finishes all of them: weak fairness of the invocations
together. The host polls the device until the counters are mapped: weak fairness
of the read-back. The library starts nothing by itself, so clients and consumers
are under no obligation anywhere else, and those specifications state safety.

## 4. Proofs

The theorems hold for all constants that satisfy the named `ASSUME`s of the
modules: capacities, budgets and weights are natural numbers, chunk coordinates
are finite sets of integer triples, `None` is not a value.

* **Induction.** A quotient and a remainder in range are unique
  (`DividedOnce`). `UpTo` is induction over `0..N` for a set instead of a
  predicate, and `Recursion` says that values each defined from the one before
  form a sequence. Both come from the library's fact that finite sets are
  well-founded under inclusion. With them recursive functions of the models -
  what a `retain` keeps, a shifted key, sums over workgroups - have the values
  their definitions give them, step by step, and facts about those steps are
  carried from the first to the last.
* **StreamingManager_proofs.** `PriorityFollowsRank`: cross-multiplied, the score
  is strictly monotone in ring and level and monotone in age.
  `PredictionWithinBudget`: the prediction is finite and within its budget.
  `TypeOK` is inductive. `ResidentsHaveAccessTick`
  is inductive with it. `OvershootBoundedByHits` and `LoadsAccounted` rest on one
  step lemma: the population changes by at most one, and by which counter it is
  paid for. `PrefetchWithinBudget` needs `BudgetInv`, which adds that the loop's
  list is a sequence. `EvictionOrder` follows from `PriorityFollowsRank` applied
  to the victim, which scores no higher than any resident chunk.
  `FailureKeepsMemory` is about the step with which a call fails: what earlier
  turns of a prefetch loaded has been counted (`LoadsCounted`), and the one
  chunk whose ranking may have changed is the one an insert wrote at the current
  tick. `Refinement` maps every
  action to a step of `ChunkCache`: evictions, prefetches and flushes to a
  `Tend` that makes chunks durable, since a saved payload is the visible one.
* **Voxel_proofs.** `ReadsMatchWrites` and `StaleMeshesHaveEvent` are inductive
  with `TypeOK`; the latter because a write that changes a chunk emits an event
  in the same step and `rebuild` reads the world as it is. `EventsAreNew` needs
  `SeqInv`: as long as fewer than `SeqModulus` events were emitted the sequence
  number is their count, above every queued one. `CompactionsAreExplained`:
  `CompactionExplained` is inductive once the nodes are known to be at
  coordinates (`TreeInv`), for trees and insertions of any number. A node that a
  pass puts in place of eight is one whose children all said its value, and a
  pass adds to `said` what follows from there; a node that is gone was one of
  the eight. `LatticeIsNamed` holds for positions of any set of integer triples,
  any edge of a chunk and any width of the chunk coordinate. Voxels: by
  `DividedOnce` position, chunk and index name each other but for whole turns of
  the chunk coordinate (`NamesOfVoxels`). Identifiers: their order is decided by
  the highest bit in which they differ (`RangeDecides`), the three coordinates
  fill ranges of their own, of 24, 24 and 16 bits (`IdBits`), and of two numbers
  the greater has the highest bit in which they differ (`HighestBit`, by
  induction over the bits); so identifiers follow the order of the packable
  chunks. `ChunksLoadBack` holds for any contents, size of chunk and limit of a
  run: the encoder keeps `Spelled`, that the runs pushed so far and the open one
  spell the values read, each run between 1 and the limit and of equal values;
  so decoding gives the values back, and a stream that lost a byte or a run, or
  counts one run too few, decodes to fewer voxels than the chunk has, and
  another magic, version or element size is refused before anything is decoded.
  `BatchesAgree` rests on two facts about any slice: blocks of the widths, each
  followed by what the next narrower width takes, are an interval each and
  together the whole slice (`BlocksMakeBatch`), and every kernel computes, lane
  by lane, the scalar operation (one lemma per kernel). `SpritesAreExtruded`
  needs what the search knows (`FloodInv`): seeds are at distance 0, every
  distance is the Manhattan distance to some seed or more (`NotTooSmall`), and a
  pixel that does not wait in the queue has told its opaque neighbours (`Told`).
  Once nothing waits, induction along a shortest way to a seed gives the other
  bound (`NoneTooLarge`); the pixels on that way that are not opaque are seeds
  themselves, or there are none. The images may have any size whose sides
  together do not exceed `Unreached`. `MeshesAreSurface` needs no invariant: it
  holds of a chunk with any contents. A sequence of quads draws a set of sides
  (`Draws`) if it can be divided among them, each quad covering its part; parts
  that draw different sides draw them all when put together (`FlattenDraws`),
  and no two sides are drawn alike (`SideOnce`). The cubic mesher meets every
  side once (`CubicDraws`). In a slice of the greedy mesher the quads draw the
  sides of the cells used so far, all of which have a face (`SlicePart`), and a
  cell that was visited is used if it has one (`MergeKeeps`); the proof uses
  that a rectangle holds only free cells of one key and at least the cell it
  began at, not that it is the largest. The slices, one for each face and place
  along its axis, divide the exposed sides among them (`GreedyDraws`). The edges
  of a rectangle turn about its normal by its area (`RectWinds`).
* **MeshGenerator_proofs.** `SlotInv` strengthens `WritesOnce`: what invocations
  hold is disjoint, below the vertex counter, and not yet written.
  `IndicesResolve` also needs `GroupInv`: the index counter is a multiple of six,
  so index groups do not overlap.
  `SurfaceIsComplete` and `ShortfallIsBounded` have two parts. The first is about
  the upload alone: division by the grid's axes makes indices and coordinates
  one-to-one, what `is_solid` takes for solid has a material, the four corners of
  a quad are the ones a cell and its neighbour have in common, and no two sides
  are drawn alike (`PanelsDiffer`), so the faces that invocations list are as many
  as the surface has sides (`SidesAreSurface`). The second is `DrawInv`, about the
  dispatch: the counters are six and four times the number of faces emitted and
  claimed, every group drawn is a side emitted and no side is drawn twice, and
  either no vertex group inside the buffer was claimed in vain or the groups so
  wasted and the room for indices together are no more than the faces emitted
  (`WasteInv`). The last is what bounds the loss: a face with vertices but no
  indices came when the index buffer was already full. TLC checked `DrawInv` as an
  invariant of `mesh_generator` before it was proved.
* **DiskChunkStorage_proofs.** `FilesWhole`: if no chunk is saved by two threads
  at once (`Exclusive`), every chunk's name leads to a whole file after any
  interleaving, failure or crash. Wholeness alone is not inductive, because the
  rename publishes an inode that was written under another name. `FilesInv` adds
  that a temporary name shares its inode with no other name, that a saving thread
  is alone with its chunk, and that its file is filled as far as the thread got;
  so the rename gives the chunk's name to a full file, and no later write
  reaches it. What a crash leaves under a temporary name is of no account,
  because the next save truncates it.
  `StorageIsAtomic`: under the same hypothesis, and if a stat answers, the storage
  implements `ChunkStore`. `StorageInv` adds what a thread's program counter says
  of the call it is in (`CallsInv`) and that a reader's file is whole, is not
  under a temporary name, and still holds what was read of it (`ReadersInv`): the
  file stays whole under the reader even when its name is given to another. A
  save and a delete take effect at the rename and the unlink, a load when it
  opens the file or finds none; all other steps are stutters.
* **Host_proofs.** `OneOwner`: no two open wrappers hold one address, and every
  native object is an open wrapper's; while a call is in progress its handle is
  the caller's, or the caller was finalized and nothing lies there. The second
  case lasts because the thread that would create an object is in the call.
  `NativeInv` adds that an object has the fields of its kind and that a disposed
  wrapper has forgotten its handle. `MaterialIdsName` is the same invariant's
  second use: a palette holds at most `MaxId + 1` materials, so a position in it
  is an identifier. `OldestLoadEvicted` is its third: the load order names the
  loaded chunks, and the numbers of the loads that brought them in ascend along
  it. A load appends the highest number yet, an eviction takes the head, and
  `RetainedKeepsOrder` shows by induction that what an unload retains still
  ascends. `MeshesAreClosed` is its fourth. A mesh in a box is one of cubes:
  eight vertices and thirty-six indices for each voxel listed (`CubesIn`), which
  building establishes (`BuildsCubes`; `SolidsAreCells` is the induction over
  the loops) and no call changes. A vertex belongs to one cube, and the twelve
  triangles of a cube pass every edge of it once in each direction
  (`FacesClose`, the one proof by cases over the table). A wrapper's count of
  vertices is its mesh's (`CountsInv`), eight for every thirty-six indices, so
  the estimate is exact. `ScattersAreCompact`: during a scatter pass the counter
  of a workgroup and digit is the number of the group's elements of that digit
  that have taken an offset, and those offsets are the numbers below it
  (`SortInv`, where every atomic addition is a step of its own). When all have
  taken one, the elements of a digit fill a range for each workgroup, and
  induction over the workgroups, along the exclusive sums that the middle pass
  computes, puts the ranges end to end. `DispatchesAreLocal`: during a dispatch
  every voxel is untouched, being summed or done (`Untouched`, `Summing`,
  `Smoothed`). A copy in the scratch buffer is from this dispatch or from before
  it, and both are values that the neighbourhood held when the dispatch began;
  so a sum stays between as many times the least and the greatest of them
  (`OneMore`), and the average and the mixture do too (`MixedBetween`). That the
  three loops read the neighbourhood and at least one voxel of it rests on
  voxels and coordinates naming each other (`CoordNamed`, `CellPlaced`), and
  that a dispatch reaches every voxel on `AllStarted`. The grid's sides are any
  positive numbers; the arithmetic is exact. `DetailStaysPlanned` and
  `DetailFollows` need no more of the state than its types and that the policy
  in force was accepted (`PlanInv`); the work is in the functions. A chunk is
  within a ring if none of three distances exceeds it (`RingOf`), and a step of
  the camera adds the vertical weight to one of them at most (`StepMovesRing`),
  so a seam as wide takes two steps to cross (`SeamCrossed`). The weights of a
  seam fall because division keeps order (`SeamFalls`). The residents lie in a
  box of `2 * (mesh_ring + seam_chunks) + 1` chunks a side (`NearIsCube`); an
  active budget that the saturated count fits is no less than them, because
  `u32::MAX` is not a cube (`BudgetsKept`). The product with a direction none of
  whose components is longer than `n` is at most `n` times the length that the
  cone is compared with (`DotBound`), and the threshold is the cosine times
  `One` times that length or, where it was cut off, no less than any `i32`
  (`LeastBound`); so a chunk within a narrow cone needs a longer component. Of a
  number and its opposite no more than one wraps to a positive one
  (`OneSidePositive`), whatever the direction. A level is a quotient whose
  numerator grows with the distance (`LevelRises`) and which a common factor of
  distance and scale leaves alone (`LevelScales`). `WindowAssumption` gives the
  fields of a policy their types, `u8` and `i8`, has `Reach` take in every
  resident chunk, and says of directions only that they are integers;
  `DetailAssumption` has the distances take in every threshold.
  `ReportsAreOrderBlind`: `fold` sorts before it sums, so it is enough that two
  reports exchanged are sorted into the same sequence (`ExchangedSorted`). Ranks
  in the stable order give every report a place (`Ranks`), and two sequences of
  the same values in a strict and total order are one (`OneSorting`): where they
  first differed, more values than places would come before. Nothing is assumed
  of how sums are rounded. `SurfacesStayWhole`: a field holds at every tile what
  was written there last and zero elsewhere (`GridInv`), because tiles numbered
  row by row have numbers of their own (`CellOnce`). An edge with its sense is
  of one triangle (`EdgeOnce`) and the other sense is the neighbour's or on the
  rim, so the triangles tile. A wave whose length divides the patch moves, from
  one side to the other, by whole turns (`PhaseRepeats`); so every term of the
  bank repeats and their sum does. Field, writes, bank and size are arbitrary.
* **Services_proofs.** `SnapshotsLoadBack`: a file holds the first pieces of the
  text of some save begun under its name (`FilesInv`), all of them once that
  save was accepted (`AcceptedInv`); the save under way is the last that began
  (`JobInv`). A text without its close does not load, and of a whole one each
  port reads the fields it knows: `WholeRead`. `EarlierHintsWin`: entries are
  only appended, and the first that matches answers; a word in lower case stays
  as it is, so the test that `get` makes of its argument is the test of the
  asset. `BooksAlwaysBalance` has one invariant for each service.
  `FramesAccounted` is inductive with the types of the counters. In a run of the
  plugins those before the current one have had one turn more than the rest
  (`TurnsInv`). The ids of a registry are the ones whose last change in the log
  put them in, which every call preserves (`ReplayedNext`). A mock palette is
  the names it was given, as many as have identifiers (`AsAdded`), and the
  adapter has the ones among them that are not blank, and perhaps more once the
  mock is full (`NamedFirst`). A batch rises strictly, and strictly rising
  sequences of the same events are equal (`RisingUnique`), so that the order of
  arrival cannot matter; that sorting gives a rising one takes a count,
  `RanksDiffer`: each rank is some event's. `DrawnAlwaysAsSet` needs little of
  the state: the colour table and the occlusion kernel are always the identity
  table or the kernel of some size, or what a caller handed in (`PassInv`), and
  properties, manifests and shader settings are what the calls put there
  (`RulesInv`, `StagesInv`). The work is in the functions. At a colour of the
  lattice the nearest entry is its own, so the identity table changes nothing,
  and as long as the entries are no more than a `u32` can count their indices do
  not wrap (`GradedOwn`); a table for a larger size has an entry wherever it is
  read, a wrong one of the right range (`GradedShape`, `TablesRanged`); the tone
  curve rises because its quotient does (`CurveRises`); the vignette darkens
  with the distance, whose integer root is found, since the distance is exact
  (`VignetteShape`); a weight of the indirect light is between a third and one,
  so the mean of any number of them is too (`LightShape`, by induction over the
  samples); a block of two by two pixels holds every dithering threshold once
  (`BlockThresholds`), so it shows as many as the distance reveals. The
  instances' constants have six assumptions: a snapshot has its port's fields,
  and its version is a number where the code has a `u32` (`SnapshotAssumption`);
  lower case is the lower case of itself and assets are made of known words
  (`HintsAssumption`); there are finitely many material identifiers
  (`PaletteAssumption`); sequence numbers and chunks are numbers
  (`ArrivalAssumption`); splits, kernels and distances are numbers, and counts
  of cascades are below 2^32 (`StagesAssumption`); and `PassAssumption`. That
  one gives every effect the types of its settings, none negative, and no more
  than all of the indirect light; it takes tables of any size whose steps are
  whole parts of `One` - any size has such a `One`, and both are arbitrary, as
  is the width of a `u32` - and offsets at a whole distance from the centre. The
  code computes in `f32` there: the theorem says nothing of the last bits of a colour.
* **PostStack_proofs.** `TemporaryReturned` and `FailuresExplained` are inductive
  together with two facts: a frame that draws belongs to an awake component
  (`FramesAwake`), and after an audit with the default availability provider the
  support flags are the materials found (`AuditFaithful`). A built-in pass that
  throws was supported without a material, so the provider was an injected one.
  `RegistriesAgree`: `Mirrored` says that both registries hold the same effects,
  each once in the order. It is kept because a first occurrence that `List.Remove`
  takes is then the only one that `retain` takes (`RemovedOnce`), which is where
  the assumption on the lists of scripts is needed.
  `FramesShowTheChain`: while a frame is drawn its current texture shows what the
  passes up to its place make of the source, and once the table was composited
  the destination shows that and the table (`DrawnSoFar`). A pass that runs appends
  itself to what is kept of a longer prefix of the order (`KeptNext`); when no
  pass is shown after the table nothing is appended any more, so what the
  composite left in the destination is the whole chain.

Some theorems state what no run checks any more, because it serves the others:
`ResidentsHaveAccessTick`, `PrefetchWithinBudget`, `EventsAreNew` and the `TypeOK`
of `VoxelWorld`.

Only model-checked: `DispatchEnds`, because liveness is outside the prover's
reach. Every safety invariant and action property of a passing run is stated by a
theorem.

## 5. Not modelled, and what is left

* *Observability* (`obs.rs`, `otlp.rs`) is I/O: exporters and a blocking HTTP
  listener, with no state the other parts read.
* *Shader text* in `lighting/`, `terrain/`, `water/`, `postfx/` and `compute/` is
  modelled where a rule of the program is in it (mesh, voxel and sort kernels,
  cascades, dithering); lighting equations and noise are not.
* *Forwarding and doubles*: `postfx/rendering.rs`, the render-graph adapters,
  `bevy_adapter.rs`, the storage port with its adapter and mock, the in-memory
  chunk storage. Each hands its calls to something modelled or is one critical
  section.
* *Conversions*: `postfx/ports/lut_pipeline.rs`, `voxelizer.rs` (colours averaged
  into palettes), bounds and interleaving in `MeshBuffer`, conversion to a Unity
  mesh.
* *Tables*: wave presets, licence attestation, `load_from_dir` of plugins, which
  lists names.
* *Numbers*: rounding of `f32`; differences of chunk coordinates that are no `i32`
  (`streaming.rs:277-279`); `mass_divergence_bound` is a floating-point
  estimate with no rule attached.
* *Providers of the user* that throw for reasons of their own: a frame of
  `PostStack` throws for those of the built-in ones.
* *Threads of the host*: the wrappers are used by one thread beside the collector's;
  nothing in them is meant for more.
* *The machine*: power failure, which needs a model of the page cache under
  `DiskChunkStorage`, and a `stat` that fails (available as `StatMayFail`).
* Examples, benches and fuzz targets.
