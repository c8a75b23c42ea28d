-------------------------------- MODULE CApi --------------------------------
(***************************************************************************)
(* The C interface of bindings/c_api.rs and the C# wrappers that own its *)
(* handles (unity/PhenotypeGfx.cs).  A handle is the address of a boxed  *)
(* object; an address whose object was destroyed may be given out again, *)
(* so a wrapper that destroyed twice, or called on after it destroyed,   *)
(* would reach an object of another wrapper.                             *)
(*                                                                       *)
(* Destroying a handle twice or calling on a destroyed one is undefined in *)
(* the native code; here it acts on whatever lies at the address, and    *)
(* HandlesOwned says when the wrappers may do it.  One thread uses the   *)
(* wrappers, and the collector finalizes those the program let go, at any *)
(* time: a native call takes time, and the handle it was given keeps no  *)
(* wrapper alive (there is no GC.KeepAlive, HandleRef or SafeHandle).    *)
(***************************************************************************)
EXTENDS Integers, Sequences, FiniteSets, SequencesExt

CONSTANTS
    Objects,      \* C# wrapper objects
    Addresses,    \* heap addresses
    Null,         \* the null pointer
    Coords,       \* chunk-grid coordinates
    CellCount,    \* voxels of one chunk, CHUNK_EDGE cubed
    Materials,    \* voxel values (u8), 0 is air
    Hardness,     \* hardness values of materials
    MaxId,        \* u16::MAX
    U32,          \* number of u32 values, 2^32
    MaxLoads,     \* bound: loads per streaming manager
    Amounts       \* arguments of the observability calls

ASSUME CApiAssumption ==
    /\ Null \notin Addresses \cup Objects
    /\ CellCount \in Nat /\ 0 \in Materials
    /\ MaxId \in Nat /\ U32 \in Nat \ {0} /\ MaxLoads \in Nat
    /\ Amounts \subseteq 0..U32 - 1

VARIABLES
    heap,       \* heap[a]: the boxed object at a, or Free
    wrapper,    \* wrapper[o]: the fields of the C# object o
    obs,        \* OBS_COUNTER
    reply,      \* what the last call returned
    caller,     \* the wrapper whose method is in a native call, or Null
    argument    \* the handle that call was given

vars == <<heap, wrapper, obs, reply, caller, argument>>

Free == [kind |-> "free"]
Threw == -1        \* ObjectDisposedException
Undefined == -2    \* what a call on freed memory returns

---------------------------------------------------------------------------
(* The native objects.                                                   *)

voxel_create == [kind |-> "world", dense |-> [c \in {} |-> 0]]

Cells == 0..CellCount - 1    \* voxel indices, in loop order

Air == [v \in Cells |-> 0]

Chunk(w, c) == IF c \in DOMAIN w.dense THEN w.dense[c] ELSE Air

voxel_set(w, c, v, value) ==
    [w EXCEPT !.dense = [d \in DOMAIN w.dense \cup {c} |->
        IF d = c THEN [Chunk(w, c) EXCEPT ![v] = value] ELSE w.dense[d]]]

voxel_get(w, c, v) == Chunk(w, c)[v]

chunk_count(w) == Cardinality(DOMAIN w.dense)

(* The corners of a unit cube and its twelve triangles.                  *)
positions == << <<0,0,0>>, <<1,0,0>>, <<1,1,0>>, <<0,1,0>>,
                <<0,0,1>>, <<1,0,1>>, <<1,1,1>>, <<0,1,1>> >>

(* Mutant: one triangle of the back is wound the other way.              *)
faces_flipped == << <<0,1,2>>, <<0,2,3>>, <<4,5,6>>, <<4,7,6>>, <<0,4,5>>, <<0,5,1>>,
                    <<2,6,7>>, <<2,7,3>>, <<0,3,7>>, <<0,7,4>>, <<1,5,6>>, <<1,6,2>> >>

faces == << <<0,1,2>>, <<0,2,3>>, <<4,6,5>>, <<4,7,6>>, <<0,4,5>>, <<0,5,1>>,
            <<2,6,7>>, <<2,7,3>>, <<0,3,7>>, <<0,7,4>>, <<1,5,6>>, <<1,6,2>> >>

(* The voxels the three loops do not pass over, in their order.          *)
SolidCells(chunk) ==
    LET upTo[n \in 0..CellCount] ==
          IF n = 0 THEN << >>
          ELSE IF chunk[n - 1] # 0 THEN Append(upTo[n - 1], n - 1) ELSE upTo[n - 1]
    IN  upTo[CellCount]

(* One cube of 8 vertices and 36 indices per solid voxel.                *)
voxel_mesh_build(chunk) ==
    LET solid == SolidCells(chunk)
    IN  [kind |-> "mesh",
         vertices |-> [k \in 1..8 * Len(solid) |->
             [cell |-> solid[(k - 1) \div 8 + 1], corner |-> positions[((k - 1) % 8) + 1],
              material |-> chunk[solid[(k - 1) \div 8 + 1]]]],
         indices |-> [k \in 1..36 * Len(solid) |->
             8 * ((k - 1) \div 36) + faces[((k - 1) % 36) \div 3 + 1][((k - 1) % 3) + 1]]]

vertex_count(mesh) == Len(mesh.vertices)
index_count(mesh) == Len(mesh.indices)

material_create == [kind |-> "palette", materials |-> << >>]

(* Mutant: a palette is full one material early.                         *)
HasIdEarly(p) == Len(p.materials) < MaxId

(* u16::try_from(len) succeeds.                                          *)
HasId(p) == Len(p.materials) <= MaxId

material_set_property(p, hardness) ==
    IF HasId(p) THEN [p EXCEPT !.materials = Append(@, hardness)] ELSE p

material_id(p) == IF HasId(p) THEN Len(p.materials) ELSE MaxId

material_get_property(p, id) ==
    IF id < Len(p.materials) THEN p.materials[id + 1] ELSE 0

material_count(p) == Len(p.materials)

(* loads and number[c], the count of loads and the load c came with, are *)
(* history.                                                              *)
streaming_create ==
    [kind |-> "streaming", loaded |-> {}, access_order |-> << >>, next_id |-> 0,
     loads |-> 0, number |-> [c \in Coords |-> 0]]

streaming_load(m, c) ==
    IF c \in m.loaded THEN m
    ELSE [m EXCEPT !.next_id = (@ + 1) % U32, !.loaded = @ \cup {c},
                   !.access_order = Append(@, c),
                   !.loads = @ + 1, !.number[c] = m.loads + 1]

load_id(m, c) == IF c \in m.loaded THEN 0 ELSE (m.next_id + 1) % U32

(* Vec::retain: the elements other than c, in their order.               *)
Retained(s, c) ==
    LET kept[n \in 0..Len(s)] ==
          IF n = 0 THEN << >>
          ELSE IF s[n] = c THEN kept[n - 1] ELSE Append(kept[n - 1], s[n])
    IN  kept[Len(s)]

(* Mutant: an unloaded chunk keeps its place in the order.               *)
streaming_unload_in_place(m, c) == [m EXCEPT !.loaded = @ \ {c}]

streaming_unload(m, c) ==
    [m EXCEPT !.loaded = @ \ {c}, !.access_order = Retained(@, c)]

streaming_evict_oldest(m) ==
    IF m.access_order = << >> THEN m
    ELSE [m EXCEPT !.loaded = @ \ {Head(m.access_order)}, !.access_order = Tail(@)]

loaded_count(m) == Cardinality(m.loaded)

---------------------------------------------------------------------------
(* The wrappers: construction, Dispose and finalization.                 *)

NoWrapper == [kind |-> "none", handle |-> Null, disposed |-> FALSE, vertexCount |-> 0]

IsOpen(o, kind) == wrapper[o].kind = kind /\ ~ wrapper[o].disposed
At(o) == heap[wrapper[o].handle]

Creates(kind) == CASE kind = "world"     -> voxel_create
                   [] kind = "palette"   -> material_create
                   [] kind = "streaming" -> streaming_create

Wrap(o, native) ==
    \E a \in {b \in Addresses : heap[b] = Free} :
        /\ heap' = [heap EXCEPT ![a] = native]
        /\ wrapper' = [wrapper EXCEPT ![o] =
               [kind |-> native.kind, handle |-> a, disposed |-> FALSE,
                vertexCount |-> IF native.kind = "mesh" THEN vertex_count(native) ELSE 0]]

(* The thread of the program is in no native call.                       *)
Idle == caller = Null /\ UNCHANGED <<caller, argument>>

Construct(o, kind) ==
    /\ Idle
    /\ wrapper[o] = NoWrapper
    /\ Wrap(o, Creates(kind))
    /\ reply' = 1
    /\ UNCHANGED obs

(* A method has tested the flag and passes the handle on.  Nothing of the *)
(* wrapper is needed after that; which function is called shows when it  *)
(* returns.                                                              *)
Enter(o) ==
    /\ caller = Null
    /\ wrapper[o].kind # "none" /\ ~ wrapper[o].disposed
    /\ caller' = o
    /\ argument' = wrapper[o].handle
    /\ UNCHANGED <<heap, wrapper, obs, reply>>

Returns(o) == caller = o /\ caller' = Null /\ argument' = Null

(* VoxelWorld.BuildMesh returns null when the chunk is not there.        *)
BuildMesh(o, p, c) ==
    /\ Returns(o)
    /\ IsOpen(o, "world") /\ wrapper[p] = NoWrapper
    /\ IF c \in DOMAIN At(o).dense
         THEN Wrap(p, voxel_mesh_build(At(o).dense[c])) /\ reply' = 1
         ELSE UNCHANGED <<heap, wrapper>> /\ reply' = 0
    /\ UNCHANGED obs

Destroy(a) == IF a = Null THEN heap ELSE [heap EXCEPT ![a] = Free]

(* Mutant: the flag and the handle are left as they were.                *)
Released_kept(o) == wrapper[o]

Released(o) == [wrapper[o] EXCEPT !.handle = Null, !.disposed = TRUE]

Dispose(o) ==
    /\ Idle
    /\ wrapper[o] # NoWrapper
    /\ IF wrapper[o].disposed THEN UNCHANGED <<heap, wrapper>>
       ELSE /\ heap' = Destroy(wrapper[o].handle)
            /\ wrapper' = [wrapper EXCEPT ![o] = Released(o)]
    /\ reply' = 0
    /\ UNCHANGED obs

(* The program lets go of the object.  Dispose has suppressed the finalizer *)
(* of a disposed one; any other is finalized, which disposes of it.  The *)
(* thread may be in a native call, even in the last one on this object.  *)
Collect(o) ==
    /\ wrapper[o] # NoWrapper
    /\ heap' = IF wrapper[o].disposed THEN heap ELSE Destroy(wrapper[o].handle)
    /\ wrapper' = [wrapper EXCEPT ![o] = NoWrapper]
    /\ UNCHANGED <<obs, reply, caller, argument>>

(* The object was destroyed under the call.  No address is given out while *)
(* the thread is in it, so it reads and writes memory that is no object's. *)
ReturnFromFreed ==
    /\ caller # Null /\ wrapper[caller] = NoWrapper
    /\ Returns(caller)
    /\ reply' = Undefined
    /\ UNCHANGED <<heap, wrapper, obs>>

---------------------------------------------------------------------------
(* The wrappers' methods, which have tested the flag: the native call ends, *)
(* and in GetVertices and GetIndices the copying from its buffer.        *)

Call(o, kind, native, result) ==
    /\ Returns(o)
    /\ IsOpen(o, kind)
    /\ heap' = [heap EXCEPT ![wrapper[o].handle] = native]
    /\ reply' = result
    /\ UNCHANGED <<wrapper, obs>>

ThrowIfDisposed(o) ==
    /\ Idle
    /\ wrapper[o].disposed
    /\ reply' = Threw
    /\ UNCHANGED <<heap, wrapper, obs>>

Set(o, c, v, value) == Call(o, "world", voxel_set(At(o), c, v, value), 0)
Get(o, c, v) == Call(o, "world", At(o), voxel_get(At(o), c, v))
ChunkCount(o) == Call(o, "world", At(o), chunk_count(At(o)))

(* The fields of a MeshVertex, 12 + 12 + 8 + 2 bytes.  Rust rounds its size *)
(* up to the alignment of a float; the C# struct has Pack = 1.           *)
FieldBytes == 34
NativeStride == 4 * ((FieldBytes + 3) \div 4)
ManagedStride == FieldBytes

(* GetVertices copies the struct that begins at each multiple of its own *)
(* stride; the reply counts those that begin where the vertex does.      *)
GetVertices(o) ==
    Call(o, "mesh", At(o), Cardinality({k \in 0..wrapper[o].vertexCount - 1 :
        ManagedStride * k = NativeStride * k}))

(* GetIndices copies as many indices as it computes from the vertices.   *)
estimatedIndices(o) ==
    LET estimate == (wrapper[o].vertexCount \div 8) * 36
    IN  IF estimate <= 0 THEN wrapper[o].vertexCount ELSE estimate

GetIndices(o) == Call(o, "mesh", At(o), estimatedIndices(o))

Add(o, hardness) ==
    Call(o, "palette", material_set_property(At(o), hardness), material_id(At(o)))
TryGetHardness(o, id) == Call(o, "palette", At(o), material_get_property(At(o), id))
Count(o) == Call(o, "palette", At(o), material_count(At(o)))

Load(o, c) ==
    /\ IsOpen(o, "streaming") /\ At(o).loads < MaxLoads
    /\ Call(o, "streaming", streaming_load(At(o), c), load_id(At(o), c))
Unload(o, c) ==
    Call(o, "streaming", streaming_unload(At(o), c), IF c \in At(o).loaded THEN 1 ELSE 0)
EvictOldest(o) ==
    Call(o, "streaming", streaming_evict_oldest(At(o)),
         IF At(o).access_order = << >> THEN 0 ELSE 1)
LoadedCount(o) == Call(o, "streaming", At(o), loaded_count(At(o)))

CounterInc(delta) == Idle /\ obs' = (obs + delta) % U32 /\ UNCHANGED <<heap, wrapper, reply>>
GaugeSet(value) == Idle /\ obs' = value /\ UNCHANGED <<heap, wrapper, reply>>

---------------------------------------------------------------------------
Init ==
    /\ heap = [a \in Addresses |-> Free]
    /\ wrapper = [o \in Objects |-> NoWrapper]
    /\ obs = 0
    /\ reply = 0
    /\ caller = Null
    /\ argument = Null

WorldCall(o) ==
    \/ \E c \in Coords, v \in Cells : Get(o, c, v) \/ \E m \in Materials : Set(o, c, v, m)
    \/ ChunkCount(o)
    \/ \E p \in Objects, c \in Coords : BuildMesh(o, p, c)

PaletteCall(o) ==
    \/ \E h \in Hardness : Add(o, h)
    \/ \E id \in 0..MaxId : TryGetHardness(o, id)
    \/ Count(o)

StreamingCall(o) ==
    \/ \E c \in Coords : Load(o, c) \/ Unload(o, c)
    \/ EvictOldest(o)
    \/ LoadedCount(o)

Next ==
    \/ \E o \in Objects :
         \/ \E kind \in {"world", "palette", "streaming"} : Construct(o, kind)
         \/ Enter(o)
         \/ WorldCall(o) \/ GetVertices(o) \/ GetIndices(o) \/ PaletteCall(o) \/ StreamingCall(o)
         \/ ThrowIfDisposed(o) \/ Dispose(o) \/ Collect(o)
    \/ ReturnFromFreed
    \/ \E n \in Amounts : CounterInc(n) \/ GaugeSet(n)

Spec == Init /\ [][Next]_vars

---------------------------------------------------------------------------
(* Properties.                                                           *)

Open == {o \in Objects : wrapper[o].kind # "none" /\ ~ wrapper[o].disposed}

(* Every object on the native heap belongs to one wrapper, of its own kind, *)
(* that has neither been disposed of nor collected.                      *)
OwnedOnce ==
    /\ \A o \in Open : wrapper[o].handle \in Addresses /\ At(o).kind = wrapper[o].kind
    /\ \A o, p \in Open : wrapper[o].handle = wrapper[p].handle => o = p
    /\ \A a \in Addresses : heap[a] # Free => \E o \in Open : wrapper[o].handle = a

(* A native call is on the object of its wrapper, or on none.            *)
CallsOwnObject ==
    caller # Null =>
        \/ caller \in Open /\ argument = wrapper[caller].handle
        \/ wrapper[caller] = NoWrapper /\ heap[argument] = Free

(* OwnedOnce: nothing is destroyed twice, although addresses are given out *)
(* again, and nothing is leaked; a mesh outlives its world.  And          *)
(* CallsOwnObject: a call in progress works on the object of its own     *)
(* wrapper, which nobody has disposed of; only where the program let go of *)
(* the wrapper may the finalizer have destroyed the object under its last *)
(* call, and then the memory has not become another wrapper's before the *)
(* call is over (Dispose, the finalizers, BuildMesh).                    *)
HandlesOwned == OwnedOnce /\ CallsOwnObject

Natives(kind) == {a \in Addresses : heap[a].kind = kind}

Triangle(mesh, t) == {<<mesh.indices[3*t + 1], mesh.indices[3*t + 2]>>,
                      <<mesh.indices[3*t + 2], mesh.indices[3*t + 3]>>,
                      <<mesh.indices[3*t + 3], mesh.indices[3*t + 1]>>}

(* Every mesh is a set of closed, consistently wound surfaces: each edge is *)
(* passed once in each direction, by triangles that lie in one face of one *)
(* voxel; and the number of indices the C# side derives from the vertices *)
(* is the number there are, so that it copies all of them and no more    *)
(* (phenotype_gfx_voxel_mesh_build, GetIndices).                         *)
MeshesClosed ==
    /\ \A a \in Natives("mesh") :
         LET mesh == heap[a]
             T == 0..(index_count(mesh) \div 3) - 1
             corner(i) == mesh.vertices[i + 1]
         IN  \A t \in T :
               /\ \A e \in Triangle(mesh, t) :
                    /\ Cardinality({u \in T : <<e[2], e[1]>> \in Triangle(mesh, u)}) = 1
                    /\ Cardinality({u \in T : e \in Triangle(mesh, u)}) = 1
               /\ \E axis \in 1..3, k \in {0, 1}, cell \in Cells : \A e \in Triangle(mesh, t) :
                    corner(e[1]).cell = cell /\ corner(e[1]).corner[axis] = k
    /\ \A o \in Open : wrapper[o].kind = "mesh" => estimatedIndices(o) = index_count(At(o))

(* The order holds the loaded chunks, each once, by the age of the load  *)
(* that brought them in, so that the next eviction takes the chunk loaded *)
(* longest ago, whatever was unloaded, evicted and loaded again before   *)
(* (phenotype_gfx_streaming_load, _unload, _evict_oldest).               *)
EvictsOldestLoad ==
    \A a \in Natives("streaming") :
        LET m == heap[a]
        IN  /\ m.loaded = ToSet(m.access_order)
            /\ \A i, j \in 1..Len(m.access_order) :
                 i < j => m.number[m.access_order[i]] < m.number[m.access_order[j]]

NamesWhatWasAdded(o, h) ==
    LET p == At(o)
        q == heap'[wrapper[o].handle]
    IN  /\ IsPrefix(p.materials, q.materials)
        /\ IF reply' = MaxId THEN material_count(q) = MaxId + 1
           ELSE reply' = material_count(p) /\ material_get_property(q, reply') = h

(* A caller that is given u16::MAX cannot tell the last material from a  *)
(* failure, but it may stop: the palette holds all that fit, every other *)
(* reply names the material just added, and earlier names keep their     *)
(* materials (phenotype_gfx_material_set_property, MaterialPalette::add). *)
MaterialIdsLast ==
    [][\A o \in Objects, h \in Hardness : Add(o, h) => NamesWhatWasAdded(o, h)]_vars

(* What the comment of GetVertices says: "Copy the native vertex buffer  *)
(* into a managed array".  The strides differ by two bytes, so that every *)
(* vertex after the first is put together from parts of two.             *)
VerticesCopied ==
    [][\A o \in Objects : GetVertices(o) => reply' = vertex_count(At(o))]_vars

=============================================================================
