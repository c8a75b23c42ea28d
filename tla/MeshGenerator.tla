---------------------------- MODULE MeshGenerator ----------------------------
(***************************************************************************)
(* The mesh generation kernel of src/compute/mesh_generator.rs and its   *)
(* dispatch by src/compute/gpu_mesher.rs: one invocation per voxel, all of *)
(* them sharing two atomic counters from which a face claims its four    *)
(* vertex slots and then its six index slots.                            *)
(*                                                                       *)
(* The steps of an invocation are its atomic additions.  What it writes  *)
(* after the second one goes into slots it has claimed and nobody reads  *)
(* before the dispatch is over, so the writes are part of that step.  The *)
(* device is external; positions are in voxels.                          *)
(***************************************************************************)
EXTENDS Integers, Sequences, FiniteSets

CONSTANTS
    Configs,         \* MeshGenConfig: grid_size, max_vertices, max_indices
    Uploads,         \* VoxelChunkUpload: grid_size, voxels
    workgroup_size,  \* invocations per workgroup (64)
    None

Grids == (Nat \ {0}) \X (Nat \ {0}) \X (Nat \ {0})

ASSUME ConfigAssumption ==
    /\ workgroup_size \in Nat \ {0}
    /\ \A c \in Configs : /\ c.grid_size \in Grids
                          /\ c.max_vertices \in Nat /\ c.max_indices \in Nat
    /\ \A u \in Uploads :
         LET n == Cardinality(DOMAIN u.voxels)
         IN  u \in [grid_size : Grids, voxels : [0..n - 1 -> Nat]]

ASSUME NoneAssumption == None \notin Nat

VARIABLES
    config,      \* the shader's configuration
    running,     \* a dispatch is in progress
    upload,      \* the upload of the current or last dispatch, or None
    counters,    \* the counter buffer: vertices and indices claimed
    vertices,    \* the slots of the vertex buffer that were written
    indices,     \* the slots of the index buffer that were written
    todo,        \* todo[i]: the faces invocation i has yet to emit
    base,        \* base[i]: the vertex slots i has claimed for the next one
    output       \* what the last dispatch returned, or None

buffers == <<counters, vertices, indices>>
vars == <<config, running, upload, buffers, todo, base, output>>

Volume(grid) == grid[1] * grid[2] * grid[3]

Plus(p, q) == [axis \in 1..3 |-> p[axis] + q[axis]]

X == <<1, 0, 0>>
Y == <<0, 1, 0>>
Z == <<0, 0, 1>>
Minus(p) == [axis \in 1..3 |-> -p[axis]]
Origin == <<0, 0, 0>>

---------------------------------------------------------------------------
(* The kernel's view of the grid.                                        *)

idx_to_coord(grid, idx) ==
    <<(idx % (grid[1] * grid[2])) % grid[1],
      (idx % (grid[1] * grid[2])) \div grid[1],
      idx \div (grid[1] * grid[2])>>

Flat(grid, c) == c[3] * grid[1] * grid[2] + c[2] * grid[1] + c[1]

(* Mutant: a coordinate past the end of its axis is not turned away.     *)
coord_to_flat_unbounded(grid, c) ==
    IF \E axis \in 1..3 : c[axis] < 0 THEN Volume(grid) ELSE Flat(grid, c)

(* The sentinel, u32::MAX in the code, is any index past the grid.       *)
coord_to_flat(grid, c) ==
    IF \A axis \in 1..3 : c[axis] \in 0..grid[axis] - 1 THEN Flat(grid, c) ELSE Volume(grid)

is_solid(u, flat) == flat < Volume(u.grid_size) /\ u.voxels[flat] # 0

(* The six calls of emit_face: which neighbour hides the face, where its *)
(* quad starts and along which edges it extends.                         *)
Faces == <<
    [normal |-> X,        shift |-> X,      right |-> Y, up |-> Z],
    [normal |-> Minus(X), shift |-> Origin, right |-> Z, up |-> Y],
    [normal |-> Y,        shift |-> Y,      right |-> X, up |-> Z],
    [normal |-> Minus(Y), shift |-> Origin, right |-> Z, up |-> X],
    [normal |-> Z,        shift |-> Z,      right |-> X, up |-> Y],
    [normal |-> Minus(Z), shift |-> Origin, right |-> Y, up |-> X] >>

(* What generate finds for invocation idx, in the order of its tests.  The *)
(* voxel buffer is read-only, so the tests may be taken together.        *)
Exposed(u, idx) ==
    LET Bare(face) == ~ is_solid(u, coord_to_flat(u.grid_size,
                            Plus(idx_to_coord(u.grid_size, idx), face.normal)))
        Test(k) == IF Bare(Faces[k]) THEN <<Faces[k]>> ELSE << >>
    IN  IF idx < Volume(u.grid_size) /\ u.voxels[idx] # 0
          THEN Test(1) \o Test(2) \o Test(3) \o Test(4) \o Test(5) \o Test(6) ELSE << >>

(* The four vertices of a face of invocation idx.                        *)
Quad(u, idx, face) ==
    LET origin == Plus(idx_to_coord(u.grid_size, idx), face.shift)
        At(p)  == [position |-> p, material |-> u.voxels[idx]]
    IN  <<At(origin), At(Plus(origin, face.right)),
          At(Plus(Plus(origin, face.right), face.up)), At(Plus(origin, face.up))>>

(* The two triangles of a quad.                                          *)
Pattern == <<0, 1, 2, 0, 2, 3>>

---------------------------------------------------------------------------
(* Dispatch.                                                             *)

Invocations(u) ==
    LET workgroups == (Volume(u.grid_size) + workgroup_size - 1) \div workgroup_size
    IN  0..workgroups * workgroup_size - 1

Matches(u) ==
    /\ Cardinality(DOMAIN u.voxels) = Volume(config.grid_size)
    /\ u.grid_size = config.grid_size

(* The kernel runs over the grid of the configuration.                   *)
Placed(u) == [u EXCEPT !.grid_size = config.grid_size]

dispatch(u) ==
    /\ ~ running
    /\ Matches(u)
    /\ running' = TRUE
    /\ upload' = u
    /\ counters' = [vertices |-> 0, indices |-> 0]
    /\ vertices' = << >> /\ indices' = << >>
    /\ todo' = [i \in Invocations(Placed(u)) |-> Exposed(Placed(u), i)]
    /\ base' = [i \in Invocations(Placed(u)) |-> None]
    /\ output' = None
    /\ UNCHANGED config

refuse(u) ==
    /\ ~ running
    /\ ~ Matches(u)
    /\ output' = [kind |-> "VoxelCountMismatch"]
    /\ UNCHANGED <<config, running, upload, buffers, todo, base>>

(* The counters are read back when every invocation has returned.        *)
read_back ==
    /\ running
    /\ \A i \in DOMAIN todo : todo[i] = << >>
    /\ running' = FALSE
    /\ output' = [kind |-> "counts", vertex_count |-> counters.vertices,
                  index_count |-> counters.indices]
    /\ UNCHANGED <<config, upload, buffers, todo, base>>

Lost == [kind |-> "MapFailed"]

(* The device is lost, or the counters cannot be mapped; the buffers go  *)
(* with the call.                                                        *)
map_failed ==
    /\ running
    /\ running' = FALSE
    /\ output' = Lost
    /\ counters' = [vertices |-> 0, indices |-> 0]
    /\ vertices' = << >> /\ indices' = << >>
    /\ todo' = << >> /\ base' = << >>
    /\ UNCHANGED <<config, upload>>

---------------------------------------------------------------------------
(* An invocation emits a face.                                           *)

(* Mutant: three slots are claimed for four vertices.                    *)
claim_vertices_short(i) ==
    /\ todo[i] # << >> /\ base[i] = None
    /\ base' = [base EXCEPT ![i] = counters.vertices]
    /\ counters' = [counters EXCEPT !.vertices = @ + 3]
    /\ UNCHANGED <<config, running, upload, vertices, indices, todo, output>>

claim_vertices(i) ==
    /\ todo[i] # << >> /\ base[i] = None
    /\ base' = [base EXCEPT ![i] = counters.vertices]
    /\ counters' = [counters EXCEPT !.vertices = @ + 4]
    /\ UNCHANGED <<config, running, upload, vertices, indices, todo, output>>

(* Mutant: the last vertex may lie just past the buffer.                 *)
FitsAlmost(first, idx_base) ==
    first + 3 <= config.max_vertices /\ idx_base + 6 <= config.max_indices

(* Mutant: a face that would exactly fill a buffer is turned away.       *)
FitsStrictly(first, idx_base) ==
    first + 4 < config.max_vertices /\ idx_base + 6 < config.max_indices

Fits(first, idx_base) ==
    first + 4 <= config.max_vertices /\ idx_base + 6 <= config.max_indices

(* The buffers with the next face of i in the slots it has claimed.      *)
DrawnVertices(i) ==
    LET claimed == base[i]..base[i] + 3
        quad == Quad(Placed(upload), i, Head(todo[i]))
    IN  [k \in DOMAIN vertices \cup claimed |->
            IF k \in claimed THEN quad[k - base[i] + 1] ELSE vertices[k]]

DrawnIndices(i) ==
    LET first == counters.indices
        claimed == first..first + 5
    IN  [k \in DOMAIN indices \cup claimed |->
            IF k \in claimed THEN base[i] + Pattern[k - first + 1] ELSE indices[k]]

(* Mutant: a face that does not fit waits for room.                      *)
emit_face_waiting(i) ==
    /\ base[i] # None
    /\ Fits(base[i], counters.indices)
    /\ vertices' = DrawnVertices(i)
    /\ indices' = DrawnIndices(i)
    /\ counters' = [counters EXCEPT !.indices = @ + 6]
    /\ todo' = [todo EXCEPT ![i] = Tail(@)]
    /\ base' = [base EXCEPT ![i] = None]
    /\ UNCHANGED <<config, running, upload, output>>

(* A face that does not fit keeps the slots it has claimed and is dropped. *)
emit_face(i) ==
    /\ base[i] # None
    /\ IF Fits(base[i], counters.indices)
         THEN vertices' = DrawnVertices(i) /\ indices' = DrawnIndices(i)
         ELSE UNCHANGED <<vertices, indices>>
    /\ counters' = [counters EXCEPT !.indices = @ + 6]
    /\ todo' = [todo EXCEPT ![i] = Tail(@)]
    /\ base' = [base EXCEPT ![i] = None]
    /\ UNCHANGED <<config, running, upload, output>>

---------------------------------------------------------------------------
Init ==
    /\ config \in Configs
    /\ running = FALSE
    /\ upload = None
    /\ counters = [vertices |-> 0, indices |-> 0]
    /\ vertices = << >> /\ indices = << >>
    /\ todo = << >> /\ base = << >>
    /\ output = None

generate(i) == claim_vertices(i) \/ emit_face(i)

Next ==
    \/ \E u \in Uploads : dispatch(u) \/ refuse(u)
    \/ \E i \in DOMAIN todo : generate(i)
    \/ read_back
    \/ map_failed

(* An invocation never waits for another, so the device finishes each of *)
(* them; the host polls the device until the counters can be read.       *)
Fairness == WF_vars(\E i \in DOMAIN todo : generate(i)) /\ WF_vars(read_back)

Spec == Init /\ [][Next]_vars /\ Fairness

---------------------------------------------------------------------------
(* Properties.                                                           *)

(* The index groups that were written, and the vertex each one starts at. *)
Drawn == {g \in 0..config.max_indices \div 6 - 1 : 6 * g \in DOMAIN indices}
First(g) == indices[6 * g]

(* However the invocations interleave and wherever the buffers end, nothing *)
(* is written past them, an index group is written whole, refers to four *)
(* vertices that are written, and shares them with no other group; no index *)
(* lies outside a group (emit_face).                                     *)
IndicesResolve ==
    /\ DOMAIN vertices \subseteq 0..config.max_vertices - 1
    /\ DOMAIN indices \subseteq 0..config.max_indices - 1
    /\ \A k \in DOMAIN indices : k \div 6 \in Drawn
    /\ \A g \in Drawn :
         /\ \A k \in 0..5 : /\ 6 * g + k \in DOMAIN indices
                            /\ indices[6 * g + k] = First(g) + Pattern[k + 1]
         /\ \A k \in 0..3 : First(g) + k \in DOMAIN vertices
         /\ \A h \in Drawn \ {g} : First(g) + 4 <= First(h) \/ First(h) + 4 <= First(g)

(* No slot of either buffer is written twice in one dispatch: the two    *)
(* atomic additions give every face slots of its own (emit_face).        *)
WritesOnce ==
    [][running /\ output' # Lost =>
         /\ \A k \in DOMAIN vertices : k \in DOMAIN vertices' /\ vertices'[k] = vertices[k]
         /\ \A k \in DOMAIN indices : k \in DOMAIN indices' /\ indices'[k] = indices[k]]_vars

(* The material of a cell of an upload, "in x + y * X + z * X * Y order". *)
Material(u, c) ==
    LET grid == u.grid_size
    IN  IF \A axis \in 1..3 : c[axis] \in 0..grid[axis] - 1
          THEN u.voxels[c[1] + c[2] * grid[1] + c[3] * grid[1] * grid[2]] ELSE 0

Cells(u) == (0..u.grid_size[1] - 1) \X (0..u.grid_size[2] - 1) \X (0..u.grid_size[3] - 1)

(* A cell is the unit cube at its coordinate.                            *)
Corners(c) == {Plus(c, d) : d \in (0..1) \X (0..1) \X (0..1)}

Neighbours(c) == {Plus(c, d) : d \in {X, Y, Z, Minus(X), Minus(Y), Minus(Z)}}

(* The sides solid cells have in common with cells that are not.         *)
Surface(u) ==
    UNION {{[corners |-> Corners(c) \cap Corners(n), material |-> Material(u, c)] :
               n \in {m \in Neighbours(c) : Material(u, m) = 0}} :
           c \in {d \in Cells(u) : Material(u, d) # 0}}

(* What index group g draws.                                             *)
Patch(g) ==
    [corners  |-> {vertices[First(g) + k].position : k \in 0..3},
     material |-> vertices[First(g)].material]

Ended == ~ running /\ upload # None /\ output.kind = "counts"

Lesser(m, n) == IF m < n THEN m ELSE n

(* When both buffers have room for every face, a dispatch draws the surface *)
(* of the solid voxels, each side once, in the voxel's material, and the *)
(* counters it reads back are exact, whatever the order of the claims    *)
(* (generate, dispatch).                                                 *)
SurfaceComplete ==
    LET faces == Cardinality(Surface(upload))
    IN  Ended /\ 4 * faces <= config.max_vertices /\ 6 * faces <= config.max_indices =>
          /\ {Patch(g) : g \in Drawn} = Surface(upload)
          /\ Cardinality(Drawn) = faces
          /\ counters = [vertices |-> 4 * faces, indices |-> 6 * faces]

(* When a buffer is short, what is drawn is part of the surface.  Faces may *)
(* be lost to each buffer apart, because the two claims of one face need *)
(* not have the same rank, but no more than each is short of (emit_face). *)
ShortfallBounded ==
    LET faces == Cardinality(Surface(upload))
        V == Lesser(faces, config.max_vertices \div 4)
        I == Lesser(faces, config.max_indices \div 6)
    IN  Ended => /\ {Patch(g) : g \in Drawn} \subseteq Surface(upload)
                 /\ V + I - faces <= Cardinality(Drawn)
                 /\ Cardinality(Drawn) <= Lesser(V, I)

(* Every dispatch ends, even when faces are dropped (generate, dispatch). *)
DispatchEnds == running ~> ~ running

=============================================================================
