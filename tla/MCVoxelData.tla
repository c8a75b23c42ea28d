---------------------------- MODULE MCVoxelData ----------------------------
(***************************************************************************)
(* The data structures of src/voxel: coordinates, the world with its     *)
(* consumer, meshers, serialisation, sprites, octree and vector batches. *)
(* They share no state, so a behaviour moves one of them, the subject, and *)
(* leaves the others alone.                                              *)
(* A property that is costly where nothing moves looks at its subject only. *)
(***************************************************************************)
EXTENDS VoxelWorld, CpuMesher, SpriteVoxelizer, SparseOctree, VectorBatch

(* What the coordinate functions promise together, for any two world     *)
(* positions: two cursors move over the positions, and the properties    *)
(* relate what the functions say of one to what they say of the other.   *)
CONSTANT Places   \* world positions, triples of fixed-point integers

ASSUME PositionAssumption == Places \subseteq Int \X Int \X Int

VARIABLES here, there

cursors == <<here, there>>

LatticeInit == here \in Places /\ there \in Places

LatticeNext ==
    \/ \E p \in Places : here' = p /\ UNCHANGED there
    \/ \E p \in Places : there' = p /\ UNCHANGED here

(* The voxel a position lies in, counted from the origin of the world.   *)
Voxel(pos) == [axis \in 1..3 |-> pos[axis] \div voxel_span]

(* The voxels of the chunks along one axis that an i32 can tell apart.   *)
AxisVoxels == 2 * I32Half * edge

(* Two positions share a chunk and an index in it exactly when their     *)
(* voxels are a whole number of axes apart in every direction: within one *)
(* axis the chunks tile the world with no gap at the origin and no voxel *)
(* is stored twice, and beyond it the world begins again, as the cast of *)
(* the quotient to i32 has it (to_chunk_coord, write, read).             *)
NamesAreVoxels ==
    (\A axis \in 1..3 : (Voxel(here)[axis] - Voxel(there)[axis]) % AxisVoxels = 0)
        <=> /\ to_chunk_coord(here) = to_chunk_coord(there)
            /\ voxel_index(here) = voxel_index(there)

(* The chunks whose identifier loses nothing: cx and cy below 2^24, cz   *)
(* below 2^16, none negative.                                            *)
Packable(c) ==
    c[1] \in 0..2^24 - 1 /\ c[2] \in 0..2^24 - 1 /\ c[3] \in 0..2^16 - 1

Lexicographic(c, d) ==
    \/ c[1] < d[1]
    \/ c[1] = d[1] /\ c[2] < d[2]
    \/ c[1] = d[1] /\ c[2] = d[2] /\ c[3] < d[3]

(* Among packable chunks, identifiers are distinct and sort as the chunks *)
(* sort in the world's BTreeMap, so events drain in storage order        *)
(* (chunk_id, drain_dirty).                                              *)
IdsFollowChunks ==
    LET c == to_chunk_coord(here)
        d == to_chunk_coord(there)
    IN  Packable(c) /\ Packable(d) =>
            /\ chunk_id(c) = chunk_id(d) <=> c = d
            /\ IdBelow(chunk_id(c), chunk_id(d)) <=> Lexicographic(c, d)

---------------------------------------------------------------------------
CONSTANT Subjects    \* the parts to move

VARIABLE subject

data == <<subject, cursors, vars, voxels, sprite, tree, slice>>

(* Chunks are counted in 25 bits here, one more than the packable ones   *)
(* need; a chunk is two voxels of two units on each axis.                *)
MCI32Half == 2^24

(* Positions around the origin, at the far corner of the packable chunks, *)
(* at the first chunk that is taken for a negative one, and where the    *)
(* chunks begin again.                                                   *)
MCPlaces ==
    {-3, 0, 2, 4, 2^26 - 4, 2^26, 2^27, 2^27 + 2} \X {-1, 0, 2, 2^26 - 4} \X {1, 3, 2^18 - 4}

(* Two chunks below ground whose identifiers collide, and one above.     *)
West == <<0, -1, 0>>
East == <<1, -1, 0>>
Top  == <<0, 1, 0>>

MCCoords == {West, East, Top}

MCEditable == {<<0,0,0>>, <<1,0,0>>, <<0,1,0>>, <<1,1,0>>, <<2,2,2>>, <<1,1,1>>}

(* Images with up to three transparent pixels, or up to one opaque one.  *)
MCImages ==
    {[k \in 1..width * height |-> IF k \in clear THEN 0 ELSE k] :
        clear \in {S \in SUBSET (1..width * height) : Cardinality(S) <= 3 \/ Cardinality(S) >= 11}}

(* Octrees with up to two groups of siblings on both sides of the origin, *)
(* each whole, with an odd, dense or missing sibling, or absent; and one *)
(* that collapses twice.                                                 *)
Groups == {<<-2, 0, 0>>, <<-1, 0, 0>>, <<0, 0, 0>>, <<1, 0, 0>>}
Patterns == {"absent", "one", "two", "odd", "dense", "seven"}

Filled(p, pattern) ==
    LET corner == <<2 * p[1] + 1, 2 * p[2] + 1, 2 * p[3] + 1>>
        value(c) == CASE pattern = "two" -> 2
                      [] pattern = "odd" /\ c = corner -> 2
                      [] pattern = "dense" /\ c = corner -> Dense
                      [] OTHER -> 1
        there_are == CASE pattern = "absent" -> {}
                       [] pattern = "seven" -> Children(p) \ {corner}
                       [] OTHER -> Children(p)
    IN  {<<c, value(c)>> : c \in there_are}

Tree(pairs) == [c \in {x[1] : x \in pairs} |-> (CHOOSE x \in pairs : x[1] = c)[2]]

MCTrees ==
    {Tree(UNION {Filled(p, choice[p]) : p \in Groups}) :
        choice \in {c \in [Groups -> Patterns] : Cardinality({p \in Groups : c[p] # "absent"}) <= 2}}
    \cup {[c \in (0..3) \X (0..3) \X (0..3) |-> 1]}

MCInserts == {<< <<1, 1, 1>>, 1>>}

MCVectors == {<<0, 0, 0>>, <<1, -2, 3>>}

---------------------------------------------------------------------------
DataInit ==
    /\ subject \in Subjects
    /\ IF subject = "lattice" THEN LatticeInit ELSE here = <<0, 0, 1>> /\ there = <<0, 0, 1>>
    /\ Init
    /\ ChunkInit
    /\ IF subject = "sprite" THEN SpriteInit
       ELSE image = << >> /\ dist = << >> /\ queue = << >>
    /\ IF subject = "octree" THEN OctreeInit
       ELSE nodes = << >> /\ compacting = FALSE /\ said = {} /\ former = << >>
    /\ SliceInit

DataNext ==
    /\ UNCHANGED subject
    /\ \/ subject = "lattice" /\ LatticeNext /\ UNCHANGED <<vars, voxels, sprite, tree, slice>>
       \/ subject = "world" /\ Next /\ UNCHANGED <<cursors, voxels, sprite, tree, slice>>
       \/ subject = "chunk" /\ ChunkNext /\ UNCHANGED <<cursors, vars, sprite, tree, slice>>
       \/ subject = "sprite" /\ Flood /\ UNCHANGED <<cursors, vars, voxels, tree, slice>>
       \/ subject = "octree" /\ OctreeNext /\ UNCHANGED <<cursors, vars, voxels, sprite, slice>>
       \/ subject = "batch" /\ SliceNext /\ UNCHANGED <<cursors, vars, voxels, sprite, tree>>

DataSpec == DataInit /\ [][DataNext]_data

---------------------------------------------------------------------------
(* SurfaceCovered and WindingOutward, and SavesLoadBack, of every chunk  *)
(* written (mesh_cubic, mesh_greedy; save_chunk, load_chunk).            *)
MeshesDrawSurface == subject = "chunk" => SurfaceCovered /\ WindingOutward
ChunksLoadBack == subject = "chunk" => SavesLoadBack

(* DistancesFound, BalloonNests and ChunkHoldsSprite of every image      *)
(* (voxelize_image, voxelize_to_chunk).                                  *)
SpriteVolumes == subject = "sprite" => DistancesFound /\ BalloonNests /\ ChunkHoldsSprite

(* NamesAreVoxels and IdsFollowChunks of every pair of positions         *)
(* (VoxelCoord, ChunkCoord, ChunkId).                                    *)
LatticeNames == subject = "lattice" => NamesAreVoxels /\ IdsFollowChunks

=============================================================================
