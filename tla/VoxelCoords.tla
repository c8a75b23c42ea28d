---------------------------- MODULE VoxelCoords ----------------------------
(***************************************************************************)
(* The coordinate arithmetic of src/voxel/coord.rs and the voxel indexing *)
(* of src/voxel/world.rs: which chunk a world position falls in, which   *)
(* voxel of that chunk it is, and the identifier dirty events name the   *)
(* chunk by.                                                             *)
(*                                                                       *)
(* A 64-bit identifier is the set of its one bits, so that no width is   *)
(* lost to the checker's own integers.                                   *)
(***************************************************************************)
EXTENDS Integers, FiniteSets

CONSTANTS
    voxel_span,   \* fixed-point world units per voxel edge (i64)
    edge,         \* voxels per chunk edge (CHUNK_EDGE)
    I32Half       \* half the values of an i32 (2^31 in the code)

ASSUME GridAssumption ==
    voxel_span \in Nat \ {0} /\ edge \in Nat \ {0} /\ I32Half \in Nat \ {0}

world_edge == voxel_span * edge

(* n as i32: the number of its range that differs from n by a multiple of *)
(* the number of its values.                                             *)
AsI32(n) == ((n + I32Half) % (2 * I32Half)) - I32Half

(* Mutant: the quotient is rounded towards zero, as Rust's / does.       *)
to_chunk_coord_truncating(pos) ==
    [axis \in 1..3 |-> AsI32(IF pos[axis] < 0 THEN -((-pos[axis]) \div world_edge)
                                              ELSE pos[axis] \div world_edge)]

(* div_euclid by a positive divisor is \div.                             *)
to_chunk_coord(pos) == [axis \in 1..3 |-> AsI32(pos[axis] \div world_edge)]

(* rem_euclid by a positive divisor is %.                                *)
local(pos) == [axis \in 1..3 |-> (pos[axis] % world_edge) \div voxel_span]

voxel_index(pos) ==
    local(pos)[1] + local(pos)[2] * edge + local(pos)[3] * edge * edge

(* The bits of an i32 read as a u32 (two's complement).                  *)
Bits(n) ==
    {k \in 0..30 : (n \div 2^k) % 2 = 1} \cup (IF n < 0 THEN {31} ELSE {})

ShiftedLeft(bits, by) == {k + by : k \in bits} \cap (0..63)

(* cx << 40 | cy << 16 | cz & 0xFFFF                                     *)
chunk_id(c) ==
    ShiftedLeft(Bits(c[1]), 40) \cup ShiftedLeft(Bits(c[2]), 16)
        \cup (Bits(c[3]) \cap (0..15))

(* The order of two u64: the highest bit in which they differ decides.   *)
IdBelow(a, b) ==
    \E k \in b \ a : \A j \in (a \ b) \cup (b \ a) : j <= k

=============================================================================
