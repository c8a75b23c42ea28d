--------------------------- MODULE SpriteVoxelizer ---------------------------
(***************************************************************************)
(* src/voxel/sprite_voxelizer.rs: the breadth-first search for the       *)
(* distance of every pixel to the transparent ones, one pixel of the queue *)
(* a step, and the volumes that are built from an image.                 *)
(*                                                                       *)
(* An image is a sequence of colours in row order, 0 a colour whose alpha *)
(* is at or below ALPHA_THRESHOLD.                                       *)
(***************************************************************************)
EXTENDS Integers, Sequences, FiniteSets, SequencesExt, FiniteSetsExt

CONSTANTS
    width, height,    \* the size of the images
    Images,           \* bound: the images
    MaxDepth,         \* bound: the largest depth asked for
    ChunkEdge         \* CHUNK_EDGE, below the width so that images are cut

(* Distances are u32, and no two pixels are u32::MAX / 4 apart.          *)
Unreached == 1073741823    \* u32::MAX / 4

ASSUME SpriteAssumption ==
    /\ width \in Nat \ {0} /\ height \in Nat \ {0} /\ width + height <= Unreached
    /\ Images \subseteq [1..width * height -> Nat]
    /\ MaxDepth \in Nat /\ ChunkEdge \in Nat \ {0}

Pixels == (0..width - 1) \X (0..height - 1)

Index(x, y) == x + y * width + 1

Opaque(picture, p) == picture[Index(p[1], p[2])] # 0

(* The pixels of a sequence that are in a set, in order.                 *)
Among(order, chosen) ==
    FlattenSeq([k \in DOMAIN order |-> IF order[k] \in chosen THEN <<order[k]>> ELSE << >>])

(* Without a transparent pixel the border is where the distances start:  *)
(* its columns, then what is left of its rows.                           *)
SeedOrder(picture) ==
    LET inRows == [k \in 1..width * height |-> <<(k - 1) % width, (k - 1) \div width>>]
        columns == [k \in 1..2 * height |-> <<IF k % 2 = 1 THEN 0 ELSE width - 1, (k - 1) \div 2>>]
        lines == IF height = 1 THEN 1 ELSE 2
        rows == [k \in 1..lines * width |-> <<(k - 1) \div lines, ((k - 1) % lines) * (height - 1)>>]
        air == Among(inRows, {p \in Pixels : ~ Opaque(picture, p)})
    IN  IF air # << >> THEN air
        ELSE columns \o Among(rows, (1..width - 2) \X (0..height - 1))

Seeds(picture) == {SeedOrder(picture)[k] : k \in DOMAIN SeedOrder(picture)}

VARIABLES image, dist, queue

sprite == <<image, dist, queue>>

SpriteInit ==
    /\ image \in Images
    /\ dist = [p \in Pixels |-> IF p \in Seeds(image) THEN 0 ELSE Unreached]
    /\ queue = SeedOrder(image)

(* Mutant: every neighbour takes the distance, a seed of the border too. *)
NearerByAnyWay(p) ==
    {q \in Pixels : /\ (q[1] - p[1]) * (q[1] - p[1]) + (q[2] - p[2]) * (q[2] - p[2]) = 1
                    /\ Opaque(image, q)
                    /\ dist[q] # dist[p] + 1 /\ dist[q] >= dist[p]}

Nearer(p) ==
    {q \in Pixels : /\ (q[1] - p[1]) * (q[1] - p[1]) + (q[2] - p[2]) * (q[2] - p[2]) = 1
                    /\ Opaque(image, q)
                    /\ dist[q] > dist[p] + 1}

(* The neighbours are looked at left, right, below, above.               *)
Flood ==
    /\ queue # << >>
    /\ LET p == Head(queue)
           order == <<<<p[1] - 1, p[2]>>, <<p[1] + 1, p[2]>>, <<p[1], p[2] - 1>>, <<p[1], p[2] + 1>>>>
       IN  /\ dist' = [q \in Pixels |-> IF q \in Nearer(p) THEN dist[p] + 1 ELSE dist[q]]
           /\ queue' = Tail(queue) \o Among(order, Nearer(p))
    /\ UNCHANGED image

SpriteSpec == SpriteInit /\ [][Flood]_sprite

---------------------------------------------------------------------------
(* The volumes.                                                          *)

AtLeast(a, b) == IF a >= b THEN a ELSE b
AtMost(a, b) == IF a <= b THEN a ELSE b

(* The slices z_start..z_end - 1 of one pixel; d is its distance.        *)
flat_extent(depth) == 0..AtLeast(depth, 1) - 1

balloon_extent(depth, d, least) ==
    LET full == AtLeast(depth, 1)
        reach == AtLeast(d, least)
    IN  AtLeast(0, (full \div 2) - reach)..AtMost(full, (full \div 2) + reach + 1) - 1

(* The voxels <<x, y, z, colour>>; slices[p] is the extent of the mode.  *)
voxelize_image(slices) ==
    UNION {{<<p[1], p[2], z, image[Index(p[1], p[2])]>> : z \in slices[p]} :
               p \in {p \in Pixels : Opaque(image, p)}}

(* pixel_to_material is the colour itself.                               *)
voxelize_to_chunk(depth) ==
    LET at(x, y) == image[Index(x, y)]
    IN  [c \in (0..ChunkEdge - 1) \X (0..ChunkEdge - 1) \X (0..ChunkEdge - 1) |->
            IF c[1] < width /\ c[2] < height /\ c[3] < AtLeast(1, AtMost(depth, ChunkEdge))
              THEN at(c[1], c[2]) ELSE 0]

---------------------------------------------------------------------------
Manhattan(p, q) ==
    LET away(a, b) == IF a >= b THEN a - b ELSE b - a
    IN  away(p[1], q[1]) + away(p[2], q[2])

(* The search ends with the distance to the nearest transparent pixel, or *)
(* to the border when there is none, although it only walks over opaque  *)
(* pixels; until then no distance is too small                           *)
(* (compute_manhattan_dist_to_air).                                      *)
DistancesFound ==
    \A p \in Pixels :
        LET true == Min({Manhattan(p, q) : q \in Seeds(image)})
        IN  dist[p] >= true /\ (queue = << >> => dist[p] = true)

(* A balloon stays inside its depth, holds the middle slice of every     *)
(* opaque pixel, is nowhere thicker than at a pixel farther from the air, *)
(* and reaches as far to the front as to the back where the depth allows *)
(* it (voxelize_image).                                                  *)
BalloonNests ==
    queue = << >> => \A depth \in 0..MaxDepth, least \in 0..2 :
        LET extent == [p \in Pixels |-> balloon_extent(depth, dist[p], least)]
            flat == [p \in Pixels |-> flat_extent(depth)]
            middle == AtLeast(depth, 1) \div 2
        IN  /\ voxelize_image(extent) \subseteq voxelize_image(flat)
            /\ \A p, q \in Pixels : dist[p] <= dist[q] => extent[p] \subseteq extent[q]
            /\ \A p \in Pixels : middle \in extent[p]
            /\ \A p \in Pixels, k \in 0..MaxDepth :
                 middle + k < depth /\ k <= middle =>
                    (middle - k \in extent[p] <=> middle + k \in extent[p])

(* The chunk of an image holds the flat volume of the image, as far as it *)
(* lies inside the chunk, and air elsewhere (voxelize_to_chunk).         *)
ChunkHoldsSprite ==
    queue = << >> => \A depth \in 0..MaxDepth :
        LET chunk == voxelize_to_chunk(depth)
        IN  {<<c[1], c[2], c[3], chunk[c]>> : c \in {c \in DOMAIN chunk : chunk[c] # 0}}
              = {v \in voxelize_image([p \in Pixels |-> flat_extent(depth)]) :
                    v[1] < ChunkEdge /\ v[2] < ChunkEdge /\ v[3] < ChunkEdge}

=============================================================================
