----------------------------- MODULE CpuMesher -----------------------------
(***************************************************************************)
(* The two meshers of src/voxel/cubic_mesher.rs and greedy_mesher.rs over *)
(* one dense chunk.  A mesh is the sequence of its quads; the two        *)
(* triangles of a quad are p0 p1 p2 and p0 p2 p3.                        *)
(***************************************************************************)
EXTENDS DenseChunk, FiniteSets, SequencesExt

is_solid(material) == material # 0

in_bounds(p) == \A axis \in 1..3 : p[axis] \in Span

solid_at(chunk, p) == in_bounds(p) /\ is_solid(chunk[p])

---------------------------------------------------------------------------
(* Faces: +x, -x, +y, -y, +z, -z are 0..5.                               *)

Plus(p, q) == <<p[1] + q[1], p[2] + q[2], p[3] + q[3]>>
Times(k, q) == <<k * q[1], k * q[2], k * q[3]>>

normal(face) == << <<1,0,0>>, <<-1,0,0>>, <<0,1,0>>, <<0,-1,0>>, <<0,0,1>>, <<0,0,-1>> >>[face + 1]

neighbour(p, face) == Plus(p, normal(face))

(* The tangents u and v of face_ao.                                      *)
tangents(face) ==
    << << <<0,1,0>>, <<0,0,1>> >>,  << <<0,1,0>>, <<0,0,-1>> >>,
       << <<0,0,1>>, <<1,0,0>> >>,  << <<0,0,-1>>, <<1,0,0>> >>,
       << <<1,0,0>>, <<0,1,0>> >>,  << <<-1,0,0>>, <<0,1,0>> >> >>[face + 1]

corners == << <<-1,-1>>, <<1,-1>>, <<1,1>>, <<-1,1>> >>

vertex_ao(side1, side2, corner) ==
    IF side1 /\ side2 THEN 0
    ELSE 3 - ((IF side1 THEN 1 ELSE 0) + (IF side2 THEN 1 ELSE 0) + (IF corner THEN 1 ELSE 0))

(* The occlusion at the corner of the voxel p in the directions a and b. *)
OcclusionAt(chunk, p, a, b) ==
    vertex_ao(solid_at(chunk, Plus(p, a)), solid_at(chunk, Plus(p, b)),
              solid_at(chunk, Plus(Plus(p, a), b)))

face_ao(chunk, p, face) ==
    [i \in 1..4 |-> OcclusionAt(chunk, p, Times(corners[i][1], tangents(face)[1]),
                                          Times(corners[i][2], tangents(face)[2]))]

(* Mutant: beyond the far side of the chunk everything counts as solid.  *)
ExposedInside(chunk, p, face) ==
    /\ is_solid(chunk[p])
    /\ ~ solid_at(chunk, neighbour(p, face))
    /\ \A axis \in 1..3 : neighbour(p, face)[axis] < CHUNK_EDGE

Exposed(chunk, p, face) ==
    is_solid(chunk[p]) /\ ~ solid_at(chunk, neighbour(p, face))

---------------------------------------------------------------------------
(* The cubic mesher: one quad per exposed face.                          *)

(* The corners of a face of the unit cube, in the order of emit_face.    *)
face_corners(face) ==
    << << <<1,0,0>>, <<1,1,0>>, <<1,1,1>>, <<1,0,1>> >>,
       << <<0,0,1>>, <<0,1,1>>, <<0,1,0>>, <<0,0,0>> >>,
       << <<0,1,0>>, <<0,1,1>>, <<1,1,1>>, <<1,1,0>> >>,
       << <<0,0,1>>, <<0,0,0>>, <<1,0,0>>, <<1,0,1>> >>,
       << <<0,0,1>>, <<1,0,1>>, <<1,1,1>>, <<0,1,1>> >>,
       << <<0,1,0>>, <<1,1,0>>, <<1,0,0>>, <<0,0,0>> >> >>[face + 1]

emit_face(chunk, p, face) ==
    [corners  |-> [i \in 1..4 |-> Plus(p, face_corners(face)[i])],
     normal   |-> normal(face),
     material |-> chunk[p],
     ao       |-> face_ao(chunk, p, face)]

mesh_cubic(chunk) ==
    LET voxel(k) == InLoopOrder[((k - 1) \div 6) + 1]
        face(k) == (k - 1) % 6
    IN  FlattenSeq([k \in 1..6 * CHUNK_VOXELS |->
            IF Exposed(chunk, voxel(k), face(k)) THEN <<emit_face(chunk, voxel(k), face(k))>>
            ELSE << >>])

(* The centre of each face, doubled: the index of its fourth corner is that *)
(* of its third.                                                         *)
batch_compute_face_aabb_centers(quads) ==
    LET box(q) == {q.corners[1], q.corners[2], q.corners[3]}
        least(S) == CHOOSE x \in S : \A y \in S : x <= y
        most(S) == CHOOSE x \in S : \A y \in S : x >= y
    IN  [k \in DOMAIN quads |-> [axis \in 1..3 |->
            least({c[axis] : c \in box(quads[k])}) + most({c[axis] : c \in box(quads[k])})]]

---------------------------------------------------------------------------
(* The greedy mesher: faces of one slice with one key are merged.        *)

u_axis(axis) == (axis % 3) + 1
v_axis(axis) == (u_axis(axis) % 3) + 1
face_id(axis, neg) == 2 * (axis - 1) + (IF neg THEN 1 ELSE 0)

(* The position d along axis, mu and mv along its tangent axes.          *)
In3D(axis, d, mu, mv) ==
    [k \in 1..3 |-> IF k = axis THEN d ELSE IF k = u_axis(axis) THEN mu ELSE mv]

NoCell == [material |-> 0, ao |-> << >>]

mask_of(chunk, axis, neg, d, cell) ==
    LET p == In3D(axis, d, cell[1], cell[2])
        face == face_id(axis, neg)
    IN  IF Exposed(chunk, p, face)
          THEN [material |-> chunk[p], ao |-> face_ao(chunk, p, face)]
          ELSE NoCell

Longest(S) == CHOOSE n \in S : \A k \in S : k <= n

(* The cells of one width that carry the key, as far as they go.         *)
Width(mask, mu, mv) ==
    Longest({w \in 1..CHUNK_EDGE - mu : \A k \in 0..w - 1 : mask[<<mu + k, mv>>] = mask[<<mu, mv>>]})

Height(mask, mu, mv, width) ==
    Longest({h \in 1..CHUNK_EDGE - mv : \A j \in 0..h - 1, k \in 0..width - 1 :
        mask[<<mu + k, mv + j>>] = mask[<<mu, mv>>]})

emit_quad(axis, d, mu, mv, width, height, neg, key) ==
    LET at(du, dv) == In3D(axis, IF neg THEN d ELSE d + 1, mu + du, mv + dv)
    IN  [corners  |-> IF neg THEN <<at(0, height), at(width, height), at(width, 0), at(0, 0)>>
                             ELSE <<at(0, 0), at(width, 0), at(width, height), at(0, height)>>,
         normal   |-> normal(face_id(axis, neg)),
         material |-> key.material,
         ao       |-> key.ao]

(* The rectangle that begins at a cell, unless the cell is used already. *)
MergedAt(chunk, axis, neg, d, acc, cell) ==
    LET free == [c \in Span \X Span |->
                    IF c \in acc.used THEN NoCell ELSE mask_of(chunk, axis, neg, d, c)]
        w == Width(free, cell[1], cell[2])
        h == Height(free, cell[1], cell[2], w)
    IN  IF free[cell] = NoCell THEN acc
        ELSE [used  |-> acc.used \cup (cell[1]..cell[1] + w - 1) \X (cell[2]..cell[2] + h - 1),
              quads |-> Append(acc.quads,
                          emit_quad(axis, d, cell[1], cell[2], w, h, neg, free[cell]))]

(* One slice, its cells in row order.                                    *)
mesh_slice(chunk, axis, neg, d) ==
    LET after[n \in 0..CHUNK_EDGE * CHUNK_EDGE] ==
          IF n = 0 THEN [used |-> {}, quads |-> << >>]
          ELSE MergedAt(chunk, axis, neg, d, after[n - 1],
                        <<(n - 1) % CHUNK_EDGE, (n - 1) \div CHUNK_EDGE>>)
    IN  after[CHUNK_EDGE * CHUNK_EDGE].quads

(* A normal lies along an axis: its length is the size of one component. *)
batch_normalize_normals(quads) ==
    LET size(x) == IF x < 0 THEN -x ELSE x
        length(n) == size(n[1]) + size(n[2]) + size(n[3])
    IN  [k \in DOMAIN quads |-> [quads[k] EXCEPT !.normal =
            [axis \in 1..3 |-> IF length(@) = 0 THEN 0 ELSE @[axis] \div length(@)]]]

(* The slices, axis by axis, those of the positive faces first.          *)
Slices ==
    [k \in 1..6 * CHUNK_EDGE |->
        <<((k - 1) \div (2 * CHUNK_EDGE)) + 1, ((k - 1) \div CHUNK_EDGE) % 2 = 1, (k - 1) % CHUNK_EDGE>>]

mesh_greedy(chunk) ==
    batch_normalize_normals(
        FlattenSeq([k \in DOMAIN Slices |->
            mesh_slice(chunk, Slices[k][1], Slices[k][2], Slices[k][3])]))

---------------------------------------------------------------------------
(* Properties.                                                           *)

Quads(mesh) == {mesh[k] : k \in DOMAIN mesh}

(* The unit faces a quad covers, each with its direction and material.   *)
Covered(q) ==
    LET low(axis) == q.corners[CHOOSE i \in 1..4 : \A j \in 1..4 : q.corners[i][axis] <= q.corners[j][axis]][axis]
        high(axis) == q.corners[CHOOSE i \in 1..4 : \A j \in 1..4 : q.corners[i][axis] >= q.corners[j][axis]][axis]
        extent(axis) == IF q.normal[axis] # 0 THEN {low(axis)} ELSE low(axis)..high(axis) - 1
    IN  {<<at, q.normal, q.material>> : at \in extent(1) \X extent(2) \X extent(3)}

(* The unit faces between a voxel and the air, by the definition of a face. *)
Surface ==
    LET open(p, f) == neighbour(p, f) \in Positions => voxels[neighbour(p, f)] = 0
        sides == {s \in Positions \X (0..5) : voxels[s[1]] # 0 /\ open(s[1], s[2])}
        low(p, f) == [axis \in 1..3 |-> p[axis] + (IF normal(f)[axis] = 1 THEN 1 ELSE 0)]
    IN  {<<low(s[1], s[2]), normal(s[2]), voxels[s[1]]>> : s \in sides}

(* Both meshers draw the surface of the chunk, all of it and nothing else, *)
(* and cover no part of it twice, wherever the rectangles of the greedy one *)
(* begin and end (mesh_cubic, mesh_greedy).                              *)
SurfaceCovered ==
    \A mesh \in {mesh_cubic(voxels), mesh_greedy(voxels)} :
        /\ UNION {Covered(q) : q \in Quads(mesh)} = Surface
        /\ \A j, k \in DOMAIN mesh : j # k => Covered(mesh[j]) \cap Covered(mesh[k]) = {}

Cross(a, b) == <<a[2]*b[3] - a[3]*b[2], a[3]*b[1] - a[1]*b[3], a[1]*b[2] - a[2]*b[1]>>
Minus(a, b) == Plus(a, Times(-1, b))

(* Each triangle of either mesh is wound counter-clockwise about the normal *)
(* of its vertices, which points out of the voxel, and the centre computed *)
(* for a face is the centre of its corners (emit_face, emit_quad,        *)
(* batch_compute_face_aabb_centers).                                     *)
WindingOutward ==
    /\ \A q \in Quads(mesh_cubic(voxels)) \cup Quads(mesh_greedy(voxels)) : \A i \in 2..3 :
         LET c == Cross(Minus(q.corners[i], q.corners[1]), Minus(q.corners[i + 1], q.corners[1]))
         IN  \E k \in 1..CHUNK_EDGE * CHUNK_EDGE : c = Times(k, q.normal)
    /\ LET mesh == mesh_cubic(voxels)
       IN  \A k \in DOMAIN mesh : Plus(mesh[k].corners[1], mesh[k].corners[3])
             = batch_compute_face_aabb_centers(mesh)[k]

=============================================================================
