------------------------------ MODULE GridMesh ------------------------------
(***************************************************************************)
(* The grids of terrain and water: the height field that is written tile *)
(* by tile (src/terrain/height_field.rs), the bank waves are added to    *)
(* (src/water/gerstner_wave_bank.rs), and the meshes built from them     *)
(* (src/terrain/chunk_mesh_builder.rs, src/water/rendering/fluid_mesh.rs, *)
(* water_renderer.rs).                                                   *)
(*                                                                       *)
(* Lengths are whole numbers.  Waves run along an axis and are sampled at *)
(* quarters of their length, where sine and cosine are -1, 0 or 1; a     *)
(* displacement is kept doubled, as steepness is a multiple of 1/2.      *)
(***************************************************************************)
EXTENDS DetailLevels, Sequences, SequencesExt

CONSTANTS
    Fields,          \* bound: the dimensions <<width, height>> asked for
    Elevations,      \* bound: the heights written
    Edits,           \* bound: the tiles that are written
    Waves,           \* bound: the waves added
    MaxWaves,        \* bound: the waves in a bank
    MaxResolution,   \* bound: the finest mesh, in quads per side
    Size             \* the side of a patch, a multiple of twice each resolution

Axes == {<<1, 0>>, <<-1, 0>>, <<0, 1>>, <<0, -1>>}

ASSUME GridAssumption ==
    /\ Fields \subseteq Int \X Int /\ Edits \subseteq Int \X Int
    /\ Waves \subseteq [amplitude : Int, wavelength : Int, steepness : 0..2, direction : Axes, speed : Int]
    /\ MaxWaves \in Nat /\ MaxResolution \in Nat /\ DefaultTiers.near_resolution <= MaxResolution
    /\ Size \in Nat \ {0} /\ \A res \in 1..MaxResolution : Size % (2 * res) = 0

VARIABLES
    field,           \* a HeightField: width, height, data
    written,         \* history: the height last written, by tile
    bank             \* GerstnerWaveBank.waves

surface == <<field, written, bank>>

OutOfBounds == [ok |-> FALSE, why |-> "OutOfBounds"]
InvalidDataLength == [ok |-> FALSE, why |-> "InvalidDataLength"]
InvalidResolution == [ok |-> FALSE, why |-> "InvalidResolution"]
NullWaveBank == [ok |-> FALSE, why |-> "NullWaveBank"]
InvalidDistance == [ok |-> FALSE, why |-> "InvalidDistance"]
Ok(value) == [ok |-> TRUE, value |-> value]

---------------------------------------------------------------------------
(* Height fields.                                                        *)

with_data(w, h, data) ==
    IF w < 0 \/ h < 0 THEN OutOfBounds
    ELSE IF data # << >> /\ Len(data) # w * h THEN InvalidDataLength
    ELSE Ok([width |-> w, height |-> h,
             data |-> IF data # << >> THEN data ELSE [k \in 1..w * h |-> 0]])

InField(x, z) == x \in 0..field.width - 1 /\ z \in 0..field.height - 1

(* Mutant: a row is as long as a column.                                 *)
TileByHeight(x, z) == z * field.height + x + 1

Tile(x, z) == z * field.width + x + 1

get_height(x, z) == IF InField(x, z) THEN Ok(field.data[Tile(x, z)]) ELSE OutOfBounds

set_height(x, z, value) ==
    /\ IF InField(x, z)
         THEN /\ field' = [field EXCEPT !.data[Tile(x, z)] = value]
              /\ written' = [written EXCEPT ![<<x, z>>] = value]
         ELSE UNCHANGED <<field, written>>
    /\ UNCHANGED bank

(* Only a field that could be made is there to be written to.            *)
GridInit ==
    /\ \E d \in Fields :
         /\ with_data(d[1], d[2], << >>).ok
         /\ field = with_data(d[1], d[2], << >>).value
    /\ written = [t \in (0..field.width - 1) \X (0..field.height - 1) |-> 0]
    /\ bank = << >>

add(wave) ==
    /\ Len(bank) < MaxWaves
    /\ bank' = Append(bank, wave)
    /\ UNCHANGED <<field, written>>

GridNext ==
    \/ \E t \in Edits, value \in Elevations : set_height(t[1], t[2], value)
    \/ \E wave \in Waves : add(wave)

GridSpec == GridInit /\ [][GridNext]_surface

---------------------------------------------------------------------------
(* The vertices of a grid, row by row, and the six indices of each quad. *)

vertices(res) == [k \in 1..(res + 1) * (res + 1) |-> <<(k - 1) % (res + 1), (k - 1) \div (res + 1)>>]

triangles(res) ==
    LET quad(x, z) ==
          LET bottom_left == z * (res + 1) + x
              top_left == (z + 1) * (res + 1) + x
          IN  << <<bottom_left, top_left, top_left + 1>>, <<bottom_left, top_left + 1, bottom_left + 1>> >>
    IN  [k \in 1..2 * res * res |-> quad(((k - 1) \div 2) % res, (k - 1) \div (2 * res))[((k - 1) % 2) + 1]]

(* ChunkMeshBuilder.  Vertices are <<x, height, z>>.                     *)
FlatMesh(res, height) ==
    Ok([vertices  |-> [k \in DOMAIN vertices(res) |->
                         LET v == vertices(res)[k]
                         IN  <<v[1] * (Size \div res), height[v], v[2] * (Size \div res)>>],
        triangles |-> triangles(res)])

build_mesh(res) ==
    IF res <= 0 THEN InvalidResolution ELSE FlatMesh(res, [t \in (0..res) \X (0..res) |-> 0])

build_mesh_from_height(res) ==
    IF res <= 0 THEN InvalidResolution
    ELSE IF field.width # res + 1 \/ field.height # res + 1 THEN InvalidDataLength
    ELSE FlatMesh(res, [t \in (0..res) \X (0..res) |->
                          IF get_height(t[1], t[2]).ok THEN get_height(t[1], t[2]).value ELSE 0])

---------------------------------------------------------------------------
(* Waves.                                                                *)

sine(quarter) == <<0, 1, 0, -1>>[(quarter % 4) + 1]
cosine(quarter) == sine(quarter + 1)

(* GerstnerWave::new: steepness, in halves, is clamped; no direction is  *)
(* east.  Directions are along an axis.                                  *)
Wave(amplitude, wavelength, steepness, direction, speed) ==
    [amplitude  |-> amplitude,
     wavelength |-> wavelength,
     steepness  |-> IF steepness < 0 THEN 0 ELSE IF steepness > 2 THEN 2 ELSE steepness,
     direction  |-> IF direction = <<0, 0>> THEN <<1, 0>> ELSE direction,
     speed      |-> speed]

(* The other waves of a bank are passed over.                            *)
Moves(w) == w.amplitude > 0 /\ w.wavelength > 0

(* The quarter of its length a wave is in.                               *)
phase(w, x, z, time) ==
    (4 * (w.direction[1] * x + w.direction[2] * z - w.speed * time)) \div w.wavelength

displacement(w, x, z, time) ==
    LET q == phase(w, x, z, time)
    IN  <<-(w.direction[1] * w.steepness * w.amplitude * sine(q)),
          2 * w.amplitude * cosine(q),
          -(w.direction[2] * w.steepness * w.amplitude * sine(q))>>

Summed(terms) ==
    LET sum[k \in 0..Len(terms)] ==
          IF k = 0 THEN [axis \in 1..3 |-> 0]
          ELSE [axis \in 1..3 |-> sum[k - 1][axis] + terms[k][axis]]
    IN  sum[Len(terms)]

sample_displacement(x, z, time) ==
    Summed([k \in DOMAIN bank |-> IF Moves(bank[k]) THEN displacement(bank[k], x, z, time)
                                                   ELSE <<0, 0, 0>>])

(* The slope of the surface, before the cross product that makes it a    *)
(* normal: the sums over the waves of one length, the factor 2 pi being  *)
(* left out.  Terms are <<wavelength, d_xdx, d_ydx, d_zdx, d_ydz, d_zdz>>. *)
slope(w, x, z, time) ==
    LET q == phase(w, x, z, time)
        dx == w.direction[1]
        dz == w.direction[2]
        qa == w.steepness * w.amplitude
    IN  <<w.wavelength, qa * dx * dx * cosine(q), 2 * w.amplitude * dx * sine(q),
          qa * dx * dz * cosine(q), 2 * w.amplitude * dz * sine(q), qa * dz * dz * cosine(q)>>

sample_normal(x, z, time) ==
    [k \in {k \in DOMAIN bank : Moves(bank[k])} |-> slope(bank[k], x, z, time)]

step_of(res) == Size \div res

(* fluid_mesh::build, centred on the origin.                             *)
build(res, time) ==
    IF res < 1 \/ Size <= 0 THEN OutOfBounds
    ELSE LET at(k) == <<vertices(res)[k][1] * step_of(res) - (Size \div 2),
                        vertices(res)[k][2] * step_of(res) - (Size \div 2)>>
             moved(k) == sample_displacement(at(k)[1], at(k)[2], time)
         IN  Ok([vertices  |-> [k \in DOMAIN vertices(res) |->
                                  <<2 * at(k)[1] + moved(k)[1], moved(k)[2], 2 * at(k)[2] + moved(k)[3]>>],
                 normals   |-> [k \in DOMAIN vertices(res) |-> sample_normal(at(k)[1], at(k)[2], time)],
                 triangles |-> triangles(res)])

EmptyMesh == [vertices |-> << >>, normals |-> << >>, triangles |-> << >>]

(* WaterRenderer::build_mesh; has_bank is whether a bank was set.        *)
draw(has_bank, lod, d, time) ==
    IF ~has_bank THEN NullWaveBank
    ELSE IF select_tier(lod, d) = "InvalidDistance" THEN InvalidDistance
    ELSE IF select_resolution(lod, d) <= 0 THEN Ok(EmptyMesh)
    ELSE build(select_resolution(lod, d), time)

---------------------------------------------------------------------------
(* Twice the signed area of a triangle seen from above.                  *)
Turn(p, q, r) == (q[1] - p[1]) * (r[3] - p[3]) - (q[3] - p[3]) * (r[1] - p[1])

(* The triangles all turn the same way, span half a quad each and meet no *)
(* other along an edge in the same sense: they tile the patch.           *)
Tiled(mesh, res) ==
    LET corner(i) == mesh.vertices[i + 1]
        edges(t) == {<<t[1], t[2]>>, <<t[2], t[3]>>, <<t[3], t[1]>>}
    IN  /\ \A k \in DOMAIN mesh.triangles :
             LET t == mesh.triangles[k]
             IN  Turn(corner(t[1]), corner(t[2]), corner(t[3])) = -(Size \div res) * (Size \div res)
        /\ \A j, k \in DOMAIN mesh.triangles :
             j # k => edges(mesh.triangles[j]) \cap edges(mesh.triangles[k]) = {}
        /\ Len(mesh.triangles) = 2 * res * res

(* Every height is read back, and drawn, at the tile it was written to and *)
(* at no other, whatever the shape of the field and however often writes *)
(* miss it; a field that does not fit the mesh is refused, and one that  *)
(* fits is drawn by triangles that fill the patch and cross into no other *)
(* row (set_height, get_height, build_mesh_from_height).                 *)
HeightsDrawn ==
    /\ \A x \in -1..MaxResolution + 1, z \in -1..MaxResolution + 1 :
         IF <<x, z>> \in DOMAIN written THEN get_height(x, z) = Ok(written[<<x, z>>])
                                        ELSE ~get_height(x, z).ok
    /\ \A res \in 0..MaxResolution :
         LET mesh == build_mesh_from_height(res)
             drawn == {mesh.value.vertices[k] : k \in DOMAIN mesh.value.vertices}
         IN  IF DOMAIN written = (0..res) \X (0..res) /\ res > 0
               THEN /\ mesh.ok
                    /\ drawn = {<<t[1] * (Size \div res), written[t], t[2] * (Size \div res)>> : t \in DOMAIN written}
                    /\ Tiled(mesh.value, res)
                    /\ build_mesh(res).value.triangles = mesh.value.triangles
               ELSE ~mesh.ok

(* Where the patch holds every wave a whole number of times, its opposite *)
(* sides are displaced and shaded alike, so that patches can be laid side *)
(* by side at any time and resolution; the renderer draws the resolution *)
(* of the viewer's tier, and nothing beyond the last (build, draw).      *)
PatchesJoin ==
    (\A k \in DOMAIN bank : Moves(bank[k]) => Size % bank[k].wavelength = 0) =>
        \A d \in Distances, time \in 0..2 :
            LET drawn == draw(TRUE, DefaultTiers, d, time)
                res == select_resolution(DefaultTiers, d)
                at(column, row) == row * (res + 1) + column + 1
                v == drawn.value.vertices
                n == drawn.value.normals
            IN  /\ drawn.ok <=> d >= 0
                /\ d >= 0 => drawn.value = EmptyMesh <=> d >= DefaultTiers.cull
                /\ d >= 0 /\ drawn.value # EmptyMesh =>
                     \A i \in 0..res :
                        /\ v[at(res, i)] = [v[at(0, i)] EXCEPT ![1] = @ + 2 * Size]
                        /\ v[at(i, res)] = [v[at(i, 0)] EXCEPT ![3] = @ + 2 * Size]
                        /\ n[at(res, i)] = n[at(0, i)] /\ n[at(i, res)] = n[at(i, 0)]

=============================================================================
