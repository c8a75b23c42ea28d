---------------------------- MODULE ShaderStages ----------------------------
(***************************************************************************)
(* What the shaders of src/lighting/shaders.rs and src/terrain/shaders.rs *)
(* decide for a fragment: the shadow cascade, the number of occlusion    *)
(* samples, the layers that are blended, and the level of detail that is *)
(* drawn while two cross-fade.  A decision of the draw call is a variable, *)
(* the fragment's is an argument.  Colours and light are left out.       *)
(***************************************************************************)
EXTENDS Integers, Sequences, FiniteSets

CONSTANTS
    CascadeSplits,     \* bound: the arrays of splits bound to the shader
    MaxCascades,       \* bound: ShadowMappingShader.cascade_count
    ViewDistances,     \* bound: lengths of world_position
    KernelLengths,     \* bound: samples in the kernel buffer
    FadeDistance,      \* TerrainLodTransitionShader.fade_distance
    U32Bound           \* 2^32 in the code

ASSUME StagesAssumption ==
    /\ CascadeSplits \subseteq Seq(Int)
    /\ MaxCascades \in Nat /\ KernelLengths \subseteq Nat
    /\ U32Bound \in Nat /\ 4 < U32Bound /\ MaxCascades < U32Bound
    /\ ViewDistances \subseteq Int /\ FadeDistance \in Nat

VARIABLES
    cascade_splits, cascade_count,    \* shadow mapping
    kernel_size, kernel_length,       \* ambient occlusion
    num_layers                        \* splat map

stages == <<cascade_splits, cascade_count, kernel_size, kernel_length, num_layers>>

Smaller(a, b) == IF a < b THEN a ELSE b

---------------------------------------------------------------------------
(* The last split that the distance exceeds decides; with no cascade the *)
(* subtraction wraps, and the index stays zero.                          *)
count == Smaller(cascade_count, Len(cascade_splits))

cascade_idx(distance) ==
    LET exceeded == {i \in 1..count : distance > cascade_splits[i]}
        chosen == IF exceeded = {} THEN 0 ELSE CHOOSE i \in exceeded : \A j \in exceeded : j <= i
    IN  Smaller(chosen, (count - 1) % U32Bound)

sample_count == Smaller(kernel_size, kernel_length)

(* Which of the four layers the colour takes from, by the layer's channel. *)
BlendedLayers == {0} \cup {layer \in 1..3 : num_layers > layer}

(* Quarters.                                                             *)
bayer2x2(x, y) ==
    LET m == <<0, 2, 3, 1>>
    IN  m[(y % 2) * 2 + (x % 2) + 1]

(* fade > threshold, the fade clamped to one.                            *)
DrawsTarget(x, y, distance) ==
    4 * Smaller(distance, FadeDistance) > bayer2x2(x, y) * FadeDistance

---------------------------------------------------------------------------
StagesInit ==
    /\ cascade_splits \in CascadeSplits /\ cascade_count = 4
    /\ kernel_size = 16 /\ kernel_length \in KernelLengths
    /\ num_layers = 4

(* The fields of the shaders are public and take any value.              *)
set_cascades ==
    /\ \E n \in 0..MaxCascades : cascade_count' = n
    /\ UNCHANGED <<cascade_splits, kernel_size, kernel_length, num_layers>>

set_kernel_size ==
    /\ \E n \in KernelLengths : kernel_size' = n
    /\ UNCHANGED <<cascade_splits, cascade_count, kernel_length, num_layers>>

set_num_layers ==
    /\ num_layers' \in 0..5
    /\ UNCHANGED <<cascade_splits, cascade_count, kernel_size, kernel_length>>

StagesNext == set_cascades \/ set_kernel_size \/ set_num_layers

StagesSpec == StagesInit /\ [][StagesNext]_stages

---------------------------------------------------------------------------
Ascending(s) == \A i, j \in DOMAIN s : i < j => s[i] <= s[j]

(* With ascending splits a fragment farther away is never drawn from a   *)
(* nearer cascade, every fragment within the last split from the nearest *)
(* cascade that reaches it, and the rest from the last; the array is never *)
(* read outside, whatever the count says (fs_main of ShadowMappingShader). *)
CascadesInOrder ==
    \A d, e \in ViewDistances :
       /\ cascade_idx(d) = 0 \/ cascade_idx(d) < count
       /\ Ascending(cascade_splits) =>
             /\ d <= e => cascade_idx(d) <= cascade_idx(e)
             /\ \A i \in 1..count : d <= cascade_splits[i] => cascade_idx(d) < i

(* Over every block of two by two fragments at one distance the target   *)
(* level is drawn by as many fragments as quarters of the fade have revealed, *)
(* whichever corner the block starts at; a fragment that draws the target *)
(* draws it at every greater distance; and a number of layers beyond the *)
(* four blends what four do (bayer2x2, fs_main of the transition and the *)
(* splat map shaders).                                                   *)
DitherRamps ==
    /\ \A d \in ViewDistances, x, y \in 0..3 :
          LET block == {p \in {x, x + 1} \X {y, y + 1} : DrawsTarget(p[1], p[2], d)}
              revealed == {k \in 0..3 : 4 * Smaller(d, FadeDistance) > k * FadeDistance}
          IN  /\ Cardinality(block) = Cardinality(revealed)
              /\ DrawsTarget(x, y, d) => \A e \in ViewDistances : d <= e => DrawsTarget(x, y, e)
    /\ sample_count <= kernel_length
    /\ num_layers >= 4 => BlendedLayers = 0..3

=============================================================================
