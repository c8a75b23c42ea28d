---------------------------- MODULE DetailLevels ----------------------------
(***************************************************************************)
(* What is selected by distance: the voxel LOD of src/voxel/lod.rs and   *)
(* src/lod.rs, the tiers of terrain and water (src/terrain/lod.rs, whose *)
(* thresholds and resolutions can be set one at a time), and the render  *)
(* mode of src/voxel/material_pbr.rs.  Distances are whole numbers.  And *)
(* what stands for the chunks that are too far to simulate one by one: the *)
(* gestalt aggregator of src/lod.rs.                                     *)
(***************************************************************************)
EXTENDS Integers, Sequences, SequencesExt, FiniteSets, FiniteSetsExt

CONSTANTS
    MaxDistance,   \* bound: the largest distance
    Thresholds,    \* bound: the thresholds that are set
    Resolutions,   \* bound: the resolutions that are set
    LodPolicies,   \* bound: the records near, far, max_level
    Scales         \* bound: the voxel scales

ASSUME DetailAssumption ==
    /\ MaxDistance \in Nat /\ 6 <= MaxDistance /\ Thresholds \subseteq 0..MaxDistance
    /\ Resolutions \subseteq Nat /\ Scales \subseteq Int
    /\ LodPolicies \subseteq [near : Int, far : Int, max_level : Nat]

Distances == -1..MaxDistance

(* select_lod.  The level is rounded, halves up.                         *)
InEdges(distance, scale, edges) == distance - scale * edges

select_lod(distance, scale, p) ==
    IF scale <= 0 THEN p.max_level
    ELSE IF InEdges(distance, scale, p.near) <= 0 THEN 0
    ELSE IF InEdges(distance, scale, p.far) >= 0 THEN p.max_level
    ELSE LET width == scale * (p.far - p.near)
         IN  (2 * InEdges(distance, scale, p.near) * p.max_level + width) \div (2 * width)

(* plan_chunk_render; no plan for what is outside the frustum.           *)
Invisible == -1
plan_chunk_render(distance, in_frustum, scale, p) ==
    IF in_frustum THEN select_lod(distance, scale, p) ELSE Invisible

---------------------------------------------------------------------------
VARIABLES
    distance,    \* of the viewer
    tiers        \* the TerrainLod or WaterLod

detail == <<distance, tiers>>

DefaultTiers == [near |-> 2, mid |-> 4, cull |-> 6, near_resolution |-> 3, mid_resolution |-> 2, far_resolution |-> 1]

DetailInit == distance = 0 /\ tiers = DefaultTiers

(* set_near_distance, set_mid_distance, set_cull_distance.               *)
SetDistance(which, value) ==
    /\ tiers' = [tiers EXCEPT ![which] = value]
    /\ UNCHANGED distance

(* set_near_resolution and its like.                                     *)
SetResolution(which, value) ==
    /\ tiers' = [tiers EXCEPT ![which] = value]
    /\ UNCHANGED distance

MoveViewer(by) ==
    /\ distance' = distance + by
    /\ distance' \in Distances
    /\ UNCHANGED tiers

DetailNext ==
    \/ \E which \in {"near", "mid", "cull"}, value \in Thresholds : SetDistance(which, value)
    \/ \E which \in {"near_resolution", "mid_resolution", "far_resolution"}, value \in Resolutions :
         SetResolution(which, value)
    \/ \E by \in {-1, 1} : MoveViewer(by)

DetailSpec == DetailInit /\ [][DetailNext]_detail

(* A distance below zero is an error.                                    *)
select_tier(t, d) ==
    IF d < 0 THEN "InvalidDistance"
    ELSE IF d < t.near THEN "Near"
    ELSE IF d < t.mid THEN "Mid"
    ELSE IF d < t.cull THEN "Far"
    ELSE "Culled"

validate_thresholds(t) == t.near < t.mid /\ t.mid < t.cull

select_resolution(t, d) ==
    CASE select_tier(t, d) = "Near" -> t.near_resolution
      [] select_tier(t, d) = "Mid"  -> t.mid_resolution
      [] select_tier(t, d) = "Far"  -> t.far_resolution
      [] OTHER -> 0

(* LodRenderPlan::for_distance; far_chunks has no say.                   *)
for_distance(t, d) ==
    IF d <= t.near THEN [mode |-> "PbrTriplanar", vertex_color_blend |-> 0]
    ELSE IF d <= t.mid THEN [mode |-> "PbrAtlas", vertex_color_blend |-> 0]
    ELSE [mode |-> "VertexColor", vertex_color_blend |-> 1]

Modes == <<"PbrTriplanar", "PbrAtlas", "VertexColor">>
Cheaper(a, b) == \E i, j \in 1..3 : i < j /\ Modes[i] = a /\ Modes[j] = b

---------------------------------------------------------------------------
(* A viewer that withdraws never sees more detail, in whatever order the *)
(* thresholds were set: no finer voxel LOD, no cheaper mode left again, and *)
(* no higher resolution if the resolutions themselves fall               *)
(* (select_lod, select_resolution, for_distance).                        *)
WithdrawingCoarsens ==
    [][distance' > distance /\ distance >= 0 =>
         /\ \A p \in LodPolicies, s \in Scales : select_lod(distance', s, p) >= select_lod(distance, s, p)
         /\ ~Cheaper(for_distance(tiers, distance').mode, for_distance(tiers, distance).mode)
         /\ tiers.near_resolution >= tiers.mid_resolution /\ tiers.mid_resolution >= tiers.far_resolution =>
              select_resolution(tiers, distance') <= select_resolution(tiers, distance)]_detail

(* Thresholds that validate leave every tier a range of distances, and a *)
(* voxel LOD depends on the distance in voxels alone: twice as far from  *)
(* voxels twice as large is the same level, level 0 at hand and the      *)
(* coarsest beyond the far threshold (validate_thresholds, select_lod).  *)
TiersAndScalesCompose ==
    /\ validate_thresholds(tiers) =>
         {"Mid", "Far", "Culled"} \subseteq {select_tier(tiers, d) : d \in Distances}
    /\ \A p \in LodPolicies, s \in Scales :
         LET level == plan_chunk_render(distance, TRUE, s, p)
         IN  /\ level \in 0..p.max_level
             /\ \A k \in 2..3 : plan_chunk_render(k * distance, TRUE, k * s, p) = level

---------------------------------------------------------------------------
(* Totals over the cohorts that report in a tick, in the order they happen *)
(* to come.  Sums are rounded as floating point rounds them: a number of *)
(* more than two binary digits keeps its first two, ties going to the even *)
(* one.                                                                  *)
CONSTANTS
    Cohorts,      \* bound: the CohortTotals, tuples <<mass, agents, chunks>>
    MaxCohorts    \* bound: how many report

ASSUME GestaltAssumption == Cohorts \subseteq Nat \X Nat \X Nat /\ MaxCohorts \in Nat

VARIABLE reports

GestaltInit == reports = << >>

Report(c) == Len(reports) < MaxCohorts /\ reports' = Append(reports, c)

GestaltNext == \E c \in Cohorts : Report(c)

GestaltSpec == GestaltInit /\ [][GestaltNext]_reports

(* The nearest multiple of the unit in the last of two digits.           *)
Unit(n) == 2 ^ Max({0} \cup {k \in 1..10 : n >= 2 ^ (k + 1)})
Rounded(n) ==
    LET u == Unit(n)
        low == n \div u
        rest == n % u
        up == 2 * rest > u \/ (2 * rest = u /\ low % 2 = 1)
    IN  u * (low + IF up THEN 1 ELSE 0)

AddFloat(a, b) == Rounded(a + b)

fold_sorted(inputs) ==
    FoldLeft(LAMBDA g, c : [total_mass   |-> AddFloat(g.total_mass, c[1]),
                            total_agents |-> AddFloat(g.total_agents, c[2]),
                            total_chunks |-> g.total_chunks + c[3],
                            cohort_count |-> g.cohort_count + 1],
             [total_mass |-> 0, total_agents |-> 0, total_chunks |-> 0, cohort_count |-> 0], inputs)

(* Mutant: sorted by mass alone.                                         *)
ReportBeforeByMass(a, b) == a[1] < b[1]

(* By mass, then agents, then chunks.                                    *)
ReportBefore(a, b) ==
    \/ a[1] < b[1]
    \/ a[1] = b[1] /\ a[2] < b[2]
    \/ a[1] = b[1] /\ a[2] = b[2] /\ a[3] < b[3]

(* sort_by is stable: the place of a report is the number of those before *)
(* it, of two that compare equal the first to come.                      *)
sorted_reports(inputs) ==
    LET rank(k) == Cardinality({j \in DOMAIN inputs :
                       \/ ReportBefore(inputs[j], inputs[k])
                       \/ ~ReportBefore(inputs[k], inputs[j]) /\ j < k})
    IN  [place \in DOMAIN inputs |-> inputs[CHOOSE k \in DOMAIN inputs : rank(k) = place - 1]]

fold(inputs) == fold_sorted(sorted_reports(inputs))

---------------------------------------------------------------------------
(* The gestalt of a tick does not depend on the order in which its cohorts *)
(* report, although floating-point sums do: exchanging any two reports   *)
(* changes nothing (fold).                                               *)
FoldOrderBlind ==
    \A i, j \in DOMAIN reports :
        fold([reports EXCEPT ![i] = reports[j], ![j] = reports[i]]) = fold(reports)

=============================================================================
