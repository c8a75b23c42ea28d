--------------------------- MODULE StreamingWindow ---------------------------
(***************************************************************************)
(* The window around a camera that crosses chunk borders: the rings of   *)
(* src/streaming.rs, which say what is loaded, meshed, simulated and     *)
(* fetched ahead, and the ring plan and the budgets of src/lod.rs, which *)
(* say what is drawn and whether it fits.  All are pure functions of a   *)
(* chunk, the anchor and the policy.                                     *)
(***************************************************************************)
EXTENDS Integers, FiniteSets, FiniteSetsExt

CONSTANTS
    Policies,     \* bound: the window policies offered, good and bad
    RenderRings,  \* bound: the coarse_render_rings offered
    Forward,      \* bound: the directions of view, in units of 1/One, of any length
    One,          \* 128, one in Q0.7
    I32Half,      \* 2^31: an i32 is in -I32Half .. I32Half - 1
    MaxU32,       \* u32::MAX
    Reach,        \* bound: how far from the anchor chunks are looked at
    Roam          \* bound: how far the anchor goes

Byte == 0..255    \* u8

ASSUME WindowAssumption ==
    /\ Policies \subseteq
         [mesh_ring : Byte, sim_ring : Byte, coarse_ring : Byte, seam_chunks : Byte,
          vy_weight : Byte, sim_lod_step : Byte, prefetch_ring : Byte,
          cos_theta : -128..127, fade_ticks : Byte]
    /\ RenderRings \subseteq Nat
    /\ One \in Nat \ {0} /\ I32Half \in Nat \ {0}
    /\ Forward \subseteq Int \X Int \X Int
    /\ MaxU32 \in Nat /\ \A n \in 0..MaxU32 : n * n * n # MaxU32    \* nor is 2^32 - 1 a cube
    /\ Reach \in Nat /\ \A p \in Policies : p.mesh_ring + p.seam_chunks <= Reach

VARIABLES
    policy,       \* the WindowPolicy in force
    render_ring,  \* LodRingPlan.coarse_render_ring
    anchor        \* the chunk the camera is in

window == <<policy, render_ring, anchor>>

Abs(n) == IF n < 0 THEN -n ELSE n
Capped(n) == IF n > MaxU32 THEN MaxU32 ELSE n

RingDistance(c, a, weight) ==
    Max({Abs(c[1] - a[1]), Abs(c[2] - a[2]) * (IF weight = 0 THEN 1 ELSE weight), Abs(c[3] - a[3])})

(* WindowPolicy::checked.                                                *)
Checked(p) == p.vy_weight # 0 /\ p.sim_lod_step # 0 /\ p.sim_ring <= p.coarse_ring

(* LodRingPlan::default_for, checked.                                    *)
DefaultRenderRing(p) == p.mesh_ring + 1
CheckedPlan(p, ring) == ring >= p.mesh_ring

WindowInit ==
    /\ policy \in {p \in Policies : Checked(p)}
    /\ render_ring = DefaultRenderRing(policy)
    /\ anchor = <<0, 0, 0>>

(* The camera crosses one chunk border.                                  *)
MoveAnchor(axis, by) ==
    /\ anchor' = [anchor EXCEPT ![axis] = @ + by]
    /\ Abs(anchor'[axis]) <= Roam
    /\ UNCHANGED <<policy, render_ring>>

(* A policy or a plan that is refused changes nothing.                   *)
SetPolicy(p) ==
    /\ Checked(p) /\ CheckedPlan(p, render_ring)
    /\ policy' = p
    /\ UNCHANGED <<render_ring, anchor>>

SetPlan(ring) ==
    /\ CheckedPlan(policy, ring)
    /\ render_ring' = ring
    /\ UNCHANGED <<policy, anchor>>

WindowNext ==
    \/ \E axis \in 1..3, by \in {-1, 1} : MoveAnchor(axis, by)
    \/ \E p \in Policies : SetPolicy(p)
    \/ \E ring \in RenderRings : SetPlan(ring)

WindowSpec == WindowInit /\ [][WindowNext]_window

---------------------------------------------------------------------------
(* Mutant: a chunk on the outer border of the seam is unloaded already.  *)
classify_early(p, ring) ==
    IF ring <= p.mesh_ring THEN "Meshed"
    ELSE IF ring < p.mesh_ring + p.seam_chunks
      THEN IF p.fade_ticks = 0 THEN "Resident" ELSE "Fading"
    ELSE "Unloaded"

classify(p, ring) ==
    IF ring <= p.mesh_ring THEN "Meshed"
    ELSE IF ring <= p.mesh_ring + p.seam_chunks
      THEN IF p.fade_ticks = 0 THEN "Resident" ELSE "Fading"
    ELSE "Unloaded"

has_mesh(state) == state \in {"Meshed", "Fading"}
is_resident(state) == state \in {"Resident", "Meshed", "Fading", "Evicting"}

(* How many ticks apart the chunk is simulated; zero when it is frozen.  *)
sim_cohort(p, ring) ==
    IF ring <= p.sim_ring THEN 1
    ELSE IF ring <= p.coarse_ring THEN p.sim_lod_step
    ELSE 0

(* The value that stays of an i32 sum or product; a checked build stops  *)
(* with a panic where it is another number.                              *)
Wrapped(n) == ((n + I32Half) % (2 * I32Half)) - I32Half
Saturated(n) == IF n > I32Half - 1 THEN I32Half - 1 ELSE n

(* How far c is from the anchor, along each axis, and how much of that is *)
(* along the direction of view.                                          *)
Away(p, c, a) == <<c[1] - a[1], (c[2] - a[2]) * p.vy_weight, c[3] - a[3]>>
Along(forward, d) == forward[1] * d[1] + forward[2] * d[2] + forward[3] * d[3]

(* How much it has to be, for the cone: the length of d, as the sum over *)
(* the axes, times the cosine, and times One once more.                  *)
LeastAlong(p, d) ==
    IF p.cos_theta > 0
      THEN Saturated(Saturated(p.cos_theta * (Abs(d[1]) + Abs(d[2]) + Abs(d[3]))) * One)
      ELSE 0

in_prefetch_cone(p, c, a, forward) ==
    LET ring == RingDistance(c, a, p.vy_weight)
        d == Away(p, c, a)
    IN  /\ p.prefetch_ring # 0
        /\ \/ ring <= p.mesh_ring
           \/ /\ ring <= p.mesh_ring + p.prefetch_ring
              /\ Wrapped(Along(forward, d)) > LeastAlong(p, d)

(* EvictionKey: the far ones first, then the cold ones.                  *)
EvictedBefore(k, l) ==
    \/ k.ring > l.ring
    \/ k.ring = l.ring /\ k.lru_pos < l.lru_pos

seam_blend(p, steps_out) ==
    IF p.seam_chunks = 0 \/ steps_out = 0 THEN 255
    ELSE IF steps_out >= p.seam_chunks THEN 255 \div p.seam_chunks
    ELSE (255 * (p.seam_chunks - steps_out)) \div p.seam_chunks

(* LodRingPlan::role.                                                    *)
role(p, render, ring) ==
    IF ring <= p.mesh_ring THEN "Inner"
    ELSE IF ring > render THEN "Frozen"
    ELSE IF ring <= p.mesh_ring + p.seam_chunks THEN "Seam"
    ELSE "Outer"

(* How much of the inner LOD is drawn of a chunk, and what of the outer. *)
Weight(p, render, ring) ==
    CASE role(p, render, ring) = "Inner"  -> 256
      [] role(p, render, ring) = "Seam"   -> seam_blend(p, ring - p.mesh_ring)
      [] role(p, render, ring) = "Outer"  -> 0
      [] role(p, render, ring) = "Frozen" -> -1

inner_side_chunks(p) == 2 * p.mesh_ring + 1
seam_side_chunks(p) == 2 * (p.mesh_ring + p.seam_chunks) + 1 - inner_side_chunks(p)

---------------------------------------------------------------------------
(* Budgets.                                                              *)

mvp_active_window_chunks(p) == 2 * Max({p.mesh_ring, p.coarse_ring}) + 1

(* Mutant: the window is counted as a square.                            *)
mvp_max_resident_chunks_flat(p) ==
    LET side == mvp_active_window_chunks(p)
    IN  IF side * side > MaxU32 THEN MaxU32 ELSE Capped(side * side)

mvp_max_resident_chunks(p) ==
    LET side == mvp_active_window_chunks(p)
    IN  IF side * side > MaxU32 THEN MaxU32 ELSE Capped(side * side * side)

(* MvpResidentBudget::fits: a product that overflows never fits.         *)
fits(p, side, active_budget) ==
    /\ side * side <= MaxU32 /\ side * side * side <= MaxU32
    /\ mvp_max_resident_chunks(p) <= side * side * side
    /\ side * side * side <= active_budget

---------------------------------------------------------------------------
Rings == 0..Reach
Around == {<<anchor[1] + d[1], anchor[2] + d[2], anchor[3] + d[3]>> :
              d \in (-Reach..Reach) \X (-Reach..Reach) \X (-Reach..Reach)}

Seldom(ticks) == IF ticks = 0 THEN 256 ELSE ticks

(* Farther out nothing is drawn finer, weighed more, simulated more often *)
(* or kept longer: roles, seam weights, cohorts, lifecycle states and    *)
(* eviction keys all fall from ring to ring, and the weight of a seam is *)
(* never nothing (classify, sim_cohort, role, seam_blend, EvictionKey).  *)
FartherIsCoarser ==
    \A near \in Rings, far \in Rings : near < far =>
        /\ Weight(policy, render_ring, far) <= Weight(policy, render_ring, near)
        /\ role(policy, render_ring, near) = "Seam" => Weight(policy, render_ring, near) \in 1..255
        /\ Seldom(sim_cohort(policy, near)) <= Seldom(sim_cohort(policy, far))
        /\ has_mesh(classify(policy, far)) => has_mesh(classify(policy, near))
        /\ is_resident(classify(policy, far)) => is_resident(classify(policy, near))
        /\ \A l, m \in 0..1 :
             EvictedBefore([ring |-> far, lru_pos |-> l], [ring |-> near, lru_pos |-> m])

(* Where the seam is as wide as a step of the camera is long, no chunk goes *)
(* from meshed to unloaded, or back, in one step: it passes through the  *)
(* seam (classify).                                                      *)
SeamAbsorbsSteps ==
    [][policy' = policy /\ policy.seam_chunks >= policy.vy_weight =>
         \A c \in Around :
            LET old == classify(policy, RingDistance(c, anchor, policy.vy_weight))
                new == classify(policy', RingDistance(c, anchor', policy'.vy_weight))
            IN  {old, new} # {"Meshed", "Unloaded"}]_window

(* Where the seam does not reach beyond the coarse ring, the resident    *)
(* chunks are no more than the worst case that is counted on, and no more *)
(* than an active budget they are said to fit (mvp_max_resident_chunks,  *)
(* fits).  The sides of the inner and the seam rings add up to the meshed *)
(* and the resident window.                                              *)
BudgetsHold ==
    LET residents == {c \in Around :
                        is_resident(classify(policy, RingDistance(c, anchor, policy.vy_weight)))}
        count == Cardinality(residents)
    IN  policy.mesh_ring + policy.seam_chunks <= Max({policy.mesh_ring, policy.coarse_ring}) =>
          /\ Capped(count) <= mvp_max_resident_chunks(policy)
          /\ \A side \in 0..2 * Reach, budget \in {0, 27, 125, MaxU32} :
               fits(policy, side, budget) => count <= budget
          /\ Cardinality({c[1] : c \in residents}) = inner_side_chunks(policy) + seam_side_chunks(policy)

(* Nothing beyond the rings is fetched ahead, and beyond the meshed ring *)
(* never two chunks on opposite sides of the camera, whatever direction is *)
(* given.  What is fetched there lies in front, unless the product with a *)
(* long direction is no i32.  The threshold of the cone is scaled by One *)
(* twice, so that a cone that is narrower than a hemisphere has a chunk  *)
(* there only for a direction longer than the cosine times One: for a unit *)
(* vector, whose components are at most One, it has none                 *)
(* (in_prefetch_cone).                                                   *)
PrefetchAhead ==
    \A f \in Forward, c \in Around :
        LET ring == RingDistance(c, anchor, policy.vy_weight)
            along == Along(f, Away(policy, c, anchor))
            opposite == [axis \in 1..3 |-> 2 * anchor[axis] - c[axis]]
        IN  in_prefetch_cone(policy, c, anchor, f) /\ ring > policy.mesh_ring =>
              /\ ring <= policy.mesh_ring + policy.prefetch_ring
              /\ ~in_prefetch_cone(policy, opposite, anchor, f)
              /\ Wrapped(along) = along =>
                   /\ along > 0
                   /\ policy.cos_theta > 0 =>
                        \E axis \in 1..3 : Abs(f[axis]) > policy.cos_theta * One

=============================================================================
