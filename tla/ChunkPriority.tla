--------------------------- MODULE ChunkPriority ---------------------------
(***************************************************************************)
(* The pure functions the streaming manager ranks chunks with: the ring  *)
(* metric of src/streaming.rs, and the eviction score and the prefetch   *)
(* prediction of src/lod_priority.rs.                                    *)
(*                                                                       *)
(* A chunk coordinate is the tuple <<cx, cy, cz>>.  The f32 score of the *)
(* code is kept as an exact fraction, so scores the code computes as equal *)
(* or apart are equal or apart here as long as f32 tells them apart.     *)
(***************************************************************************)
EXTENDS Integers, FiniteSets

CONSTANTS
    vy_weight,            \* vertical weight of the ring metric (u8)
    max_lod_level,        \* coarsest LOD level (u8)
    recency_decay_ticks,  \* ticks after which an access counts for nothing
    mesh_ring,            \* chunks this close to the camera are always meshed
    prefetch_ring,        \* how far past mesh_ring the prefetch looks
    prefetch_budget       \* chunks one prefetch may load

ASSUME PolicyAssumption ==
    {vy_weight, max_lod_level, recency_decay_ticks,
     mesh_ring, prefetch_ring, prefetch_budget} \subseteq Nat

Magnitude(n) == IF n < 0 THEN -n ELSE n

Larger(m, n) == IF m > n THEN m ELSE n

(* max(|dx|, |dy| * vy_weight, |dz|), a zero weight counting as one.     *)
ring_distance(c, a) ==
    Larger(Larger(Magnitude(c[1] - a[1]), Magnitude(c[3] - a[3])),
           Magnitude(c[2] - a[2]) * Larger(vy_weight, 1))

(* Mutant: the LOD factor grows with the LOD index, coarse chunks first. *)
compute_priority_coarse_first(ring, lod, since) ==
    LET max   == Larger(max_lod_level, 1)
        decay == Larger(recency_decay_ticks, 1)
    IN  [num |-> 5 * max * decay
                 + (1 + ring) * (3 * decay * lod + 2 * max * Larger(decay - since, 0)),
         den |-> 1 + ring]

(***************************************************************************)
(* 0.5/(1+ring) + 0.3*(1 - lod/max) + 0.2*max(0, 1 - since/decay), times *)
(* 10*max*decay: a fraction num/den with den > 0.                        *)
(***************************************************************************)
compute_priority(ring, lod, since) ==
    LET max   == Larger(max_lod_level, 1)
        decay == Larger(recency_decay_ticks, 1)
    IN  [num |-> 5 * max * decay
                 + (1 + ring) * (3 * decay * (max - lod)
                                 + 2 * max * Larger(decay - since, 0)),
         den |-> 1 + ring]

LessImportant(p, q) == p.num * q.den < q.num * p.den

Translate(c, d) == <<c[1] + d[1], c[2] + d[2], c[3] + d[3]>>

(* The chunks the camera is about to need: inside the widened window of  *)
(* the anchor it is moving to, outside the meshed window of the present one. *)
Candidates(anchor, velocity) ==
    LET future == Translate(anchor, velocity)
        total  == mesh_ring + prefetch_ring
        cube   == {Translate(future, d) :
                      d \in (-total..total) \X (-total..total) \X (-total..total)}
    IN  {c \in cube : /\ ring_distance(c, future) <= total
                      /\ ring_distance(c, anchor) > mesh_ring}

(* The order of the nested loops dx, dy, dz, which the stable sort keeps *)
(* among chunks of one ring.                                             *)
LoopOrder(c, d) ==
    \/ c[1] < d[1]
    \/ c[1] = d[1] /\ c[2] < d[2]
    \/ c[1] = d[1] /\ c[2] = d[2] /\ c[3] < d[3]

NearerFirst(c, d, future) ==
    \/ ring_distance(c, future) < ring_distance(d, future)
    \/ ring_distance(c, future) = ring_distance(d, future) /\ LoopOrder(c, d)

(* The candidates nearest the future anchor, nearest first, cut to budget. *)
predict_chunks(anchor, velocity) ==
    LET future == Translate(anchor, velocity)
        cands  == IF prefetch_ring = 0 THEN {} ELSE Candidates(anchor, velocity)
        Rank(c) == Cardinality({d \in cands : NearerFirst(d, c, future)})
        length == IF Cardinality(cands) < prefetch_budget
                    THEN Cardinality(cands) ELSE prefetch_budget
    IN  [k \in 1..length |-> CHOOSE c \in cands : Rank(c) = k - 1]

=============================================================================
