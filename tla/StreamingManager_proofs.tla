----------------------- MODULE StreamingManager_proofs -----------------------
(***************************************************************************)
(* Theorems about StreamingManager and the ranking functions it uses, for *)
(* every set of coordinates, payloads and LOD levels, every capacity and *)
(* every policy parameter.                                               *)
(***************************************************************************)
EXTENDS StreamingManager, FiniteSetTheorems, TLAPS

---------------------------------------------------------------------------
(* The ranking functions of ChunkPriority.                               *)

(* The constants of the policy are naturals.                             *)
LEMMA PolicyNumbers ==
    /\ vy_weight \in Nat /\ max_lod_level \in Nat /\ recency_decay_ticks \in Nat
    /\ mesh_ring \in Nat /\ prefetch_ring \in Nat /\ prefetch_budget \in Nat
BY PolicyAssumption

(* A ring is a number of chunks.                                         *)
LEMMA RingType ==
    ASSUME NEW c \in Int \X Int \X Int, NEW a \in Int \X Int \X Int
    PROVE  ring_distance(c, a) \in Nat
<1> DEFINE dx == Magnitude(c[1] - a[1])
           dy == Magnitude(c[2] - a[2])
           dz == Magnitude(c[3] - a[3])
           w  == Larger(vy_weight, 1)
<1>1. dx \in Nat /\ dy \in Nat /\ dz \in Nat /\ w \in Nat
  BY PolicyNumbers DEF Magnitude, Larger
<1>2. ring_distance(c, a) = Larger(Larger(dx, dz), dy * w)
  BY DEF ring_distance
<1> HIDE DEF dx, dy, dz, w
<1>3. dy * w \in Nat
  BY <1>1
<1> QED
  BY <1>1, <1>2, <1>3 DEF Larger

(* The centre of a ring is at distance zero.                             *)
LEMMA RingCentre ==
    ASSUME NEW c \in Int \X Int \X Int
    PROVE  ring_distance(c, c) = 0
<1>1. Larger(vy_weight, 1) \in Nat
  BY PolicyNumbers DEF Larger
<1>2. Magnitude(c[1] - c[1]) = 0 /\ Magnitude(c[2] - c[2]) = 0
      /\ Magnitude(c[3] - c[3]) = 0
  BY DEF Magnitude
<1> QED
  BY <1>1, <1>2 DEF ring_distance, Larger

(* Products grow with either factor.                                     *)
LEMMA Products ==
    ASSUME NEW a \in Nat, NEW x \in Int, NEW y \in Int
    PROVE  /\ a * x \in Int
           /\ x <= y => a * x <= a * y
           /\ a > 0 /\ x < y => a * x < a * y
OBVIOUS

(* A score a/(1+r) + k, compared by cross multiplication: the nearer or  *)
(* the better-ranked of two chunks scores higher.                        *)
LEMMA CrossMultiply ==
    ASSUME NEW a \in Nat \ {0}, NEW p \in Nat \ {0}, NEW q \in Nat \ {0},
           NEW k \in Int, NEW m \in Int,
           p <= q, m <= k, p < q \/ m < k
    PROVE  (a + q * m) * p < (a + p * k) * q
<1> DEFINE pq == p * q
<1>1. pq \in Nat /\ pq > 0
  OBVIOUS
<1>2. (a + q * m) * p = a * p + pq * m
  OBVIOUS
<1>3. (a + p * k) * q = a * q + pq * k
  OBVIOUS
<1>4. a * p \in Int /\ a * q \in Int
  OBVIOUS
<1> HIDE DEF pq
<1>5. pq * m \in Int /\ pq * k \in Int
  BY <1>1
<1>6. a * p <= a * q /\ (p < q => a * p < a * q)
  BY Products
<1>7. pq * m <= pq * k /\ (m < k => pq * m < pq * k)
  BY <1>1, Products
<1> QED
  BY <1>2, <1>3, <1>4, <1>5, <1>6, <1>7

(* Whatever the policy, a chunk that is at least as near, as detailed and *)
(* as recently used as another, and strictly nearer or more detailed, has *)
(* the higher score.                                                     *)
THEOREM PriorityFollowsRank ==
    ASSUME NEW r1 \in Nat, NEW r2 \in Nat, NEW l1 \in Nat, NEW l2 \in Nat,
           NEW s1 \in Nat, NEW s2 \in Nat,
           r1 <= r2, l1 <= l2, s1 <= s2, r1 < r2 \/ l1 < l2
    PROVE  LessImportant(compute_priority(r2, l2, s2), compute_priority(r1, l1, s1))
<1> DEFINE max == Larger(max_lod_level, 1)
           decay == Larger(recency_decay_ticks, 1)
           a == 5 * max * decay
           Fresh(s) == 2 * max * Larger(decay - s, 0)
           Detail(l) == 3 * decay * (max - l)
           K(l, s) == Detail(l) + Fresh(s)
<1>1. max \in Nat \ {0} /\ decay \in Nat \ {0}
  BY PolicyNumbers DEF Larger
<1>2. a \in Nat \ {0}
  <2> HIDE DEF max, decay
  <2>1. max * decay \in Nat /\ max * decay > 0
    BY <1>1
  <2>2. a = 5 * (max * decay)
    BY <1>1
  <2> QED
    BY <2>1, <2>2
<1>3. Fresh(s1) \in Int /\ Fresh(s2) \in Int /\ Fresh(s2) <= Fresh(s1)
  <2>1. /\ Larger(decay - s1, 0) \in Int /\ Larger(decay - s2, 0) \in Int
        /\ Larger(decay - s2, 0) <= Larger(decay - s1, 0)
    <3> HIDE DEF decay
    <3> QED
      BY <1>1 DEF Larger
  <2>2. 2 * max \in Nat
    <3> HIDE DEF max
    <3> QED
      BY <1>1
  <2> HIDE DEF max, decay
  <2> QED
    BY <2>1, <2>2, Products
<1>4. /\ Detail(l1) \in Int /\ Detail(l2) \in Int
      /\ Detail(l2) <= Detail(l1)
      /\ l1 < l2 => Detail(l2) < Detail(l1)
  <2> HIDE DEF max, decay
  <2>1. 3 * decay \in Nat /\ 3 * decay > 0
    BY <1>1
  <2>2. /\ max - l1 \in Int /\ max - l2 \in Int /\ max - l2 <= max - l1
        /\ l1 < l2 => max - l2 < max - l1
    BY <1>1
  <2> QED
    BY <2>1, <2>2, Products
<1>5. K(l1, s1) \in Int /\ K(l2, s2) \in Int
      /\ K(l2, s2) <= K(l1, s1) /\ (l1 < l2 => K(l2, s2) < K(l1, s1))
  <2> HIDE DEF Fresh, Detail
  <2> QED
    BY <1>3, <1>4
<1>6. /\ compute_priority(r1, l1, s1) = [num |-> a + (1 + r1) * K(l1, s1), den |-> 1 + r1]
      /\ compute_priority(r2, l2, s2) = [num |-> a + (1 + r2) * K(l2, s2), den |-> 1 + r2]
  BY DEF compute_priority
<1> HIDE DEF a, K
<1>7. (a + (1 + r2) * K(l2, s2)) * (1 + r1) < (a + (1 + r1) * K(l1, s1)) * (1 + r2)
  BY <1>2, <1>5, CrossMultiply
<1> QED
  BY <1>6, <1>7 DEF LessImportant

---------------------------------------------------------------------------
(* The prediction.                                                       *)

(* The product of three finite sets is finite.                           *)
LEMMA TripleFinite ==
    ASSUME NEW S, NEW T, NEW U, IsFiniteSet(S), IsFiniteSet(T), IsFiniteSet(U)
    PROVE  IsFiniteSet(S \X T \X U)
<1> DEFINE nested == (S \X T) \X U
           f == [p \in nested |-> <<p[1][1], p[1][2], p[2]>>]
<1>1. IsFiniteSet(nested)
  BY FS_Product
<1>2. f \in [nested -> S \X T \X U]
  OBVIOUS
<1>3. \A t \in S \X T \X U : \E p \in nested : f[p] = t
  <2> TAKE t \in S \X T \X U
  <2>1. <<<<t[1], t[2]>>, t[3]>> \in nested
    OBVIOUS
  <2>2. f[<<<<t[1], t[2]>>, t[3]>>] = t
    BY <2>1
  <2> QED
    BY <2>1, <2>2
<1>4. f \in Surjection(nested, S \X T \X U)
  BY <1>2, <1>3 DEF Surjection
<1> QED
  BY <1>1, <1>4, FS_Surjection

(* Only finitely many chunks are predicted.                              *)
LEMMA CandidatesFinite ==
    ASSUME NEW anchor \in Int \X Int \X Int, NEW velocity \in Int \X Int \X Int
    PROVE  IsFiniteSet(Candidates(anchor, velocity))
<1> DEFINE f == Translate(anchor, velocity)
           total == mesh_ring + prefetch_ring
           X == f[1] - total .. f[1] + total
           Y == f[2] - total .. f[2] + total
           Z == f[3] - total .. f[3] + total
<1>1. f \in Int \X Int \X Int /\ total \in Nat
  BY PolicyNumbers DEF Translate
<1>2. IsFiniteSet(X \X Y \X Z)
  <2> HIDE DEF f, total
  <2>0. f[1] \in Int /\ f[2] \in Int /\ f[3] \in Int
    BY <1>1
  <2>1. \A x \in Int : x - total \in Int /\ x + total \in Int
    BY <1>1
  <2>2. IsFiniteSet(f[1] - total .. f[1] + total)
    BY <2>0, <2>1, FS_Interval
  <2>3. IsFiniteSet(f[2] - total .. f[2] + total)
    BY <2>0, <2>1, FS_Interval
  <2>4. IsFiniteSet(f[3] - total .. f[3] + total)
    BY <2>0, <2>1, FS_Interval
  <2> QED
    BY <2>2, <2>3, <2>4, TripleFinite
<1>3. \A d \in (-total..total) \X (-total..total) \X (-total..total) :
        Translate(f, d) \in X \X Y \X Z
  <2> HIDE DEF f, total
  <2> QED
    BY <1>1 DEF Translate
<1>4. Candidates(anchor, velocity) \subseteq X \X Y \X Z
  <2> HIDE DEF f, total, X, Y, Z
  <2>1. Candidates(anchor, velocity) \subseteq
          {Translate(f, d) : d \in (-total..total) \X (-total..total) \X (-total..total)}
    BY DEF Candidates, f, total
  <2> QED
    BY <1>3, <2>1
<1> QED
  BY <1>2, <1>4, FS_Subset

(* The prediction is a list no longer than the budget.                   *)
THEOREM PredictionWithinBudget ==
    ASSUME NEW anchor \in Int \X Int \X Int, NEW velocity \in Int \X Int \X Int
    PROVE  \E U : /\ predict_chunks(anchor, velocity) \in Seq(U)
                  /\ Len(predict_chunks(anchor, velocity)) <= prefetch_budget
<1> DEFINE future == Translate(anchor, velocity)
           cands == IF prefetch_ring = 0 THEN {} ELSE Candidates(anchor, velocity)
           n == IF Cardinality(cands) < prefetch_budget
                  THEN Cardinality(cands) ELSE prefetch_budget
           Rank(c) == Cardinality({d \in cands : NearerFirst(d, c, future)})
           f(k) == CHOOSE c \in cands : Rank(c) = k - 1
           U == {f(k) : k \in 1..n}
<1>1. Cardinality(cands) \in Nat
  BY CandidatesFinite, FS_EmptySet, FS_CardinalityType
<1>2. n \in Nat /\ n <= prefetch_budget
  <2> HIDE DEF cands
  <2> QED
    BY <1>1, PolicyNumbers
<1>3. predict_chunks(anchor, velocity) = [k \in 1..n |-> f(k)]
  BY DEF predict_chunks
<1> HIDE DEF n, f
<1>4. [k \in 1..n |-> f(k)] \in Seq(U) /\ Len([k \in 1..n |-> f(k)]) = n
  BY <1>2
<1> QED
  BY <1>2, <1>3, <1>4

---------------------------------------------------------------------------
(* The manager.                                                          *)

(* Maps over the chunk coordinates keep their type when an entry changes. *)
LEMMA MapUpdate ==
    ASSUME NEW S, NEW f \in [Coords -> S \cup {None}],
           NEW c \in Coords, NEW x \in S \cup {None}
    PROVE  [f EXCEPT ![c] = x] \in [Coords -> S \cup {None}]
OBVIOUS

(* A new manager is well typed.                                          *)
LEMMA TypeInit == Init => TypeOK
BY BoundAssumption DEF Init, TypeOK, Unknown, Standstill, NoStats, Idle

(* Resident chunks have coordinates in use.                              *)
LEMMA ResidentType == TypeOK => Resident \subseteq Coords
BY DEF Resident

(* Saving a resident chunk keeps the type of the storage.                *)
LEMMA SavedType ==
    ASSUME TypeOK, NEW v \in Coords
    PROVE  Saved(v) \in [Coords -> Payloads \cup {None}]
BY DEF TypeOK, Saved

(* Counting an eviction adds one to evictions and leaves the counts of   *)
(* loads alone.                                                          *)
LEMMA EvictedType ==
    ASSUME TypeOK
    PROVE  /\ Evicted \in [StatNames -> Nat]
           /\ Evicted["evictions"] = stats["evictions"] + 1
           /\ \A k \in StatNames \ {"evictions", "pending_evictions"} :
                Evicted[k] = stats[k]
<1>1. "evictions" \in StatNames /\ "pending_evictions" \in StatNames
  BY DEF StatNames
<1>2. stats \in [StatNames -> Nat]
  BY DEF TypeOK
<1>3. stats["evictions"] \in Nat /\ stats["pending_evictions"] \in Nat
  BY <1>1, <1>2
<1>4. /\ stats["evictions"] + 1 \in Nat
      /\ (IF stats["pending_evictions"] = 0 THEN 0 ELSE stats["pending_evictions"] - 1) \in Nat
  BY <1>3
<1> QED
  BY <1>1, <1>2, <1>4 DEF Evicted

(* Counting under one name adds one there and leaves the other counts    *)
(* alone.                                                                *)
LEMMA CountedType ==
    ASSUME TypeOK, NEW k \in StatNames
    PROVE  /\ Counted(k) \in [StatNames -> Nat]
           /\ Counted(k)[k] = stats[k] + 1
           /\ \A j \in StatNames \ {k} : Counted(k)[j] = stats[j]
BY DEF TypeOK, Counted

(* insert_chunk under any well-typed maps keeps the types.               *)
LEMMA InsertType ==
    ASSUME TypeOK, NEW c \in Coords, NEW d \in Payloads,
           NEW lods \in [Coords -> LodLevels \cup {None}],
           NEW access \in [Coords -> Nat \cup {None}],
           InsertUnder(c, d, lods, access)
    PROVE  TypeOK'
<1> USE DEF TypeOK, camera
<1>1. CASE insert_free(c, d, lods, access)
  BY <1>1 DEF InsertUnder, insert_free, Place
<1>2. CASE insert_evicting(c, d, lods, access)
  <2>1. PICK v \in lowest_priority_coord(lods, access) :
          /\ storage' = Saved(v)
          /\ Place(c, d, Cleared(resident, v), Cleared(access, v))
          /\ lod_levels' = Cleared(lods, v)
    BY <1>2 DEF insert_evicting
  <2>2. v \in Coords
    BY DEF lowest_priority_coord, Resident
  <2>3. storage' \in [Coords -> Payloads \cup {None}]
    BY <2>1, <2>2, SavedType
  <2>4. resident' \in [Coords -> Payloads \cup {None}]
    BY <2>1, <2>2 DEF Place, Cleared
  <2>5. last_access' \in [Coords -> Nat \cup {None}]
    BY <2>1, <2>2 DEF Place, Cleared
  <2>6. lod_levels' \in [Coords -> LodLevels \cup {None}]
    BY <2>1, <2>2 DEF Cleared
  <2>7. stats' = Evicted
    BY <1>2 DEF insert_evicting
  <2> QED
    BY <2>3, <2>4, <2>5, <2>6, <2>7, EvictedType DEF InsertUnder
<1>3. CASE insert_error(lods, access)
  BY <1>3 DEF InsertUnder, insert_error
<1> QED
  BY <1>1, <1>2, <1>3 DEF InsertUnder

(* A turn of the prefetch loop keeps the types.                          *)
LEMMA PrefetchType ==
    ASSUME TypeOK, prefetch_next_frame
    PROVE  TypeOK'
<1> USE DEF TypeOK, camera
<1>1. CASE prefetch_begin
  BY <1>1 DEF prefetch_begin
<1>2. CASE prefetch_skip
  BY <1>2 DEF prefetch_skip, Turned
<1>3. CASE prefetch_load
  <2>1. NextChunk \in Coords /\ storage[NextChunk] \in Payloads
    BY <1>3 DEF prefetch_load, Stored
  <2>2. "prefetch_hits" \in StatNames
    BY DEF StatNames
  <2> QED
    BY <1>3, <2>1, <2>2, CountedType DEF prefetch_load, Turned
<1>4. CASE prefetch_load_evicting
  <2>1. NextChunk \in Coords /\ storage[NextChunk] \in Payloads
    BY <1>4 DEF prefetch_load_evicting, Stored
  <2>2. PICK v \in lowest_priority_coord(lod_levels, last_access) :
          /\ storage' = Saved(v)
          /\ resident' = [Cleared(resident, v) EXCEPT ![NextChunk] = storage[NextChunk]]
          /\ last_access' = [Cleared(last_access, v) EXCEPT ![NextChunk] = current_tick]
          /\ lod_levels' = Cleared(lod_levels, v)
    BY <1>4 DEF prefetch_load_evicting
  <2>3. v \in Coords
    BY DEF lowest_priority_coord, Resident
  <2>4. storage' \in [Coords -> Payloads \cup {None}]
    BY <2>2, <2>3, SavedType
  <2>5. /\ resident' \in [Coords -> Payloads \cup {None}]
        /\ last_access' \in [Coords -> Nat \cup {None}]
        /\ lod_levels' \in [Coords -> LodLevels \cup {None}]
    BY <2>1, <2>2, <2>3 DEF Cleared
  <2>6. stats' \in [StatNames -> Nat]
    <3>1. stats' = [Evicted EXCEPT !["prefetch_hits"] = @ + 1]
      BY <1>4 DEF prefetch_load_evicting
    <3>2. "prefetch_hits" \in StatNames
      BY DEF StatNames
    <3> QED
      BY <3>1, <3>2, EvictedType
  <2>7. /\ prefetch' = Turned(1)
        /\ UNCHANGED <<current_tick, camera_anchor, camera_velocity>>
    BY <1>4 DEF prefetch_load_evicting
  <2> QED
    BY <2>4, <2>5, <2>6, <2>7 DEF Turned
<1>5. CASE prefetch_error
  BY <1>5 DEF prefetch_error, Idle
<1>6. CASE prefetch_end
  BY <1>6 DEF prefetch_end, Idle
<1> QED
  BY <1>1, <1>2, <1>3, <1>4, <1>5, <1>6 DEF prefetch_next_frame

(* Every step keeps the types.                                           *)
LEMMA TypeStep ==
    ASSUME TypeOK, [Next]_vars
    PROVE  TypeOK'
<1> USE DEF TypeOK, camera
<1>1. ASSUME NEW a \in Anchors, set_camera_anchor(a)
      PROVE  TypeOK'
  BY <1>1 DEF set_camera_anchor
<1>2. ASSUME NEW v \in Velocities, set_camera_velocity(v)
      PROVE  TypeOK'
  BY <1>2 DEF set_camera_velocity
<1>3. CASE advance_tick
  BY <1>3 DEF advance_tick
<1>4. ASSUME NEW c \in Coords, NEW lod \in LodLevels, set_lod_level(c, lod)
      PROVE  TypeOK'
  BY <1>4 DEF set_lod_level
<1>5. ASSUME NEW c \in Coords, request_chunk(c)
      PROVE  TypeOK'
  <2>1. CASE request_hit(c)
    BY <2>1 DEF request_hit
  <2>2. CASE request_load(c)
    <3>1. stats' \in [StatNames -> Nat]
      BY <2>2, CountedType DEF request_load, StatNames
    <3> QED
      BY <2>2, <3>1 DEF request_load
  <2>3. CASE request_miss(c)
    <3>1. stats' \in [StatNames -> Nat]
      BY <2>3, CountedType DEF request_miss, StatNames
    <3> QED
      BY <2>3, <3>1 DEF request_miss
  <2>4. CASE request_error(c)
    BY <2>4 DEF request_error
  <2> QED
    BY <1>5, <2>1, <2>2, <2>3, <2>4 DEF request_chunk
<1>6. ASSUME NEW c \in Coords, evict_chunk(c)
      PROVE  TypeOK'
  <2>1. CASE evict_done(c)
    BY <1>6, <2>1, SavedType, EvictedType DEF evict_chunk, evict_done, Cleared
  <2>2. CASE evict_absent(c)
    BY <1>6, <2>2 DEF evict_chunk, evict_absent
  <2>3. CASE evict_error(c)
    BY <1>6, <2>3 DEF evict_chunk, evict_error
  <2> QED
    BY <1>6, <2>1, <2>2, <2>3 DEF evict_chunk
<1>7. ASSUME NEW c \in Coords, NEW d \in Payloads, insert_chunk(c, d)
      PROVE  TypeOK'
  BY <1>7, InsertType DEF insert_chunk
<1>8. ASSUME NEW c \in Coords, NEW d \in Payloads, NEW lod \in LodLevels,
             insert_chunk_with_lod(c, d, lod)
      PROVE  TypeOK'
  <2>1. /\ [lod_levels EXCEPT ![c] = lod] \in [Coords -> LodLevels \cup {None}]
        /\ [last_access EXCEPT ![c] = current_tick] \in [Coords -> Nat \cup {None}]
    OBVIOUS
  <2> QED
    BY <1>8, <2>1, InsertType DEF insert_chunk_with_lod
<1>9. CASE prefetch_next_frame
  BY <1>9, PrefetchType
<1>10. CASE save_all_chunks
  <2>1. PICK S \in SUBSET Resident :
          storage' = [c \in Coords |-> IF c \in S THEN resident[c] ELSE storage[c]]
    BY <1>10 DEF save_all_chunks
  <2> QED
    BY <1>10, <2>1 DEF save_all_chunks
<1>11. CASE Crash
  BY <1>11 DEF Crash, Unknown, NoStats, Idle
<1>12. CASE UNCHANGED vars
  BY <1>12 DEF vars
<1> QED
  BY <1>1, <1>2, <1>3, <1>4, <1>5, <1>6, <1>7, <1>8, <1>9, <1>10, <1>11, <1>12
  DEF Next

(* The manager's state always has its type: the maps over coordinates, the *)
(* clock, the camera, the counters and the call in progress.             *)
THEOREM TypeCorrect == Spec => []TypeOK
BY TypeInit, TypeStep, PTL DEF Spec

---------------------------------------------------------------------------
(* Access ticks.                                                         *)

(* A new manager has no resident chunk to hold a tick for.               *)
LEMMA AccessInit == Init => ResidentsHaveAccessTick
BY DEF Init, ResidentsHaveAccessTick, Resident, Unknown

(* Insertion under maps that hold a tick for every resident chunk.       *)
LEMMA AccessInsert ==
    ASSUME TypeOK, NEW c \in Coords, NEW d \in Payloads,
           NEW lods \in [Coords -> LodLevels \cup {None}],
           NEW access \in [Coords -> Nat \cup {None}],
           \A x \in Coords : /\ x \in Resident => access[x] # None
                             /\ access[x] # None => access[x] <= current_tick,
           InsertUnder(c, d, lods, access)
    PROVE  ResidentsHaveAccessTick'
<1> USE DEF TypeOK, ResidentsHaveAccessTick, Resident
<1>0. current_tick' = current_tick /\ None \notin Nat
  BY NoneAssumption DEF InsertUnder
<1>1. CASE insert_free(c, d, lods, access)
  BY <1>0, <1>1 DEF insert_free, Place
<1>2. CASE insert_evicting(c, d, lods, access)
  <2>1. PICK v \in lowest_priority_coord(lods, access) :
          Place(c, d, Cleared(resident, v), Cleared(access, v))
    BY <1>2 DEF insert_evicting
  <2>2. v \in Coords
    BY DEF lowest_priority_coord
  <2> QED
    BY <1>0, <2>1, <2>2 DEF Place, Cleared
<1>3. CASE insert_error(lods, access)
  BY <1>0, <1>3 DEF insert_error
<1> QED
  BY <1>1, <1>2, <1>3 DEF InsertUnder

(* Every operation keeps a tick for each resident chunk, none of them    *)
(* later than the current tick.                                          *)
LEMMA AccessStep ==
    ASSUME TypeOK, ResidentsHaveAccessTick, [Next]_vars
    PROVE  ResidentsHaveAccessTick'
<1> USE NoneAssumption DEF TypeOK, ResidentsHaveAccessTick, Resident, camera
<1>1. ASSUME NEW a \in Anchors, set_camera_anchor(a)
      PROVE  ResidentsHaveAccessTick'
  BY <1>1 DEF set_camera_anchor
<1>2. ASSUME NEW v \in Velocities, set_camera_velocity(v)
      PROVE  ResidentsHaveAccessTick'
  BY <1>2 DEF set_camera_velocity
<1>3. CASE advance_tick
  BY <1>3 DEF advance_tick
<1>4. ASSUME NEW c \in Coords, NEW lod \in LodLevels, set_lod_level(c, lod)
      PROVE  ResidentsHaveAccessTick'
  BY <1>4 DEF set_lod_level
<1>5. ASSUME NEW c \in Coords, request_chunk(c)
      PROVE  ResidentsHaveAccessTick'
  BY <1>5 DEF request_chunk, request_hit, request_load, request_miss, request_error
<1>6. ASSUME NEW c \in Coords, evict_chunk(c)
      PROVE  ResidentsHaveAccessTick'
  BY <1>6 DEF evict_chunk, evict_done, evict_absent, evict_error, Cleared
<1>7. ASSUME NEW c \in Coords, NEW d \in Payloads, insert_chunk(c, d)
      PROVE  ResidentsHaveAccessTick'
  BY <1>7, AccessInsert DEF insert_chunk
<1>8. ASSUME NEW c \in Coords, NEW d \in Payloads, NEW lod \in LodLevels,
             insert_chunk_with_lod(c, d, lod)
      PROVE  ResidentsHaveAccessTick'
  <2> DEFINE lods == [lod_levels EXCEPT ![c] = lod]
             access == [last_access EXCEPT ![c] = current_tick]
  <2>1. /\ lods \in [Coords -> LodLevels \cup {None}]
        /\ access \in [Coords -> Nat \cup {None}]
    OBVIOUS
  <2>2. \A x \in Coords : /\ x \in Resident => access[x] # None
                          /\ access[x] # None => access[x] <= current_tick
    OBVIOUS
  <2>3. InsertUnder(c, d, lods, access)
    BY <1>8 DEF insert_chunk_with_lod
  <2> HIDE DEF lods, access
  <2> QED
    BY <2>1, <2>2, <2>3, AccessInsert
<1>9. CASE prefetch_next_frame
  <2>1. CASE prefetch_load
    BY <2>1 DEF prefetch_load, Stored
  <2>2. CASE prefetch_load_evicting
    <3>1. PICK v \in Coords :
            /\ resident' = [Cleared(resident, v) EXCEPT ![NextChunk] = storage[NextChunk]]
            /\ last_access' = [Cleared(last_access, v) EXCEPT ![NextChunk] = current_tick]
      BY <2>2 DEF prefetch_load_evicting, lowest_priority_coord
    <3>2. NextChunk \in Coords /\ current_tick' = current_tick
      BY <2>2 DEF prefetch_load_evicting, Stored
    <3> QED
      BY <3>1, <3>2 DEF Cleared
  <2>3. CASE prefetch_begin \/ prefetch_skip \/ prefetch_error \/ prefetch_end
    BY <2>3 DEF prefetch_begin, prefetch_skip, prefetch_error, prefetch_end
  <2> QED
    BY <1>9, <2>1, <2>2, <2>3 DEF prefetch_next_frame
<1>10. CASE save_all_chunks
  BY <1>10 DEF save_all_chunks
<1>11. CASE Crash
  BY <1>11 DEF Crash, Unknown
<1>12. CASE UNCHANGED vars
  BY <1>12 DEF vars
<1> QED
  BY <1>1, <1>2, <1>3, <1>4, <1>5, <1>6, <1>7, <1>8, <1>9, <1>10, <1>11, <1>12
  DEF Next

(* Every resident chunk is ranked by a real access tick.                 *)
THEOREM AccessTicksCorrect == Spec => []ResidentsHaveAccessTick
BY TypeInit, TypeStep, AccessInit, AccessStep, PTL DEF Spec

---------------------------------------------------------------------------
(* Counting the resident chunks.                                         *)

(* Names for the counts, and for the number of resident chunks.          *)
hits == stats["disk_cache_hits"]
prefetched == stats["prefetch_hits"]
evicted == stats["evictions"]
population == Cardinality(Resident)

(* The counters are naturals and so is the number of resident chunks.    *)
LEMMA CountTypes ==
    ASSUME TypeOK
    PROVE  /\ hits \in Nat /\ prefetched \in Nat /\ evicted \in Nat
           /\ IsFiniteSet(Resident) /\ population \in Nat
           /\ population = 0 <=> Resident = {}
<1>1. hits \in Nat /\ prefetched \in Nat /\ evicted \in Nat
  BY DEF TypeOK, StatNames, hits, prefetched, evicted
<1>2. IsFiniteSet(Resident)
  BY ResidentType, CoordsAssumption, FS_Subset
<1> QED
  BY <1>1, <1>2, FS_CardinalityType, FS_EmptySet DEF population

(* Whether there is room without an eviction, in numbers.                *)
LEMMA RoomLeft ==
    ASSUME TypeOK
    PROVE  ~ NeedsVictim => population < max_resident \/ population = 0
BY CountTypes, CapacityAssumption DEF NeedsVictim, population

(* One chunk more, one less, or one for another.                         *)
LEMMA Arrival ==
    ASSUME TypeOK, NEW c \in Coords, Resident' = Resident \cup {c}
    PROVE  population' = IF c \in Resident THEN population ELSE population + 1
BY CountTypes, FS_AddElement DEF population

(* A resident chunk that leaves takes one from the population.           *)
LEMMA Departure ==
    ASSUME TypeOK, NEW v \in Resident, Resident' = Resident \ {v}
    PROVE  population' = population - 1
BY CountTypes, FS_RemoveElement DEF population

(* A chunk that takes the place of a victim leaves the population as it  *)
(* was, unless it was resident already.                                  *)
LEMMA Exchange ==
    ASSUME TypeOK, NEW v \in Resident, NEW c, Resident' = (Resident \ {v}) \cup {c}
    PROVE  /\ population > 0
           /\ population' \in {population - 1, population}
           /\ c \notin Resident => population' = population
<1> DEFINE rest == Resident \ {v}
<1>1. IsFiniteSet(rest) /\ Cardinality(rest) = population - 1
  BY CountTypes, FS_RemoveElement DEF population
<1>2. population' = IF c \in rest THEN Cardinality(rest) ELSE Cardinality(rest) + 1
  <2> HIDE DEF rest
  <2>1. Resident' = rest \cup {c}
    BY DEF rest
  <2> QED
    BY <1>1, <2>1, FS_AddElement DEF population
<1>3. population > 0
  BY CountTypes
<1> QED
  BY <1>1, <1>2, <1>3, CountTypes

(* The step touches no count and no population.                          *)
SameCounts == UNCHANGED <<population, hits, prefetched, evicted>>

(* Every way a step may move the population and the counters.            *)
CountStep ==
    \/ SameCounts
    \/ population' = population + 1 /\ hits' = hits + 1
       /\ UNCHANGED <<prefetched, evicted>>
    \/ population > 0 /\ population' = population - 1 /\ evicted' = evicted + 1
       /\ UNCHANGED <<hits, prefetched>>
    \/ population' = population /\ evicted' = evicted + 1
       /\ UNCHANGED <<hits, prefetched>>
    \/ population' \in {population, population + 1}
       /\ (population < max_resident \/ population = 0)
       /\ UNCHANGED <<hits, prefetched, evicted>>
    \/ population' = population + 1
       /\ (population < max_resident \/ population = 0)
       /\ prefetched' = prefetched + 1 /\ UNCHANGED <<hits, evicted>>
    \/ population' = population /\ evicted' = evicted + 1
       /\ prefetched' = prefetched + 1 /\ UNCHANGED hits
    \/ population' = 0 /\ hits' = 0 /\ prefetched' = 0 /\ evicted' = 0

(* insert_chunk, under any ranking maps, is one of the ways of CountStep *)
(* to change the counts.                                                 *)
LEMMA CountInsert ==
    ASSUME TypeOK, NEW c \in Coords, NEW d \in Payloads,
           NEW lods, NEW access, InsertUnder(c, d, lods, access)
    PROVE  CountStep
<1>1. CASE insert_free(c, d, lods, access)
  <2>1. Resident' = Resident \cup {c}
    BY <1>1, NoneAssumption DEF insert_free, Place, Resident, TypeOK
  <2>2. UNCHANGED <<hits, prefetched, evicted>>
    BY <1>1 DEF insert_free, hits, prefetched, evicted
  <2>3. population' \in {population, population + 1}
    BY <2>1, Arrival
  <2>4. population < max_resident \/ population = 0
    BY <1>1, RoomLeft DEF insert_free
  <2> QED
    BY <2>2, <2>3, <2>4 DEF CountStep
<1>2. CASE insert_evicting(c, d, lods, access)
  <2>1. PICK v \in lowest_priority_coord(lods, access) :
          Place(c, d, Cleared(resident, v), Cleared(access, v))
    BY <1>2 DEF insert_evicting
  <2>2. v \in Resident
    BY DEF lowest_priority_coord
  <2>3. Resident' = (Resident \ {v}) \cup {c}
    BY <2>1, <2>2, NoneAssumption DEF Place, Cleared, Resident, TypeOK
  <2>4. population > 0 /\ population' \in {population - 1, population}
    BY <2>2, <2>3, Exchange
  <2>5. evicted' = evicted + 1 /\ hits' = hits /\ prefetched' = prefetched
    BY <1>2, EvictedType DEF insert_evicting, hits, prefetched, evicted, StatNames
  <2> QED
    BY <2>4, <2>5 DEF CountStep
<1>3. CASE insert_error(lods, access)
  BY <1>3 DEF insert_error, CountStep, SameCounts, population, Resident,
              hits, prefetched, evicted
<1> QED
  BY <1>1, <1>2, <1>3 DEF InsertUnder

(* A turn of prefetch_next_frame is one of the ways of CountStep to change *)
(* the counts.                                                           *)
LEMMA CountPrefetch ==
    ASSUME TypeOK, prefetch_next_frame
    PROVE  CountStep
<1>1. CASE prefetch_load
  <2>1. /\ NextChunk \in Coords /\ NextChunk \notin Resident
        /\ storage[NextChunk] # None
        /\ ~ NeedsVictim
        /\ resident' = [resident EXCEPT ![NextChunk] = storage[NextChunk]]
        /\ stats' = Counted("prefetch_hits")
    BY <1>1 DEF prefetch_load, Wanted, Stored
  <2>2. Resident' = Resident \cup {NextChunk}
    BY <2>1 DEF Resident, TypeOK
  <2>3. population' = population + 1
    BY <2>1, <2>2, Arrival
  <2>4. hits' = hits /\ prefetched' = prefetched + 1 /\ evicted' = evicted
    BY <2>1, CountedType DEF hits, prefetched, evicted, StatNames
  <2> QED
    BY <2>1, <2>3, <2>4, RoomLeft DEF CountStep
<1>2. CASE prefetch_load_evicting
  <2>1. PICK v \in lowest_priority_coord(lod_levels, last_access) :
          resident' = [Cleared(resident, v) EXCEPT ![NextChunk] = storage[NextChunk]]
    BY <1>2 DEF prefetch_load_evicting
  <2>2. /\ v \in Resident
        /\ NextChunk \in Coords /\ NextChunk \notin Resident
        /\ storage[NextChunk] # None
    BY <1>2 DEF prefetch_load_evicting, Wanted, Stored, lowest_priority_coord
  <2>3. Resident' = (Resident \ {v}) \cup {NextChunk}
    BY <2>1, <2>2 DEF Cleared, Resident, TypeOK
  <2>4. population' = population
    BY <2>2, <2>3, Exchange
  <2>5. stats' = [Evicted EXCEPT !["prefetch_hits"] = @ + 1]
    BY <1>2 DEF prefetch_load_evicting
  <2>6. evicted' = evicted + 1 /\ hits' = hits /\ prefetched' = prefetched + 1
    BY <2>5, EvictedType DEF hits, prefetched, evicted, StatNames
  <2> QED
    BY <2>4, <2>6 DEF CountStep
<1>3. CASE prefetch_begin \/ prefetch_skip \/ prefetch_error \/ prefetch_end
  BY <1>3 DEF prefetch_begin, prefetch_skip, prefetch_error, prefetch_end,
              CountStep, SameCounts, population, Resident, hits, prefetched, evicted
<1> QED
  BY <1>1, <1>2, <1>3 DEF prefetch_next_frame

(* So is every operation of the manager.                                 *)
LEMMA CountNext ==
    ASSUME TypeOK, [Next]_vars
    PROVE  CountStep
<1> DEFINE still == UNCHANGED <<resident, stats>>
<1>0. still => CountStep
  BY DEF CountStep, SameCounts, population, Resident, hits, prefetched, evicted
<1>1. ASSUME NEW a \in Anchors, set_camera_anchor(a)
      PROVE  CountStep
  BY <1>0, <1>1 DEF set_camera_anchor
<1>2. ASSUME NEW v \in Velocities, set_camera_velocity(v)
      PROVE  CountStep
  BY <1>0, <1>2 DEF set_camera_velocity
<1>3. CASE advance_tick
  BY <1>0, <1>3 DEF advance_tick
<1>4. ASSUME NEW c \in Coords, NEW lod \in LodLevels, set_lod_level(c, lod)
      PROVE  CountStep
  BY <1>0, <1>4 DEF set_lod_level
<1>5. ASSUME NEW c \in Coords, request_chunk(c)
      PROVE  CountStep
  <2>1. CASE request_load(c)
    <3>1. Resident' = Resident \cup {c} /\ c \notin Resident
      BY <2>1 DEF request_load, Resident, TypeOK
    <3>2. population' = population + 1
      BY <3>1, Arrival
    <3>3. hits' = hits + 1 /\ prefetched' = prefetched /\ evicted' = evicted
      BY <2>1, CountedType DEF request_load, hits, prefetched, evicted, StatNames
    <3> QED
      BY <3>2, <3>3 DEF CountStep
  <2>2. CASE request_miss(c)
    <3>1. population' = population
      BY <2>2 DEF request_miss, population, Resident
    <3>2. hits' = hits /\ prefetched' = prefetched /\ evicted' = evicted
      BY <2>2, CountedType DEF request_miss, hits, prefetched, evicted, StatNames
    <3> QED
      BY <3>1, <3>2 DEF CountStep, SameCounts
  <2>3. CASE request_hit(c) \/ request_error(c)
    BY <1>0, <2>3 DEF request_hit, request_error
  <2> QED
    BY <1>5, <2>1, <2>2, <2>3 DEF request_chunk
<1>6. ASSUME NEW v \in Coords, evict_chunk(v)
      PROVE  CountStep
  <2>1. CASE evict_done(v)
    <3>1. v \in Resident /\ Resident' = Resident \ {v}
      BY <2>1 DEF evict_done, Cleared, Resident, TypeOK
    <3>2. population' = population - 1 /\ population > 0
      BY <3>1, Departure, CountTypes
    <3>3. evicted' = evicted + 1 /\ hits' = hits /\ prefetched' = prefetched
      BY <2>1, EvictedType DEF evict_done, hits, prefetched, evicted, StatNames
    <3> QED
      BY <3>2, <3>3 DEF CountStep
  <2>2. CASE evict_absent(v) \/ evict_error(v)
    BY <1>0, <2>2 DEF evict_absent, evict_error
  <2> QED
    BY <1>6, <2>1, <2>2 DEF evict_chunk
<1>7. ASSUME NEW c \in Coords, NEW d \in Payloads, insert_chunk(c, d)
      PROVE  CountStep
  BY <1>7, CountInsert DEF insert_chunk
<1>8. ASSUME NEW c \in Coords, NEW d \in Payloads, NEW lod \in LodLevels,
             insert_chunk_with_lod(c, d, lod)
      PROVE  CountStep
  BY <1>8, CountInsert DEF insert_chunk_with_lod
<1>9. CASE prefetch_next_frame
  BY <1>9, CountPrefetch
<1>10. CASE save_all_chunks
  BY <1>0, <1>10 DEF save_all_chunks
<1>11. CASE Crash
  <2>1. Resident' = {}
    BY <1>11 DEF Crash, Resident, Unknown
  <2>2. population' = 0
    BY <2>1, FS_EmptySet DEF population
  <2>3. hits' = 0 /\ prefetched' = 0 /\ evicted' = 0
    BY <1>11 DEF Crash, NoStats, StatNames, hits, prefetched, evicted
  <2> QED
    BY <2>2, <2>3 DEF CountStep
<1>12. CASE UNCHANGED vars
  BY <1>0, <1>12 DEF vars
<1> QED
  BY <1>1, <1>2, <1>3, <1>4, <1>5, <1>6, <1>7, <1>8, <1>9, <1>10, <1>11, <1>12
  DEF Next

(* The two bounds in numbers.                                            *)
LEMMA CountInvariants ==
    /\ OvershootBoundedByHits <=> population <= Larger(max_resident, 1) + hits
    /\ LoadsAccounted <=> hits + prefetched <= evicted + population
BY DEF OvershootBoundedByHits, LoadsAccounted, population, hits, prefetched, evicted

(* Both bounds hold of a new manager: it has nothing resident and nothing *)
(* counted.                                                              *)
LEMMA CountInit == Init => OvershootBoundedByHits /\ LoadsAccounted
<1> SUFFICES ASSUME Init PROVE OvershootBoundedByHits /\ LoadsAccounted
  OBVIOUS
<1>1. Resident = {}
  BY DEF Init, Resident, Unknown
<1>2. population = 0
  BY <1>1, FS_EmptySet DEF population
<1>3. hits = 0 /\ prefetched = 0 /\ evicted = 0
  BY DEF Init, NoStats, StatNames, hits, prefetched, evicted
<1> QED
  BY <1>2, <1>3, CountInvariants, CapacityAssumption DEF Larger

(* No way of CountStep lets the population grow past the capacity without *)
(* a disk hit.                                                           *)
LEMMA OvershootStep ==
    ASSUME TypeOK, OvershootBoundedByHits, [Next]_vars
    PROVE  OvershootBoundedByHits'
<1>1. CountStep
  BY CountNext
<1>2. population <= Larger(max_resident, 1) + hits
  BY CountInvariants
<1>3. population' <= Larger(max_resident, 1) + hits'
  BY <1>1, <1>2, CountTypes, CapacityAssumption DEF CountStep, SameCounts, Larger
<1> QED
  BY <1>3 DEF OvershootBoundedByHits, population, hits

(* No way of CountStep counts a load that neither stays nor is evicted.  *)
LEMMA LoadsStep ==
    ASSUME TypeOK, LoadsAccounted, [Next]_vars
    PROVE  LoadsAccounted'
<1>1. CountStep
  BY CountNext
<1>2. hits + prefetched <= evicted + population
  BY CountInvariants
<1>3. hits' + prefetched' <= evicted' + population'
  BY <1>1, <1>2, CountTypes DEF CountStep, SameCounts
<1> QED
  BY <1>3 DEF LoadsAccounted, population, hits, prefetched, evicted

(* However the camera moves and whatever fails, the manager holds more   *)
(* chunks than its capacity only by its disk hits.                       *)
THEOREM OvershootBounded == Spec => []OvershootBoundedByHits
BY TypeInit, TypeStep, CountInit, OvershootStep, PTL DEF Spec

(* No load is ever lost from the statistics.                             *)
THEOREM LoadsAccountedFor == Spec => []LoadsAccounted
BY TypeInit, TypeStep, CountInit, LoadsStep, PTL DEF Spec

---------------------------------------------------------------------------
(* The manager implements the cache of ChunkCache.                       *)

(* While a prefetch runs, the client is still waiting for it.            *)
BusyWhilePrefetching == prefetch.active => reply = Busy

(* No prefetch is running at first.                                      *)
LEMMA BusyInit == Init => BusyWhilePrefetching
BY DEF Init, BusyWhilePrefetching, Idle

(* Only the turns of a prefetch take place until it returns.             *)
LEMMA BusyStep ==
    ASSUME BusyWhilePrefetching, [Next]_vars
    PROVE  BusyWhilePrefetching'
<1> USE DEF BusyWhilePrefetching, Ready
<1>1. CASE \E a \in Anchors : set_camera_anchor(a)
  BY <1>1 DEF set_camera_anchor
<1>2. CASE \E v \in Velocities : set_camera_velocity(v)
  BY <1>2 DEF set_camera_velocity
<1>3. CASE advance_tick
  BY <1>3 DEF advance_tick
<1>4. ASSUME NEW c \in Coords, NEW lod \in LodLevels, set_lod_level(c, lod)
      PROVE  BusyWhilePrefetching'
  BY <1>4 DEF set_lod_level
<1>5. ASSUME NEW c \in Coords, request_chunk(c)
      PROVE  BusyWhilePrefetching'
  BY <1>5 DEF request_chunk, request_hit, request_load, request_miss, request_error
<1>6. ASSUME NEW c \in Coords, evict_chunk(c)
      PROVE  BusyWhilePrefetching'
  BY <1>6 DEF evict_chunk
<1>7. ASSUME NEW c \in Coords, NEW d \in Payloads, insert_chunk(c, d)
      PROVE  BusyWhilePrefetching'
  BY <1>7 DEF insert_chunk, InsertUnder
<1>8. ASSUME NEW c \in Coords, NEW d \in Payloads, NEW lod \in LodLevels,
             insert_chunk_with_lod(c, d, lod)
      PROVE  BusyWhilePrefetching'
  BY <1>8 DEF insert_chunk_with_lod, InsertUnder
<1>9. CASE prefetch_next_frame
  BY <1>9 DEF prefetch_next_frame, prefetch_begin, prefetch_skip, prefetch_load,
              prefetch_load_evicting, prefetch_error, prefetch_end, Turn, Wanted,
              Turned, Idle
<1>10. CASE save_all_chunks
  BY <1>10 DEF save_all_chunks
<1>11. CASE Crash
  BY <1>11 DEF Crash, Idle
<1>12. CASE UNCHANGED vars
  BY <1>12 DEF vars
<1> QED
  BY <1>1, <1>2, <1>3, <1>4, <1>5, <1>6, <1>7, <1>8, <1>9, <1>10, <1>11, <1>12
  DEF Next

(* Nothing saved, or one resident chunk saved, makes chunks durable only *)
(* with the payload a request would return.                              *)
LEMMA PersistNone == TypeOK /\ UNCHANGED storage => Cache!Persist
<1> SUFFICES ASSUME TypeOK, UNCHANGED storage PROVE Cache!Persist
  OBVIOUS
<1>1. {} \in SUBSET Coords
  OBVIOUS
<1>2. storage' = [c \in Coords |-> IF c \in {} THEN Visible[c] ELSE storage[c]]
  BY DEF TypeOK
<1> QED
  BY <1>1, <1>2 DEF Cache!Persist

(* Saving one resident chunk is a write-back of the cache.               *)
LEMMA PersistOne ==
    ASSUME TypeOK, NEW v \in Resident, storage' = Saved(v)
    PROVE  Cache!Persist
<1>1. {v} \in SUBSET Coords
  BY DEF Resident
<1>2. storage' = [c \in Coords |-> IF c \in {v} THEN Visible[c] ELSE storage[c]]
  BY DEF TypeOK, Saved, Visible, Resident
<1> QED
  BY <1>1, <1>2 DEF Cache!Persist

(* A step that leaves the visible map alone and returns nothing.         *)
LEMMA Tending ==
    ASSUME Visible' = Visible, Cache!Persist, reply' \in {Done, Failed, Busy}
    PROVE  Cache!Next
BY DEF Cache!Next, Cache!Tend, Done, Failed, Busy

(* A step that moves no data is a step of the cache that persists nothing. *)
LEMMA TendingStill ==
    ASSUME TypeOK, UNCHANGED <<storage, resident>>, reply' \in {Done, Failed, Busy}
    PROVE  Cache!Next
<1>1. Visible' = Visible
  BY DEF Visible
<1> QED
  BY <1>1, PersistNone, Tending

(* An insert, under any ranking maps.                                    *)
LEMMA RefineInsert ==
    ASSUME TypeOK, NEW c \in Coords, NEW d \in Payloads,
           NEW lods, NEW access, InsertUnder(c, d, lods, access)
    PROVE  Cache!Next
<1>0. d # None
  BY NoneAssumption
<1>1. CASE insert_free(c, d, lods, access)
  <2>1. Visible' = [Visible EXCEPT ![c] = d]
    BY <1>0, <1>1 DEF insert_free, Place, Visible, TypeOK
  <2>2. Cache!Persist
    BY <1>1, PersistNone DEF insert_free
  <2>3. Cache!Put(c, d)
    BY <1>1, <2>1, <2>2 DEF insert_free, Cache!Put, Done
  <2> QED
    BY <2>3 DEF Cache!Next
<1>2. CASE insert_evicting(c, d, lods, access)
  <2>1. PICK v \in lowest_priority_coord(lods, access) :
          /\ storage' = Saved(v)
          /\ Place(c, d, Cleared(resident, v), Cleared(access, v))
    BY <1>2 DEF insert_evicting
  <2>2. v \in Resident /\ v \in Coords
    BY DEF lowest_priority_coord, Resident
  <2>3. resident' = [Cleared(resident, v) EXCEPT ![c] = d]
    BY <2>1 DEF Place
  <2>4. Visible' = [Visible EXCEPT ![c] = d]
    BY <1>0, <2>1, <2>2, <2>3 DEF Cleared, Saved, Visible, Resident, TypeOK
  <2>5. Cache!Persist
    BY <2>1, <2>2, PersistOne
  <2>6. Cache!Put(c, d)
    BY <1>2, <2>4, <2>5 DEF insert_evicting, Cache!Put, Done
  <2> QED
    BY <2>6 DEF Cache!Next
<1>3. CASE insert_error(lods, access)
  BY <1>3, TendingStill DEF insert_error
<1> QED
  BY <1>1, <1>2, <1>3 DEF InsertUnder

(* A turn of prefetch_next_frame is a step of the cache, or none.        *)
LEMMA RefinePrefetch ==
    ASSUME TypeOK, BusyWhilePrefetching, prefetch_next_frame
    PROVE  [Cache!Next]_(Cache!ccvars)
<1>1. CASE prefetch_begin \/ prefetch_error \/ prefetch_end
  BY <1>1, TendingStill DEF prefetch_begin, prefetch_error, prefetch_end
<1>2. CASE prefetch_skip
  BY <1>2 DEF prefetch_skip, Cache!ccvars, Visible
<1>3. CASE prefetch_load
  <2>1. Visible' = Visible
    BY <1>3 DEF prefetch_load, Wanted, Stored, Resident, Visible, TypeOK
  <2> QED
    BY <1>3, <2>1 DEF prefetch_load, Cache!ccvars
<1>4. CASE prefetch_load_evicting
  <2>1. PICK v \in lowest_priority_coord(lod_levels, last_access) :
          /\ storage' = Saved(v)
          /\ resident' = [Cleared(resident, v) EXCEPT ![NextChunk] = storage[NextChunk]]
    BY <1>4 DEF prefetch_load_evicting
  <2>2. /\ v \in Resident /\ v \in Coords
        /\ NextChunk \in Coords /\ NextChunk \notin Resident
        /\ storage[NextChunk] # None
        /\ reply' = reply /\ prefetch.active
    BY <1>4 DEF prefetch_load_evicting, Wanted, Stored, Turn,
                lowest_priority_coord, Resident
  <2>3. Visible' = Visible
    BY <2>1, <2>2 DEF Cleared, Saved, Visible, Resident, TypeOK
  <2>4. Cache!Persist
    BY <2>1, <2>2, PersistOne
  <2> QED
    BY <2>2, <2>3, <2>4, Tending DEF BusyWhilePrefetching
<1> QED
  BY <1>1, <1>2, <1>3, <1>4 DEF prefetch_next_frame

(* Every operation of the manager is a step of the cache, or none.       *)
LEMMA RefineStep ==
    ASSUME TypeOK, BusyWhilePrefetching, [Next]_vars
    PROVE  [Cache!Next]_(Cache!ccvars)
<1>1. ASSUME NEW a \in Anchors, set_camera_anchor(a)
      PROVE  Cache!Next
  BY <1>1, TendingStill DEF set_camera_anchor
<1>2. ASSUME NEW v \in Velocities, set_camera_velocity(v)
      PROVE  Cache!Next
  BY <1>2, TendingStill DEF set_camera_velocity
<1>3. CASE advance_tick
  BY <1>3, TendingStill DEF advance_tick
<1>4. ASSUME NEW c \in Coords, NEW lod \in LodLevels, set_lod_level(c, lod)
      PROVE  Cache!Next
  BY <1>4, TendingStill DEF set_lod_level
<1>5. ASSUME NEW c \in Coords, request_chunk(c)
      PROVE  Cache!Next
  <2>1. CASE request_hit(c) \/ request_load(c) \/ request_miss(c)
    <3>1. reply' = Got(c, Visible[c])
      BY <2>1 DEF request_hit, request_load, request_miss, Resident, Visible
    <3>2. Visible' = Visible /\ storage' = storage
      BY <2>1 DEF request_hit, request_load, request_miss, Resident, Visible, TypeOK
    <3>3. Cache!Get(c)
      BY <3>1, <3>2 DEF Cache!Get, Got
    <3> QED
      BY <3>3 DEF Cache!Next
  <2>2. CASE request_error(c)
    BY <2>2, TendingStill DEF request_error
  <2> QED
    BY <1>5, <2>1, <2>2 DEF request_chunk
<1>6. ASSUME NEW v \in Coords, evict_chunk(v)
      PROVE  Cache!Next
  <2>1. CASE evict_done(v)
    <3>1. v \in Resident /\ storage' = Saved(v) /\ reply' = Done
      BY <2>1 DEF evict_done
    <3>2. Visible' = Visible
      BY <2>1 DEF evict_done, Cleared, Saved, Visible, Resident, TypeOK
    <3> QED
      BY <3>1, <3>2, PersistOne, Tending
  <2>2. CASE evict_absent(v) \/ evict_error(v)
    BY <2>2, TendingStill DEF evict_absent, evict_error
  <2> QED
    BY <1>6, <2>1, <2>2 DEF evict_chunk
<1>7. ASSUME NEW c \in Coords, NEW d \in Payloads, insert_chunk(c, d)
      PROVE  Cache!Next
  BY <1>7, RefineInsert DEF insert_chunk
<1>8. ASSUME NEW c \in Coords, NEW d \in Payloads, NEW lod \in LodLevels,
             insert_chunk_with_lod(c, d, lod)
      PROVE  Cache!Next
  BY <1>8, RefineInsert DEF insert_chunk_with_lod
<1>9. CASE prefetch_next_frame
  BY <1>9, RefinePrefetch
<1>10. CASE save_all_chunks
  <2>1. PICK S \in SUBSET Resident :
          /\ storage' = [c \in Coords |-> IF c \in S THEN resident[c] ELSE storage[c]]
          /\ reply' = IF S = Resident THEN Done ELSE Failed
    BY <1>10 DEF save_all_chunks
  <2>2. resident' = resident
    BY <1>10 DEF save_all_chunks
  <2>3. Visible' = Visible
    BY <2>1, <2>2 DEF Visible, Resident, TypeOK
  <2>4. storage' = [c \in Coords |-> IF c \in S THEN Visible[c] ELSE storage[c]]
    BY <2>1 DEF Visible, Resident
  <2>5. Cache!Persist
    BY <2>4, ResidentType DEF Cache!Persist
  <2> QED
    BY <2>1, <2>3, <2>5, Tending
<1>11. CASE Crash
  <2>1. Visible' = storage
    BY <1>11 DEF Crash, Unknown, Visible, TypeOK
  <2>2. Cache!Crash
    BY <1>11, <2>1 DEF Crash, Cache!Crash, Restarted
  <2> QED
    BY <2>2 DEF Cache!Next
<1>12. CASE UNCHANGED vars
  BY <1>12 DEF vars, Cache!ccvars, Visible
<1> QED
  BY <1>1, <1>2, <1>3, <1>4, <1>5, <1>6, <1>7, <1>8, <1>9, <1>10, <1>11, <1>12
  DEF Next

(* A new manager over its storage is an initial cache.                   *)
LEMMA RefineInit == Init => Cache!Init
BY DEF Init, Cache!Init, Visible, Unknown, Done

(* For every capacity, policy and camera path, the manager is the map with *)
(* a durable shadow that ChunkCache describes.                           *)
THEOREM Refinement == Spec => ImplementsChunkCache
BY RefineInit, RefineStep, TypeInit, TypeStep, BusyInit, BusyStep, PTL
DEF Spec, ImplementsChunkCache, Cache!Spec

---------------------------------------------------------------------------
(* Failed calls.                                                         *)

(* What a failed call about c leaves alone.                              *)
Quiet(c) ==
    /\ \A other \in Coords \ {c} :
         /\ lod_levels'[other] = lod_levels[other]
         /\ last_access'[other] = last_access[other]
    /\ \/ UNCHANGED <<lod_levels, last_access>>
       \/ last_access'[c] = current_tick

(* What the call in progress has loaded, the statistics have counted.     *)
LoadsCounted ==
    /\ stats \in [StatNames -> Nat]
    /\ prefetch.loaded \in Nat
    /\ prefetch.loaded <= stats.prefetch_hits

(* A new manager has loaded nothing.                                     *)
LEMMA LoadsCountedInit == Init => LoadsCounted
BY DEF Init, LoadsCounted, NoStats, Idle, StatNames

(* Counting anything else leaves the prefetched chunks as they are.      *)
LEMMA OtherCounts ==
    ASSUME TypeOK
    PROVE  /\ Evicted \in [StatNames -> Nat] /\ Evicted.prefetch_hits = stats.prefetch_hits
           /\ \A counter \in {"disk_cache_hits", "disk_cache_misses"} :
                /\ Counted(counter) \in [StatNames -> Nat]
                /\ Counted(counter).prefetch_hits = stats.prefetch_hits
           /\ Counted("prefetch_hits") \in [StatNames -> Nat]
           /\ Counted("prefetch_hits").prefetch_hits = stats.prefetch_hits + 1
<1>1. /\ stats \in [StatNames -> Nat]
      /\ \A counter \in StatNames : stats[counter] \in Nat /\ stats[counter] + 1 \in Nat
  BY DEF TypeOK
<1>2. \A counter \in StatNames : Counted(counter) \in [StatNames -> Nat]
  BY <1>1 DEF Counted
<1>3. Counted("prefetch_hits").prefetch_hits = stats.prefetch_hits + 1
  BY <1>1 DEF Counted, StatNames
<1>4. \A counter \in {"disk_cache_hits", "disk_cache_misses"} :
        Counted(counter).prefetch_hits = stats.prefetch_hits
  BY <1>1 DEF Counted, StatNames
<1>5. /\ Evicted \in [StatNames -> Nat]
      /\ \A k \in StatNames \ {"evictions", "pending_evictions"} : Evicted[k] = stats[k]
  BY EvictedType
<1>6. "prefetch_hits" \in StatNames \ {"evictions", "pending_evictions"}
  BY DEF StatNames
<1> QED
  BY <1>2, <1>3, <1>4, <1>5, <1>6 DEF StatNames

(* Every step counts what it loads.                                      *)
LEMMA LoadsCountedStep ==
    ASSUME TypeOK, LoadsCounted, [Next]_vars
    PROVE  LoadsCounted'
<1> USE DEF LoadsCounted
<1>0. /\ Evicted \in [StatNames -> Nat] /\ Evicted.prefetch_hits = stats.prefetch_hits
      /\ \A counter \in {"disk_cache_hits", "disk_cache_misses"} :
           /\ Counted(counter) \in [StatNames -> Nat]
           /\ Counted(counter).prefetch_hits = stats.prefetch_hits
      /\ Counted("prefetch_hits") \in [StatNames -> Nat]
      /\ Counted("prefetch_hits").prefetch_hits = stats.prefetch_hits + 1
  BY OtherCounts
<1>1. ASSUME prefetch' = prefetch, stats' \in {stats, Evicted}
      PROVE  LoadsCounted'
  BY <1>0, <1>1
<1>2. ASSUME NEW c \in Coords, request_chunk(c) PROVE LoadsCounted'
  BY <1>0, <1>2
  DEF request_chunk, request_hit, request_load, request_miss, request_error
<1>3. ASSUME NEW c \in Coords, evict_chunk(c) PROVE LoadsCounted'
  BY <1>1, <1>3 DEF evict_chunk, evict_done, evict_absent, evict_error
<1>4. ASSUME NEW c \in Coords, NEW d \in Payloads, NEW lods, NEW access,
             InsertUnder(c, d, lods, access)
      PROVE  LoadsCounted'
  BY <1>1, <1>4 DEF InsertUnder, insert_free, insert_evicting, insert_error
<1>5. CASE prefetch_begin
  BY <1>5 DEF prefetch_begin, StatNames
<1>6. CASE prefetch_skip
  BY <1>6 DEF prefetch_skip, Turned
<1>7. CASE prefetch_load
  <2>1. stats' \in [StatNames -> Nat] /\ stats'.prefetch_hits = stats.prefetch_hits + 1
    BY <1>0, <1>7 DEF prefetch_load
  <2>2. prefetch'.loaded = prefetch.loaded + 1
    BY <1>7 DEF prefetch_load, Turned
  <2>3. stats.prefetch_hits \in Nat
    BY DEF StatNames
  <2> QED
    BY <2>1, <2>2, <2>3
<1>8. CASE prefetch_load_evicting
  <2>1. stats' = [Evicted EXCEPT !.prefetch_hits = @ + 1]
    BY <1>8 DEF prefetch_load_evicting
  <2>2. stats' \in [StatNames -> Nat] /\ stats'.prefetch_hits = stats.prefetch_hits + 1
    BY <1>0, <2>1 DEF StatNames
  <2>3. prefetch'.loaded = prefetch.loaded + 1
    BY <1>8 DEF prefetch_load_evicting, Turned
  <2>4. stats.prefetch_hits \in Nat
    BY DEF StatNames
  <2> QED
    BY <2>2, <2>3, <2>4
<1>9. CASE prefetch_error \/ prefetch_end
  BY <1>9 DEF prefetch_error, prefetch_end, Idle, StatNames
<1>10. CASE Crash
  BY <1>10 DEF Crash, NoStats, Idle, StatNames
<1>11. CASE UNCHANGED <<stats, prefetch>>
  BY <1>1, <1>11
<1>12. ASSUME \/ save_all_chunks \/ advance_tick
              \/ \E a \in Anchors : set_camera_anchor(a)
              \/ \E w \in Velocities : set_camera_velocity(w)
              \/ \E c \in Coords, lod \in LodLevels : set_lod_level(c, lod)
       PROVE  UNCHANGED <<stats, prefetch>>
  BY <1>12 DEF save_all_chunks, advance_tick, set_camera_anchor,
               set_camera_velocity, set_lod_level
<1> QED
  BY <1>2, <1>3, <1>4, <1>5, <1>6, <1>7, <1>8, <1>9, <1>10, <1>11, <1>12
  DEF Next, prefetch_next_frame, insert_chunk, insert_chunk_with_lod, vars

(* A call that changes nothing is quiet.                                 *)
LEMMA QuietWhenUnchanged ==
    ASSUME NEW c \in Coords, UNCHANGED <<lod_levels, last_access>>
    PROVE  Quiet(c)
BY DEF Quiet

(* The replies are told apart by their tag.                              *)
LEMMA Outcomes ==
    /\ Done # Failed /\ Busy # Failed /\ Restarted # Failed
    /\ \A c, x : Got(c, x) # Failed
BY DEF Done, Failed, Busy, Restarted, Got

(* An insertion that fails has touched nothing but the entries of its own *)
(* chunk.                                                                *)
LEMMA FailedInsert ==
    ASSUME NEW c \in Coords, NEW d \in Payloads,
           NEW lods, NEW access, InsertUnder(c, d, lods, access), reply' = Failed,
           \A other \in Coords \ {c} : /\ lods[other] = lod_levels[other]
                                       /\ access[other] = last_access[other],
           \/ lods = lod_levels /\ access = last_access
           \/ access[c] = current_tick
    PROVE  Quiet(c) /\ UNCHANGED <<resident, stats>>
<1>1. insert_error(lods, access)
  BY Outcomes DEF InsertUnder, insert_free, insert_evicting
<1> QED
  BY <1>1 DEF insert_error, Quiet

(* Every operation that fails is quiet but for one chunk.                *)
LEMMA FailureStep ==
    ASSUME TypeOK, BusyWhilePrefetching, Next, reply' = Failed
    PROVE  UNCHANGED <<resident, stats>> /\ \E c \in Coords : Quiet(c)
<1> DEFINE Kept == UNCHANGED <<resident, stats>>
<1>0. PICK home \in Coords : TRUE
  BY CoordsAssumption
<1>1. ASSUME NEW c \in Coords, request_chunk(c)
      PROVE  Kept /\ Quiet(c)
  BY <1>1, Outcomes, QuietWhenUnchanged
  DEF request_chunk, request_hit, request_load, request_miss, request_error
<1>2. ASSUME NEW v \in Coords, evict_chunk(v)
      PROVE  Kept /\ Quiet(v)
  BY <1>2, Outcomes, QuietWhenUnchanged
  DEF evict_chunk, evict_done, evict_absent, evict_error
<1>3. ASSUME NEW c \in Coords, NEW d \in Payloads, insert_chunk(c, d)
      PROVE  Kept /\ Quiet(c)
  BY <1>3, FailedInsert DEF insert_chunk
<1>4. ASSUME NEW c \in Coords, NEW d \in Payloads, NEW lod \in LodLevels,
             insert_chunk_with_lod(c, d, lod)
      PROVE  Kept /\ Quiet(c)
  <2> DEFINE lods == [lod_levels EXCEPT ![c] = lod]
             access == [last_access EXCEPT ![c] = current_tick]
  <2>1. \A other \in Coords \ {c} : /\ lods[other] = lod_levels[other]
                                    /\ access[other] = last_access[other]
    BY DEF TypeOK
  <2>3. access[c] = current_tick
    BY DEF TypeOK
  <2>2. InsertUnder(c, d, lods, access)
    BY <1>4 DEF insert_chunk_with_lod
  <2> HIDE DEF lods, access
  <2> QED
    BY <2>1, <2>2, <2>3, FailedInsert
<1>5. CASE prefetch_next_frame
  <2>1. prefetch_error
    BY <1>5, Outcomes
    DEF prefetch_next_frame, prefetch_begin, prefetch_skip, prefetch_load,
        prefetch_load_evicting, prefetch_end, Turn, Wanted, BusyWhilePrefetching
  <2> QED
    BY <1>0, <2>1, QuietWhenUnchanged DEF prefetch_error
<1>6. CASE save_all_chunks
  BY <1>0, <1>6, QuietWhenUnchanged DEF save_all_chunks
<1>7. ~ Crash
  BY Outcomes DEF Crash
<1>8. ~ advance_tick
  BY Outcomes DEF advance_tick
<1>9. ~ \E a \in Anchors : set_camera_anchor(a)
  BY Outcomes DEF set_camera_anchor
<1>10. ~ \E v \in Velocities : set_camera_velocity(v)
  BY Outcomes DEF set_camera_velocity
<1>11. ~ \E c \in Coords, lod \in LodLevels : set_lod_level(c, lod)
  BY Outcomes DEF set_lod_level
<1> QED
  BY <1>1, <1>2, <1>3, <1>4, <1>5, <1>6, <1>7, <1>8, <1>9, <1>10, <1>11 DEF Next

(* The step with which a call fails keeps every payload, every statistic *)
(* and the ranking of every chunk but the one it was asked to insert; what *)
(* a failing prefetch has loaded before, the statistics have counted.    *)
THEOREM FailuresAreQuiet == Spec => FailureKeepsMemory
<1>1. ASSUME TypeOK, BusyWhilePrefetching, LoadsCounted, [Next]_vars
      PROVE  [reply' = Failed =>
                /\ UNCHANGED <<resident, stats>>
                /\ prefetch.loaded <= stats.prefetch_hits
                /\ \E c \in Coords :
                     /\ \A other \in Coords \ {c} :
                          /\ lod_levels'[other] = lod_levels[other]
                          /\ last_access'[other] = last_access[other]
                     /\ \/ UNCHANGED <<lod_levels, last_access>>
                        \/ last_access'[c] = current_tick]_vars
  BY <1>1, FailureStep DEF Quiet, LoadsCounted
<1> QED
  BY <1>1, TypeInit, TypeStep, BusyInit, BusyStep, LoadsCountedInit, LoadsCountedStep, PTL
  DEF Spec, FailureKeepsMemory

---------------------------------------------------------------------------
(* The choice of victim.                                                 *)

(* The arguments that chunk_priority passes to compute_priority for c.   *)
Ring(c) == IF camera_anchor = None THEN 0 ELSE ring_distance(c, camera_anchor)

Since(c) == Larger(current_tick - last_access[c], 0)

(* What the score of a resident chunk is computed from.                  *)
LEMMA RankTypes ==
    ASSUME TypeOK, ResidentsHaveAccessTick, NEW c \in Resident
    PROVE  /\ Ring(c) \in Nat /\ get_lod_level(lod_levels, c) \in Nat
           /\ last_access[c] \in Nat /\ Since(c) \in Nat
           /\ chunk_priority(c, lod_levels, last_access)
                = compute_priority(Ring(c), get_lod_level(lod_levels, c), Since(c))
<1>1. c \in Coords /\ c \in Int \X Int \X Int
  BY CoordsAssumption DEF Resident
<1>2. Ring(c) \in Nat
  BY <1>1, CoordsAssumption, RingType DEF Ring, TypeOK
<1>3. get_lod_level(lod_levels, c) \in Nat
  BY <1>1, PolicyNumbers, BoundAssumption DEF get_lod_level, TypeOK
<1>4. last_access[c] \in Nat /\ last_access[c] # None
  BY <1>1 DEF ResidentsHaveAccessTick, TypeOK
<1>5. Since(c) \in Nat
  BY <1>4 DEF Since, Larger, TypeOK
<1>6. ring_distance(c, IF camera_anchor = None THEN c ELSE camera_anchor) = Ring(c)
  BY <1>1, RingCentre DEF Ring
<1> QED
  BY <1>2, <1>3, <1>4, <1>5, <1>6 DEF chunk_priority, Since

(* The victim chosen does not beat a chunk that was ranked beside it,    *)
(* provided both were ranked by their current entries.                   *)
LEMMA VictimNeverBeats ==
    ASSUME TypeOK, ResidentsHaveAccessTick, NEW c \in Resident,
           NEW lods, NEW access, NEW v \in lowest_priority_coord(lods, access),
           lods[c] = lod_levels[c], access[c] = last_access[c],
           lods[v] = lod_levels[v], access[v] = last_access[v]
    PROVE  ~ Beats(v, c)
<1> SUFFICES ASSUME Beats(v, c) PROVE FALSE
  OBVIOUS
<1>1. v \in Resident
  BY DEF lowest_priority_coord
<1>2. /\ chunk_priority(c, lods, access) = chunk_priority(c, lod_levels, last_access)
      /\ chunk_priority(v, lods, access) = chunk_priority(v, lod_levels, last_access)
  BY DEF chunk_priority, get_lod_level
<1>3. ~ LessImportant(chunk_priority(c, lod_levels, last_access),
                      chunk_priority(v, lod_levels, last_access))
  BY <1>2 DEF lowest_priority_coord
<1>4. /\ Ring(v) <= Ring(c)
      /\ get_lod_level(lod_levels, v) <= get_lod_level(lod_levels, c)
      /\ last_access[v] >= last_access[c]
      /\ Ring(v) < Ring(c) \/ get_lod_level(lod_levels, v) < get_lod_level(lod_levels, c)
  BY DEF Beats, Ring
<1>5. Since(v) <= Since(c)
  BY <1>1, <1>4, RankTypes DEF Since, Larger, TypeOK
<1>6. LessImportant(chunk_priority(c, lod_levels, last_access),
                    chunk_priority(v, lod_levels, last_access))
  BY <1>1, <1>4, <1>5, RankTypes, PriorityFollowsRank
<1> QED
  BY <1>3, <1>6

(* Under the maps an insert ranks with, which differ at the inserted chunk. *)
LEMMA InsertSparesBetter ==
    ASSUME TypeOK, ResidentsHaveAccessTick,
           NEW x \in Coords, NEW d \in Payloads, NEW lods, NEW access,
           InsertUnder(x, d, lods, access),
           \A other \in Coords \ {x} : /\ lods[other] = lod_levels[other]
                                       /\ access[other] = last_access[other],
           Resident' \ Resident # {},
           NEW v \in Resident \ Resident', NEW c \in Resident \cap Resident'
    PROVE  ~ Beats(v, c)
<1> USE DEF TypeOK
<1>1. CASE insert_free(x, d, lods, access)
  BY <1>1, NoneAssumption DEF insert_free, Place, Resident
<1>2. CASE insert_evicting(x, d, lods, access)
  <2>1. PICK w \in lowest_priority_coord(lods, access) :
          Place(x, d, Cleared(resident, w), Cleared(access, w))
    BY <1>2 DEF insert_evicting
  <2>2. w \in Resident
    BY DEF lowest_priority_coord
  <2>3. Resident' = (Resident \ {w}) \cup {x}
    BY <2>1, <2>2, NoneAssumption DEF Place, Cleared, Resident
  <2>4. v = w /\ x \notin Resident /\ c # x /\ v # x
    BY <2>2, <2>3
  <2>5. c \in Coords \ {x} /\ v \in Coords \ {x}
    BY <2>4 DEF Resident
  <2> QED
    BY <2>4, <2>5, VictimNeverBeats
<1>3. CASE insert_error(lods, access)
  BY <1>3 DEF insert_error, Resident
<1> QED
  BY <1>1, <1>2, <1>3 DEF InsertUnder

(* No operation that brings in a chunk throws out one that beats a chunk *)
(* that stays.                                                           *)
LEMMA BetterStep ==
    ASSUME TypeOK, ResidentsHaveAccessTick, Next, Resident' \ Resident # {},
           NEW v \in Resident \ Resident', NEW c \in Resident \cap Resident'
    PROVE  ~ Beats(v, c)
<1> USE DEF TypeOK
<1>0. ~ UNCHANGED resident
  BY DEF Resident
<1>1. ASSUME NEW x \in Coords, request_chunk(x)
      PROVE  FALSE
  <2>1. request_load(x)
    BY <1>0, <1>1 DEF request_chunk, request_hit, request_miss, request_error
  <2> QED
    BY <2>1 DEF request_load, Resident
<1>2. ASSUME NEW x \in Coords, evict_chunk(x)
      PROVE  FALSE
  <2>1. evict_done(x)
    BY <1>0, <1>2 DEF evict_chunk, evict_absent, evict_error
  <2> QED
    BY <2>1 DEF evict_done, Cleared, Resident
<1>3. ASSUME NEW x \in Coords, NEW d \in Payloads, insert_chunk(x, d)
      PROVE  ~ Beats(v, c)
  BY <1>3, InsertSparesBetter DEF insert_chunk
<1>4. ASSUME NEW x \in Coords, NEW d \in Payloads, NEW lod \in LodLevels,
             insert_chunk_with_lod(x, d, lod)
      PROVE  ~ Beats(v, c)
  <2> DEFINE lods == [lod_levels EXCEPT ![x] = lod]
             access == [last_access EXCEPT ![x] = current_tick]
  <2>1. \A other \in Coords \ {x} : /\ lods[other] = lod_levels[other]
                                    /\ access[other] = last_access[other]
    OBVIOUS
  <2>2. InsertUnder(x, d, lods, access)
    BY <1>4 DEF insert_chunk_with_lod
  <2> HIDE DEF lods, access
  <2> QED
    BY <2>1, <2>2, InsertSparesBetter
<1>5. CASE prefetch_next_frame
  <2>1. CASE prefetch_load_evicting
    <3>1. PICK w \in lowest_priority_coord(lod_levels, last_access) :
            resident' = [Cleared(resident, w) EXCEPT ![NextChunk] = storage[NextChunk]]
      BY <2>1 DEF prefetch_load_evicting
    <3>2. /\ w \in Resident /\ NextChunk \in Coords /\ storage[NextChunk] # None
      BY <2>1 DEF prefetch_load_evicting, Wanted, Stored, lowest_priority_coord
    <3>3. v = w
      BY <3>1, <3>2 DEF Cleared, Resident
    <3> QED
      BY <3>3, VictimNeverBeats
  <2>2. CASE prefetch_load
    BY <2>2 DEF prefetch_load, Stored, Resident
  <2>3. CASE prefetch_begin \/ prefetch_skip \/ prefetch_error \/ prefetch_end
    BY <1>0, <2>3 DEF prefetch_begin, prefetch_skip, prefetch_error, prefetch_end
  <2> QED
    BY <1>5, <2>1, <2>2, <2>3 DEF prefetch_next_frame
<1>6. ~ Crash
  BY DEF Crash, Resident, Unknown
<1>7. /\ ~ save_all_chunks /\ ~ advance_tick
      /\ ~ \E a \in Anchors : set_camera_anchor(a)
      /\ ~ \E w \in Velocities : set_camera_velocity(w)
      /\ ~ \E x \in Coords, lod \in LodLevels : set_lod_level(x, lod)
  BY <1>0 DEF save_all_chunks, advance_tick, set_camera_anchor,
              set_camera_velocity, set_lod_level
<1> QED
  BY <1>1, <1>2, <1>3, <1>4, <1>5, <1>6, <1>7 DEF Next

(* Whatever the weights, no chunk that makes room beats one that stays.  *)
THEOREM EvictionOrder == Spec => BetterChunksStay
<1>1. ASSUME TypeOK, ResidentsHaveAccessTick, [Next]_vars
      PROVE  [Resident' \ Resident # {} =>
                \A v \in Resident \ Resident', c \in Resident \cap Resident' :
                   ~ Beats(v, c)]_vars
  BY <1>1, BetterStep
<1> QED
  BY <1>1, TypeInit, TypeStep, AccessInit, AccessStep, PTL
  DEF Spec, BetterChunksStay

---------------------------------------------------------------------------
(* The prefetch budget.                                                  *)

(* The strengthening: the list is a sequence, without which Tail and Len *)
(* mean nothing.                                                         *)
BudgetInv ==
    prefetch.active =>
        \E U : /\ prefetch.todo \in Seq(U)
               /\ prefetch.loaded \in Nat
               /\ prefetch.loaded + Len(prefetch.todo) <= prefetch_budget

(* No prefetch is running at first.                                      *)
LEMMA BudgetInit == Init => BudgetInv
BY DEF Init, BudgetInv, Idle

(* Starting a prefetch sets the budget, and every turn takes away as many *)
(* predictions as loads.                                                 *)
LEMMA BudgetStep ==
    ASSUME TypeOK, BudgetInv, [Next]_vars
    PROVE  BudgetInv'
<1> USE DEF BudgetInv
<1>1. CASE prefetch_begin
  <2>1. camera_anchor \in Int \X Int \X Int /\ camera_velocity \in Int \X Int \X Int
    BY <1>1, CoordsAssumption DEF prefetch_begin, TypeOK, Standstill
  <2>2. PICK U : /\ predict_chunks(camera_anchor, camera_velocity) \in Seq(U)
                 /\ Len(predict_chunks(camera_anchor, camera_velocity)) <= prefetch_budget
    BY <2>1, PredictionWithinBudget
  <2>3. /\ prefetch'.todo = predict_chunks(camera_anchor, camera_velocity)
        /\ prefetch'.loaded = 0
    BY <1>1 DEF prefetch_begin
  <2>4. Len(prefetch'.todo) \in Nat
    BY <2>2, <2>3
  <2> QED
    BY <2>2, <2>3, <2>4
<1>2. ASSUME NEW n \in {0, 1}, Turn, prefetch' = Turned(n)
      PROVE  BudgetInv'
  <2>1. PICK U : /\ prefetch.todo \in Seq(U)
                 /\ prefetch.loaded \in Nat
                 /\ prefetch.loaded + Len(prefetch.todo) <= prefetch_budget
    BY <1>2 DEF Turn
  <2>2. Tail(prefetch.todo) \in Seq(U) /\ Len(Tail(prefetch.todo)) = Len(prefetch.todo) - 1
    BY <1>2, <2>1 DEF Turn
  <2>3. Len(prefetch.todo) \in Nat
    BY <2>1
  <2>4. prefetch'.todo = Tail(prefetch.todo) /\ prefetch'.loaded = prefetch.loaded + n
    BY <1>2 DEF Turned
  <2>5. prefetch'.loaded \in Nat
        /\ prefetch'.loaded + Len(prefetch'.todo) <= prefetch_budget
    BY <2>1, <2>2, <2>3, <2>4, PolicyNumbers
  <2> QED
    BY <2>2, <2>4, <2>5
<1>3. CASE prefetch_skip \/ prefetch_load \/ prefetch_load_evicting
  BY <1>2, <1>3 DEF prefetch_skip, prefetch_load, prefetch_load_evicting, Wanted
<1>4. CASE prefetch_error \/ prefetch_end
  BY <1>4 DEF prefetch_error, prefetch_end, Idle
<1>5. CASE Crash
  BY <1>5 DEF Crash, Idle
<1>6. ASSUME UNCHANGED prefetch
      PROVE  BudgetInv'
  BY <1>6
<1>7. ASSUME NEW c \in Coords, request_chunk(c) PROVE UNCHANGED prefetch
  BY <1>7 DEF request_chunk, request_hit, request_load, request_miss, request_error
<1>8. ASSUME NEW c \in Coords, evict_chunk(c) PROVE UNCHANGED prefetch
  BY <1>8 DEF evict_chunk
<1>9. ASSUME NEW c \in Coords, NEW d \in Payloads,
             insert_chunk(c, d) \/ \E lod \in LodLevels : insert_chunk_with_lod(c, d, lod)
      PROVE UNCHANGED prefetch
  BY <1>9 DEF insert_chunk, insert_chunk_with_lod, InsertUnder
<1>10. ASSUME \/ save_all_chunks \/ advance_tick
              \/ \E a \in Anchors : set_camera_anchor(a)
              \/ \E w \in Velocities : set_camera_velocity(w)
              \/ \E c \in Coords, lod \in LodLevels : set_lod_level(c, lod)
       PROVE  UNCHANGED prefetch
  BY <1>10 DEF save_all_chunks, advance_tick, set_camera_anchor,
               set_camera_velocity, set_lod_level
<1> QED
  BY <1>1, <1>3, <1>4, <1>5, <1>6, <1>7, <1>8, <1>9, <1>10
  DEF Next, prefetch_next_frame, vars

(* The strengthening implies the property.                               *)
LEMMA BudgetEnough == BudgetInv => PrefetchWithinBudget
BY DEF BudgetInv, PrefetchWithinBudget

(* Whatever the camera does, a prefetch call never holds more predictions *)
(* than it may still load.                                               *)
THEOREM PrefetchBudgeted == Spec => []PrefetchWithinBudget
BY TypeInit, TypeStep, BudgetInit, BudgetStep, BudgetEnough, PTL DEF Spec

=============================================================================
