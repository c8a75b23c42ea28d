------------------------ MODULE MeshGenerator_proofs ------------------------
(***************************************************************************)
(* Theorems about MeshGenerator, for every grid, every upload, every     *)
(* capacity of the two buffers and every number of invocations: the claims *)
(* and the index groups first, then the faces an upload has and the      *)
(* account of those a dispatch draws.                                    *)
(***************************************************************************)
EXTENDS MeshGenerator, FiniteSetTheorems, TLAPS

(* The counters run ahead of every claim, and what an invocation holds is *)
(* neither written nor held by another.                                  *)
SlotInv ==
    /\ counters \in [vertices : Nat, indices : Nat]
    /\ base \in [DOMAIN todo -> Nat \cup {None}]
    /\ DOMAIN vertices \subseteq Nat /\ DOMAIN indices \subseteq Nat
    /\ \A i \in DOMAIN todo : base[i] # None => base[i] + 4 <= counters.vertices
    /\ \A i, j \in DOMAIN todo :
          i # j /\ base[i] # None /\ base[j] # None
            => base[i] + 4 <= base[j] \/ base[j] + 4 <= base[i]
    /\ \A k \in DOMAIN vertices :
          /\ k < counters.vertices
          /\ \A i \in DOMAIN todo : base[i] # None => k < base[i] \/ base[i] + 4 <= k
    /\ \A k \in DOMAIN indices : k < counters.indices

(* No slot is claimed before the first dispatch.                         *)
LEMMA SlotInit == Init => SlotInv
BY DEF Init, SlotInv

(* A dispatch starts with empty buffers and claims nothing.              *)
LEMMA SlotDispatch ==
    ASSUME NEW u \in Uploads, dispatch(u)
    PROVE  SlotInv'
BY NoneAssumption DEF dispatch, SlotInv

(* A claim takes the four slots above every other.                       *)
LEMMA SlotClaim ==
    ASSUME SlotInv, NEW i \in DOMAIN todo, claim_vertices(i)
    PROVE  SlotInv'
<1> USE NoneAssumption DEF SlotInv
<1>1. /\ counters.vertices \in Nat /\ counters.indices \in Nat
      /\ counters' = [vertices |-> counters.vertices + 4, indices |-> counters.indices]
  BY DEF claim_vertices
<1>2. /\ base' = [base EXCEPT ![i] = counters.vertices] /\ base[i] = None
      /\ UNCHANGED <<todo, vertices, indices>>
  BY DEF claim_vertices
<1>3. base' \in [DOMAIN todo -> Nat \cup {None}]
  BY <1>1, <1>2
<1>4. \A j \in DOMAIN todo : base'[j] = IF j = i THEN counters.vertices ELSE base[j]
  BY <1>2
<1>5. \A j \in DOMAIN todo : base'[j] # None => base'[j] + 4 <= counters'.vertices
  BY <1>1, <1>4
<1>6. \A j, h \in DOMAIN todo :
          j # h /\ base'[j] # None /\ base'[h] # None
            => base'[j] + 4 <= base'[h] \/ base'[h] + 4 <= base'[j]
  BY <1>1, <1>4
<1>7. \A k \in DOMAIN vertices :
          /\ k < counters'.vertices
          /\ \A j \in DOMAIN todo : base'[j] # None => k < base'[j] \/ base'[j] + 4 <= k
  BY <1>1, <1>4
<1>8. \A k \in DOMAIN indices : k < counters'.indices
  BY <1>1
<1> QED
  BY <1>1, <1>2, <1>3, <1>5, <1>6, <1>7, <1>8

(* What emitting a face adds to the buffers: slots that were empty, the  *)
(* vertices among those the invocation holds, the indices at the counter. *)
LEMMA EmitWrites ==
    ASSUME SlotInv, NEW i \in DOMAIN todo, emit_face(i)
    PROVE  /\ \A k \in DOMAIN vertices : /\ k \in DOMAIN vertices'
                                         /\ vertices'[k] = vertices[k]
           /\ \A k \in DOMAIN indices : /\ k \in DOMAIN indices'
                                        /\ indices'[k] = indices[k]
           /\ \A k \in DOMAIN vertices' \ DOMAIN vertices :
                k \in Nat /\ base[i] <= k /\ k < base[i] + 4
           /\ \A k \in DOMAIN indices' \ DOMAIN indices :
                k \in Nat /\ counters.indices <= k /\ k < counters.indices + 6
<1> USE NoneAssumption DEF SlotInv
<1>1. base[i] \in Nat /\ counters.indices \in Nat
  BY DEF emit_face
<1>2. CASE Fits(base[i], counters.indices)
  <2> DEFINE V == base[i]..base[i] + 3
             I == counters.indices..counters.indices + 5
  <2>1. /\ DOMAIN vertices' = DOMAIN vertices \cup V
        /\ \A k \in DOMAIN vertices : k \notin V => vertices'[k] = vertices[k]
    BY <1>2 DEF emit_face, DrawnVertices
  <2>2. /\ DOMAIN indices' = DOMAIN indices \cup I
        /\ \A k \in DOMAIN indices : k \notin I => indices'[k] = indices[k]
    BY <1>2 DEF emit_face, DrawnIndices
  <2>3. /\ \A k \in V : k \notin DOMAIN vertices
        /\ \A k \in V : k \in Nat /\ base[i] <= k /\ k < base[i] + 4
    BY <1>1 DEF emit_face
  <2>4. /\ \A k \in I : k \notin DOMAIN indices
        /\ \A k \in I : k \in Nat /\ counters.indices <= k /\ k < counters.indices + 6
    BY <1>1
  <2> QED
    BY <2>1, <2>2, <2>3, <2>4
<1>3. CASE ~ Fits(base[i], counters.indices)
  BY <1>3 DEF emit_face
<1> QED
  BY <1>2, <1>3

(* Emitting a face gives up what the invocation holds.                   *)
LEMMA SlotEmit ==
    ASSUME SlotInv, NEW i \in DOMAIN todo, emit_face(i)
    PROVE  SlotInv'
<1> USE NoneAssumption DEF SlotInv
<1>1. /\ counters.vertices \in Nat /\ counters.indices \in Nat /\ base[i] \in Nat
      /\ counters' = [vertices |-> counters.vertices, indices |-> counters.indices + 6]
  BY DEF emit_face
<1>2. base' = [base EXCEPT ![i] = None] /\ DOMAIN todo' = DOMAIN todo
  BY DEF emit_face
<1>3. base' \in [DOMAIN todo -> Nat \cup {None}]
  BY <1>2
<1>4. \A j \in DOMAIN todo : base'[j] = IF j = i THEN None ELSE base[j]
  BY <1>2
<1>5. /\ \A k \in DOMAIN vertices' \ DOMAIN vertices :
           k \in Nat /\ base[i] <= k /\ k < base[i] + 4
      /\ \A k \in DOMAIN indices' \ DOMAIN indices :
           k \in Nat /\ k < counters.indices + 6
  BY EmitWrites
<1>6. \A j \in DOMAIN todo : base'[j] # None => base'[j] + 4 <= counters'.vertices
  BY <1>1, <1>4
<1>7. \A j, h \in DOMAIN todo :
          j # h /\ base'[j] # None /\ base'[h] # None
            => base'[j] + 4 <= base'[h] \/ base'[h] + 4 <= base'[j]
  BY <1>4
<1>8. \A k \in DOMAIN vertices' :
          /\ k < counters'.vertices
          /\ \A j \in DOMAIN todo : base'[j] # None => k < base'[j] \/ base'[j] + 4 <= k
  <2>1. ASSUME NEW k \in DOMAIN vertices
        PROVE  /\ k < counters'.vertices
               /\ \A j \in DOMAIN todo :
                    base'[j] # None => k < base'[j] \/ base'[j] + 4 <= k
    BY <1>1, <1>4
  <2>2. ASSUME NEW k \in DOMAIN vertices' \ DOMAIN vertices
        PROVE  /\ k < counters'.vertices
               /\ \A j \in DOMAIN todo :
                    base'[j] # None => k < base'[j] \/ base'[j] + 4 <= k
    <3>1. k \in Nat /\ base[i] <= k /\ k < base[i] + 4 /\ base[i] + 4 <= counters.vertices
      BY <1>1, <1>5
    <3>2. \A j \in DOMAIN todo : j # i /\ base[j] # None
            => base[i] + 4 <= base[j] \/ base[j] + 4 <= base[i]
      BY <1>1
    <3> QED
      BY <1>1, <1>4, <3>1, <3>2
  <2> QED
    BY <2>1, <2>2
<1>9. \A k \in DOMAIN indices' : k < counters'.indices
  <2>1. \A k \in DOMAIN indices : k < counters.indices + 6
    BY <1>1
  <2> QED
    BY <1>1, <1>5, <2>1
<1>10. DOMAIN vertices' \subseteq Nat /\ DOMAIN indices' \subseteq Nat
  BY <1>5
<1> QED
  BY <1>1, <1>2, <1>3, <1>6, <1>7, <1>8, <1>9, <1>10

(* Every step keeps the claims apart.                                    *)
LEMMA SlotStep ==
    ASSUME SlotInv, [Next]_vars
    PROVE  SlotInv'
<1>1. ASSUME NEW u \in Uploads, refuse(u)
      PROVE  SlotInv'
  BY <1>1 DEF refuse, SlotInv, buffers
<1>2. ASSUME NEW i \in DOMAIN todo, generate(i)
      PROVE  SlotInv'
  BY <1>2, SlotClaim, SlotEmit DEF generate
<1>3. CASE read_back
  BY <1>3 DEF read_back, SlotInv, buffers
<1>4. CASE map_failed
  BY <1>4 DEF map_failed, SlotInv
<1>5. CASE UNCHANGED vars
  BY <1>5 DEF vars, SlotInv, buffers
<1> QED
  BY <1>1, <1>2, <1>3, <1>4, <1>5, SlotDispatch DEF Next

(* The claims are always disjoint and below the counters.                *)
THEOREM ClaimsDisjoint == Spec => []SlotInv
BY SlotInit, SlotStep, PTL DEF Spec

(* Whatever the interleaving and the capacities, no slot of the vertex or *)
(* the index buffer is written twice in one dispatch.                    *)
THEOREM SlotsWrittenOnce == Spec => WritesOnce
<1> DEFINE Once == running /\ output' # Lost =>
       /\ \A k \in DOMAIN vertices : k \in DOMAIN vertices' /\ vertices'[k] = vertices[k]
       /\ \A k \in DOMAIN indices : k \in DOMAIN indices' /\ indices'[k] = indices[k]
<1>1. ASSUME SlotInv, [Next]_vars
      PROVE  [Once]_vars
  <2>1. ASSUME NEW u \in Uploads, dispatch(u) \/ refuse(u)
        PROVE  Once
    BY <2>1 DEF dispatch, refuse
  <2>2. ASSUME NEW i \in DOMAIN todo, claim_vertices(i)
        PROVE  Once
    BY <2>2 DEF claim_vertices
  <2>3. ASSUME NEW i \in DOMAIN todo, emit_face(i)
        PROVE  Once
    BY <1>1, <2>3, EmitWrites
  <2>4. CASE read_back
    BY <2>4 DEF read_back, buffers
  <2>5. CASE map_failed
    BY <2>5 DEF map_failed
  <2> QED
    BY <1>1, <2>1, <2>2, <2>3, <2>4, <2>5 DEF Next, generate
<1> QED
  BY <1>1, SlotInit, SlotStep, PTL DEF Spec, WritesOnce

---------------------------------------------------------------------------
(* The index groups.                                                     *)

(* Only vertex numbers are written as indices, and the index counter     *)
(* stands at the start of a group.                                       *)
GroupInv ==
    /\ config \in Configs
    /\ \A k \in DOMAIN indices : indices[k] \in Nat
    /\ \E m \in Nat : counters.indices = 6 * m

(* Nothing is claimed at first.                                          *)
LEMMA GroupInit == Init => GroupInv /\ IndicesResolve
<1>1. ASSUME Init
      PROVE  \E m \in Nat : counters.indices = 6 * m
  BY <1>1, 0 \in Nat DEF Init
<1> QED
  BY <1>1 DEF Init, GroupInv, IndicesResolve, Drawn

(* Division by six, the number of indices of a face.                     *)
LEMMA Sixths ==
    ASSUME NEW k \in Nat
    PROVE  /\ k \div 6 \in Nat
           /\ \A m \in Nat : 6 * m <= k /\ k <= 6 * m + 5 => k \div 6 = m
           /\ \A m \in Nat : 6 * m + 6 <= k => m \in 0..k \div 6 - 1
           /\ \A m \in 0..k \div 6 - 1 : m \in Nat /\ 6 * m + 6 <= k
OBVIOUS

(* A face that fits is drawn as the group at the index counter.          *)
LEMMA GroupAdded ==
    ASSUME SlotInv, GroupInv, IndicesResolve, NEW i \in DOMAIN todo,
           emit_face(i), Fits(base[i], counters.indices),
           NEW m \in Nat, counters.indices = 6 * m
    PROVE  /\ Drawn' = Drawn \cup {m} /\ m \notin Drawn
           /\ m \in 0..config.max_indices \div 6 - 1
           /\ \A k \in 0..5 : /\ 6 * m + k \in DOMAIN indices'
                              /\ indices'[6 * m + k] = base[i] + Pattern[k + 1]
           /\ First(m)' = base[i]
           /\ \A g \in Drawn : /\ First(g)' = First(g) /\ 6 * g < 6 * m
                               /\ First(g) \in Nat /\ g \in Nat
<1> USE NoneAssumption
<1> DEFINE b == base[i]
           start == counters.indices
           V == config.max_vertices
           N == config.max_indices
<1>1. start = 6 * m
  OBVIOUS
<1>2. /\ b \in Nat /\ start \in Nat /\ V \in Nat /\ N \in Nat
      /\ b + 4 <= V /\ start + 6 <= N
  BY ConfigAssumption DEF GroupInv, SlotInv, emit_face, Fits
<1>3. vertices' = DrawnVertices(i) /\ indices' = DrawnIndices(i) /\ config' = config
  BY DEF emit_face
<1>4. DOMAIN indices' = DOMAIN indices \cup (start..start + 5)
  BY <1>3 DEF DrawnIndices
<1>5. \A k \in DOMAIN indices : indices'[k] = indices[k] /\ k \in Nat /\ k < 6 * m
  BY <1>1, EmitWrites DEF SlotInv
<1>6. \A k \in 0..5 : start + k \in DOMAIN indices' /\ indices'[start + k] = b + Pattern[k + 1]
  <2> SUFFICES ASSUME NEW k \in 0..5
               PROVE  /\ start + k \in DOMAIN indices'
                      /\ indices'[start + k] = b + Pattern[k + 1]
    OBVIOUS
  <2>1. \A j \in start..start + 5 : indices'[j] = b + Pattern[j - start + 1]
    BY <1>3 DEF DrawnIndices
  <2>2. PICK j : j = start + k
    OBVIOUS
  <2>3. j \in start..start + 5 /\ j - start + 1 = k + 1
    BY <1>2, <2>2
  <2>4. indices'[j] = b + Pattern[j - start + 1]
    BY <2>1, <2>3, Zenon
  <2>5. indices'[j] = b + Pattern[k + 1]
    BY <2>3, <2>4, Zenon
  <2> QED
    BY <1>4, <2>2, <2>3, <2>5, Zenon
<1>7. m \in 0..N \div 6 - 1 /\ \A k \in start..start + 5 : k \in Nat /\ k \div 6 = m
  BY <1>1, <1>2, Sixths
<1>8. Drawn' = Drawn \cup {m}
  <2>1. ASSUME NEW g \in 0..N \div 6 - 1, 6 * g \in start..start + 5
        PROVE  g = m
    BY <1>1, <1>2, <2>1, Sixths
  <2>2. 6 * m \in start..start + 5
    BY <1>1, <1>2
  <2> QED
    BY <1>3, <1>4, <1>7, <2>1, <2>2 DEF Drawn
<1>9. First(m)' = b
  <2>1. 6 * m = start + 0 /\ Pattern[1] = 0
    BY <1>1, <1>2 DEF Pattern
  <2> QED
    BY <1>2, <1>6, <2>1 DEF First
<1>10. \A g \in Drawn : First(g)' = First(g) /\ 6 * g < 6 * m /\ First(g) \in Nat
  BY <1>5 DEF Drawn, First, GroupInv
<1>11. \A g \in Drawn : g \in Nat /\ m \notin Drawn
  BY <1>1, <1>2, <1>10, Sixths DEF Drawn
<1>12. m \notin Drawn
  BY <1>10
<1>13. \A k \in 0..5 : 6 * m + k \in DOMAIN indices' /\ indices'[6 * m + k] = b + Pattern[k + 1]
  BY <1>1, <1>6
<1> QED
  BY <1>7, <1>8, <1>9, <1>10, <1>11, <1>12, <1>13

(* A face that fits adds one whole group over vertices of its own.       *)
LEMMA GroupEmitted ==
    ASSUME SlotInv, GroupInv, IndicesResolve, NEW i \in DOMAIN todo,
           emit_face(i), Fits(base[i], counters.indices)
    PROVE  IndicesResolve' /\ \A k \in DOMAIN indices' : indices'[k] \in Nat
<1> USE NoneAssumption
<1> DEFINE b == base[i]
           start == counters.indices
           V == config.max_vertices
           N == config.max_indices
<1>1. PICK m \in Nat : start = 6 * m
  BY DEF GroupInv
<1>2. /\ b \in Nat /\ start \in Nat /\ V \in Nat /\ N \in Nat
      /\ b + 4 <= V /\ start + 6 <= N
  BY ConfigAssumption DEF GroupInv, SlotInv, emit_face, Fits
<1>3. vertices' = DrawnVertices(i) /\ indices' = DrawnIndices(i) /\ config' = config
  BY DEF emit_face
<1>4. /\ DOMAIN vertices' = DOMAIN vertices \cup (b..b + 3)
      /\ DOMAIN indices' = DOMAIN indices \cup (start..start + 5)
  BY <1>3 DEF DrawnVertices, DrawnIndices
<1>5. \A k \in DOMAIN indices : indices'[k] = indices[k]
  BY EmitWrites
<1>6. /\ Drawn' = Drawn \cup {m} /\ m \notin Drawn /\ m \in 0..N \div 6 - 1
      /\ \A k \in 0..5 : /\ 6 * m + k \in DOMAIN indices'
                         /\ indices'[6 * m + k] = b + Pattern[k + 1]
      /\ First(m)' = b
      /\ \A g \in Drawn : First(g)' = First(g) /\ 6 * g < 6 * m /\ First(g) \in Nat /\ g \in Nat
  BY <1>1, GroupAdded
<1>7. \A k \in start..start + 5 : k \in Nat /\ k \div 6 = m
  BY <1>1, <1>2, Sixths
<1>8. \A g \in Drawn : First(g) + 4 <= b \/ b + 4 <= First(g)
  <2> SUFFICES ASSUME NEW g \in Drawn
               PROVE  First(g) + 4 <= b \/ b + 4 <= First(g)
    OBVIOUS
  <2>1. First(g) + 0 \in DOMAIN vertices /\ First(g) + 3 \in DOMAIN vertices
    BY DEF IndicesResolve
  <2>2. \A k \in DOMAIN vertices : k < b \/ b + 4 <= k
    BY <1>2 DEF SlotInv
  <2> QED
    BY <1>2, <1>6, <2>1, <2>2
<1>9. /\ DOMAIN vertices' \subseteq 0..V - 1 /\ DOMAIN indices' \subseteq 0..N - 1
  BY <1>2, <1>4 DEF IndicesResolve
<1>10. \A k \in DOMAIN indices' : k \div 6 \in Drawn'
  BY <1>4, <1>6, <1>7 DEF IndicesResolve
<1>11. ASSUME NEW g \in Drawn'
       PROVE  \A k \in 0..5 : /\ 6 * g + k \in DOMAIN indices'
                              /\ indices'[6 * g + k] = First(g)' + Pattern[k + 1]
  <2>1. CASE g \in Drawn
    BY <1>4, <1>5, <1>6, <2>1 DEF IndicesResolve
  <2>2. CASE g = m
    BY <1>6, <2>2
  <2> QED
    BY <1>6, <1>11, <2>1, <2>2
<1>12. ASSUME NEW g \in Drawn'
       PROVE  \A k \in 0..3 : First(g)' + k \in DOMAIN vertices'
  <2>1. CASE g \in Drawn
    BY <1>4, <1>6, <2>1 DEF IndicesResolve
  <2>2. CASE g = m
    BY <1>2, <1>4, <1>6, <2>2
  <2> QED
    BY <1>6, <1>12, <2>1, <2>2
<1>13. ASSUME NEW g \in Drawn', NEW h \in Drawn' \ {g}
       PROVE  First(g)' + 4 <= First(h)' \/ First(h)' + 4 <= First(g)'
  <2>1. CASE g \in Drawn /\ h \in Drawn
    BY <1>6, <2>1 DEF IndicesResolve
  <2>2. CASE g = m /\ h \in Drawn
    BY <1>6, <1>8, <2>2
  <2>3. CASE g \in Drawn /\ h = m
    BY <1>6, <1>8, <2>3
  <2> QED
    BY <1>6, <1>13, <2>1, <2>2, <2>3
<1>14. \A k \in DOMAIN indices' : indices'[k] \in Nat
  <2>1. \A k \in start..start + 5 : k - start \in 0..5 /\ start + (k - start) = k
    BY <1>2
  <2>2. \A k \in 0..5 : b + Pattern[k + 1] \in Nat
    BY <1>2 DEF Pattern
  <2>3. \A k \in start..start + 5 : indices'[k] \in Nat
    BY <1>1, <1>6, <2>1, <2>2
  <2> QED
    BY <1>4, <1>5, <2>3 DEF GroupInv
<1>15. IndicesResolve'
  BY <1>3, <1>9, <1>10, <1>11, <1>12, <1>13 DEF IndicesResolve
<1> QED
  BY <1>14, <1>15

(* Every step keeps the groups whole.                                    *)
LEMMA GroupStep ==
    ASSUME SlotInv, GroupInv, IndicesResolve, [Next]_vars
    PROVE  GroupInv' /\ IndicesResolve'
<1> USE DEF GroupInv
<1>1. ASSUME NEW u \in Uploads, dispatch(u)
      PROVE  GroupInv' /\ IndicesResolve'
  <2>1. \E m \in Nat : counters'.indices = 6 * m
    BY <1>1, 0 \in Nat DEF dispatch
  <2> QED
    BY <1>1, <2>1 DEF dispatch, IndicesResolve, Drawn
<1>2. ASSUME NEW u \in Uploads, refuse(u)
      PROVE  GroupInv' /\ IndicesResolve'
  BY <1>2 DEF refuse, buffers, IndicesResolve, Drawn, First
<1>3. ASSUME NEW i \in DOMAIN todo, claim_vertices(i)
      PROVE  GroupInv' /\ IndicesResolve'
  <2>1. counters'.indices = counters.indices
    BY <1>3 DEF claim_vertices, SlotInv
  <2>2. UNCHANGED <<config, vertices, indices>>
    BY <1>3 DEF claim_vertices
  <2> QED
    BY <2>1, <2>2 DEF IndicesResolve, Drawn, First
<1>4. ASSUME NEW i \in DOMAIN todo, emit_face(i)
      PROVE  GroupInv' /\ IndicesResolve'
  <2>1. PICK m \in Nat : counters.indices = 6 * m
    OBVIOUS
  <2>2. counters'.indices = 6 * (m + 1) /\ m + 1 \in Nat
    BY <1>4, <2>1 DEF emit_face, SlotInv
  <2>3. (\E n \in Nat : counters'.indices = 6 * n) /\ config' = config
    BY <1>4, <2>2 DEF emit_face
  <2>4. CASE Fits(base[i], counters.indices)
    BY <1>4, <2>3, <2>4, GroupEmitted
  <2>5. CASE ~ Fits(base[i], counters.indices)
    BY <1>4, <2>3, <2>5 DEF emit_face, IndicesResolve, Drawn, First
  <2> QED
    BY <2>4, <2>5
<1>5. CASE read_back
  BY <1>5 DEF read_back, buffers, IndicesResolve, Drawn, First
<1>6. CASE map_failed
  <2>1. \E m \in Nat : counters'.indices = 6 * m
    BY <1>6, 0 \in Nat DEF map_failed
  <2> QED
    BY <1>6, <2>1 DEF map_failed, IndicesResolve, Drawn
<1>7. CASE UNCHANGED vars
  BY <1>7 DEF vars, buffers, IndicesResolve, Drawn, First
<1> QED
  BY <1>1, <1>2, <1>3, <1>4, <1>5, <1>6, <1>7 DEF Next, generate

(* Whatever the interleaving and the capacities, nothing is written past *)
(* the buffers and every index drawn refers to a whole quad of its own.  *)
THEOREM IndicesAlwaysResolve == Spec => []IndicesResolve
BY SlotInit, SlotStep, GroupInit, GroupStep, PTL DEF Spec

---------------------------------------------------------------------------
(* The geometry of a face.                                               *)
Points == [1..3 -> Int]

FaceSet == {Faces[k] : k \in 1..6}

AxisOf(face) ==
    IF face.normal[1] # 0 THEN 1 ELSE IF face.normal[2] # 0 THEN 2 ELSE 3

(* The four corners of a unit square across an axis.                     *)
Plate(axis, low) ==
    {p \in Points : \A a \in 1..3 : p[a] = low[a] \/ (a # axis /\ p[a] = low[a] + 1)}

(* A point is known by its three coordinates.                            *)
LEMMA SamePoint ==
    ASSUME NEW p \in Points, NEW q \in Points, p[1] = q[1], p[2] = q[2], p[3] = q[3]
    PROVE  p = q
<1>1. \A a \in 1..3 : p[a] = q[a]
    OBVIOUS
<1> QED  BY <1>1 DEF Points

(* Points are added coordinate by coordinate.                            *)
LEMMA PlusIsPoint ==
    ASSUME NEW p, NEW q, \A a \in 1..3 : p[a] \in Int /\ q[a] \in Int
    PROVE  Plus(p, q) \in Points /\ \A a \in 1..3 : Plus(p, q)[a] = p[a] + q[a]
BY DEF Plus, Points

(* Where a face looks, and along which edges it extends.                 *)
Shaped(face, a, b, c) ==
    /\ {a, b, c} = 1..3 /\ a # b /\ a # c /\ b # c /\ AxisOf(face) = a
    /\ face.normal \in Points /\ face.shift \in Points
    /\ face.right \in Points /\ face.up \in Points
    /\ \/ face.normal[a] = 1 /\ face.shift[a] = 1
       \/ face.normal[a] = -1 /\ face.shift[a] = 0
    /\ face.normal[b] = 0 /\ face.normal[c] = 0 /\ face.shift[b] = 0 /\ face.shift[c] = 0
    /\ face.right[a] = 0 /\ face.right[b] = 1 /\ face.right[c] = 0
    /\ face.up[a] = 0 /\ face.up[b] = 0 /\ face.up[c] = 1

(* The coordinates of the vectors the faces are made of.                 *)
LEMMA UnitVectors ==
    /\ {X, Y, Z, Minus(X), Minus(Y), Minus(Z), Origin} \subseteq Points
    /\ X[1] = 1 /\ X[2] = 0 /\ X[3] = 0
    /\ Y[1] = 0 /\ Y[2] = 1 /\ Y[3] = 0
    /\ Z[1] = 0 /\ Z[2] = 0 /\ Z[3] = 1
    /\ Minus(X)[1] = -1 /\ Minus(X)[2] = 0 /\ Minus(X)[3] = 0
    /\ Minus(Y)[1] = 0 /\ Minus(Y)[2] = -1 /\ Minus(Y)[3] = 0
    /\ Minus(Z)[1] = 0 /\ Minus(Z)[2] = 0 /\ Minus(Z)[3] = -1
    /\ Origin[1] = 0 /\ Origin[2] = 0 /\ Origin[3] = 0
<1>1. X \in Points /\ Y \in Points /\ Z \in Points /\ Origin \in Points
    BY DEF X, Y, Z, Origin, Points
<1>2. /\ X[1] = 1 /\ X[2] = 0 /\ X[3] = 0
      /\ Y[1] = 0 /\ Y[2] = 1 /\ Y[3] = 0
      /\ Z[1] = 0 /\ Z[2] = 0 /\ Z[3] = 1
      /\ Origin[1] = 0 /\ Origin[2] = 0 /\ Origin[3] = 0
    BY DEF X, Y, Z, Origin
<1> HIDE DEF X, Y, Z, Origin
<1>3. \A p \in Points : Minus(p) \in Points /\ \A a \in 1..3 : Minus(p)[a] = -p[a]
    BY DEF Minus, Points
<1>4. Minus(X) \in Points /\ Minus(Y) \in Points /\ Minus(Z) \in Points
    BY <1>1, <1>3
<1>5. /\ Minus(X)[1] = -1 /\ Minus(X)[2] = 0 /\ Minus(X)[3] = 0
      /\ Minus(Y)[1] = 0 /\ Minus(Y)[2] = -1 /\ Minus(Y)[3] = 0
      /\ Minus(Z)[1] = 0 /\ Minus(Z)[2] = 0 /\ Minus(Z)[3] = -1
    BY <1>1, <1>2, <1>3
<1> QED  BY <1>1, <1>2, <1>4, <1>5

(* The six faces and their vectors.                                      *)
LEMMA FaceShape ==
    ASSUME NEW face \in FaceSet
    PROVE  \E a, b, c \in 1..3 : Shaped(face, a, b, c)
<1> USE UnitVectors
<1>1. CASE face = Faces[1]
    <2>1. face.normal = X /\ face.shift = X /\ face.right = Y /\ face.up = Z
        BY <1>1 DEF Faces
    <2>2. Shaped(face, 1, 2, 3)
        BY <2>1 DEF Shaped, AxisOf
    <2> QED  BY <2>2
<1>2. CASE face = Faces[2]
    <2>1. face.normal = Minus(X) /\ face.shift = Origin /\ face.right = Z /\ face.up = Y
        BY <1>2 DEF Faces
    <2>2. Shaped(face, 1, 3, 2)
        BY <2>1 DEF Shaped, AxisOf
    <2> QED  BY <2>2
<1>3. CASE face = Faces[3]
    <2>1. face.normal = Y /\ face.shift = Y /\ face.right = X /\ face.up = Z
        BY <1>3 DEF Faces
    <2>2. Shaped(face, 2, 1, 3)
        BY <2>1 DEF Shaped, AxisOf
    <2> QED  BY <2>2
<1>4. CASE face = Faces[4]
    <2>1. face.normal = Minus(Y) /\ face.shift = Origin /\ face.right = Z /\ face.up = X
        BY <1>4 DEF Faces
    <2>2. Shaped(face, 2, 3, 1)
        BY <2>1 DEF Shaped, AxisOf
    <2> QED  BY <2>2
<1>5. CASE face = Faces[5]
    <2>1. face.normal = Z /\ face.shift = Z /\ face.right = X /\ face.up = Y
        BY <1>5 DEF Faces
    <2>2. Shaped(face, 3, 1, 2)
        BY <2>1 DEF Shaped, AxisOf
    <2> QED  BY <2>2
<1>6. CASE face = Faces[6]
    <2>1. face.normal = Minus(Z) /\ face.shift = Origin /\ face.right = Y /\ face.up = X
        BY <1>6 DEF Faces
    <2>2. Shaped(face, 3, 2, 1)
        BY <2>1 DEF Shaped, AxisOf
    <2> QED  BY <2>2
<1> QED  BY <1>1, <1>2, <1>3, <1>4, <1>5, <1>6 DEF FaceSet

(* A face is known by its normal, and there is one for every neighbour.  *)
Normals == {X, Y, Z, Minus(X), Minus(Y), Minus(Z)}

(* The normals of the six faces.                                         *)
LEMMA FaceNormals ==
    /\ Faces[1].normal = X /\ Faces[2].normal = Minus(X)
    /\ Faces[3].normal = Y /\ Faces[4].normal = Minus(Y)
    /\ Faces[5].normal = Z /\ Faces[6].normal = Minus(Z)
BY DEF Faces

(* No two faces have one normal.                                         *)
LEMMA FacesDiffer ==
    ASSUME NEW j \in 1..6, NEW k \in 1..6, Faces[j].normal = Faces[k].normal
    PROVE  j = k
<1> DEFINE n == Faces[j].normal
           m == Faces[k].normal
<1>1. n[1] = m[1] /\ n[2] = m[2] /\ n[3] = m[3]
    OBVIOUS
<1>2. /\ j = 1 => n[1] = 1 /\ n[2] = 0 /\ n[3] = 0
      /\ j = 2 => n[1] = -1 /\ n[2] = 0 /\ n[3] = 0
      /\ j = 3 => n[1] = 0 /\ n[2] = 1 /\ n[3] = 0
      /\ j = 4 => n[1] = 0 /\ n[2] = -1 /\ n[3] = 0
      /\ j = 5 => n[1] = 0 /\ n[2] = 0 /\ n[3] = 1
      /\ j = 6 => n[1] = 0 /\ n[2] = 0 /\ n[3] = -1
    BY FaceNormals, UnitVectors
<1>3. /\ k = 1 => m[1] = 1 /\ m[2] = 0 /\ m[3] = 0
      /\ k = 2 => m[1] = -1 /\ m[2] = 0 /\ m[3] = 0
      /\ k = 3 => m[1] = 0 /\ m[2] = 1 /\ m[3] = 0
      /\ k = 4 => m[1] = 0 /\ m[2] = -1 /\ m[3] = 0
      /\ k = 5 => m[1] = 0 /\ m[2] = 0 /\ m[3] = 1
      /\ k = 6 => m[1] = 0 /\ m[2] = 0 /\ m[3] = -1
    BY FaceNormals, UnitVectors
<1> HIDE DEF n, m
<1> QED  BY <1>1, <1>2, <1>3

(* There is a face for every normal.                                     *)
LEMMA FaceOfNormal ==
    ASSUME NEW d \in Normals
    PROVE  \E face \in FaceSet : face.normal = d
<1>1. \A k \in 1..6 : Faces[k] \in FaceSet
    BY DEF FaceSet
<1> QED  BY <1>1, FaceNormals DEF Normals

(* The normal of a face is one of the six.                               *)
LEMMA NormalsOfFaces ==
    ASSUME NEW face \in FaceSet
    PROVE  face.normal \in Normals
BY FaceNormals DEF Normals, FaceSet

(* The corners of a cell, coordinate by coordinate.                      *)
LEMMA CornersAre ==
    ASSUME NEW c \in Points
    PROVE  Corners(c) = {p \in Points : \A a \in 1..3 : p[a] = c[a] \/ p[a] = c[a] + 1}
<1> DEFINE Box == {p \in Points : \A a \in 1..3 : p[a] = c[a] \/ p[a] = c[a] + 1}
<1>1. \A a \in 1..3 : c[a] \in Int
    BY DEF Points
<1>2. ASSUME NEW d \in (0..1) \X (0..1) \X (0..1)
      PROVE  Plus(c, d) \in Box
    <2>1. d[1] \in 0..1 /\ d[2] \in 0..1 /\ d[3] \in 0..1
        OBVIOUS
    <2>2. \A a \in 1..3 : d[a] \in 0..1
        BY <2>1
    <2>3. Plus(c, d) \in Points /\ \A a \in 1..3 : Plus(c, d)[a] = c[a] + d[a]
        BY <1>1, <2>2, PlusIsPoint
    <2> QED  BY <1>1, <2>2, <2>3
<1>3. ASSUME NEW p \in Box
      PROVE  \E d \in (0..1) \X (0..1) \X (0..1) : p = Plus(c, d)
    <2> DEFINE d == <<p[1] - c[1], p[2] - c[2], p[3] - c[3]>>
    <2>1. \A a \in 1..3 : p[a] \in Int /\ p[a] - c[a] \in 0..1
        BY <1>1 DEF Points
    <2>2. d \in (0..1) \X (0..1) \X (0..1)
        BY <2>1
    <2>3. d[1] = p[1] - c[1] /\ d[2] = p[2] - c[2] /\ d[3] = p[3] - c[3]
        OBVIOUS
    <2> HIDE DEF d
    <2>4. \A a \in 1..3 : d[a] \in Int /\ c[a] + d[a] = p[a]
        BY <1>1, <2>1, <2>3
    <2>5. Plus(c, d) \in Points /\ \A a \in 1..3 : Plus(c, d)[a] = p[a]
        BY <1>1, <2>4, PlusIsPoint
    <2>6. p = Plus(c, d)
        BY <2>5, SamePoint
    <2> QED  BY <2>2, <2>6
<1> QED  BY <1>2, <1>3 DEF Corners

(* A cell and its neighbour have in common the plate between them.       *)
LEMMA CommonPlate ==
    ASSUME NEW c \in Points, NEW face \in FaceSet
    PROVE  /\ Plus(c, face.normal) \in Points /\ Plus(c, face.shift) \in Points
           /\ Corners(c) \cap Corners(Plus(c, face.normal))
                = Plate(AxisOf(face), Plus(c, face.shift))
<1>1. PICK a, b, d \in 1..3 : Shaped(face, a, b, d)
    BY FaceShape
<1> DEFINE n == Plus(c, face.normal)
           low == Plus(c, face.shift)
<1>2. /\ n \in Points /\ n[a] = c[a] + face.normal[a] /\ n[b] = c[b] /\ n[d] = c[d]
      /\ low \in Points /\ low[a] = c[a] + face.shift[a] /\ low[b] = c[b] /\ low[d] = c[d]
      /\ c[a] \in Int /\ c[b] \in Int /\ c[d] \in Int
    <2>1. \A k \in 1..3 : c[k] \in Int /\ face.normal[k] \in Int /\ face.shift[k] \in Int
        BY <1>1 DEF Points, Shaped
    <2>2. n \in Points /\ \A k \in 1..3 : n[k] = c[k] + face.normal[k]
        BY <2>1, PlusIsPoint
    <2>3. low \in Points /\ \A k \in 1..3 : low[k] = c[k] + face.shift[k]
        BY <2>1, PlusIsPoint
    <2> QED  BY <1>1, <2>1, <2>2, <2>3 DEF Shaped
<1> HIDE DEF n, low
<1>3. \A p \in Points : (\A k \in 1..3 : p[k] = c[k] \/ p[k] = c[k] + 1) <=>
          /\ p[a] = c[a] \/ p[a] = c[a] + 1
          /\ p[b] = c[b] \/ p[b] = c[b] + 1
          /\ p[d] = c[d] \/ p[d] = c[d] + 1
    BY <1>1 DEF Shaped
<1>4. \A p \in Points : (\A k \in 1..3 : p[k] = n[k] \/ p[k] = n[k] + 1) <=>
          /\ p[a] = n[a] \/ p[a] = n[a] + 1
          /\ p[b] = n[b] \/ p[b] = n[b] + 1
          /\ p[d] = n[d] \/ p[d] = n[d] + 1
    BY <1>1 DEF Shaped
<1>5. \A p \in Points :
          (\A k \in 1..3 : p[k] = low[k] \/ (k # AxisOf(face) /\ p[k] = low[k] + 1)) <=>
          /\ p[a] = low[a]
          /\ p[b] = low[b] \/ p[b] = low[b] + 1
          /\ p[d] = low[d] \/ p[d] = low[d] + 1
    BY <1>1 DEF Shaped
<1>6. \A p \in Points : p[a] \in Int
    BY <1>1 DEF Points
<1>7. ASSUME NEW p \in Points
      PROVE  p \in Corners(c) /\ p \in Corners(n) <=> p \in Plate(AxisOf(face), low)
    <2>1. p \in Corners(c) <=> \A k \in 1..3 : p[k] = c[k] \/ p[k] = c[k] + 1
        BY CornersAre
    <2>2. p \in Corners(n) <=> \A k \in 1..3 : p[k] = n[k] \/ p[k] = n[k] + 1
        BY CornersAre, <1>2
    <2>3. p \in Plate(AxisOf(face), low) <=>
              \A k \in 1..3 : p[k] = low[k] \/ (k # AxisOf(face) /\ p[k] = low[k] + 1)
        BY DEF Plate
    <2>4. (p[a] = c[a] \/ p[a] = c[a] + 1) /\ (p[a] = n[a] \/ p[a] = n[a] + 1) <=> p[a] = low[a]
        <3>1. \/ n[a] = c[a] + 1 /\ low[a] = c[a] + 1
              \/ n[a] = c[a] - 1 /\ low[a] = c[a]
            BY <1>1, <1>2 DEF Shaped
        <3> QED  BY <1>2, <1>6, <3>1
    <2> QED  BY <1>2, <1>3, <1>4, <1>5, <2>1, <2>2, <2>3, <2>4
<1>8. Corners(c) \subseteq Points /\ Plate(AxisOf(face), low) \subseteq Points
    BY CornersAre DEF Plate
<1>9. Corners(c) \cap Corners(n) = Plate(AxisOf(face), low)
    BY <1>7, <1>8
<1> QED  BY <1>2, <1>9 DEF n, low

(* Different plates are different sets of corners.                       *)
LEMMA PlatesDiffer ==
    ASSUME NEW a \in 1..3, NEW b \in 1..3, NEW p \in Points, NEW q \in Points,
           Plate(a, p) = Plate(b, q)
    PROVE  a = b /\ p = q
<1>1. p \in Plate(a, p) /\ q \in Plate(b, q)
    BY DEF Plate
<1>2. \A k \in 1..3 : p[k] \in Int /\ q[k] \in Int
    BY DEF Points
<1>3. \A k \in 1..3 : p[k] >= q[k] /\ q[k] >= p[k]
    BY <1>1, <1>2 DEF Plate
<1>4. p = q
    <2>1. p[1] = q[1] /\ p[2] = q[2] /\ p[3] = q[3]
        BY <1>2, <1>3
    <2> QED  BY <2>1, SamePoint
<1>5. ASSUME a # b
      PROVE  FALSE
    <2> DEFINE r == [p EXCEPT ![b] = p[b] + 1]
    <2>1. r \in Points /\ r[b] = p[b] + 1 /\ \A k \in 1..3 : k # b => r[k] = p[k]
        BY <1>2 DEF Points
    <2>2. r \in Plate(a, p)
        BY <1>5, <2>1 DEF Plate
    <2>3. r \notin Plate(b, q)
        BY <1>2, <1>4, <2>1 DEF Plate
    <2> QED  BY <2>2, <2>3
<1> QED  BY <1>4, <1>5

(* The corners of a quad are a plate.                                    *)
LEMMA QuadPlate ==
    ASSUME NEW o \in Points, NEW face \in FaceSet
    PROVE  {o, Plus(o, face.right), Plus(Plus(o, face.right), face.up), Plus(o, face.up)}
             = Plate(AxisOf(face), o)
<1>1. PICK a, b, d \in 1..3 : Shaped(face, a, b, d)
    BY FaceShape
<1> DEFINE p == Plus(o, face.right)
           q == Plus(p, face.up)
           r == Plus(o, face.up)
<1>2. \A k \in 1..3 : o[k] \in Int /\ face.right[k] \in Int /\ face.up[k] \in Int
    BY <1>1 DEF Points, Shaped
<1>3. p \in Points /\ \A k \in 1..3 : p[k] = o[k] + face.right[k]
    BY <1>2, PlusIsPoint
<1>4. q \in Points /\ \A k \in 1..3 : q[k] = p[k] + face.up[k]
    <2>1. \A k \in 1..3 : p[k] \in Int
        BY <1>3 DEF Points
    <2> HIDE DEF p
    <2> QED  BY <1>2, <2>1, PlusIsPoint
<1>5. r \in Points /\ \A k \in 1..3 : r[k] = o[k] + face.up[k]
    BY <1>2, PlusIsPoint
<1> HIDE DEF p, q, r
<1>6. /\ p[a] = o[a] /\ p[b] = o[b] + 1 /\ p[d] = o[d]
      /\ q[a] = o[a] /\ q[b] = o[b] + 1 /\ q[d] = o[d] + 1
      /\ r[a] = o[a] /\ r[b] = o[b] /\ r[d] = o[d] + 1
    BY <1>1, <1>2, <1>3, <1>4, <1>5 DEF Shaped
<1>7. \A x \in Points : x \in Plate(AxisOf(face), o) <=>
          /\ x[a] = o[a]
          /\ x[b] = o[b] \/ x[b] = o[b] + 1
          /\ x[d] = o[d] \/ x[d] = o[d] + 1
    BY <1>1 DEF Plate, Shaped
<1>8. {o, p, q, r} \subseteq Plate(AxisOf(face), o)
    BY <1>2, <1>3, <1>4, <1>5, <1>6, <1>7
<1>9. ASSUME NEW x \in Points, NEW y \in Points, x[a] = y[a], x[b] = y[b], x[d] = y[d]
      PROVE  x = y
    <2>1. x[1] = y[1] /\ x[2] = y[2] /\ x[3] = y[3]
        BY <1>1, <1>9 DEF Shaped
    <2> QED  BY <2>1, SamePoint
<1>10. ASSUME NEW x \in Plate(AxisOf(face), o)
       PROVE  x \in {o, p, q, r}
    <2>1. x \in Points
        BY DEF Plate
    <2> QED  BY <1>3, <1>4, <1>5, <1>6, <1>7, <1>9, <2>1
<1> QED  BY <1>8, <1>10 DEF p, q, r

---------------------------------------------------------------------------
(* Numbers of voxels and their coordinates.                              *)
LEMMA Quotient ==
    ASSUME NEW a \in Nat, NEW b \in Nat \ {0}
    PROVE  a \div b \in Nat /\ a % b \in 0..b - 1 /\ a = b * (a \div b) + (a % b)
OBVIOUS

(* A factor is as small as its product.                                  *)
LEMMA QuotientBelow ==
    ASSUME NEW b \in Nat \ {0}, NEW q \in Nat, NEW m \in Nat, b * q < b * m
    PROVE  q < m
<1>1. ASSUME m <= q
      PROVE  b * m <= b * q
    BY <1>1
<1> QED  BY <1>1

(* There is one way to divide with a remainder.                          *)
LEMMA QuotientIs ==
    ASSUME NEW a \in Nat, NEW b \in Nat \ {0}
    PROVE  \A q \in Nat : \A r \in 0..b - 1 : a = b * q + r => a \div b = q /\ a % b = r
<1> DEFINE p == a \div b
           s == a % b
<1>1. p \in Nat /\ s \in 0..b - 1 /\ a = b * p + s
    BY Quotient
<1> HIDE DEF p, s
<1>2. ASSUME NEW q \in Nat, NEW r \in 0..b - 1, a = b * q + r
      PROVE  p = q /\ s = r
    <2>1. b * q + b = b * (q + 1) /\ b * p + b = b * (p + 1)
        BY <1>1
    <2>2. b * p < b * (q + 1) /\ b * q < b * (p + 1)
        BY <1>1, <1>2, <2>1
    <2>3. p < q + 1 /\ q < p + 1
        BY <1>1, <2>2, QuotientBelow
    <2>4. p = q
        BY <1>1, <2>3
    <2> QED  BY <1>1, <1>2, <2>4
<1> QED  BY <1>2 DEF p, s

Box(grid) == (0..grid[1] - 1) \X (0..grid[2] - 1) \X (0..grid[3] - 1)

(* The points of a grid, axis by axis.                                   *)
LEMMA BoxPoints ==
    ASSUME NEW grid \in Grids, NEW c \in Points
    PROVE  c \in Box(grid) <=> \A axis \in 1..3 : c[axis] \in 0..grid[axis] - 1
<1>1. c \in Box(grid) => \A axis \in 1..3 : c[axis] \in 0..grid[axis] - 1
    BY DEF Box
<1>2. ASSUME \A axis \in 1..3 : c[axis] \in 0..grid[axis] - 1
      PROVE  c \in Box(grid)
    <2> DEFINE d == <<c[1], c[2], c[3]>>
    <2>1. d \in Box(grid)
        BY <1>2 DEF Box
    <2>2. d \in Points /\ d[1] = c[1] /\ d[2] = c[2] /\ d[3] = c[3]
        BY DEF Points
    <2> HIDE DEF d
    <2>3. d = c
        BY <2>2, SamePoint
    <2> QED  BY <2>1, <2>3
<1> QED  BY <1>1, <1>2

(* The coordinates of a grid are points.                                 *)
LEMMA BoxIsPoints == ASSUME NEW grid \in Grids PROVE Box(grid) \subseteq Points
BY DEF Box, Points, Grids

(* The coordinate of an index is in the grid and leads back to it.       *)
LEMMA CoordOfIndex ==
    ASSUME NEW grid \in Grids, NEW idx \in 0..Volume(grid) - 1
    PROVE  /\ idx_to_coord(grid, idx) \in Box(grid)
           /\ Flat(grid, idx_to_coord(grid, idx)) = idx
<1>1. grid[1] \in Nat \ {0} /\ grid[2] \in Nat \ {0} /\ grid[3] \in Nat \ {0}
    BY DEF Grids
<1> DEFINE layer == grid[1] * grid[2]
           z == idx \div layer
           r == idx % layer
           y == r \div grid[1]
           x == r % grid[1]
           c == idx_to_coord(grid, idx)
<1>2. layer \in Nat \ {0} /\ idx \in Nat /\ idx < layer * grid[3]
    BY <1>1 DEF Volume
<1>3. c = <<x, y, z>>
    BY DEF idx_to_coord
<1>4. layer = grid[1] * grid[2]
    OBVIOUS
<1> HIDE DEF layer
<1>5. z \in Nat /\ r \in 0..layer - 1 /\ idx = layer * z + r
    BY <1>2, Quotient
<1> HIDE DEF z, r
<1>6. y \in Nat /\ x \in 0..grid[1] - 1 /\ r = grid[1] * y + x
    <2>1. r \in Nat
        BY <1>2, <1>5
    <2> QED  BY <1>1, <2>1, Quotient
<1> HIDE DEF x, y, c
<1>7. z < grid[3]
    <2>1. layer * z < layer * grid[3]
        BY <1>1, <1>2, <1>5
    <2> QED  BY <1>1, <1>2, <1>5, <2>1, QuotientBelow
<1>8. y < grid[2]
    <2>1. grid[1] * y < grid[1] * grid[2]
        BY <1>1, <1>4, <1>5, <1>6
    <2> QED  BY <1>1, <1>6, <2>1, QuotientBelow
<1>9. c \in Box(grid)
    BY <1>1, <1>3, <1>5, <1>6, <1>7, <1>8 DEF Box
<1>10. Flat(grid, c) = idx
    <2>1. Flat(grid, c) = z * grid[1] * grid[2] + y * grid[1] + x
        BY <1>3 DEF Flat
    <2>2. z * grid[1] * grid[2] = layer * z
        BY <1>1, <1>4, <1>5
    <2>3. y * grid[1] = grid[1] * y
        BY <1>1, <1>6
    <2> QED  BY <1>1, <1>2, <1>5, <1>6, <2>1, <2>2, <2>3
<1> QED  BY <1>9, <1>10 DEF c

(* The index of a coordinate is in range and leads back to it.           *)
LEMMA IndexOfCoord ==
    ASSUME NEW grid \in Grids, NEW c \in Box(grid)
    PROVE  /\ Flat(grid, c) \in 0..Volume(grid) - 1
           /\ idx_to_coord(grid, Flat(grid, c)) = c
<1>1. grid[1] \in Nat \ {0} /\ grid[2] \in Nat \ {0} /\ grid[3] \in Nat \ {0}
    BY DEF Grids
<1>2. c[1] \in 0..grid[1] - 1 /\ c[2] \in 0..grid[2] - 1 /\ c[3] \in 0..grid[3] - 1
    BY DEF Box
<1> DEFINE layer == grid[1] * grid[2]
           r == grid[1] * c[2] + c[1]
           idx == Flat(grid, c)
<1>3. layer \in Nat \ {0} /\ layer = grid[1] * grid[2]
    BY <1>1
<1>4. Volume(grid) = layer * grid[3]
    BY DEF Volume
<1> HIDE DEF layer
<1>5. r \in 0..layer - 1
    <2>1. c[2] + 1 <= grid[2]
        BY <1>1, <1>2
    <2>2. grid[1] * (c[2] + 1) <= grid[1] * grid[2]
        BY <1>1, <1>2, <2>1
    <2>3. grid[1] * (c[2] + 1) = grid[1] * c[2] + grid[1]
        BY <1>1, <1>2
    <2>4. grid[1] * c[2] \in Nat
        BY <1>1, <1>2
    <2> QED  BY <1>1, <1>2, <1>3, <2>2, <2>3, <2>4
<1>6. idx = layer * c[3] + r
    <2>1. idx = c[3] * grid[1] * grid[2] + c[2] * grid[1] + c[1]
        BY DEF Flat
    <2>2. c[3] * grid[1] * grid[2] = layer * c[3] /\ c[2] * grid[1] = grid[1] * c[2]
        BY <1>1, <1>2, <1>3
    <2>3. layer * c[3] \in Nat /\ grid[1] * c[2] \in Nat
        BY <1>1, <1>2, <1>3
    <2> QED  BY <1>2, <2>1, <2>2, <2>3
<1>7. r = grid[1] * c[2] + c[1]
    OBVIOUS
<1> HIDE DEF r, idx
<1>8. idx \div layer = c[3] /\ idx % layer = r
    <2>1. c[3] \in Nat
        BY <1>1, <1>2
    <2>2. layer \in Nat \ {0}
        BY <1>3
    <2>3. \A q \in Nat : \A k \in 0..layer - 1 :
              idx = layer * q + k => idx \div layer = q /\ idx % layer = k
        <3>1. idx \in Nat
            BY <1>5, <1>6, <2>1, <2>2
        <3> QED  BY <2>2, <3>1, QuotientIs
    <2> QED  BY <1>5, <1>6, <2>1, <2>3, Zenon
<1>9. r \div grid[1] = c[2] /\ r % grid[1] = c[1]
    <2>1. c[2] \in Nat
        BY <1>1, <1>2
    <2>2. grid[1] \in Nat \ {0} /\ c[1] \in 0..grid[1] - 1
        BY <1>1, <1>2
    <2>3. \A q \in Nat : \A k \in 0..grid[1] - 1 :
              r = grid[1] * q + k => r \div grid[1] = q /\ r % grid[1] = k
        <3>1. r \in Nat
            BY <1>5, <1>3
        <3> QED  BY <2>2, <3>1, QuotientIs
    <2> QED  BY <1>7, <2>1, <2>2, <2>3, Zenon
<1>10. idx_to_coord(grid, idx) = <<c[1], c[2], c[3]>>
    BY <1>3, <1>8, <1>9 DEF idx_to_coord
<1>11. c = <<c[1], c[2], c[3]>>
    BY DEF Box
<1>12. idx \in 0..Volume(grid) - 1
    <2>1. layer * (c[3] + 1) <= layer * grid[3]
        BY <1>1, <1>2, <1>3
    <2>2. layer * (c[3] + 1) = layer * c[3] + layer /\ layer * c[3] \in Nat
        BY <1>2, <1>3
    <2> QED  BY <1>1, <1>3, <1>4, <1>5, <1>6, <2>1, <2>2
<1> QED  BY <1>10, <1>11, <1>12 DEF idx

---------------------------------------------------------------------------
(* The sides an upload shows.                                            *)
Loaded(u) == u.grid_size \in Grids /\ u.voxels \in [0..Volume(u.grid_size) - 1 -> Nat]

Cell(u, idx) == idx_to_coord(u.grid_size, idx)

Bare(u, idx, face) ==
    ~ is_solid(u, coord_to_flat(u.grid_size, Plus(Cell(u, idx), face.normal)))

Sides(u) ==
    {s \in (0..Volume(u.grid_size) - 1) \X FaceSet :
        u.voxels[s[1]] # 0 /\ Bare(u, s[1], s[2])}

Panel(u, s) ==
    [corners |-> Plate(AxisOf(s[2]), Plus(Cell(u, s[1]), s[2].shift)),
     material |-> u.voxels[s[1]]]

(* What the kernel takes for solid has a material.                       *)
LEMMA SolidMaterial ==
    ASSUME NEW u, Loaded(u), NEW c \in Points
    PROVE  is_solid(u, coord_to_flat(u.grid_size, c)) <=> Material(u, c) # 0
<1> DEFINE grid == u.grid_size
           inside == \A axis \in 1..3 : c[axis] \in 0..grid[axis] - 1
<1>1. grid \in Grids /\ grid[1] \in Nat \ {0} /\ grid[2] \in Nat \ {0} /\ grid[3] \in Nat \ {0}
    BY DEF Loaded, Grids
<1>2. CASE inside
    <2>1. Flat(grid, c) \in 0..Volume(grid) - 1
        BY <1>1, <1>2, BoxPoints, IndexOfCoord
    <2>2. c[1] \in Nat /\ c[2] \in Nat /\ c[3] \in Nat
        BY <1>1, <1>2
    <2>3. c[1] + c[2] * grid[1] + c[3] * grid[1] * grid[2] = Flat(grid, c)
        <3> DEFINE a == c[2] * grid[1]
                   b == c[3] * grid[1] * grid[2]
        <3>1. a \in Nat /\ b \in Nat
            BY <1>1, <2>2
        <3>2. Flat(grid, c) = b + a + c[1]
            BY DEF Flat
        <3> HIDE DEF a, b
        <3>3. c[1] + a + b = Flat(grid, c)
            BY <2>2, <3>1, <3>2
        <3> QED  BY <3>3 DEF a, b
    <2>4. Material(u, c) = u.voxels[Flat(grid, c)]
        BY <1>2, <2>3 DEF Material
    <2>5. coord_to_flat(grid, c) = Flat(grid, c)
        BY <1>2 DEF coord_to_flat
    <2>6. Flat(grid, c) < Volume(grid)
        <3>1. Volume(grid) \in Nat
            BY <1>1 DEF Volume
        <3> QED  BY <2>1, <3>1
    <2> QED  BY <2>4, <2>5, <2>6 DEF is_solid
<1>3. CASE ~ inside
    <2>1. coord_to_flat(grid, c) = Volume(grid) /\ Material(u, c) = 0
        BY <1>3 DEF coord_to_flat, Material
    <2>2. Volume(grid) \in Nat
        BY <1>1 DEF Volume
    <2> QED  BY <2>1, <2>2 DEF is_solid
<1> QED  BY <1>2, <1>3

(* The cell of an index has the material of its voxel.                   *)
LEMMA CellIsSolid ==
    ASSUME NEW u, Loaded(u), NEW idx \in 0..Volume(u.grid_size) - 1
    PROVE  /\ Cell(u, idx) \in Points /\ Cell(u, idx) \in Cells(u)
           /\ Material(u, Cell(u, idx)) = u.voxels[idx]
<1> DEFINE grid == u.grid_size
           c == Cell(u, idx)
<1>1. grid \in Grids /\ grid[1] \in Nat \ {0} /\ grid[2] \in Nat \ {0} /\ grid[3] \in Nat \ {0}
    BY DEF Loaded, Grids
<1>2. c \in Box(grid) /\ Flat(grid, c) = idx
    BY <1>1, CoordOfIndex DEF Cell
<1>3. c \in Points
    BY <1>1, <1>2, BoxIsPoints
<1> HIDE DEF c
<1>4. \A axis \in 1..3 : c[axis] \in 0..grid[axis] - 1
    BY <1>1, <1>2, <1>3, BoxPoints
<1>5. c[1] \in Nat /\ c[2] \in Nat /\ c[3] \in Nat
    BY <1>1, <1>4
<1>6. c[1] + c[2] * grid[1] + c[3] * grid[1] * grid[2] = idx
    <2> DEFINE a == c[2] * grid[1]
               b == c[3] * grid[1] * grid[2]
    <2>1. a \in Nat /\ b \in Nat
        BY <1>1, <1>5
    <2>2. idx = b + a + c[1]
        BY <1>2 DEF Flat
    <2> HIDE DEF a, b
    <2>3. c[1] + a + b = idx
        BY <1>5, <2>1, <2>2
    <2> QED  BY <2>3 DEF a, b
<1>7. Material(u, c) = u.voxels[idx]
    BY <1>4, <1>6 DEF Material
<1>8. c \in Cells(u)
    BY <1>2 DEF Cells, Box
<1> QED  BY <1>3, <1>7, <1>8 DEF c

(* A face looks along its axis, up or down.                              *)
LEMMA FaceAxis ==
    ASSUME NEW face \in FaceSet
    PROVE  /\ AxisOf(face) \in 1..3 /\ face.normal \in Points /\ face.shift \in Points
           /\ \A k \in 1..3 \ {AxisOf(face)} : face.normal[k] = 0 /\ face.shift[k] = 0
           /\ \/ face.normal[AxisOf(face)] = 1 /\ face.shift[AxisOf(face)] = 1
              \/ face.normal[AxisOf(face)] = -1 /\ face.shift[AxisOf(face)] = 0
<1>1. PICK a, b, c \in 1..3 : Shaped(face, a, b, c)
    BY FaceShape
<1>2. AxisOf(face) = a
    BY <1>1 DEF Shaped
<1>3. \A k \in 1..3 \ {a} : k = b \/ k = c
    BY <1>1 DEF Shaped
<1> QED  BY <1>1, <1>2, <1>3 DEF Shaped

(* A face is known by its normal.                                        *)
LEMMA FaceKnown ==
    ASSUME NEW f \in FaceSet, NEW g \in FaceSet, f.normal = g.normal
    PROVE  f = g
<1>1. PICK j \in 1..6 : f = Faces[j]
    BY DEF FaceSet
<1>2. PICK k \in 1..6 : g = Faces[k]
    BY DEF FaceSet
<1>3. j = k
    BY <1>1, <1>2, FacesDiffer
<1> QED  BY <1>1, <1>2, <1>3

(* A side lies between a cell with a material and one without.           *)
LEMMA SideBetween ==
    ASSUME NEW u, Loaded(u), NEW s \in Sides(u)
    PROVE  /\ Cell(u, s[1]) \in Points /\ Cell(u, s[1]) \in Cells(u) /\ s[2] \in FaceSet
           /\ Material(u, Cell(u, s[1])) = u.voxels[s[1]] /\ u.voxels[s[1]] # 0
           /\ Plus(Cell(u, s[1]), s[2].normal) \in Points
           /\ Material(u, Plus(Cell(u, s[1]), s[2].normal)) = 0
<1>1. /\ s[1] \in 0..Volume(u.grid_size) - 1 /\ s[2] \in FaceSet
      /\ u.voxels[s[1]] # 0 /\ Bare(u, s[1], s[2])
    BY DEF Sides
<1>2. /\ Cell(u, s[1]) \in Points /\ Cell(u, s[1]) \in Cells(u)
      /\ Material(u, Cell(u, s[1])) = u.voxels[s[1]]
    BY <1>1, CellIsSolid
<1>3. Plus(Cell(u, s[1]), s[2].normal) \in Points
    BY <1>1, <1>2, CommonPlate
<1>4. Material(u, Plus(Cell(u, s[1]), s[2].normal)) = 0
    BY <1>1, <1>3, SolidMaterial DEF Bare
<1> QED  BY <1>1, <1>2, <1>3, <1>4

(* If two sides lie in one plate, either they look the same way or the   *)
(* cell of one is what the other looks at.                               *)
LEMMA SamePlate ==
    ASSUME NEW c \in Points, NEW d \in Points, NEW f \in FaceSet, NEW g \in FaceSet,
           AxisOf(f) = AxisOf(g), Plus(c, f.shift) = Plus(d, g.shift)
    PROVE  \/ c = d /\ f = g
           \/ d = Plus(c, f.normal)
           \/ c = Plus(d, g.normal)
<1> DEFINE a == AxisOf(f)
<1>1. /\ a \in 1..3 /\ f.normal \in Points /\ f.shift \in Points
      /\ \A k \in 1..3 \ {a} : f.normal[k] = 0 /\ f.shift[k] = 0
      /\ \/ f.normal[a] = 1 /\ f.shift[a] = 1
         \/ f.normal[a] = -1 /\ f.shift[a] = 0
    BY FaceAxis
<1>2. /\ g.normal \in Points /\ g.shift \in Points
      /\ \A k \in 1..3 \ {a} : g.normal[k] = 0 /\ g.shift[k] = 0
      /\ \/ g.normal[a] = 1 /\ g.shift[a] = 1
         \/ g.normal[a] = -1 /\ g.shift[a] = 0
    BY FaceAxis
<1>3. \A k \in 1..3 : /\ c[k] \in Int /\ d[k] \in Int
                      /\ f.normal[k] \in Int /\ f.shift[k] \in Int
                      /\ g.normal[k] \in Int /\ g.shift[k] \in Int
    BY <1>1, <1>2 DEF Points
<1> HIDE DEF a
<1>4. \A k \in 1..3 : c[k] + f.shift[k] = d[k] + g.shift[k]
    <2>1. /\ \A k \in 1..3 : Plus(c, f.shift)[k] = c[k] + f.shift[k]
          /\ \A k \in 1..3 : Plus(d, g.shift)[k] = d[k] + g.shift[k]
        BY <1>3, PlusIsPoint
    <2> QED  BY <2>1
<1>5. \A k \in 1..3 \ {a} : c[k] = d[k]
    BY <1>1, <1>2, <1>3, <1>4
<1>6. CASE f.shift[a] = g.shift[a]
    <2>1. \A k \in 1..3 : c[k] = d[k]
        BY <1>1, <1>3, <1>4, <1>5, <1>6
    <2>2. \A k \in 1..3 : f.normal[k] = g.normal[k]
        BY <1>1, <1>2, <1>6
    <2>3. c = d /\ f.normal = g.normal
        BY <1>1, <1>2, <2>1, <2>2, SamePoint
    <2> QED  BY <2>3, FaceKnown
<1>7. CASE f.shift[a] = 1 /\ g.shift[a] = 0
    <2>1. d[a] = c[a] + f.normal[a]
        BY <1>1, <1>3, <1>4, <1>7
    <2>2. \A k \in 1..3 : d[k] = c[k] + f.normal[k]
        BY <1>1, <1>3, <1>5, <2>1
    <2>3. /\ Plus(c, f.normal) \in Points
          /\ \A k \in 1..3 : Plus(c, f.normal)[k] = c[k] + f.normal[k]
        BY <1>3, PlusIsPoint
    <2>4. d = Plus(c, f.normal)
        <3>1. \A k \in 1..3 : d[k] = Plus(c, f.normal)[k]
            BY <2>2, <2>3
        <3> QED  BY <2>3, <3>1, SamePoint
    <2> QED  BY <2>4
<1>8. CASE f.shift[a] = 0 /\ g.shift[a] = 1
    <2>1. c[a] = d[a] + g.normal[a]
        BY <1>1, <1>2, <1>3, <1>4, <1>8
    <2>2. \A k \in 1..3 : c[k] = d[k] + g.normal[k]
        BY <1>1, <1>2, <1>3, <1>5, <2>1
    <2>3. /\ Plus(d, g.normal) \in Points
          /\ \A k \in 1..3 : Plus(d, g.normal)[k] = d[k] + g.normal[k]
        BY <1>3, PlusIsPoint
    <2>4. c = Plus(d, g.normal)
        <3>1. \A k \in 1..3 : c[k] = Plus(d, g.normal)[k]
            BY <2>2, <2>3
        <3> QED  BY <2>3, <3>1, SamePoint
    <2> QED  BY <2>4
<1> QED  BY <1>1, <1>2, <1>6, <1>7, <1>8

(* No two sides are drawn alike.                                         *)
LEMMA PanelsDiffer ==
    ASSUME NEW u, Loaded(u), NEW s \in Sides(u), NEW t \in Sides(u), Panel(u, s) = Panel(u, t)
    PROVE  s = t
<1> DEFINE c == Cell(u, s[1])
           d == Cell(u, t[1])
           f == s[2]
           g == t[2]
<1>1. /\ c \in Points /\ f \in FaceSet /\ Material(u, c) # 0
      /\ Material(u, Plus(c, f.normal)) = 0
    BY SideBetween
<1>2. /\ d \in Points /\ g \in FaceSet /\ Material(u, d) # 0
      /\ Material(u, Plus(d, g.normal)) = 0
    BY SideBetween
<1>3. Plate(AxisOf(f), Plus(c, f.shift)) = Plate(AxisOf(g), Plus(d, g.shift))
    BY DEF Panel
<1>4. /\ AxisOf(f) \in 1..3 /\ AxisOf(g) \in 1..3
      /\ Plus(c, f.shift) \in Points /\ Plus(d, g.shift) \in Points
    BY <1>1, <1>2, FaceAxis, CommonPlate
<1> HIDE DEF c, d, f, g
<1>5. AxisOf(f) = AxisOf(g) /\ Plus(c, f.shift) = Plus(d, g.shift)
    BY <1>3, <1>4, PlatesDiffer
<1>6. c = d /\ f = g
    BY <1>1, <1>2, <1>5, SamePlate
<1>7. s[1] = t[1]
    <2>1. s[1] \in 0..Volume(u.grid_size) - 1 /\ t[1] \in 0..Volume(u.grid_size) - 1
        BY DEF Sides
    <2>2. u.grid_size \in Grids
        BY DEF Loaded
    <2>3. Flat(u.grid_size, c) = s[1] /\ Flat(u.grid_size, d) = t[1]
        BY <2>1, <2>2, CoordOfIndex DEF c, d, Cell
    <2> QED  BY <1>6, <2>3
<1>8. s = <<s[1], s[2]>> /\ t = <<t[1], t[2]>>
    BY DEF Sides
<1> QED  BY <1>6, <1>7, <1>8 DEF f, g

(* The sides are drawn as the surface.                                   *)
LEMMA PanelOnSurface ==
    ASSUME NEW u, Loaded(u), NEW s \in Sides(u)
    PROVE  Panel(u, s) \in Surface(u)
<1> DEFINE c == Cell(u, s[1])
           n == Plus(c, s[2].normal)
<1>1. /\ c \in Points /\ c \in Cells(u) /\ s[2] \in FaceSet
      /\ Material(u, c) = u.voxels[s[1]] /\ Material(u, c) # 0
      /\ n \in Points /\ Material(u, n) = 0
    BY SideBetween
<1>2. Corners(c) \cap Corners(n) = Plate(AxisOf(s[2]), Plus(c, s[2].shift))
    BY <1>1, CommonPlate
<1>3. Panel(u, s) = [corners |-> Corners(c) \cap Corners(n), material |-> Material(u, c)]
    BY <1>1, <1>2 DEF Panel
<1>4. n \in Neighbours(c)
    <2>1. s[2].normal \in Normals
        BY <1>1, NormalsOfFaces
    <2> QED  BY <2>1 DEF Neighbours, Normals
<1> HIDE DEF c, n
<1>5. c \in {d \in Cells(u) : Material(u, d) # 0} /\ n \in {m \in Neighbours(c) : Material(u, m) = 0}
    BY <1>1, <1>4
<1>6. Panel(u, s) \in {[corners |-> Corners(c) \cap Corners(k), material |-> Material(u, c)] :
                          k \in {m \in Neighbours(c) : Material(u, m) = 0}}
    BY <1>3, <1>5
<1> QED  BY <1>5, <1>6 DEF Surface

(* Whatever is on the surface is drawn for some side.                    *)
LEMMA SurfaceHasSides ==
    ASSUME NEW u, Loaded(u), NEW p \in Surface(u)
    PROVE  \E s \in Sides(u) : p = Panel(u, s)
<1>1. PICK c \in Cells(u) : Material(u, c) # 0 /\
        \E n \in Neighbours(c) : Material(u, n) = 0 /\
            p = [corners |-> Corners(c) \cap Corners(n), material |-> Material(u, c)]
    BY DEF Surface
<1>2. PICK n \in Neighbours(c) : Material(u, n) = 0 /\
            p = [corners |-> Corners(c) \cap Corners(n), material |-> Material(u, c)]
    BY <1>1
<1>3. PICK d \in Normals : n = Plus(c, d)
    BY DEF Neighbours, Normals
<1>4. PICK face \in FaceSet : face.normal = d
    BY FaceOfNormal
<1> DEFINE idx == Flat(u.grid_size, c)
<1>5. u.grid_size \in Grids /\ c \in Box(u.grid_size)
    BY DEF Loaded, Cells, Box
<1>6. idx \in 0..Volume(u.grid_size) - 1 /\ Cell(u, idx) = c
    BY <1>5, IndexOfCoord DEF Cell
<1> HIDE DEF idx
<1>7. c \in Points
    BY <1>5, BoxIsPoints
<1>8. /\ n \in Points
      /\ Corners(c) \cap Corners(n) = Plate(AxisOf(face), Plus(c, face.shift))
    BY <1>3, <1>4, <1>7, CommonPlate
<1>9. u.voxels[idx] = Material(u, c)
    BY <1>6, CellIsSolid
<1>10. Bare(u, idx, face)
    <2>1. ~ is_solid(u, coord_to_flat(u.grid_size, n))
        BY <1>2, <1>8, SolidMaterial
    <2> QED  BY <1>3, <1>4, <1>6, <2>1 DEF Bare
<1> DEFINE s == <<idx, face>>
<1>11. s \in Sides(u)
    BY <1>1, <1>6, <1>9, <1>10 DEF Sides
<1>12. Panel(u, s) = p
    BY <1>2, <1>6, <1>8, <1>9 DEF Panel
<1> QED  BY <1>11, <1>12

(* An upload has finitely many sides.                                    *)
LEMMA SidesFinite ==
    ASSUME NEW u, Loaded(u)
    PROVE  IsFiniteSet(Sides(u))
<1> DEFINE V == 0..Volume(u.grid_size) - 1
<1>1. Volume(u.grid_size) \in Nat
    BY DEF Loaded, Grids, Volume
<1>2. IsFiniteSet(V)
    BY <1>1, FS_Interval
<1>3. IsFiniteSet(FaceSet)
    <2> DEFINE f == [k \in 1..6 |-> Faces[k]]
    <2>1. f \in Surjection(1..6, FaceSet)
        BY DEF FaceSet, Surjection
    <2>2. IsFiniteSet(1..6)
        BY FS_Interval, 1 \in Int, 6 \in Int
    <2> HIDE DEF f
    <2> QED  BY <2>1, <2>2, FS_Surjection
<1>4. IsFiniteSet(V \X FaceSet)
    BY <1>2, <1>3, FS_Product
<1>5. Sides(u) \in SUBSET (V \X FaceSet)
    BY DEF Sides
<1> HIDE DEF V
<1> QED  BY <1>4, <1>5, FS_Subset

(* There are as many sides as the surface has.                           *)
LEMMA SidesAreSurface ==
    ASSUME NEW u, Loaded(u)
    PROVE  /\ IsFiniteSet(Sides(u)) /\ IsFiniteSet(Surface(u))
           /\ Cardinality(Surface(u)) = Cardinality(Sides(u))
<1> DEFINE f == [s \in Sides(u) |-> Panel(u, s)]
<1>1. f \in Bijection(Sides(u), Surface(u))
    <2>1. f \in [Sides(u) -> Surface(u)]
        BY PanelOnSurface
    <2>2. \A s, t \in Sides(u) : f[s] = f[t] => s = t
        BY PanelsDiffer
    <2>3. \A p \in Surface(u) : \E s \in Sides(u) : f[s] = p
        BY SurfaceHasSides
    <2> HIDE DEF f
    <2> QED  BY <2>1, <2>2, <2>3 DEF Bijection, Injection, Surjection, IsInjective
<1>2. ExistsBijection(Sides(u), Surface(u))
    BY <1>1 DEF ExistsBijection
<1> QED  BY <1>2, SidesFinite, FS_Bijection

---------------------------------------------------------------------------
(* What an invocation finds when it starts.                              *)
Listed(s) == {s[k] : k \in DOMAIN s}

Distinct(s) == \A j, k \in DOMAIN s : s[j] = s[k] => j = k

FirstFaces(n, B) == {Faces[k] : k \in {j \in 1..n : Faces[j] \in B}}

Lists(s, n, B) == s \in Seq(FaceSet) /\ Distinct(s) /\ Listed(s) = FirstFaces(n, B)

Tested(k, B) == IF Faces[k] \in B THEN <<Faces[k]>> ELSE << >>

(* The six faces are six.                                                *)
LEMMA FacesApart ==
    ASSUME NEW j \in 1..6, NEW k \in 1..6, Faces[j] = Faces[k]
    PROVE  j = k
BY FacesDiffer

(* A sequence with one more element.                                     *)
LEMMA Appended ==
    ASSUME NEW T, NEW s \in Seq(T), NEW x \in T
    PROVE  /\ s \o <<x>> \in Seq(T) /\ Len(s \o <<x>>) = Len(s) + 1
           /\ (s \o <<x>>)[Len(s) + 1] = x
           /\ \A k \in 1..Len(s) : (s \o <<x>>)[k] = s[k]
OBVIOUS

(* The test of one more face keeps the list in order and distinct.       *)
LEMMA ListsNext ==
    ASSUME NEW n \in 1..6, NEW B \in SUBSET FaceSet, NEW s, Lists(s, n - 1, B)
    PROVE  Lists(s \o Tested(n, B), n, B)
<1>1. s \in Seq(FaceSet) /\ Distinct(s) /\ Listed(s) = FirstFaces(n - 1, B)
    BY DEF Lists
<1>2. Faces[n] \in FaceSet
    BY DEF FaceSet
<1>3. CASE Faces[n] \in B
    <2> DEFINE t == s \o <<Faces[n]>>
    <2>1. /\ t \in Seq(FaceSet) /\ Len(t) = Len(s) + 1 /\ t[Len(s) + 1] = Faces[n]
          /\ \A k \in 1..Len(s) : t[k] = s[k]
        BY <1>1, <1>2, Appended
    <2>2. DOMAIN s = 1..Len(s) /\ DOMAIN t = 1..Len(s) + 1 /\ Len(s) \in Nat
        BY <1>1, <2>1
    <2> HIDE DEF t
    <2>3. FirstFaces(n, B) = FirstFaces(n - 1, B) \cup {Faces[n]}
        <3>1. \A j : j \in 1..n <=> j \in 1..n - 1 \/ j = n
            OBVIOUS
        <3> QED  BY <1>3, <3>1 DEF FirstFaces
    <2>4. Listed(t) = Listed(s) \cup {Faces[n]}
        <3>1. \A k : k \in DOMAIN t <=> k \in DOMAIN s \/ k = Len(s) + 1
            BY <2>2
        <3> QED  BY <2>1, <2>2, <3>1 DEF Listed
    <2>5. Faces[n] \notin Listed(s)
        <3>1. \A j \in 1..n - 1 : j \in 1..6 /\ j # n
            OBVIOUS
        <3> QED  BY <1>1, <3>1, FacesApart DEF FirstFaces
    <2>6. Distinct(t)
        <3> SUFFICES ASSUME NEW j \in DOMAIN t, NEW k \in DOMAIN t, t[j] = t[k]
                     PROVE  j = k
            BY DEF Distinct
        <3>1. \A i \in DOMAIN s : t[i] = s[i] /\ s[i] \in Listed(s)
            BY <2>1, <2>2 DEF Listed
        <3>2. CASE j \in DOMAIN s /\ k \in DOMAIN s
            BY <1>1, <3>1, <3>2 DEF Distinct
        <3>3. CASE j \in DOMAIN s /\ k = Len(s) + 1
            BY <2>1, <2>5, <3>1, <3>3
        <3>4. CASE j = Len(s) + 1 /\ k \in DOMAIN s
            BY <2>1, <2>5, <3>1, <3>4
        <3> QED  BY <2>2, <3>2, <3>3, <3>4
    <2>7. s \o Tested(n, B) = t
        BY <1>3 DEF Tested, t
    <2> QED  BY <1>1, <2>1, <2>3, <2>4, <2>6, <2>7 DEF Lists
<1>4. CASE Faces[n] \notin B
    <2>1. FirstFaces(n, B) = FirstFaces(n - 1, B)
        <3>1. \A j : j \in 1..n <=> j \in 1..n - 1 \/ j = n
            OBVIOUS
        <3> QED  BY <1>4, <3>1 DEF FirstFaces
    <2>2. s \o Tested(n, B) = s
        BY <1>1, <1>4 DEF Tested
    <2> QED  BY <1>1, <2>1, <2>2 DEF Lists
<1> QED  BY <1>3, <1>4

(* An invocation lists the bare faces of its voxel, each once.           *)
LEMMA ExposedAre ==
    ASSUME NEW u, Loaded(u), NEW i
    PROVE  /\ Exposed(u, i) \in Seq(FaceSet) /\ Distinct(Exposed(u, i))
           /\ i \in Nat => \A face : face \in Listed(Exposed(u, i)) <=> <<i, face>> \in Sides(u)
<1>1. Volume(u.grid_size) \in Nat
    BY DEF Loaded, Grids, Volume
<1>2. CASE i < Volume(u.grid_size) /\ u.voxels[i] # 0
    <2> DEFINE B == {face \in FaceSet : Bare(u, i, face)}
    <2>1. /\ Faces[1] \in FaceSet /\ Faces[2] \in FaceSet /\ Faces[3] \in FaceSet
          /\ Faces[4] \in FaceSet /\ Faces[5] \in FaceSet /\ Faces[6] \in FaceSet
        BY DEF FaceSet
    <2>2. Exposed(u, i) = Tested(1, B) \o Tested(2, B) \o Tested(3, B)
                            \o Tested(4, B) \o Tested(5, B) \o Tested(6, B)
        BY <1>2, <2>1 DEF Exposed, Tested, Bare, Cell
    <2>3. B \in SUBSET FaceSet
        OBVIOUS
    <2>4. \A face \in FaceSet : face \in B <=> Bare(u, i, face)
        OBVIOUS
    <2> HIDE DEF B
    <2>5. Lists(<< >>, 0, B)
        BY DEF Lists, Distinct, Listed, FirstFaces
    <2>6. Lists(Tested(1, B), 1, B)
        <3>1. Lists(<< >>, 1 - 1, B)
            BY <2>5
        <3>3. Lists(<< >> \o Tested(1, B), 1, B)
            <4> 1 \in 1..6
                OBVIOUS
            <4> QED  BY <2>3, <3>1, ListsNext
        <3>2. << >> \o Tested(1, B) = Tested(1, B)
            BY DEF Tested
        <3> QED  BY <3>2, <3>3
    <2>7. Lists(Tested(1, B) \o Tested(2, B), 2, B)
        BY <2>3, <2>6, ListsNext
    <2>8. Lists(Tested(1, B) \o Tested(2, B) \o Tested(3, B), 3, B)
        BY <2>3, <2>7, ListsNext
    <2>9. Lists(Tested(1, B) \o Tested(2, B) \o Tested(3, B) \o Tested(4, B), 4, B)
        BY <2>3, <2>8, ListsNext
    <2>10. Lists(Tested(1, B) \o Tested(2, B) \o Tested(3, B) \o Tested(4, B) \o Tested(5, B), 5, B)
        BY <2>3, <2>9, ListsNext
    <2>11. Lists(Exposed(u, i), 6, B)
        BY <2>2, <2>3, <2>10, ListsNext
    <2>12. FirstFaces(6, B) = B
        BY <2>3 DEF FirstFaces, FaceSet
    <2>13. ASSUME i \in Nat, NEW face
           PROVE  face \in B <=> <<i, face>> \in Sides(u)
        <3>1. i \in 0..Volume(u.grid_size) - 1
            BY <1>1, <1>2, <2>13
        <3> QED  BY <1>2, <2>3, <2>4, <3>1 DEF Sides
    <2> QED  BY <2>11, <2>12, <2>13 DEF Lists
<1>3. CASE ~ (i < Volume(u.grid_size) /\ u.voxels[i] # 0)
    <2>1. Exposed(u, i) = << >>
        BY <1>3 DEF Exposed
    <2>2. << >> \in Seq(FaceSet) /\ Distinct(<< >>) /\ Listed(<< >>) = {}
        BY DEF Distinct, Listed
    <2>3. ASSUME i \in Nat, NEW face, <<i, face>> \in Sides(u)
          PROVE  FALSE
        <3>1. i \in 0..Volume(u.grid_size) - 1 /\ u.voxels[i] # 0
            BY <2>3 DEF Sides
        <3> QED  BY <1>1, <1>3, <3>1
    <2> QED  BY <2>1, <2>2, <2>3
<1> QED  BY <1>2, <1>3

(* An upload that is not refused is loaded as it is.                     *)
LEMMA UploadsLoaded ==
    ASSUME NEW u \in Uploads, config \in Configs, Matches(u)
    PROVE  Loaded(u) /\ Placed(u) = u
<1> DEFINE n == Cardinality(DOMAIN u.voxels)
<1>1. u \in [grid_size : Grids, voxels : [0..n - 1 -> Nat]]
    BY ConfigAssumption
<1>2. n = Volume(config.grid_size) /\ u.grid_size = config.grid_size
    BY DEF Matches
<1> HIDE DEF n
<1>3. Loaded(u)
    BY <1>1, <1>2 DEF Loaded
<1>4. Placed(u) = u
    <2>1. Placed(u) = [u EXCEPT !.grid_size = u.grid_size]
        BY <1>2 DEF Placed
    <2> QED  BY <1>1, <2>1
<1> QED  BY <1>3, <1>4

(* Every voxel has an invocation.                                        *)
LEMMA VoxelsInvoked ==
    ASSUME NEW u, Loaded(u)
    PROVE  /\ \A i \in Invocations(u) : i \in Nat
           /\ \A s \in Sides(u) : s[1] \in Invocations(u)
<1> DEFINE volume == Volume(u.grid_size)
           top == volume + workgroup_size - 1
           count == top \div workgroup_size
<1>1. volume \in Nat /\ workgroup_size \in Nat \ {0} /\ top \in Nat
    <2>1. volume \in Nat
        BY DEF Loaded, Grids, Volume
    <2> HIDE DEF volume
    <2> QED  BY <2>1, ConfigAssumption
<1>2. count \in Nat /\ top % workgroup_size \in 0..workgroup_size - 1
      /\ top = workgroup_size * count + (top % workgroup_size)
    BY <1>1, Quotient
<1>3. Invocations(u) = 0..count * workgroup_size - 1
    BY DEF Invocations
<1> HIDE DEF count
<1>4. volume <= count * workgroup_size
    <2>1. workgroup_size * count = count * workgroup_size /\ count * workgroup_size \in Nat
        BY <1>1, <1>2
    <2> QED  BY <1>1, <1>2, <2>1
<1>5. count * workgroup_size \in Nat
    BY <1>1, <1>2
<1>6. \A s \in Sides(u) : s[1] \in 0..volume - 1
    BY DEF Sides
<1> QED  BY <1>1, <1>3, <1>4, <1>5, <1>6

---------------------------------------------------------------------------
(* What a dispatch has drawn so far.                                     *)
(* The sides that were emitted, drawn or dropped, and those with vertices. *)
Emitted == {s \in Sides(upload) : s[2] \notin Listed(todo[s[1]])}

Claimed ==
    Emitted \cup {s \in Sides(upload) : base[s[1]] # None /\ s[2] = Head(todo[s[1]])}

QueueInv ==
    /\ DOMAIN todo = Invocations(upload)
    /\ \A i \in DOMAIN todo :
         /\ todo[i] \in Seq(FaceSet) /\ Distinct(todo[i])
         /\ \A face \in Listed(todo[i]) : <<i, face>> \in Sides(upload)
         /\ base[i] # None => todo[i] # << >>
    /\ ~ running => \A i \in DOMAIN todo : todo[i] = << >>

CountInv ==
    /\ counters.indices = 6 * Cardinality(Emitted)
    /\ counters.vertices = 4 * Cardinality(Claimed)
    /\ \A i \in DOMAIN todo : base[i] # None => \E r \in Nat : base[i] = 4 * r

(* Every group drawn is a side emitted, and no two are the same side.    *)
PatchInv ==
    /\ \A g \in Drawn : \E s \in Emitted : Patch(g) = Panel(upload, s)
    /\ \A g, h \in Drawn : Patch(g) = Patch(h) => g = h
    /\ \A g \in Drawn : \E r \in Nat : First(g) = 4 * r

RoomV == config.max_vertices \div 4
RoomI == config.max_indices \div 6

(* The vertex groups inside the buffer that were claimed in vain: their  *)
(* faces found no room among the indices, and so were emitted when the   *)
(* index buffer was already full.                                        *)
Wasted ==
    {r \in 0..RoomV - 1 : /\ 4 * r < counters.vertices
                          /\ \A i \in DOMAIN todo : base[i] # 4 * r
                          /\ \A g \in Drawn : First(g) # 4 * r}

WasteInv == Wasted = {} \/ Cardinality(Wasted) + RoomI <= Cardinality(Emitted)

Live == upload # None /\ (running \/ output.kind = "counts")

DrawInv ==
    Live => upload \in Uploads /\ Matches(upload) /\ QueueInv /\ CountInv /\ PatchInv /\ WasteInv

(* The face of an invocation in the slots it has claimed.                *)
LEMMA PatchAdded ==
    ASSUME SlotInv, GroupInv, IndicesResolve, NEW i \in DOMAIN todo,
           emit_face(i), Fits(base[i], counters.indices),
           NEW m \in Nat, counters.indices = 6 * m,
           Loaded(upload), Placed(upload) = upload,
           <<i, Head(todo[i])>> \in Sides(upload)
    PROVE  /\ Patch(m)' = Panel(upload, <<i, Head(todo[i])>>)
           /\ \A g \in Drawn : Patch(g)' = Patch(g)
<1> USE NoneAssumption
<1> DEFINE b == base[i]
           face == Head(todo[i])
           o == Plus(Cell(upload, i), face.shift)
           quad == Quad(upload, i, face)
<1>1. b \in Nat /\ vertices' = DrawnVertices(i)
    BY DEF SlotInv, emit_face
<1>2. First(m)' = b /\ \A g \in Drawn : First(g)' = First(g) /\ First(g) \in Nat
    BY GroupAdded
<1>3. \A k \in b..b + 3 : vertices'[k] = quad[k - b + 1]
    BY <1>1 DEF DrawnVertices
<1>4. /\ vertices'[b] = quad[1] /\ vertices'[b + 1] = quad[2]
      /\ vertices'[b + 2] = quad[3] /\ vertices'[b + 3] = quad[4]
    <2>1. /\ b \in b..b + 3 /\ b + 1 \in b..b + 3 /\ b + 2 \in b..b + 3 /\ b + 3 \in b..b + 3
          /\ b - b + 1 = 1 /\ b + 1 - b + 1 = 2 /\ b + 2 - b + 1 = 3 /\ b + 3 - b + 1 = 4
        BY <1>1
    <2> HIDE DEF quad
    <2> QED  BY <1>3, <2>1
<1>5. /\ quad[1] = [position |-> o, material |-> upload.voxels[i]]
      /\ quad[2] = [position |-> Plus(o, face.right), material |-> upload.voxels[i]]
      /\ quad[3] = [position |-> Plus(Plus(o, face.right), face.up), material |-> upload.voxels[i]]
      /\ quad[4] = [position |-> Plus(o, face.up), material |-> upload.voxels[i]]
    BY DEF Quad, Cell
<1> HIDE DEF quad
<1>6. o \in Points /\ face \in FaceSet
    <2>1. Cell(upload, i) \in Points /\ face \in FaceSet
        BY SideBetween
    <2> QED  BY <2>1, CommonPlate
<1>7. {vertices'[b + k].position : k \in 0..3} = Plate(AxisOf(face), o)
    <2>1. {vertices'[b + k].position : k \in 0..3} =
            {vertices'[b + 0].position, vertices'[b + 1].position,
             vertices'[b + 2].position, vertices'[b + 3].position}
        OBVIOUS
    <2>2. b + 0 = b
        BY <1>1
    <2>3. {vertices'[b].position, vertices'[b + 1].position,
           vertices'[b + 2].position, vertices'[b + 3].position} =
            {o, Plus(o, face.right), Plus(Plus(o, face.right), face.up), Plus(o, face.up)}
        BY <1>4, <1>5
    <2> HIDE DEF o, face
    <2> QED  BY <1>6, <2>1, <2>2, <2>3, QuadPlate
<1>8. Patch(m)' = [corners |-> Plate(AxisOf(face), o), material |-> upload.voxels[i]]
    <2>1. Patch(m)' = [corners |-> {vertices'[First(m)' + k].position : k \in 0..3},
                       material |-> vertices'[First(m)'].material]
        BY DEF Patch
    <2>2. First(m)' = b
        BY <1>2
    <2>3. vertices'[b].material = upload.voxels[i]
        BY <1>4, <1>5
    <2> HIDE DEF b, face, o
    <2>4. Patch(m)' = [corners |-> {vertices'[b + k].position : k \in 0..3},
                       material |-> vertices'[b].material]
        BY <2>1, <2>2
    <2> QED  BY <1>7, <2>3, <2>4
<1>9. Patch(m)' = Panel(upload, <<i, face>>)
    BY <1>8 DEF Panel
<1>10. ASSUME NEW g \in Drawn
       PROVE  Patch(g)' = Patch(g)
    <2>1. \A k \in 0..3 : First(g) + k \in DOMAIN vertices
        BY DEF IndicesResolve
    <2>2. \A k \in 0..3 : vertices'[First(g) + k] = vertices[First(g) + k]
        BY <2>1, EmitWrites
    <2>3. vertices'[First(g)] = vertices[First(g)]
        BY <1>2, <2>2
    <2>4. First(g)' = First(g)
        BY <1>2
    <2> QED  BY <2>2, <2>3, <2>4 DEF Patch
<1> QED  BY <1>9, <1>10

(* The first of a queue of distinct faces leaves it.                     *)
LEMMA QueueHead ==
    ASSUME NEW s \in Seq(FaceSet), Distinct(s), s # << >>
    PROVE  /\ Head(s) \in Listed(s)
           /\ Tail(s) \in Seq(FaceSet) /\ Distinct(Tail(s))
           /\ Listed(Tail(s)) = Listed(s) \ {Head(s)}
<1> DEFINE n == Len(s)
           t == Tail(s)
<1>1. n \in Nat \ {0} /\ DOMAIN s = 1..n /\ Head(s) = s[1]
    OBVIOUS
<1>2. t \in Seq(FaceSet) /\ DOMAIN t = 1..n - 1 /\ \A k \in 1..n - 1 : t[k] = s[k + 1]
    OBVIOUS
<1> HIDE DEF n, t
<1>3. Head(s) \in Listed(s)
    BY <1>1 DEF Listed
<1>4. \A j, k \in 1..n : s[j] = s[k] => j = k
    BY <1>1 DEF Distinct
<1>5. Distinct(t)
    <2> SUFFICES ASSUME NEW j \in 1..n - 1, NEW k \in 1..n - 1, t[j] = t[k]
                 PROVE  j = k
        BY <1>2 DEF Distinct
    <2>1. j + 1 \in 1..n /\ k + 1 \in 1..n /\ s[j + 1] = s[k + 1]
        BY <1>1, <1>2
    <2>2. j + 1 = k + 1
        BY <1>4, <2>1, Zenon
    <2> QED  BY <1>1, <2>2
<1>6. Listed(t) = Listed(s) \ {Head(s)}
    <2>1. ASSUME NEW k \in 1..n - 1
          PROVE  t[k] \in Listed(s) /\ t[k] # Head(s)
        <3>1. k + 1 \in 1..n /\ 1 \in 1..n /\ k + 1 # 1
            BY <1>1
        <3>2. t[k] = s[k + 1]
            BY <1>2
        <3>3. s[k + 1] # s[1]
            BY <1>4, <3>1, Zenon
        <3>4. s[k + 1] \in Listed(s)
            BY <1>1, <3>1 DEF Listed
        <3> QED  BY <1>1, <3>2, <3>3, <3>4
    <2>2. ASSUME NEW k \in 1..n, s[k] # Head(s)
          PROVE  s[k] \in Listed(t)
        <3>1. PICK j : j = k - 1
            OBVIOUS
        <3>2. j \in 1..n - 1 /\ j + 1 = k
            BY <1>1, <2>2, <3>1
        <3>3. t[j] = s[k]
            BY <1>2, <3>2
        <3> QED  BY <1>2, <3>2, <3>3 DEF Listed
    <2>3. Listed(t) = {t[k] : k \in 1..n - 1} /\ Listed(s) = {s[k] : k \in 1..n}
        BY <1>1, <1>2 DEF Listed
    <2> HIDE DEF Listed
    <2>4. \A x \in Listed(t) : x \in Listed(s) /\ x # Head(s)
        BY <2>1, <2>3
    <2>5. \A x \in Listed(s) : x # Head(s) => x \in Listed(t)
        BY <2>2, <2>3
    <2> QED  BY <2>4, <2>5
<1> QED  BY <1>2, <1>3, <1>5, <1>6 DEF t

(* What is counted is finite.                                            *)
LEMMA EmittedFinite ==
    ASSUME upload \in Uploads, config \in Configs, Matches(upload), QueueInv
    PROVE  /\ IsFiniteSet(Emitted) /\ IsFiniteSet(Claimed)
           /\ Cardinality(Emitted) \in Nat /\ Cardinality(Claimed) \in Nat
           /\ Emitted \subseteq Sides(upload) /\ Claimed \subseteq Sides(upload)
           /\ RoomV \in Nat /\ RoomI \in Nat
           /\ IsFiniteSet(Wasted) /\ Cardinality(Wasted) \in Nat
<1>1. Loaded(upload)
    BY UploadsLoaded
<1>2. IsFiniteSet(Sides(upload))
    BY <1>1, SidesFinite
<1>3. Emitted \in SUBSET Sides(upload) /\ Claimed \in SUBSET Sides(upload)
    BY DEF Emitted, Claimed
<1>4. IsFiniteSet(Emitted) /\ IsFiniteSet(Claimed)
    BY <1>2, <1>3, FS_Subset
<1>5. config.max_vertices \in Nat /\ config.max_indices \in Nat
    BY ConfigAssumption
<1>6. RoomV \in Nat /\ RoomI \in Nat
    BY <1>5 DEF RoomV, RoomI
<1>7. IsFiniteSet(Wasted)
    <2>1. IsFiniteSet(0..RoomV - 1)
        BY <1>6, FS_Interval
    <2>2. Wasted \in SUBSET (0..RoomV - 1)
        BY DEF Wasted
    <2> QED  BY <2>1, <2>2, FS_Subset
<1> QED  BY <1>3, <1>4, <1>6, <1>7, FS_CardinalityType

(* A dispatch starts with every face to be emitted and none drawn.       *)
LEMMA DrawDispatch ==
    ASSUME config \in Configs, NEW u \in Uploads, dispatch(u)
    PROVE  DrawInv'
<1>1. Loaded(u) /\ Placed(u) = u /\ Matches(u)
    BY UploadsLoaded DEF dispatch
<1>2. /\ running' = TRUE /\ upload' = u /\ config' = config
      /\ counters' = [vertices |-> 0, indices |-> 0]
      /\ vertices' = << >> /\ indices' = << >>
      /\ todo' = [i \in Invocations(u) |-> Exposed(u, i)]
      /\ base' = [i \in Invocations(u) |-> None]
    BY <1>1 DEF dispatch
<1>3. Matches(upload)'
    BY <1>1, <1>2 DEF Matches
<1>4. \A i \in Invocations(u) :
          /\ Exposed(u, i) \in Seq(FaceSet) /\ Distinct(Exposed(u, i))
          /\ \A face : face \in Listed(Exposed(u, i)) <=> <<i, face>> \in Sides(u)
    BY <1>1, ExposedAre, VoxelsInvoked
<1>5. QueueInv'
    BY <1>2, <1>4 DEF QueueInv
<1>6. Emitted' = {}
    <2>1. ASSUME NEW s \in Sides(u)
          PROVE  s[2] \in Listed(todo'[s[1]])
        <3>1. s = <<s[1], s[2]>>
            BY DEF Sides
        <3>2. s[1] \in Invocations(u)
            BY <1>1, VoxelsInvoked
        <3>3. todo'[s[1]] = Exposed(u, s[1])
            BY <1>2, <3>2
        <3> QED  BY <1>4, <3>1, <3>2, <3>3
    <2> QED  BY <1>2, <2>1 DEF Emitted
<1>7. Claimed' = {}
    <2>1. ASSUME NEW s \in Sides(u)
          PROVE  base'[s[1]] = None
        <3>1. s[1] \in Invocations(u)
            BY <1>1, VoxelsInvoked
        <3> QED  BY <1>2, <3>1
    <2> QED  BY <1>2, <1>6, <2>1 DEF Claimed
<1>8. CountInv'
    <2>1. Cardinality(Emitted') = 0 /\ Cardinality(Claimed') = 0
        BY <1>6, <1>7, FS_EmptySet
    <2>2. counters'.indices = 6 * Cardinality(Emitted)' /\ counters'.vertices = 4 * Cardinality(Claimed)'
        BY <1>2, <2>1
    <2>3. \A i \in DOMAIN todo' : base'[i] = None
        BY <1>2
    <2> QED  BY <2>2, <2>3 DEF CountInv
<1>9. Drawn' = {}
    BY <1>2 DEF Drawn
<1>10. PatchInv'
    BY <1>9 DEF PatchInv
<1>11. Wasted' = {}
    BY <1>2 DEF Wasted
<1>12. WasteInv'
    BY <1>11 DEF WasteInv
<1> QED  BY <1>2, <1>3, <1>5, <1>8, <1>10, <1>12 DEF DrawInv

(* A claim adds the face of the invocation to those claimed.             *)
LEMMA DrawClaim ==
    ASSUME SlotInv, GroupInv, DrawInv, NEW i \in DOMAIN todo, claim_vertices(i)
    PROVE  DrawInv'
<1> USE NoneAssumption
<1> SUFFICES ASSUME Live'
             PROVE  /\ upload' \in Uploads /\ Matches(upload)' /\ QueueInv'
                    /\ CountInv' /\ PatchInv' /\ WasteInv'
    BY DEF DrawInv
<1> DEFINE s == <<i, Head(todo[i])>>
           c == Cardinality(Claimed)
<1>1. /\ todo[i] # << >> /\ base[i] = None
      /\ base' = [base EXCEPT ![i] = counters.vertices]
      /\ UNCHANGED <<config, running, upload, vertices, indices, todo, output>>
    BY DEF claim_vertices
<1>2. /\ counters.vertices \in Nat /\ counters.indices \in Nat
      /\ counters' = [vertices |-> counters.vertices + 4, indices |-> counters.indices]
      /\ base \in [DOMAIN todo -> Nat \cup {None}]
    BY DEF SlotInv, claim_vertices
<1>3. upload \in Uploads /\ Matches(upload) /\ QueueInv /\ CountInv /\ PatchInv /\ WasteInv
    BY <1>1 DEF DrawInv, Live
<1>4. config \in Configs /\ Loaded(upload)
    BY <1>3, UploadsLoaded DEF GroupInv
<1>5. /\ IsFiniteSet(Claimed) /\ c \in Nat /\ IsFiniteSet(Wasted) /\ Cardinality(Wasted) \in Nat
      /\ Cardinality(Emitted) \in Nat /\ RoomI \in Nat /\ RoomV \in Nat
    BY <1>3, <1>4, EmittedFinite
<1>6. \A j \in DOMAIN todo : base'[j] = IF j = i THEN counters.vertices ELSE base[j]
    BY <1>1, <1>2
<1>7. Matches(upload)' /\ upload' \in Uploads
    BY <1>1, <1>3 DEF Matches
<1>8. QueueInv'
    BY <1>1, <1>3, <1>6 DEF QueueInv
<1>9. Emitted' = Emitted
    BY <1>1 DEF Emitted
<1>10. \A t \in Sides(upload) : t[1] \in DOMAIN todo
    BY <1>3, <1>4, VoxelsInvoked DEF QueueInv
<1>11. s \in Sides(upload) /\ Head(todo[i]) \in Listed(todo[i])
    BY <1>1, <1>3, QueueHead DEF QueueInv
<1>12. Claimed' = Claimed \cup {s} /\ s \notin Claimed
    <2>1. ASSUME NEW t \in Sides(upload)
          PROVE  /\ base'[t[1]] # None /\ t[2] = Head(todo[t[1]])
                    <=> t = s \/ (base[t[1]] # None /\ t[2] = Head(todo[t[1]]))
        <3>1. t = <<t[1], t[2]>>
            BY DEF Sides
        <3>2. base'[t[1]] = IF t[1] = i THEN counters.vertices ELSE base[t[1]]
            BY <1>6, <1>10
        <3> QED  BY <1>1, <1>2, <3>1, <3>2
    <2>2. s[1] = i /\ s[2] = Head(todo[i])
        OBVIOUS
    <2> HIDE DEF s
    <2>3. s \notin Claimed
        BY <1>1, <1>11, <2>2 DEF Claimed, Emitted
    <2>4. Claimed' = Emitted \cup {t \in Sides(upload) : base'[t[1]] # None /\ t[2] = Head(todo[t[1]])}
        BY <1>1, <1>9 DEF Claimed
    <2>5. {t \in Sides(upload) : base'[t[1]] # None /\ t[2] = Head(todo[t[1]])}
            = {t \in Sides(upload) : base[t[1]] # None /\ t[2] = Head(todo[t[1]])} \cup {s}
        BY <1>11, <2>1
    <2> QED  BY <2>3, <2>4, <2>5 DEF Claimed
<1>13. CountInv'
    <2>1. Cardinality(Claimed)' = c + 1
        BY <1>5, <1>12, FS_AddElement
    <2>2. counters.vertices = 4 * c /\ counters.indices = 6 * Cardinality(Emitted)
        BY <1>3 DEF CountInv
    <2> HIDE DEF c
    <2>3. counters'.vertices = 4 * (c + 1) /\ counters'.indices = 6 * Cardinality(Emitted)
        BY <1>2, <1>5, <2>2
    <2>4. \A j \in DOMAIN todo' : base'[j] # None => \E r \in Nat : base'[j] = 4 * r
        BY <1>1, <1>3, <1>5, <1>6, <2>2 DEF CountInv
    <2> QED  BY <1>9, <2>1, <2>3, <2>4 DEF CountInv
<1>14. Drawn' = Drawn /\ \A g : First(g)' = First(g) /\ Patch(g)' = Patch(g)
    BY <1>1 DEF Drawn, First, Patch
<1>15. PatchInv'
    BY <1>1, <1>3, <1>9, <1>14 DEF PatchInv
<1>16. Wasted' \subseteq Wasted
    <2> SUFFICES ASSUME NEW r \in Wasted'
                 PROVE  r \in Wasted
        OBVIOUS
    <2>1. /\ r \in 0..RoomV - 1 /\ 4 * r < counters.vertices + 4
          /\ \A j \in DOMAIN todo : base'[j] # 4 * r
          /\ \A g \in Drawn : First(g) # 4 * r
        BY <1>1, <1>2, <1>14 DEF Wasted, RoomV
    <2>2. r \in Nat
        BY <1>5, <2>1
    <2>3. counters.vertices = 4 * c
        BY <1>3 DEF CountInv
    <2> HIDE DEF c
    <2>4. 4 * r < counters.vertices
        BY <1>2, <1>5, <1>6, <2>1, <2>2, <2>3
    <2>5. \A j \in DOMAIN todo : base[j] # 4 * r
        BY <1>1, <1>6, <2>1, <2>2
    <2> QED  BY <2>1, <2>4, <2>5 DEF Wasted
<1>17. WasteInv'
    <2>1. Cardinality(Wasted') <= Cardinality(Wasted) /\ Cardinality(Wasted') \in Nat
        BY <1>5, <1>16, FS_Subset, FS_CardinalityType
    <2>2. RoomI' = RoomI /\ Cardinality(Emitted)' = Cardinality(Emitted)
        BY <1>1, <1>9 DEF RoomI
    <2>3. CASE Wasted = {}
        BY <1>16, <2>3 DEF WasteInv
    <2>4. CASE Cardinality(Wasted) + RoomI <= Cardinality(Emitted)
        <3>1. Cardinality(Wasted') + RoomI <= Cardinality(Emitted)
            BY <1>5, <2>1, <2>4
        <3> QED  BY <2>2, <3>1 DEF WasteInv
    <2> QED  BY <1>3, <2>3, <2>4 DEF WasteInv
<1> QED  BY <1>7, <1>8, <1>13, <1>15, <1>17

(* An emission takes the head of a queue of faces still to be emitted.   *)
LEMMA EmitCounts ==
    ASSUME SlotInv, GroupInv, NEW i \in DOMAIN todo, emit_face(i), running,
           upload \in Uploads, Matches(upload), QueueInv, CountInv
    PROVE  /\ upload' \in Uploads /\ Matches(upload)' /\ QueueInv' /\ CountInv'
           /\ <<i, Head(todo[i])>> \in Sides(upload)
           /\ <<i, Head(todo[i])>> \notin Emitted
           /\ Emitted' = Emitted \cup {<<i, Head(todo[i])>>}
           /\ Cardinality(Emitted)' = Cardinality(Emitted) + 1
           /\ \A j \in DOMAIN todo : base'[j] = IF j = i THEN None ELSE base[j]
<1> USE NoneAssumption
<1> DEFINE s == <<i, Head(todo[i])>>
           c == Cardinality(Emitted)
<1>1. /\ base[i] # None /\ base' = [base EXCEPT ![i] = None]
      /\ todo' = [todo EXCEPT ![i] = Tail(@)]
      /\ UNCHANGED <<config, running, upload, output>>
    BY DEF emit_face
<1>2. /\ counters.vertices \in Nat /\ counters.indices \in Nat
      /\ counters' = [vertices |-> counters.vertices, indices |-> counters.indices + 6]
      /\ base \in [DOMAIN todo -> Nat \cup {None}]
    BY DEF SlotInv, emit_face
<1>3. config \in Configs /\ Loaded(upload)
    BY UploadsLoaded DEF GroupInv
<1>4. IsFiniteSet(Emitted) /\ c \in Nat
    BY <1>3, EmittedFinite
<1>5. \A j \in DOMAIN todo : base'[j] = IF j = i THEN None ELSE base[j]
    BY <1>1, <1>2
<1>6. /\ DOMAIN todo' = DOMAIN todo
      /\ \A j \in DOMAIN todo : todo'[j] = IF j = i THEN Tail(todo[i]) ELSE todo[j]
    BY <1>1
<1>7. Matches(upload)' /\ upload' \in Uploads
    BY <1>1 DEF Matches
<1>8. /\ Head(todo[i]) \in Listed(todo[i])
      /\ Tail(todo[i]) \in Seq(FaceSet) /\ Distinct(Tail(todo[i]))
      /\ Listed(Tail(todo[i])) = Listed(todo[i]) \ {Head(todo[i])}
    BY <1>1, QueueHead DEF QueueInv
<1>9. s \in Sides(upload)
    BY <1>8 DEF QueueInv
<1>10. QueueInv'
    <2>1. \A j \in DOMAIN todo :
            /\ todo'[j] \in Seq(FaceSet) /\ Distinct(todo'[j])
            /\ \A face \in Listed(todo'[j]) : <<j, face>> \in Sides(upload)
            /\ base'[j] # None => todo'[j] # << >>
        BY <1>5, <1>6, <1>8 DEF QueueInv
    <2> QED  BY <1>1, <1>6, <2>1 DEF QueueInv
<1>11. \A t \in Sides(upload) : t[1] \in DOMAIN todo /\ t = <<t[1], t[2]>>
    BY <1>3, VoxelsInvoked DEF QueueInv, Sides
<1>12. Emitted' = Emitted \cup {s} /\ s \notin Emitted
    <2>1. ASSUME NEW t \in Sides(upload)
          PROVE  t[2] \notin Listed(todo'[t[1]]) <=> t[2] \notin Listed(todo[t[1]]) \/ t = s
        <3>1. t[1] \in DOMAIN todo /\ t = <<t[1], t[2]>>
            BY <1>11
        <3>2. CASE t[1] = i
            <4>1. todo'[t[1]] = Tail(todo[i]) /\ (t = s <=> t[2] = Head(todo[i]))
                BY <1>6, <3>1, <3>2
            <4> QED  BY <1>8, <3>2, <4>1, Zenon
        <3>3. CASE t[1] # i
            <4>1. todo'[t[1]] = todo[t[1]] /\ t # s
                BY <1>6, <3>1, <3>3
            <4> QED  BY <4>1
        <3> QED  BY <3>2, <3>3
    <2>2. Emitted' = {t \in Sides(upload) : t[2] \notin Listed(todo'[t[1]])}
        BY <1>1 DEF Emitted
    <2>3. s[1] = i /\ s[2] = Head(todo[i])
        OBVIOUS
    <2> HIDE DEF s
    <2>4. s \notin Emitted
        BY <1>8, <2>3 DEF Emitted
    <2> QED  BY <1>9, <2>1, <2>2, <2>4 DEF Emitted
<1>13. Claimed' = Claimed
    <2>1. ASSUME NEW t \in Sides(upload)
          PROVE  (base[t[1]] # None /\ t[2] = Head(todo[t[1]]))
                    <=> t = s \/ (base'[t[1]] # None /\ t[2] = Head(todo'[t[1]]))
        BY <1>1, <1>5, <1>6, <1>11
    <2>2. Claimed' = Emitted' \cup {t \in Sides(upload) : base'[t[1]] # None /\ t[2] = Head(todo'[t[1]])}
        BY <1>1 DEF Claimed
    <2> HIDE DEF s
    <2>3. {t \in Sides(upload) : base[t[1]] # None /\ t[2] = Head(todo[t[1]])}
            = {t \in Sides(upload) : base'[t[1]] # None /\ t[2] = Head(todo'[t[1]])} \cup {s}
        BY <1>9, <2>1
    <2> QED  BY <1>12, <2>2, <2>3 DEF Claimed
<1>14. Cardinality(Emitted)' = c + 1
    BY <1>4, <1>12, FS_AddElement
<1>15. CountInv'
    <2>1. counters.indices = 6 * c /\ counters.vertices = 4 * Cardinality(Claimed)
        BY DEF CountInv
    <2> HIDE DEF c
    <2>2. counters'.indices = 6 * (c + 1) /\ counters'.vertices = 4 * Cardinality(Claimed)
        BY <1>2, <1>4, <2>1
    <2>3. \A j \in DOMAIN todo' : base'[j] # None => \E r \in Nat : base'[j] = 4 * r
        BY <1>5, <1>6 DEF CountInv
    <2> QED  BY <1>13, <1>14, <2>2, <2>3 DEF CountInv
<1> QED  BY <1>5, <1>7, <1>9, <1>10, <1>12, <1>14, <1>15

(* A face that finds room is drawn, and one that does not wastes at most *)
(* the vertices it has claimed.                                          *)
LEMMA DrawEmit ==
    ASSUME SlotInv, GroupInv, IndicesResolve, DrawInv, NEW i \in DOMAIN todo, emit_face(i)
    PROVE  DrawInv'
<1> USE NoneAssumption
<1> SUFFICES ASSUME Live'
             PROVE  /\ upload' \in Uploads /\ Matches(upload)' /\ QueueInv'
                    /\ CountInv' /\ PatchInv' /\ WasteInv'
    BY DEF DrawInv
<1> DEFINE s == <<i, Head(todo[i])>>
<1>1. base[i] # None /\ UNCHANGED <<config, running, upload, output>>
    BY DEF emit_face
<1>2. upload \in Uploads /\ Matches(upload) /\ QueueInv /\ CountInv /\ PatchInv /\ WasteInv
    BY <1>1 DEF DrawInv, Live
<1>3. running
    BY <1>1, <1>2 DEF QueueInv
<1>4. /\ upload' \in Uploads /\ Matches(upload)' /\ QueueInv' /\ CountInv'
      /\ s \in Sides(upload) /\ s \notin Emitted
      /\ Emitted' = Emitted \cup {s} /\ Cardinality(Emitted)' = Cardinality(Emitted) + 1
      /\ \A j \in DOMAIN todo : base'[j] = IF j = i THEN None ELSE base[j]
    BY <1>2, <1>3, EmitCounts
<1>5. config \in Configs /\ Loaded(upload) /\ Placed(upload) = upload
    BY <1>2, UploadsLoaded DEF GroupInv
<1>6. /\ Cardinality(Emitted) \in Nat /\ RoomV \in Nat /\ RoomI \in Nat /\ RoomV' = RoomV /\ RoomI' = RoomI
      /\ IsFiniteSet(Wasted) /\ Cardinality(Wasted) \in Nat
    BY <1>1, <1>2, <1>5, EmittedFinite DEF RoomV, RoomI
<1>7. PICK m \in Nat : m = Cardinality(Emitted) /\ counters.indices = 6 * m
    BY <1>2, <1>6 DEF CountInv
<1>8. PICK q \in Nat : base[i] = 4 * q
    BY <1>1, <1>2 DEF CountInv
<1>9. counters'.vertices = counters.vertices /\ DOMAIN todo' = DOMAIN todo
    BY DEF SlotInv, emit_face
<1> HIDE DEF s
(* A group still wasted was wasted before, or is the one of this face.   *)
<1>10. ASSUME NEW r \in Wasted',
              \A g \in Drawn : g \in Drawn' /\ First(g)' = First(g)
       PROVE  r \in 0..RoomV - 1 /\ (r \in Wasted \/ r = q)
    <2>1. /\ r \in 0..RoomV' - 1 /\ 4 * r < counters'.vertices
          /\ \A j \in DOMAIN todo' : base'[j] # 4 * r
          /\ \A g \in Drawn' : First(g)' # 4 * r
        BY DEF Wasted
    <2>2. r \in 0..RoomV - 1 /\ r \in Nat
        BY <1>6, <2>1
    <2>3. \A g \in Drawn : First(g) # 4 * r
        BY <1>10, <2>1
    <2>4. \A j \in DOMAIN todo : j # i => base[j] # 4 * r
        BY <1>4, <1>9, <2>1
    <2>5. base[i] = 4 * r => r = q
        BY <1>8, <2>2
    <2> QED  BY <1>9, <2>1, <2>2, <2>3, <2>4, <2>5 DEF Wasted
<1>11. ASSUME Wasted' \subseteq Wasted
       PROVE  WasteInv'
    <2>1. Cardinality(Wasted)' <= Cardinality(Wasted) /\ Cardinality(Wasted)' \in Nat
        BY <1>6, <1>11, FS_Subset, FS_CardinalityType
    <2>2. CASE Wasted = {}
        BY <1>11, <2>2 DEF WasteInv
    <2>3. CASE Cardinality(Wasted) + RoomI <= m
        <3>1. Cardinality(Wasted)' + RoomI <= m + 1
            BY <1>6, <2>1, <2>3
        <3> QED  BY <1>4, <1>6, <1>7, <3>1 DEF WasteInv
    <2> QED  BY <1>2, <1>7, <2>2, <2>3 DEF WasteInv
<1>12. CASE Fits(base[i], counters.indices)
    <2>1. /\ Drawn' = Drawn \cup {m} /\ m \notin Drawn /\ First(m)' = base[i]
          /\ \A g \in Drawn : First(g)' = First(g)
        BY <1>6, <1>7, <1>12, GroupAdded
    <2>2. Patch(m)' = Panel(upload, s) /\ \A g \in Drawn : Patch(g)' = Patch(g)
        BY <1>4, <1>5, <1>6, <1>7, <1>12, PatchAdded DEF s
    <2>3. ASSUME NEW g \in Drawn
          PROVE  Patch(g)' # Panel(upload, s)
        <3>1. PICK t \in Emitted : Patch(g) = Panel(upload, t)
            BY <1>2 DEF PatchInv
        <3>2. t \in Sides(upload) /\ t # s
            BY <1>4, <3>1 DEF Emitted
        <3> QED  BY <1>4, <1>5, <2>2, <3>1, <3>2, PanelsDiffer
    <2>4. PatchInv'
        <3>1. \A g \in Drawn' : \E t \in Emitted' : Patch(g)' = Panel(upload, t)
            BY <1>2, <1>4, <2>1, <2>2 DEF PatchInv
        <3>2. \A g, h \in Drawn' : Patch(g)' = Patch(h)' => g = h
            BY <1>2, <2>1, <2>2, <2>3 DEF PatchInv
        <3>3. \A g \in Drawn' : \E r \in Nat : First(g)' = 4 * r
            BY <1>2, <1>8, <2>1 DEF PatchInv
        <3> QED  BY <1>1, <3>1, <3>2, <3>3 DEF PatchInv
    <2>5. Wasted' \subseteq Wasted
        <3> SUFFICES ASSUME NEW r \in Wasted'
                     PROVE  r \in Wasted
            OBVIOUS
        <3>1. r \in Wasted \/ r = q
            BY <1>10, <2>1
        <3>2. r # q
            BY <1>8, <2>1 DEF Wasted
        <3> QED  BY <3>1, <3>2
    <2> QED  BY <1>4, <1>11, <2>4, <2>5
<1>13. CASE ~ Fits(base[i], counters.indices)
    <2>1. UNCHANGED <<vertices, indices>>
        BY <1>13 DEF emit_face
    <2>2. Drawn' = Drawn /\ \A g : First(g)' = First(g) /\ Patch(g)' = Patch(g)
        BY <1>1, <2>1 DEF Drawn, First, Patch
    <2>3. PatchInv'
        BY <1>1, <1>2, <1>4, <2>2 DEF PatchInv
    <2>4. config.max_vertices \in Nat /\ config.max_indices \in Nat
        BY <1>5, ConfigAssumption
    <2>5. CASE base[i] + 4 > config.max_vertices
        <3>1. RoomV <= q
            BY <1>8, <2>4, <2>5 DEF RoomV
        <3>2. Wasted' \subseteq Wasted
            BY <1>6, <1>8, <1>10, <2>2, <3>1
        <3> QED  BY <1>4, <1>11, <2>3, <3>2
    <2>6. CASE counters.indices + 6 > config.max_indices
        <3>1. RoomI <= m
            BY <1>6, <1>7, <2>4, <2>6 DEF RoomI
        <3>2. Wasted' \in SUBSET (Wasted \cup {q})
            BY <1>10, <2>2
        <3>3. IsFiniteSet(Wasted \cup {q}) /\ Cardinality(Wasted \cup {q}) <= Cardinality(Wasted) + 1
            <4>1. /\ IsFiniteSet(Wasted \cup {q})
                  /\ \/ Cardinality(Wasted \cup {q}) = Cardinality(Wasted)
                     \/ Cardinality(Wasted \cup {q}) = Cardinality(Wasted) + 1
                BY <1>6, FS_AddElement, Zenon
            <4> QED  BY <1>6, <4>1
        <3>4. IsFiniteSet(Wasted') /\ Cardinality(Wasted') <= Cardinality(Wasted \cup {q})
            BY <3>2, <3>3, FS_Subset
        <3>5. /\ Cardinality(Wasted') \in Nat /\ Cardinality(Wasted \cup {q}) \in Nat
              /\ Cardinality(Wasted') <= Cardinality(Wasted) + 1
            <4>1. Cardinality(Wasted') \in Nat /\ Cardinality(Wasted \cup {q}) \in Nat
                BY <3>3, <3>4, FS_CardinalityType
            <4> QED  BY <1>6, <3>3, <3>4, <4>1
        <3>6. Cardinality(Wasted') + RoomI <= m + 1
            <4>1. CASE Wasted = {}
                <5>1. Cardinality(Wasted) = 0
                    BY <4>1, FS_EmptySet
                <5> QED  BY <1>6, <3>1, <3>5, <5>1
            <4>2. CASE Cardinality(Wasted) + RoomI <= m
                BY <1>6, <3>5, <4>2
            <4> QED  BY <1>2, <1>7, <4>1, <4>2 DEF WasteInv
        <3> QED  BY <1>4, <1>6, <1>7, <2>3, <3>6 DEF WasteInv
    <2> QED  BY <1>6, <1>7, <1>8, <1>13, <2>4, <2>5, <2>6 DEF Fits
<1> QED  BY <1>12, <1>13

(* Every step keeps the account of what is drawn.                        *)
LEMMA DrawStep ==
    ASSUME SlotInv, GroupInv, IndicesResolve, DrawInv, [Next]_vars
    PROVE  DrawInv'
<1>1. ASSUME NEW u \in Uploads, dispatch(u)
      PROVE  DrawInv'
    BY <1>1, DrawDispatch DEF GroupInv
<1>2. ASSUME NEW u \in Uploads, refuse(u)
      PROVE  DrawInv'
    <2>1. ~ Live'
        BY <1>2 DEF refuse, Live
    <2> QED  BY <2>1 DEF DrawInv
<1>3. ASSUME NEW i \in DOMAIN todo, generate(i)
      PROVE  DrawInv'
    BY <1>3, DrawClaim, DrawEmit DEF generate
<1>4. CASE read_back
    <2>1. /\ UNCHANGED <<config, upload, counters, vertices, indices, todo, base>>
          /\ running /\ \A i \in DOMAIN todo : todo[i] = << >>
        BY <1>4 DEF read_back, buffers
    <2>2. Live' => Live
        BY <2>1 DEF Live
    <2>3. Matches(upload)' = Matches(upload) /\ (QueueInv => QueueInv')
        BY <2>1 DEF Matches, QueueInv
    <2>4. Emitted' = Emitted /\ Claimed' = Claimed
        BY <2>1 DEF Emitted, Claimed
    <2>5. Drawn' = Drawn /\ \A g : First(g)' = First(g) /\ Patch(g)' = Patch(g)
        BY <2>1 DEF Drawn, First, Patch
    <2>6. CountInv => CountInv'
        BY <2>1, <2>4 DEF CountInv
    <2>7. PatchInv => PatchInv'
        BY <2>1, <2>4, <2>5 DEF PatchInv
    <2>8. Wasted' = Wasted /\ RoomI' = RoomI
        BY <2>1, <2>5 DEF Wasted, RoomV, RoomI
    <2>9. WasteInv => WasteInv'
        BY <2>4, <2>8 DEF WasteInv
    <2> QED  BY <2>1, <2>2, <2>3, <2>6, <2>7, <2>9 DEF DrawInv
<1>5. CASE map_failed
    <2>1. ~ Live'
        BY <1>5 DEF map_failed, Live, Lost
    <2> QED  BY <2>1 DEF DrawInv
<1>6. CASE UNCHANGED vars
    <2>1. UNCHANGED <<config, running, upload, counters, vertices, indices, todo, base, output>>
        BY <1>6 DEF vars, buffers
    <2>2. Drawn' = Drawn /\ \A g : First(g)' = First(g) /\ Patch(g)' = Patch(g)
        BY <2>1 DEF Drawn, First, Patch
    <2>3. Emitted' = Emitted /\ Claimed' = Claimed
        BY <2>1 DEF Emitted, Claimed
    <2>4. Wasted' = Wasted /\ RoomI' = RoomI
        BY <2>1, <2>2 DEF Wasted, RoomV, RoomI
    <2>5. /\ Live' => Live
          /\ QueueInv => QueueInv'
          /\ CountInv => CountInv'
          /\ PatchInv => PatchInv'
          /\ WasteInv => WasteInv'
          /\ Matches(upload) => Matches(upload)'
        BY <2>1, <2>2, <2>3, <2>4 DEF Live, QueueInv, CountInv, PatchInv, WasteInv, Matches
    <2> QED  BY <2>1, <2>5 DEF DrawInv
<1> QED  BY <1>1, <1>2, <1>3, <1>4, <1>5, <1>6 DEF Next

(* Nothing has been dispatched at first.                                 *)
LEMMA DrawInit == Init => DrawInv
BY DEF Init, DrawInv, Live

(* What a dispatch that has ended has drawn.                             *)
LEMMA DrawnAtTheEnd ==
    ASSUME SlotInv, GroupInv, IndicesResolve, DrawInv, Ended
    PROVE  LET n == Cardinality(Surface(upload))
           IN  /\ IsFiniteSet(Surface(upload)) /\ n \in Nat
               /\ RoomV \in Nat /\ RoomI \in Nat
               /\ IsFiniteSet(Drawn) /\ Cardinality(Drawn) \in Nat
               /\ counters = [vertices |-> 4 * n, indices |-> 6 * n]
               /\ {Patch(g) : g \in Drawn} \subseteq Surface(upload)
               /\ Cardinality({Patch(g) : g \in Drawn}) = Cardinality(Drawn)
               /\ Cardinality(Drawn) <= Lesser(n, RoomV)
               /\ Cardinality(Drawn) <= Lesser(n, RoomI)
               /\ Lesser(n, RoomV) + Lesser(n, RoomI) - n <= Cardinality(Drawn)
<1> USE NoneAssumption
<1>1. PICK n : n = Cardinality(Surface(upload))
    OBVIOUS
<1>2. upload \in Uploads /\ Matches(upload) /\ QueueInv /\ CountInv /\ PatchInv /\ WasteInv
    BY DEF DrawInv, Live, Ended
<1>3. config \in Configs /\ Loaded(upload)
    BY <1>2, UploadsLoaded DEF GroupInv
<1>4. /\ RoomV \in Nat /\ RoomI \in Nat
      /\ IsFiniteSet(Wasted) /\ Cardinality(Wasted) \in Nat
    BY <1>2, <1>3, EmittedFinite
<1>5. /\ IsFiniteSet(Surface(upload)) /\ n = Cardinality(Sides(upload)) /\ n \in Nat
    BY <1>1, <1>3, SidesAreSurface, FS_CardinalityType
<1>6. \A i \in DOMAIN todo : todo[i] = << >> /\ base[i] = None
    BY <1>2 DEF QueueInv, Ended
<1>7. Emitted = Sides(upload) /\ Claimed = Sides(upload)
    <2>1. \A s \in Sides(upload) : s[1] \in DOMAIN todo
        BY <1>2, <1>3, VoxelsInvoked DEF QueueInv
    <2>2. \A s \in Sides(upload) : s[2] \notin Listed(todo[s[1]])
        BY <1>6, <2>1 DEF Listed
    <2> QED  BY <2>2 DEF Emitted, Claimed
<1>8. counters.vertices = 4 * n /\ counters.indices = 6 * n
    BY <1>2, <1>5, <1>7 DEF CountInv
<1>9. counters = [vertices |-> 4 * n, indices |-> 6 * n]
    BY <1>8 DEF SlotInv
<1>10. PICK r : /\ r \in [Drawn -> Nat]
                /\ \A g \in Drawn : First(g) = 4 * r[g]
    <2> DEFINE f == [g \in Drawn |-> CHOOSE k \in Nat : First(g) = 4 * k]
    <2>1. \A g \in Drawn : f[g] \in Nat /\ First(g) = 4 * f[g]
        BY <1>2 DEF PatchInv
    <2>2. f \in [Drawn -> Nat]
        BY <2>1
    <2> HIDE DEF f
    <2> QED  BY <2>1, <2>2
(* The groups fill different ranks of the vertex buffer.                 *)
<1>11. r \in Injection(Drawn, 0..Lesser(n, RoomV) - 1)
    <2>1. ASSUME NEW g \in Drawn
          PROVE  r[g] \in 0..Lesser(n, RoomV) - 1
        <3>1. r[g] \in Nat /\ First(g) = 4 * r[g]
            BY <1>10
        <3>2. First(g) + 3 \in DOMAIN vertices
            BY DEF IndicesResolve
        <3>3. First(g) + 3 < counters.vertices
            BY <3>2 DEF SlotInv
        <3>4. First(g) + 3 \in 0..config.max_vertices - 1
            BY <3>2 DEF IndicesResolve
        <3>5. config.max_vertices \in Nat
            BY <1>3, ConfigAssumption
        <3>6. r[g] < n
            BY <1>5, <1>8, <3>1, <3>3
        <3>7. r[g] < RoomV
            BY <3>1, <3>4, <3>5 DEF RoomV
        <3> QED  BY <1>4, <1>5, <3>1, <3>6, <3>7 DEF Lesser
    <2>2. ASSUME NEW g \in Drawn, NEW h \in Drawn, r[g] = r[h]
          PROVE  g = h
        <3>1. First(g) = First(h) /\ First(g) \in Nat
            BY <1>10, <2>2
        <3>2. g # h => First(g) + 4 <= First(h) \/ First(h) + 4 <= First(g)
            BY DEF IndicesResolve
        <3> QED  BY <3>1, <3>2
    <2> QED  BY <1>10, <2>1, <2>2 DEF Injection, IsInjective
<1>12. Lesser(n, RoomV) \in Nat /\ Lesser(n, RoomI) \in Nat
    BY <1>4, <1>5 DEF Lesser
<1>13. \A k \in Nat : IsFiniteSet(0..k - 1) /\ Cardinality(0..k - 1) = k
    <2> SUFFICES ASSUME NEW k \in Nat
                 PROVE  IsFiniteSet(0..k - 1) /\ Cardinality(0..k - 1) = k
        OBVIOUS
    <2>1. /\ IsFiniteSet(0..k - 1)
          /\ Cardinality(0..k - 1) = IF 0 > k - 1 THEN 0 ELSE k - 1 - 0 + 1
        BY FS_Interval, 0 \in Int, k - 1 \in Int
    <2> QED  BY <2>1
<1>14. IsFiniteSet(Drawn) /\ Cardinality(Drawn) <= Lesser(n, RoomV)
    BY <1>11, <1>12, <1>13, FS_Injection
<1>15. Cardinality(Drawn) \in Nat
    BY <1>14, FS_CardinalityType
(* The groups stand below the index counter and inside the buffer.       *)
<1>16. Cardinality(Drawn) <= Lesser(n, RoomI)
    <2>1. ASSUME NEW g \in Drawn
          PROVE  g \in 0..Lesser(n, RoomI) - 1
        <3>1. g \in 0..RoomI - 1 /\ 6 * g \in DOMAIN indices
            BY DEF Drawn, RoomI
        <3>2. 6 * g < 6 * n
            BY <1>8, <3>1 DEF SlotInv
        <3> QED  BY <1>4, <1>5, <3>1, <3>2 DEF Lesser
    <2>2. Drawn \in SUBSET (0..Lesser(n, RoomI) - 1)
        BY <2>1
    <2> DEFINE K == 0..Lesser(n, RoomI) - 1
    <2>3. IsFiniteSet(K) /\ Cardinality(K) = Lesser(n, RoomI)
        BY <1>12, <1>13
    <2> HIDE DEF K
    <2>4. Drawn \in SUBSET K
        BY <2>2 DEF K
    <2> QED  BY <2>3, <2>4, FS_Subset
(* Every rank inside the buffer is drawn or wasted.                      *)
<1>17. Lesser(n, RoomV) <= Cardinality(Wasted) + Cardinality(Drawn)
    <2> DEFINE R == {r[g] : g \in Drawn}
               K == 0..Lesser(n, RoomV) - 1
    <2>1. r \in Surjection(Drawn, R)
        BY <1>10 DEF Surjection
    <2>2. IsFiniteSet(R) /\ Cardinality(R) <= Cardinality(Drawn)
        <3> HIDE DEF R
        <3> QED  BY <1>14, <2>1, FS_Surjection
    <2>3. ASSUME NEW k \in K
          PROVE  k \in Wasted \cup R
        <3>1. k \in Nat /\ k < n /\ k \in 0..RoomV - 1
            BY <1>4, <1>5 DEF Lesser
        <3>2. 4 * k < counters.vertices /\ 4 * k \in Nat
            BY <1>5, <1>8, <3>1
        <3>3. \A i \in DOMAIN todo : base[i] # 4 * k
            BY <1>6, <3>2
        <3>4. CASE \E g \in Drawn : First(g) = 4 * k
            <4>1. PICK g \in Drawn : First(g) = 4 * k
                BY <3>4
            <4>2. r[g] = k
                BY <1>10, <3>1, <4>1
            <4> QED  BY <4>2
        <3>5. CASE \A g \in Drawn : First(g) # 4 * k
            BY <3>1, <3>2, <3>3, <3>5 DEF Wasted
        <3> QED  BY <3>4, <3>5
    <2>4. K \in SUBSET (Wasted \cup R)
        BY <2>3
    <2> HIDE DEF R
    <2>5. IsFiniteSet(Wasted \cup R) /\ Cardinality(Wasted \cup R) <= Cardinality(Wasted) + Cardinality(R)
        <3>1. /\ IsFiniteSet(Wasted \cup R) /\ IsFiniteSet(Wasted \cap R)
              /\ Cardinality(Wasted \cup R) =
                   Cardinality(Wasted) + Cardinality(R) - Cardinality(Wasted \cap R)
            BY <1>4, <2>2, FS_Union, FS_Intersection
        <3>2. Cardinality(Wasted \cap R) \in Nat /\ Cardinality(R) \in Nat
            BY <2>2, <3>1, FS_CardinalityType
        <3> QED  BY <1>4, <3>1, <3>2
    <2>6. Cardinality(K) <= Cardinality(Wasted \cup R)
        BY <2>4, <2>5, FS_Subset
    <2>7. Cardinality(K) = Lesser(n, RoomV)
        BY <1>12, <1>13
    <2>8. Cardinality(Wasted \cup R) \in Nat /\ Cardinality(R) \in Nat
        BY <2>2, <2>5, FS_CardinalityType
    <2> HIDE DEF K
    <2> QED  BY <1>4, <1>12, <1>15, <2>2, <2>5, <2>6, <2>7, <2>8
<1>18. Lesser(n, RoomV) + Lesser(n, RoomI) - n <= Cardinality(Drawn)
    <2>1. CASE Wasted = {}
        <3>1. Cardinality(Wasted) = 0
            BY <2>1, FS_EmptySet
        <3>2. Lesser(n, RoomI) <= n
            BY <1>4, <1>5 DEF Lesser
        <3> QED  BY <1>5, <1>12, <1>15, <1>17, <3>1, <3>2
    <2>2. CASE Cardinality(Wasted) + RoomI <= Cardinality(Emitted)
        <3>1. Cardinality(Wasted) + RoomI <= n
            BY <1>5, <1>7, <2>2
        <3>2. Lesser(n, RoomI) <= RoomI
            BY <1>4, <1>5 DEF Lesser
        <3> QED  BY <1>4, <1>5, <1>12, <1>15, <1>17, <3>1, <3>2
    <2> QED  BY <1>2, <2>1, <2>2 DEF WasteInv
<1>19. {Patch(g) : g \in Drawn} \subseteq Surface(upload)
    BY <1>2, <1>3, <1>7, PanelOnSurface DEF PatchInv
<1>20. Cardinality({Patch(g) : g \in Drawn}) = Cardinality(Drawn)
    <2> DEFINE P == {Patch(g) : g \in Drawn}
               f == [g \in Drawn |-> Patch(g)]
    <2>1. f \in Bijection(Drawn, P)
        BY <1>2 DEF PatchInv, Bijection, Injection, Surjection, IsInjective
    <2>2. ExistsBijection(Drawn, P)
        BY <2>1 DEF ExistsBijection
    <2> HIDE DEF P
    <2>3. Cardinality(P) = Cardinality(Drawn)
        BY <1>14, <2>2, FS_Bijection
    <2> QED  BY <2>3 DEF P
<1> QED
    BY <1>1, <1>4, <1>5, <1>9, <1>14, <1>15, <1>16, <1>18, <1>19, <1>20

(* Whatever the order of the claims, a dispatch with room in both buffers *)
(* draws the whole surface, each side once, and counts it exactly.       *)
THEOREM SurfaceIsComplete == Spec => []SurfaceComplete
<1>1. ASSUME SlotInv, GroupInv, IndicesResolve, DrawInv
      PROVE  SurfaceComplete
    <2> DEFINE n == Cardinality(Surface(upload))
               P == {Patch(g) : g \in Drawn}
    <2> SUFFICES ASSUME Ended, 4 * n <= config.max_vertices, 6 * n <= config.max_indices
                 PROVE  /\ P = Surface(upload)
                        /\ Cardinality(Drawn) = n
                        /\ counters = [vertices |-> 4 * n, indices |-> 6 * n]
        BY DEF SurfaceComplete
    <2>1. /\ IsFiniteSet(Surface(upload)) /\ n \in Nat
          /\ RoomV \in Nat /\ RoomI \in Nat /\ Cardinality(Drawn) \in Nat
          /\ counters = [vertices |-> 4 * n, indices |-> 6 * n]
          /\ P \subseteq Surface(upload) /\ Cardinality(P) = Cardinality(Drawn)
          /\ Cardinality(Drawn) <= Lesser(n, RoomV)
          /\ Lesser(n, RoomV) + Lesser(n, RoomI) - n <= Cardinality(Drawn)
        BY <1>1, DrawnAtTheEnd
    <2> HIDE DEF n, P
    <2>2. config.max_vertices \in Nat /\ config.max_indices \in Nat
        BY <1>1, ConfigAssumption DEF GroupInv
    <2>3. Lesser(n, RoomV) = n /\ Lesser(n, RoomI) = n
        BY <2>1, <2>2 DEF Lesser, RoomV, RoomI
    <2>4. Cardinality(Drawn) = n
        BY <2>1, <2>3
    <2>5. P = Surface(upload)
        BY <2>1, <2>4, FS_Subset DEF n
    <2> QED  BY <2>1, <2>4, <2>5
<1> QED  BY <1>1, SlotInit, SlotStep, GroupInit, GroupStep, DrawInit, DrawStep, PTL DEF Spec

(* A dispatch that is short of room draws part of the surface, and loses *)
(* no more sides than the two buffers are short of.                      *)
THEOREM ShortfallIsBounded == Spec => []ShortfallBounded
<1>1. ASSUME SlotInv, GroupInv, IndicesResolve, DrawInv
      PROVE  ShortfallBounded
    <2> DEFINE n == Cardinality(Surface(upload))
               P == {Patch(g) : g \in Drawn}
               V == Lesser(n, config.max_vertices \div 4)
               I == Lesser(n, config.max_indices \div 6)
    <2> SUFFICES ASSUME Ended
                 PROVE  /\ P \subseteq Surface(upload)
                        /\ V + I - n <= Cardinality(Drawn)
                        /\ Cardinality(Drawn) <= Lesser(V, I)
        BY DEF ShortfallBounded
    <2>1. /\ P \subseteq Surface(upload)
          /\ Cardinality(Drawn) <= V /\ Cardinality(Drawn) <= I
          /\ V + I - n <= Cardinality(Drawn)
        BY <1>1, DrawnAtTheEnd DEF RoomV, RoomI
    <2> HIDE DEF V, I
    <2> QED  BY <2>1 DEF Lesser
<1> QED  BY <1>1, SlotInit, SlotStep, GroupInit, GroupStep, DrawInit, DrawStep, PTL DEF Spec

=============================================================================
