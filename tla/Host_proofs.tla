---------------------------- MODULE Host_proofs ----------------------------
(***************************************************************************)
(* Theorems about the parts MCHost moves.  The C API: every native object *)
(* has one live owner, the oldest load is what an eviction takes, the    *)
(* identifiers of materials name them, and meshes are closed, for any    *)
(* number of wrappers, addresses, identifiers and voxels.  The radix     *)
(* sort: the scatter pass gives every element a slot of its own, for any *)
(* number of elements.  The voxel kernels: a dispatch changes a voxel as *)
(* its job wants, from what its neighbourhood held, for any grid and     *)
(* interleaving.  The window and the levels of detail: what is drawn and *)
(* kept falls with the distance and fits what was planned, for any       *)
(* accepted policies and thresholds.  The gestalt: reports sorted are the *)
(* same sequence however they came.  The grids of terrain and water:     *)
(* heights are drawn where they were written, and patches join.          *)
(***************************************************************************)
EXTENDS MCHost, Induction

(* What Vec::retain leaves, element by element: a recursion exists, so that *)
(* the function CApi defines is one.                                     *)
RetainsStepwise(f, s, c) ==
    /\ f[0] = << >>
    /\ \A n \in 1..Len(s) : f[n] = IF s[n] = c THEN f[n - 1] ELSE Append(f[n - 1], s[n])
    /\ Retained(s, c) = f[Len(s)]

LEMMA RetainedStepwise ==
    ASSUME NEW X, NEW s \in Seq(X), NEW c
    PROVE  \E f \in [0..Len(s) -> Seq(X)] : RetainsStepwise(f, s, c)
<1> DEFINE N == Len(s)
           next == [n \in 1..N |-> [t \in Seq(X) |-> IF s[n] = c THEN t ELSE Append(t, s[n])]]
           kept[n \in 0..N] ==
               IF n = 0 THEN << >>
               ELSE IF s[n] = c THEN kept[n - 1] ELSE Append(kept[n - 1], s[n])
           body(h) == [n \in 0..N |->
               IF n = 0 THEN << >>
               ELSE IF s[n] = c THEN h[n - 1] ELSE Append(h[n - 1], s[n])]
<1>1. N \in Nat /\ << >> \in Seq(X) /\ \A n \in 1..N : s[n] \in X
    OBVIOUS
<1>2. next \in [1..N -> [Seq(X) -> Seq(X)]]
    BY <1>1
<1>3. kept = CHOOSE h : h = body(h)
    OBVIOUS
<1>4. Retained(s, c) = kept[N]
    BY DEF Retained
<1> HIDE DEF kept, N, next
<1>5. PICK first : first = << >> /\ first \in Seq(X)
    BY <1>1
<1>6. PICK f \in [0..N -> Seq(X)] : f[0] = first /\ \A n \in 1..N : f[n] = next[n][f[n - 1]]
    <2> DEFINE Q == Seq(X)
    <2>1. first \in Q /\ next \in [1..N -> [Q -> Q]]
        BY <1>2, <1>5
    <2> HIDE DEF body, Q
    <2>2. \E f \in [0..N -> Q] : Follows(f, N, first, next)
        BY <1>1, <2>1, Recursion
    <2> QED  BY <2>2 DEF Q, Follows
<1>7. ASSUME NEW n \in 1..N
      PROVE  f[n] = IF s[n] = c THEN f[n - 1] ELSE Append(f[n - 1], s[n])
    <2>1. n - 1 \in 0..N /\ f[n - 1] \in Seq(X)
        BY <1>1
    <2>2. next[n] = [t \in Seq(X) |-> IF s[n] = c THEN t ELSE Append(t, s[n])]
        BY DEF next
    <2> QED  BY <1>6, <2>1, <2>2
<1>8. f = body(f)
    <2>1. f = [n \in 0..N |-> f[n]]
        OBVIOUS
    <2>2. \A n \in 0..N : n = 0 \/ n \in 1..N
        BY <1>1
    <2>3. \A n \in 0..N : f[n] = IF n = 0 THEN << >>
                                 ELSE IF s[n] = c THEN f[n - 1] ELSE Append(f[n - 1], s[n])
        BY <1>5, <1>6, <1>7, <2>2
    <2> QED  BY <2>1, <2>3
<1>9. kept = body(kept)
    <2> HIDE DEF body
    <2> QED  BY <1>3, <1>8
<1>10. kept[0] = << >>
    BY <1>1, <1>9
<1>11. ASSUME NEW n \in 1..N
       PROVE  kept[n] = IF s[n] = c THEN kept[n - 1] ELSE Append(kept[n - 1], s[n])
    <2>1. n \in 0..N /\ n # 0
        BY <1>1
    <2> QED  BY <1>9, <2>1
<1>12. \A n \in 0..N : kept[n] \in Seq(X)
    <2> DEFINE S == {n \in 0..N : kept[n] \in Seq(X)}
    <2>1. 0 \in S
        <3>1. kept[0] \in Seq(X)
            BY <1>5, <1>10
        <3> QED  BY <1>1, <3>1
    <2>2. ASSUME NEW n \in 0..N - 1, n \in S
          PROVE  n + 1 \in S
        <3>1. n + 1 \in 1..N /\ (n + 1) - 1 = n
            BY <1>1
        <3>2. Append(kept[n], s[n + 1]) \in Seq(X)
            BY <1>1, <2>2, <3>1
        <3>3. kept[n + 1] \in Seq(X)
            <4>1. kept[n + 1] = IF s[n + 1] = c THEN kept[n] ELSE Append(kept[n], s[n + 1])
                BY <1>11, <3>1
            <4> QED  BY <2>2, <3>2, <4>1
        <3> QED  BY <1>1, <3>1, <3>3
    <2> HIDE DEF S
    <2>3. 0..N \subseteq S
        BY <1>1, <2>1, <2>2, UpTo
    <2> QED  BY <2>3 DEF S
<1>13. kept \in [0..N -> Seq(X)]
    <2>1. kept = [n \in 0..N |-> kept[n]]
        BY <1>9
    <2> QED  BY <1>12, <2>1
<1> QED  BY <1>4, <1>10, <1>11, <1>13 DEF N, RetainsStepwise

(* The elements of s stand in the order of their numbers.                *)
Ascending(s, number) == \A i, j \in 1..Len(s) : i < j => number[s[i]] < number[s[j]]

(* Append adds an element at the end.                                    *)
LEMMA AppendedTo ==
    ASSUME NEW X, NEW t \in Seq(X), NEW x \in X
    PROVE  /\ ToSet(Append(t, x)) = ToSet(t) \cup {x}
           /\ \A k \in 1..Len(t) : t[k] \in ToSet(t)
           /\ \A number : Ascending(t, number) /\ (\A y \in ToSet(t) : number[y] < number[x])
                           => Ascending(Append(t, x), number)
<1> DEFINE a == Append(t, x)
           L == Len(t)
<1>1. L \in Nat /\ DOMAIN t = 1..L
    OBVIOUS
<1>2. DOMAIN a = 1..L + 1 /\ Len(a) = L + 1 /\ a[L + 1] = x
    OBVIOUS
<1>3. \A k \in 1..L : a[k] = t[k]
    OBVIOUS
<1> HIDE DEF a, L
<1>4. \A k \in 1..L + 1 : k \in 1..L \/ k = L + 1
    BY <1>1
<1>5. \A k \in 1..L : k \in 1..L + 1
    BY <1>1
<1>6. L + 1 \in 1..L + 1
    BY <1>1
<1>7. ToSet(t) = {t[k] : k \in 1..L} /\ ToSet(a) = {a[k] : k \in 1..L + 1}
    BY <1>1, <1>2 DEF ToSet
<1>8. ToSet(a) = ToSet(t) \cup {x}
    BY <1>2, <1>3, <1>4, <1>5, <1>6, <1>7
<1>9. \A k \in 1..L : t[k] \in ToSet(t)
    BY <1>7
<1>10. ASSUME NEW number, Ascending(t, number), \A y \in ToSet(t) : number[y] < number[x]
       PROVE  Ascending(a, number)
    <2>1. \A i, j \in 1..L : i < j => number[t[i]] < number[t[j]]
        BY <1>10 DEF Ascending, L
    <2>2. SUFFICES ASSUME NEW i \in 1..L + 1, NEW j \in 1..L + 1, i < j
                   PROVE  number[a[i]] < number[a[j]]
        BY <1>2 DEF Ascending
    <2>3. i \in 1..L
        BY <1>1, <2>2
    <2>4. CASE j \in 1..L
        BY <1>3, <2>1, <2>2, <2>3, <2>4
    <2>5. CASE j = L + 1
        BY <1>2, <1>3, <1>9, <1>10, <2>3, <2>5
    <2> QED  BY <1>4, <2>4, <2>5
<1> QED  BY <1>8, <1>9, <1>10 DEF a, L

(* Taking c out leaves the other elements, in their order.               *)
LEMMA RetainedKeepsOrder ==
    ASSUME NEW X, NEW s \in Seq(X), NEW c,
           NEW number \in [X -> Nat], Ascending(s, number)
    PROVE  /\ Retained(s, c) \in Seq(X)
           /\ ToSet(Retained(s, c)) = ToSet(s) \ {c}
           /\ Ascending(Retained(s, c), number)
<1> DEFINE N == Len(s)
           Before(n) == {s[k] : k \in 1..n}
<1>1. PICK f \in [0..N -> Seq(X)] :
        /\ f[0] = << >>
        /\ \A n \in 1..N : f[n] = IF s[n] = c THEN f[n - 1] ELSE Append(f[n - 1], s[n])
        /\ Retained(s, c) = f[N]
    <2>1. \E f \in [0..N -> Seq(X)] : RetainsStepwise(f, s, c)
        BY RetainedStepwise
    <2> QED  BY <2>1 DEF RetainsStepwise
<1> DEFINE S == {n \in 0..N : ToSet(f[n]) = Before(n) \ {c} /\ Ascending(f[n], number)}
<1>2. 0 \in S
    <2>1. Len(f[0]) = 0 /\ ToSet(f[0]) = {} /\ Before(0) = {}
        BY <1>1 DEF ToSet
    <2>2. Ascending(f[0], number)
        BY <2>1 DEF Ascending
    <2> QED  BY <2>1, <2>2
<1>3. ASSUME NEW n \in 0..N - 1, n \in S
      PROVE  n + 1 \in S
    <2>1. n + 1 \in 1..N /\ (n + 1) - 1 = n /\ f[n] \in Seq(X) /\ s[n + 1] \in X
        <3>1. N \in Nat /\ \A k \in 1..N : s[k] \in X
            OBVIOUS
        <3> HIDE DEF N
        <3> QED  BY <3>1
    <2>2. Before(n + 1) = Before(n) \cup {s[n + 1]}
        OBVIOUS
    <2>3. CASE s[n + 1] = c
        BY <1>1, <1>3, <2>1, <2>2, <2>3
    <2>4. CASE s[n + 1] # c
        <3> DEFINE t == f[n]
                   x == s[n + 1]
        <3>1. f[n + 1] = Append(t, x) /\ t \in Seq(X) /\ x \in X
            BY <1>1, <2>1, <2>4
        <3>2. \A y \in ToSet(t) : number[y] < number[x]
            <4>1. ASSUME NEW k \in 1..n
                  PROVE  number[s[k]] < number[x]
                <5>1. k \in 1..N /\ n + 1 \in 1..N /\ k < n + 1
                    OBVIOUS
                <5> QED  BY <5>1 DEF Ascending
            <4> QED  BY <1>3, <4>1
        <3>3. ToSet(t) = Before(n) \ {c} /\ Ascending(t, number)
            BY <1>3
        <3> HIDE DEF t, x, Before
        <3>4. ToSet(Append(t, x)) = ToSet(t) \cup {x} /\ Ascending(Append(t, x), number)
            BY <3>1, <3>2, <3>3, AppendedTo
        <3>5. ToSet(f[n + 1]) = Before(n + 1) \ {c}
            <4>1. Before(n + 1) = Before(n) \cup {x} /\ x # c
                BY <2>2, <2>4 DEF x
            <4> QED  BY <3>1, <3>3, <3>4, <4>1
        <3>6. n + 1 \in 0..N /\ Ascending(f[n + 1], number)
            BY <3>1, <3>4
        <3> QED  BY <3>5, <3>6
    <2> QED  BY <2>3, <2>4
<1>4. N \in S
    <2> HIDE DEF S
    <2>1. N \in Nat
        OBVIOUS
    <2> HIDE DEF N
    <2>2. 0..N \subseteq S
        BY <1>2, <1>3, <2>1, UpTo
    <2> QED  BY <2>1, <2>2
<1>5. ToSet(s) = Before(N)
    <2>1. DOMAIN s = 1..N
        OBVIOUS
    <2> QED  BY <2>1 DEF ToSet
<1> QED  BY <1>1, <1>4, <1>5

(* The loaded chunks are those of the order, which is that of their loads. *)
InOrder(loaded, order, loads, number) ==
    /\ order \in Seq(Coords) /\ loaded = ToSet(order)
    /\ loads \in Nat /\ number \in [Coords -> Nat]
    /\ \A c \in Coords : number[c] <= loads
    /\ Ascending(order, number)

LEMMA LoadKeepsOrder ==
    ASSUME NEW loaded, NEW order, NEW loads, NEW number, InOrder(loaded, order, loads, number),
           NEW c \in Coords, c \notin loaded
    PROVE  InOrder(loaded \cup {c}, Append(order, c), loads + 1, [number EXCEPT ![c] = loads + 1])
<1> DEFINE later == [number EXCEPT ![c] = loads + 1]
<1>1. /\ order \in Seq(Coords) /\ loaded = ToSet(order) /\ loads \in Nat
      /\ number \in [Coords -> Nat] /\ \A d \in Coords : number[d] <= loads
      /\ Ascending(order, number)
    BY DEF InOrder
<1>2. later \in [Coords -> Nat] /\ later[c] = loads + 1 /\ \A d \in Coords : later[d] <= loads + 1
    BY <1>1
<1>3. \A d \in Coords \ {c} : later[d] = number[d]
    BY <1>1
<1> HIDE DEF later
<1>4. \A k \in 1..Len(order) : order[k] \in Coords \ {c}
    BY <1>1, AppendedTo
<1>5. Ascending(order, later)
    BY <1>1, <1>3, <1>4 DEF Ascending
<1>6. \A d \in ToSet(order) : later[d] < later[c]
    <2>1. ToSet(order) = {order[k] : k \in 1..Len(order)}
        BY <1>1 DEF ToSet
    <2> QED  BY <1>1, <1>2, <1>3, <1>4, <2>1
<1>7. Ascending(Append(order, c), later) /\ ToSet(Append(order, c)) = loaded \cup {c}
    BY <1>1, <1>5, <1>6, AppendedTo
<1>8. Append(order, c) \in Seq(Coords)
    BY <1>1
<1> QED  BY <1>1, <1>2, <1>7, <1>8 DEF InOrder, later

LEMMA UnloadKeepsOrder ==
    ASSUME NEW loaded, NEW order, NEW loads, NEW number, InOrder(loaded, order, loads, number),
           NEW c
    PROVE  InOrder(loaded \ {c}, Retained(order, c), loads, number)
BY RetainedKeepsOrder DEF InOrder

(* No chunk stands twice in the order, so that the first is gone when it is *)
(* taken off.                                                            *)
LEMMA EvictKeepsOrder ==
    ASSUME NEW loaded, NEW order, NEW loads, NEW number, InOrder(loaded, order, loads, number),
           order # << >>
    PROVE  InOrder(loaded \ {Head(order)}, Tail(order), loads, number)
<1> DEFINE t == Tail(order)
           L == Len(order)
<1>1. /\ order \in Seq(Coords) /\ loaded = ToSet(order)
      /\ number \in [Coords -> Nat] /\ Ascending(order, number)
    BY DEF InOrder
<1>2. /\ L \in Nat /\ L > 0 /\ t \in Seq(Coords) /\ Len(t) = L - 1
      /\ DOMAIN order = 1..L /\ DOMAIN t = 1..L - 1
      /\ Head(order) = order[1] /\ \A k \in 1..L - 1 : t[k] = order[k + 1]
    BY <1>1
<1>3. \A i, j \in 1..L : i < j => number[order[i]] < number[order[j]]
    BY <1>1 DEF Ascending
<1>4. ToSet(order) = {order[k] : k \in 1..L} /\ ToSet(t) = {t[k] : k \in 1..L - 1}
    BY <1>2 DEF ToSet
<1> HIDE DEF t, L
<1>5. \A k \in 1..L : k = 1 \/ (k - 1 \in 1..L - 1 /\ (k - 1) + 1 = k)
    BY <1>2
<1>6. \A k \in 1..L - 1 : k + 1 \in 1..L /\ 1 < k + 1
    BY <1>2
<1>7. 1 \in 1..L /\ \A k \in 1..L : number[order[k]] \in Nat
    BY <1>1, <1>2
<1>8. \A k \in 1..L - 1 : order[k + 1] # order[1]
    BY <1>3, <1>6, <1>7
<1>9. ToSet(t) = ToSet(order) \ {order[1]}
    <2>1. ASSUME NEW x \in ToSet(t)
          PROVE  x \in ToSet(order) \ {order[1]}
        BY <1>2, <1>4, <1>6, <1>8
    <2>2. ASSUME NEW x \in ToSet(order) \ {order[1]}
          PROVE  x \in ToSet(t)
        <3>1. PICK k \in 1..L : x = order[k]
            BY <1>4
        <3>2. k - 1 \in 1..L - 1 /\ t[k - 1] = x
            BY <1>2, <1>5, <3>1
        <3> QED  BY <1>4, <3>2
    <2> QED  BY <2>1, <2>2
<1>10. Ascending(t, number)
    <2> SUFFICES ASSUME NEW i \in 1..L - 1, NEW j \in 1..L - 1, i < j
                 PROVE  number[t[i]] < number[t[j]]
        BY <1>2 DEF Ascending
    <2>1. i + 1 < j + 1
        BY <1>2
    <2> QED  BY <1>2, <1>3, <1>6, <2>1
<1> QED  BY <1>1, <1>2, <1>9, <1>10 DEF InOrder, t

---------------------------------------------------------------------------
(* Meshes.  Append adds one element.                                     *)
LEMMA AppendOne ==
    ASSUME NEW X, NEW t \in Seq(X), NEW x \in X
    PROVE  /\ Append(t, x) \in Seq(X) /\ Len(Append(t, x)) = Len(t) + 1
           /\ Len(t) \in Nat
OBVIOUS

(* The loops over a chunk visit voxels of it.                            *)
LEMMA SolidsAreCells ==
    ASSUME NEW chunk
    PROVE  SolidCells(chunk) \in Seq(Cells)
<1> DEFINE X == Cells
           N == CellCount
           solid(n) == chunk[n - 1] # 0
           next == [n \in 1..N |-> [t \in Seq(X) |-> IF solid(n) THEN Append(t, n - 1) ELSE t]]
           upTo[n \in 0..N] ==
               IF n = 0 THEN << >>
               ELSE IF chunk[n - 1] # 0 THEN Append(upTo[n - 1], n - 1) ELSE upTo[n - 1]
           body(h) == [n \in 0..N |->
               IF n = 0 THEN << >>
               ELSE IF chunk[n - 1] # 0 THEN Append(h[n - 1], n - 1) ELSE h[n - 1]]
<1>1. N \in Nat /\ << >> \in Seq(X) /\ \A n \in 1..N : n - 1 \in X
    BY CApiAssumption DEF Cells
<1>2. next \in [1..N -> [Seq(X) -> Seq(X)]]
    <2> HIDE DEF X, N, solid
    <2>1. \A n \in 1..N : \A t \in Seq(X) : (IF solid(n) THEN Append(t, n - 1) ELSE t) \in Seq(X)
        BY <1>1, AppendOne
    <2> QED  BY <2>1
<1>3. upTo = CHOOSE h : h = body(h)
    OBVIOUS
<1>4. SolidCells(chunk) = upTo[N]
    BY DEF SolidCells
<1> HIDE DEF upTo, next, N
<1>5. PICK f \in [0..N -> Seq(X)] : f[0] = << >> /\ \A n \in 1..N : f[n] = next[n][f[n - 1]]
    <2> DEFINE Q == Seq(X)
               first == << >>
    <2>1. first \in Q /\ next \in [1..N -> [Q -> Q]]
        BY <1>1, <1>2
    <2> HIDE DEF body, Q, first
    <2>2. \E f \in [0..N -> Q] : Follows(f, N, first, next)
        BY <1>1, <2>1, Recursion
    <2> QED  BY <2>2 DEF Q, Follows, first
<1>6. ASSUME NEW n \in 1..N
      PROVE  f[n] = IF chunk[n - 1] # 0 THEN Append(f[n - 1], n - 1) ELSE f[n - 1]
    <2>1. n - 1 \in 0..N /\ f[n - 1] \in Seq(X)
        <3> HIDE DEF X
        <3> QED  BY <1>1
    <2>2. next[n] = [t \in Seq(X) |-> IF chunk[n - 1] # 0 THEN Append(t, n - 1) ELSE t]
        BY DEF next
    <2> HIDE DEF X
    <2> QED  BY <1>5, <2>1, <2>2
<1>7. f = body(f)
    <2>1. f = [n \in 0..N |-> f[n]]
        OBVIOUS
    <2>2. \A n \in 0..N : n = 0 \/ n \in 1..N
        BY <1>1
    <2>3. \A n \in 0..N : f[n] = IF n = 0 THEN << >>
              ELSE IF chunk[n - 1] # 0 THEN Append(f[n - 1], n - 1) ELSE f[n - 1]
        BY <1>5, <1>6, <2>2
    <2> QED  BY <2>1, <2>3
<1>8. upTo = body(upTo)
    <2> HIDE DEF body
    <2> QED  BY <1>3, <1>7
<1>9. upTo[0] = << >> /\ \A n \in 1..N :
          upTo[n] = IF chunk[n - 1] # 0 THEN Append(upTo[n - 1], n - 1) ELSE upTo[n - 1]
    <2>1. \A n \in 0..N : upTo[n] = IF n = 0 THEN << >>
              ELSE IF chunk[n - 1] # 0 THEN Append(upTo[n - 1], n - 1) ELSE upTo[n - 1]
        BY <1>8
    <2>2. 0 \in 0..N /\ \A n \in 1..N : n \in 0..N /\ n # 0
        BY <1>1
    <2> QED  BY <2>1, <2>2
<1> HIDE DEF X, body
<1> DEFINE S == {n \in 0..N : upTo[n] \in Seq(X)}
<1>10. 0 \in S
    <2>1. 0 \in 0..N
        BY <1>1
    <2>2. upTo[0] \in Seq(X)
        BY <1>1, <1>9
    <2> QED  BY <2>1, <2>2
<1>11. ASSUME NEW n \in 0..N - 1, n \in S
       PROVE  n + 1 \in S
    <2>1. n + 1 \in 1..N /\ (n + 1) - 1 = n /\ n + 1 \in 0..N
        BY <1>1
    <2>2. upTo[n + 1] = IF chunk[n] # 0 THEN Append(upTo[n], n) ELSE upTo[n]
        BY <1>9, <2>1
    <2>3. n \in X /\ upTo[n] \in Seq(X)
        BY <1>1, <1>11, <2>1
    <2>4. Append(upTo[n], n) \in Seq(X)
        BY <2>3, AppendOne
    <2> QED  BY <2>1, <2>2, <2>3, <2>4
<1>12. N \in S
    <2> HIDE DEF S
    <2>1. 0..N \subseteq S
        BY <1>1, <1>10, <1>11, UpTo
    <2> QED  BY <1>1, <2>1
<1> QED  BY <1>4, <1>12 DEF X

(* Vertices and indices that are those of n cubes, one in each of the    *)
(* cells that solid lists.                                               *)
CubesIn(vs, is, n, solid) ==
    /\ Len(vs) = 8 * n /\ Len(is) = 36 * n
    /\ \A q \in 0..n - 1 : solid[q + 1] \in Cells
    /\ \A q \in 0..n - 1, f \in 0..7 :
         vs[8 * q + f + 1].cell = solid[q + 1] /\ vs[8 * q + f + 1].corner = positions[f + 1]
    /\ \A q \in 0..n - 1, r \in 0..11, j \in 1..3 :
         is[3 * (12 * q + r) + j] = 8 * q + faces[r + 1][j]

Cubes(vs, is) == \E n \in Nat : \E solid : CubesIn(vs, is, n, solid)

(* What is built is a cube for every solid voxel.                        *)
LEMMA BuildsCubes ==
    ASSUME NEW chunk
    PROVE  Cubes(voxel_mesh_build(chunk).vertices, voxel_mesh_build(chunk).indices)
<1> DEFINE solid == SolidCells(chunk)
           n == Len(solid)
           vs == [k \in 1..8 * n |->
                    [cell |-> solid[(k - 1) \div 8 + 1], corner |-> positions[((k - 1) % 8) + 1],
                     material |-> chunk[solid[(k - 1) \div 8 + 1]]]]
           is == [k \in 1..36 * n |->
                    8 * ((k - 1) \div 36) + faces[((k - 1) % 36) \div 3 + 1][((k - 1) % 3) + 1]]
<1>1. voxel_mesh_build(chunk).vertices = vs /\ voxel_mesh_build(chunk).indices = is
    BY DEF voxel_mesh_build
<1>2. n \in Nat /\ \A q \in 0..n - 1 : solid[q + 1] \in Cells
    <2> HIDE DEF solid
    <2>1. solid \in Seq(Cells)
        BY SolidsAreCells DEF solid
    <2> QED  BY <2>1
<1> HIDE DEF solid, n
<1>3. Len(vs) = 8 * n /\ Len(is) = 36 * n
    BY <1>2
<1>4. ASSUME NEW q \in 0..n - 1, NEW f \in 0..7
      PROVE  vs[8 * q + f + 1].cell = solid[q + 1] /\ vs[8 * q + f + 1].corner = positions[f + 1]
    <2> DEFINE k == 8 * q + f + 1
    <2>1. k \in 1..8 * n /\ (k - 1) \div 8 = q /\ (k - 1) % 8 = f
        BY <1>2
    <2> HIDE DEF k
    <2>2. vs[k].cell = solid[q + 1] /\ vs[k].corner = positions[f + 1]
        BY <2>1
    <2> QED  BY <2>2 DEF k
<1>5. ASSUME NEW q \in 0..n - 1, NEW r \in 0..11, NEW j \in 1..3
      PROVE  is[3 * (12 * q + r) + j] = 8 * q + faces[r + 1][j]
    <2> DEFINE k == 3 * (12 * q + r) + j
    <2>1. k \in 1..36 * n /\ k - 1 = 36 * q + (3 * r + (j - 1)) /\ 3 * r + (j - 1) \in 0..35
        BY <1>2
    <2>2. (k - 1) \div 36 = q /\ (k - 1) % 36 = 3 * r + (j - 1)
        BY <1>2, <2>1
    <2>3. (3 * r + (j - 1)) \div 3 = r /\ (k - 1) % 3 = j - 1
        BY <1>2, <2>1
    <2> HIDE DEF k
    <2>4. is[k] = 8 * q + faces[r + 1][(j - 1) + 1]
        BY <2>1, <2>2, <2>3
    <2>5. (j - 1) + 1 = j
        OBVIOUS
    <2> QED  BY <2>4, <2>5 DEF k
<1> HIDE DEF vs, is
<1>6. CubesIn(vs, is, n, solid)
    BY <1>2, <1>3, <1>4, <1>5 DEF CubesIn
<1> QED  BY <1>1, <1>2, <1>6 DEF Cubes

(* The triangle of a cube that passes from corner a to corner b, or 0.   *)
PassedBy(a, b) ==
    <<  0,  1,  2,  9,  5,  6,  0, 10,
        6,  0,  1,  0,  0, 11, 12,  0,
        1, 12,  0,  2,  0,  0,  7,  8,
        2,  0,  8,  0,  0,  0,  0,  9,
       10,  0,  0,  0,  0,  5,  3,  4,
        5,  6,  0,  0,  3,  0, 11,  0,
        0, 11, 12,  0,  4,  3,  0,  7,
        9,  0,  7,  8, 10,  0,  4,  0 >>[8 * a + b + 1]

Onward(j) == IF j = 3 THEN 1 ELSE j + 1

(* Every triangle of a cube lies in one face of it, passes edges that no *)
(* other passes, and each of them is passed back by one.                 *)
TableHolds(r) ==
    /\ \A j \in 1..3 :
         /\ faces[r][j] \in 0..7
         /\ PassedBy(faces[r][j], faces[r][Onward(j)]) = r
         /\ \E s \in 1..12, i \in 1..3 :
              faces[s][i] = faces[r][Onward(j)] /\ faces[s][Onward(i)] = faces[r][j]
    /\ \E axis \in 1..3, k \in {0, 1} :
         \A j \in 1..3 : positions[faces[r][j] + 1][axis] = k

LEMMA FacesClose == \A r \in 1..12 : TableHolds(r)
<1>1. faces[1][1] = 0 /\ faces[1][2] = 1 /\ faces[1][3] = 2
    BY DEF faces
<1>2. faces[2][1] = 0 /\ faces[2][2] = 2 /\ faces[2][3] = 3
    BY DEF faces
<1>3. faces[3][1] = 4 /\ faces[3][2] = 6 /\ faces[3][3] = 5
    BY DEF faces
<1>4. faces[4][1] = 4 /\ faces[4][2] = 7 /\ faces[4][3] = 6
    BY DEF faces
<1>5. faces[5][1] = 0 /\ faces[5][2] = 4 /\ faces[5][3] = 5
    BY DEF faces
<1>6. faces[6][1] = 0 /\ faces[6][2] = 5 /\ faces[6][3] = 1
    BY DEF faces
<1>7. faces[7][1] = 2 /\ faces[7][2] = 6 /\ faces[7][3] = 7
    BY DEF faces
<1>8. faces[8][1] = 2 /\ faces[8][2] = 7 /\ faces[8][3] = 3
    BY DEF faces
<1>9. faces[9][1] = 0 /\ faces[9][2] = 3 /\ faces[9][3] = 7
    BY DEF faces
<1>10. faces[10][1] = 0 /\ faces[10][2] = 7 /\ faces[10][3] = 4
    BY DEF faces
<1>11. faces[11][1] = 1 /\ faces[11][2] = 5 /\ faces[11][3] = 6
    BY DEF faces
<1>12. faces[12][1] = 1 /\ faces[12][2] = 6 /\ faces[12][3] = 2
    BY DEF faces
<1>13. TableHolds(1)
    <2>1. PassedBy(0, 1) = 1 /\ PassedBy(1, 2) = 1 /\ PassedBy(2, 0) = 1
        BY DEF PassedBy
    <2>2. /\ faces[6][3] = 1 /\ faces[6][Onward(3)] = 0
          /\ faces[12][3] = 2 /\ faces[12][Onward(3)] = 1
          /\ faces[2][1] = 0 /\ faces[2][Onward(1)] = 2
        BY <1>1, <1>2, <1>6, <1>12 DEF Onward
    <2>3. positions[1][3] = 0 /\ positions[2][3] = 0 /\ positions[3][3] = 0
        BY DEF positions
    <2>4. ASSUME NEW j \in 1..3
          PROVE  /\ faces[1][j] \in 0..7
                 /\ PassedBy(faces[1][j], faces[1][Onward(j)]) = 1
                 /\ \E s \in 1..12, i \in 1..3 :
                      faces[s][i] = faces[1][Onward(j)] /\ faces[s][Onward(i)] = faces[1][j]
                 /\ positions[faces[1][j] + 1][3] = 0
        <3>1. CASE j = 1
            BY <1>1, <2>1, <2>2, <2>3, <3>1 DEF Onward
        <3>2. CASE j = 2
            BY <1>1, <2>1, <2>2, <2>3, <3>2 DEF Onward
        <3>3. CASE j = 3
            BY <1>1, <2>1, <2>2, <2>3, <3>3 DEF Onward
        <3>4. j = 1 \/ j = 2 \/ j = 3
            OBVIOUS
        <3> QED  BY <3>1, <3>2, <3>3, <3>4, Zenon
    <2>5. 3 \in 1..3 /\ 0 \in {0, 1}
        OBVIOUS
    <2>6. \E axis \in 1..3, k \in {0, 1} :
              \A j \in 1..3 : positions[faces[1][j] + 1][axis] = k
        BY <2>4, <2>5, Zenon
    <2> QED  BY <2>4, <2>6, Zenon DEF TableHolds
<1>14. TableHolds(2)
    <2>1. PassedBy(0, 2) = 2 /\ PassedBy(2, 3) = 2 /\ PassedBy(3, 0) = 2
        BY DEF PassedBy
    <2>2. /\ faces[1][3] = 2 /\ faces[1][Onward(3)] = 0
          /\ faces[8][3] = 3 /\ faces[8][Onward(3)] = 2
          /\ faces[9][1] = 0 /\ faces[9][Onward(1)] = 3
        BY <1>1, <1>2, <1>8, <1>9 DEF Onward
    <2>3. positions[1][3] = 0 /\ positions[3][3] = 0 /\ positions[4][3] = 0
        BY DEF positions
    <2>4. ASSUME NEW j \in 1..3
          PROVE  /\ faces[2][j] \in 0..7
                 /\ PassedBy(faces[2][j], faces[2][Onward(j)]) = 2
                 /\ \E s \in 1..12, i \in 1..3 :
                      faces[s][i] = faces[2][Onward(j)] /\ faces[s][Onward(i)] = faces[2][j]
                 /\ positions[faces[2][j] + 1][3] = 0
        <3>1. CASE j = 1
            BY <1>2, <2>1, <2>2, <2>3, <3>1 DEF Onward
        <3>2. CASE j = 2
            BY <1>2, <2>1, <2>2, <2>3, <3>2 DEF Onward
        <3>3. CASE j = 3
            BY <1>2, <2>1, <2>2, <2>3, <3>3 DEF Onward
        <3>4. j = 1 \/ j = 2 \/ j = 3
            OBVIOUS
        <3> QED  BY <3>1, <3>2, <3>3, <3>4, Zenon
    <2>5. 3 \in 1..3 /\ 0 \in {0, 1}
        OBVIOUS
    <2>6. \E axis \in 1..3, k \in {0, 1} :
              \A j \in 1..3 : positions[faces[2][j] + 1][axis] = k
        BY <2>4, <2>5, Zenon
    <2> QED  BY <2>4, <2>6, Zenon DEF TableHolds
<1>15. TableHolds(3)
    <2>1. PassedBy(4, 6) = 3 /\ PassedBy(6, 5) = 3 /\ PassedBy(5, 4) = 3
        BY DEF PassedBy
    <2>2. /\ faces[4][3] = 6 /\ faces[4][Onward(3)] = 4
          /\ faces[11][2] = 5 /\ faces[11][Onward(2)] = 6
          /\ faces[5][2] = 4 /\ faces[5][Onward(2)] = 5
        BY <1>3, <1>4, <1>5, <1>11 DEF Onward
    <2>3. positions[5][3] = 1 /\ positions[7][3] = 1 /\ positions[6][3] = 1
        BY DEF positions
    <2>4. ASSUME NEW j \in 1..3
          PROVE  /\ faces[3][j] \in 0..7
                 /\ PassedBy(faces[3][j], faces[3][Onward(j)]) = 3
                 /\ \E s \in 1..12, i \in 1..3 :
                      faces[s][i] = faces[3][Onward(j)] /\ faces[s][Onward(i)] = faces[3][j]
                 /\ positions[faces[3][j] + 1][3] = 1
        <3>1. CASE j = 1
            BY <1>3, <2>1, <2>2, <2>3, <3>1 DEF Onward
        <3>2. CASE j = 2
            BY <1>3, <2>1, <2>2, <2>3, <3>2 DEF Onward
        <3>3. CASE j = 3
            BY <1>3, <2>1, <2>2, <2>3, <3>3 DEF Onward
        <3>4. j = 1 \/ j = 2 \/ j = 3
            OBVIOUS
        <3> QED  BY <3>1, <3>2, <3>3, <3>4, Zenon
    <2>5. 3 \in 1..3 /\ 1 \in {0, 1}
        OBVIOUS
    <2>6. \E axis \in 1..3, k \in {0, 1} :
              \A j \in 1..3 : positions[faces[3][j] + 1][axis] = k
        BY <2>4, <2>5, Zenon
    <2> QED  BY <2>4, <2>6, Zenon DEF TableHolds
<1>16. TableHolds(4)
    <2>1. PassedBy(4, 7) = 4 /\ PassedBy(7, 6) = 4 /\ PassedBy(6, 4) = 4
        BY DEF PassedBy
    <2>2. /\ faces[10][2] = 7 /\ faces[10][Onward(2)] = 4
          /\ faces[7][2] = 6 /\ faces[7][Onward(2)] = 7
          /\ faces[3][1] = 4 /\ faces[3][Onward(1)] = 6
        BY <1>3, <1>4, <1>7, <1>10 DEF Onward
    <2>3. positions[5][3] = 1 /\ positions[8][3] = 1 /\ positions[7][3] = 1
        BY DEF positions
    <2>4. ASSUME NEW j \in 1..3
          PROVE  /\ faces[4][j] \in 0..7
                 /\ PassedBy(faces[4][j], faces[4][Onward(j)]) = 4
                 /\ \E s \in 1..12, i \in 1..3 :
                      faces[s][i] = faces[4][Onward(j)] /\ faces[s][Onward(i)] = faces[4][j]
                 /\ positions[faces[4][j] + 1][3] = 1
        <3>1. CASE j = 1
            BY <1>4, <2>1, <2>2, <2>3, <3>1 DEF Onward
        <3>2. CASE j = 2
            BY <1>4, <2>1, <2>2, <2>3, <3>2 DEF Onward
        <3>3. CASE j = 3
            BY <1>4, <2>1, <2>2, <2>3, <3>3 DEF Onward
        <3>4. j = 1 \/ j = 2 \/ j = 3
            OBVIOUS
        <3> QED  BY <3>1, <3>2, <3>3, <3>4, Zenon
    <2>5. 3 \in 1..3 /\ 1 \in {0, 1}
        OBVIOUS
    <2>6. \E axis \in 1..3, k \in {0, 1} :
              \A j \in 1..3 : positions[faces[4][j] + 1][axis] = k
        BY <2>4, <2>5, Zenon
    <2> QED  BY <2>4, <2>6, Zenon DEF TableHolds
<1>17. TableHolds(5)
    <2>1. PassedBy(0, 4) = 5 /\ PassedBy(4, 5) = 5 /\ PassedBy(5, 0) = 5
        BY DEF PassedBy
    <2>2. /\ faces[10][3] = 4 /\ faces[10][Onward(3)] = 0
          /\ faces[3][3] = 5 /\ faces[3][Onward(3)] = 4
          /\ faces[6][1] = 0 /\ faces[6][Onward(1)] = 5
        BY <1>3, <1>5, <1>6, <1>10 DEF Onward
    <2>3. positions[1][2] = 0 /\ positions[5][2] = 0 /\ positions[6][2] = 0
        BY DEF positions
    <2>4. ASSUME NEW j \in 1..3
          PROVE  /\ faces[5][j] \in 0..7
                 /\ PassedBy(faces[5][j], faces[5][Onward(j)]) = 5
                 /\ \E s \in 1..12, i \in 1..3 :
                      faces[s][i] = faces[5][Onward(j)] /\ faces[s][Onward(i)] = faces[5][j]
                 /\ positions[faces[5][j] + 1][2] = 0
        <3>1. CASE j = 1
            BY <1>5, <2>1, <2>2, <2>3, <3>1 DEF Onward
        <3>2. CASE j = 2
            BY <1>5, <2>1, <2>2, <2>3, <3>2 DEF Onward
        <3>3. CASE j = 3
            BY <1>5, <2>1, <2>2, <2>3, <3>3 DEF Onward
        <3>4. j = 1 \/ j = 2 \/ j = 3
            OBVIOUS
        <3> QED  BY <3>1, <3>2, <3>3, <3>4, Zenon
    <2>5. 2 \in 1..3 /\ 0 \in {0, 1}
        OBVIOUS
    <2>6. \E axis \in 1..3, k \in {0, 1} :
              \A j \in 1..3 : positions[faces[5][j] + 1][axis] = k
        BY <2>4, <2>5, Zenon
    <2> QED  BY <2>4, <2>6, Zenon DEF TableHolds
<1>18. TableHolds(6)
    <2>1. PassedBy(0, 5) = 6 /\ PassedBy(5, 1) = 6 /\ PassedBy(1, 0) = 6
        BY DEF PassedBy
    <2>2. /\ faces[5][3] = 5 /\ faces[5][Onward(3)] = 0
          /\ faces[11][1] = 1 /\ faces[11][Onward(1)] = 5
          /\ faces[1][1] = 0 /\ faces[1][Onward(1)] = 1
        BY <1>1, <1>5, <1>6, <1>11 DEF Onward
    <2>3. positions[1][2] = 0 /\ positions[6][2] = 0 /\ positions[2][2] = 0
        BY DEF positions
    <2>4. ASSUME NEW j \in 1..3
          PROVE  /\ faces[6][j] \in 0..7
                 /\ PassedBy(faces[6][j], faces[6][Onward(j)]) = 6
                 /\ \E s \in 1..12, i \in 1..3 :
                      faces[s][i] = faces[6][Onward(j)] /\ faces[s][Onward(i)] = faces[6][j]
                 /\ positions[faces[6][j] + 1][2] = 0
        <3>1. CASE j = 1
            BY <1>6, <2>1, <2>2, <2>3, <3>1 DEF Onward
        <3>2. CASE j = 2
            BY <1>6, <2>1, <2>2, <2>3, <3>2 DEF Onward
        <3>3. CASE j = 3
            BY <1>6, <2>1, <2>2, <2>3, <3>3 DEF Onward
        <3>4. j = 1 \/ j = 2 \/ j = 3
            OBVIOUS
        <3> QED  BY <3>1, <3>2, <3>3, <3>4, Zenon
    <2>5. 2 \in 1..3 /\ 0 \in {0, 1}
        OBVIOUS
    <2>6. \E axis \in 1..3, k \in {0, 1} :
              \A j \in 1..3 : positions[faces[6][j] + 1][axis] = k
        BY <2>4, <2>5, Zenon
    <2> QED  BY <2>4, <2>6, Zenon DEF TableHolds
<1>19. TableHolds(7)
    <2>1. PassedBy(2, 6) = 7 /\ PassedBy(6, 7) = 7 /\ PassedBy(7, 2) = 7
        BY DEF PassedBy
    <2>2. /\ faces[12][2] = 6 /\ faces[12][Onward(2)] = 2
          /\ faces[4][2] = 7 /\ faces[4][Onward(2)] = 6
          /\ faces[8][1] = 2 /\ faces[8][Onward(1)] = 7
        BY <1>4, <1>7, <1>8, <1>12 DEF Onward
    <2>3. positions[3][2] = 1 /\ positions[7][2] = 1 /\ positions[8][2] = 1
        BY DEF positions
    <2>4. ASSUME NEW j \in 1..3
          PROVE  /\ faces[7][j] \in 0..7
                 /\ PassedBy(faces[7][j], faces[7][Onward(j)]) = 7
                 /\ \E s \in 1..12, i \in 1..3 :
                      faces[s][i] = faces[7][Onward(j)] /\ faces[s][Onward(i)] = faces[7][j]
                 /\ positions[faces[7][j] + 1][2] = 1
        <3>1. CASE j = 1
            BY <1>7, <2>1, <2>2, <2>3, <3>1 DEF Onward
        <3>2. CASE j = 2
            BY <1>7, <2>1, <2>2, <2>3, <3>2 DEF Onward
        <3>3. CASE j = 3
            BY <1>7, <2>1, <2>2, <2>3, <3>3 DEF Onward
        <3>4. j = 1 \/ j = 2 \/ j = 3
            OBVIOUS
        <3> QED  BY <3>1, <3>2, <3>3, <3>4, Zenon
    <2>5. 2 \in 1..3 /\ 1 \in {0, 1}
        OBVIOUS
    <2>6. \E axis \in 1..3, k \in {0, 1} :
              \A j \in 1..3 : positions[faces[7][j] + 1][axis] = k
        BY <2>4, <2>5, Zenon
    <2> QED  BY <2>4, <2>6, Zenon DEF TableHolds
<1>20. TableHolds(8)
    <2>1. PassedBy(2, 7) = 8 /\ PassedBy(7, 3) = 8 /\ PassedBy(3, 2) = 8
        BY DEF PassedBy
    <2>2. /\ faces[7][3] = 7 /\ faces[7][Onward(3)] = 2
          /\ faces[9][2] = 3 /\ faces[9][Onward(2)] = 7
          /\ faces[2][2] = 2 /\ faces[2][Onward(2)] = 3
        BY <1>2, <1>7, <1>8, <1>9 DEF Onward
    <2>3. positions[3][2] = 1 /\ positions[8][2] = 1 /\ positions[4][2] = 1
        BY DEF positions
    <2>4. ASSUME NEW j \in 1..3
          PROVE  /\ faces[8][j] \in 0..7
                 /\ PassedBy(faces[8][j], faces[8][Onward(j)]) = 8
                 /\ \E s \in 1..12, i \in 1..3 :
                      faces[s][i] = faces[8][Onward(j)] /\ faces[s][Onward(i)] = faces[8][j]
                 /\ positions[faces[8][j] + 1][2] = 1
        <3>1. CASE j = 1
            BY <1>8, <2>1, <2>2, <2>3, <3>1 DEF Onward
        <3>2. CASE j = 2
            BY <1>8, <2>1, <2>2, <2>3, <3>2 DEF Onward
        <3>3. CASE j = 3
            BY <1>8, <2>1, <2>2, <2>3, <3>3 DEF Onward
        <3>4. j = 1 \/ j = 2 \/ j = 3
            OBVIOUS
        <3> QED  BY <3>1, <3>2, <3>3, <3>4, Zenon
    <2>5. 2 \in 1..3 /\ 1 \in {0, 1}
        OBVIOUS
    <2>6. \E axis \in 1..3, k \in {0, 1} :
              \A j \in 1..3 : positions[faces[8][j] + 1][axis] = k
        BY <2>4, <2>5, Zenon
    <2> QED  BY <2>4, <2>6, Zenon DEF TableHolds
<1>21. TableHolds(9)
    <2>1. PassedBy(0, 3) = 9 /\ PassedBy(3, 7) = 9 /\ PassedBy(7, 0) = 9
        BY DEF PassedBy
    <2>2. /\ faces[2][3] = 3 /\ faces[2][Onward(3)] = 0
          /\ faces[8][2] = 7 /\ faces[8][Onward(2)] = 3
          /\ faces[10][1] = 0 /\ faces[10][Onward(1)] = 7
        BY <1>2, <1>8, <1>9, <1>10 DEF Onward
    <2>3. positions[1][1] = 0 /\ positions[4][1] = 0 /\ positions[8][1] = 0
        BY DEF positions
    <2>4. ASSUME NEW j \in 1..3
          PROVE  /\ faces[9][j] \in 0..7
                 /\ PassedBy(faces[9][j], faces[9][Onward(j)]) = 9
                 /\ \E s \in 1..12, i \in 1..3 :
                      faces[s][i] = faces[9][Onward(j)] /\ faces[s][Onward(i)] = faces[9][j]
                 /\ positions[faces[9][j] + 1][1] = 0
        <3>1. CASE j = 1
            BY <1>9, <2>1, <2>2, <2>3, <3>1 DEF Onward
        <3>2. CASE j = 2
            BY <1>9, <2>1, <2>2, <2>3, <3>2 DEF Onward
        <3>3. CASE j = 3
            BY <1>9, <2>1, <2>2, <2>3, <3>3 DEF Onward
        <3>4. j = 1 \/ j = 2 \/ j = 3
            OBVIOUS
        <3> QED  BY <3>1, <3>2, <3>3, <3>4, Zenon
    <2>5. 1 \in 1..3 /\ 0 \in {0, 1}
        OBVIOUS
    <2>6. \E axis \in 1..3, k \in {0, 1} :
              \A j \in 1..3 : positions[faces[9][j] + 1][axis] = k
        BY <2>4, <2>5, Zenon
    <2> QED  BY <2>4, <2>6, Zenon DEF TableHolds
<1>22. TableHolds(10)
    <2>1. PassedBy(0, 7) = 10 /\ PassedBy(7, 4) = 10 /\ PassedBy(4, 0) = 10
        BY DEF PassedBy
    <2>2. /\ faces[9][3] = 7 /\ faces[9][Onward(3)] = 0
          /\ faces[4][1] = 4 /\ faces[4][Onward(1)] = 7
          /\ faces[5][1] = 0 /\ faces[5][Onward(1)] = 4
        BY <1>4, <1>5, <1>9, <1>10 DEF Onward
    <2>3. positions[1][1] = 0 /\ positions[8][1] = 0 /\ positions[5][1] = 0
        BY DEF positions
    <2>4. ASSUME NEW j \in 1..3
          PROVE  /\ faces[10][j] \in 0..7
                 /\ PassedBy(faces[10][j], faces[10][Onward(j)]) = 10
                 /\ \E s \in 1..12, i \in 1..3 :
                      faces[s][i] = faces[10][Onward(j)] /\ faces[s][Onward(i)] = faces[10][j]
                 /\ positions[faces[10][j] + 1][1] = 0
        <3>1. CASE j = 1
            BY <1>10, <2>1, <2>2, <2>3, <3>1 DEF Onward
        <3>2. CASE j = 2
            BY <1>10, <2>1, <2>2, <2>3, <3>2 DEF Onward
        <3>3. CASE j = 3
            BY <1>10, <2>1, <2>2, <2>3, <3>3 DEF Onward
        <3>4. j = 1 \/ j = 2 \/ j = 3
            OBVIOUS
        <3> QED  BY <3>1, <3>2, <3>3, <3>4, Zenon
    <2>5. 1 \in 1..3 /\ 0 \in {0, 1}
        OBVIOUS
    <2>6. \E axis \in 1..3, k \in {0, 1} :
              \A j \in 1..3 : positions[faces[10][j] + 1][axis] = k
        BY <2>4, <2>5, Zenon
    <2> QED  BY <2>4, <2>6, Zenon DEF TableHolds
<1>23. TableHolds(11)
    <2>1. PassedBy(1, 5) = 11 /\ PassedBy(5, 6) = 11 /\ PassedBy(6, 1) = 11
        BY DEF PassedBy
    <2>2. /\ faces[6][2] = 5 /\ faces[6][Onward(2)] = 1
          /\ faces[3][2] = 6 /\ faces[3][Onward(2)] = 5
          /\ faces[12][1] = 1 /\ faces[12][Onward(1)] = 6
        BY <1>3, <1>6, <1>11, <1>12 DEF Onward
    <2>3. positions[2][1] = 1 /\ positions[6][1] = 1 /\ positions[7][1] = 1
        BY DEF positions
    <2>4. ASSUME NEW j \in 1..3
          PROVE  /\ faces[11][j] \in 0..7
                 /\ PassedBy(faces[11][j], faces[11][Onward(j)]) = 11
                 /\ \E s \in 1..12, i \in 1..3 :
                      faces[s][i] = faces[11][Onward(j)] /\ faces[s][Onward(i)] = faces[11][j]
                 /\ positions[faces[11][j] + 1][1] = 1
        <3>1. CASE j = 1
            BY <1>11, <2>1, <2>2, <2>3, <3>1 DEF Onward
        <3>2. CASE j = 2
            BY <1>11, <2>1, <2>2, <2>3, <3>2 DEF Onward
        <3>3. CASE j = 3
            BY <1>11, <2>1, <2>2, <2>3, <3>3 DEF Onward
        <3>4. j = 1 \/ j = 2 \/ j = 3
            OBVIOUS
        <3> QED  BY <3>1, <3>2, <3>3, <3>4, Zenon
    <2>5. 1 \in 1..3 /\ 1 \in {0, 1}
        OBVIOUS
    <2>6. \E axis \in 1..3, k \in {0, 1} :
              \A j \in 1..3 : positions[faces[11][j] + 1][axis] = k
        BY <2>4, <2>5, Zenon
    <2> QED  BY <2>4, <2>6, Zenon DEF TableHolds
<1>24. TableHolds(12)
    <2>1. PassedBy(1, 6) = 12 /\ PassedBy(6, 2) = 12 /\ PassedBy(2, 1) = 12
        BY DEF PassedBy
    <2>2. /\ faces[11][3] = 6 /\ faces[11][Onward(3)] = 1
          /\ faces[7][1] = 2 /\ faces[7][Onward(1)] = 6
          /\ faces[1][2] = 1 /\ faces[1][Onward(2)] = 2
        BY <1>1, <1>7, <1>11, <1>12 DEF Onward
    <2>3. positions[2][1] = 1 /\ positions[7][1] = 1 /\ positions[3][1] = 1
        BY DEF positions
    <2>4. ASSUME NEW j \in 1..3
          PROVE  /\ faces[12][j] \in 0..7
                 /\ PassedBy(faces[12][j], faces[12][Onward(j)]) = 12
                 /\ \E s \in 1..12, i \in 1..3 :
                      faces[s][i] = faces[12][Onward(j)] /\ faces[s][Onward(i)] = faces[12][j]
                 /\ positions[faces[12][j] + 1][1] = 1
        <3>1. CASE j = 1
            BY <1>12, <2>1, <2>2, <2>3, <3>1 DEF Onward
        <3>2. CASE j = 2
            BY <1>12, <2>1, <2>2, <2>3, <3>2 DEF Onward
        <3>3. CASE j = 3
            BY <1>12, <2>1, <2>2, <2>3, <3>3 DEF Onward
        <3>4. j = 1 \/ j = 2 \/ j = 3
            OBVIOUS
        <3> QED  BY <3>1, <3>2, <3>3, <3>4, Zenon
    <2>5. 1 \in 1..3 /\ 1 \in {0, 1}
        OBVIOUS
    <2>6. \E axis \in 1..3, k \in {0, 1} :
              \A j \in 1..3 : positions[faces[12][j] + 1][axis] = k
        BY <2>4, <2>5, Zenon
    <2> QED  BY <2>4, <2>6, Zenon DEF TableHolds
<1> QED  BY <1>13, <1>14, <1>15, <1>16, <1>17, <1>18, <1>19, <1>20, <1>21, <1>22, <1>23, <1>24

---------------------------------------------------------------------------
(* The edges of a triangle of the q-th cube.                             *)
Edge(q, r, j) == <<8 * q + faces[r][j], 8 * q + faces[r][Onward(j)]>>
Edges(q, r) == {Edge(q, r, j) : j \in 1..3}

LEMMA TriangleEdges ==
    ASSUME NEW mesh, NEW n \in Nat, NEW solid, CubesIn(mesh.vertices, mesh.indices, n, solid),
           NEW q \in 0..n - 1, NEW r \in 0..11
    PROVE  Triangle(mesh, 12 * q + r) = Edges(q, r + 1)
<1> DEFINE t == 12 * q + r
           i(j) == mesh.indices[3 * t + j]
<1>1. \A j \in 1..3 : i(j) = 8 * q + faces[r + 1][j]
    BY DEF CubesIn
<1>2. Triangle(mesh, t) = {<<i(1), i(2)>>, <<i(2), i(3)>>, <<i(3), i(1)>>}
    BY DEF Triangle
<1>3. 1 \in 1..3 /\ 2 \in 1..3 /\ 3 \in 1..3 /\ \A j \in 1..3 : j = 1 \/ j = 2 \/ j = 3
    OBVIOUS
<1>4. Onward(1) = 2 /\ Onward(2) = 3 /\ Onward(3) = 1
    BY DEF Onward
<1>5. /\ Edge(q, r + 1, 1) = <<i(1), i(2)>>
      /\ Edge(q, r + 1, 2) = <<i(2), i(3)>>
      /\ Edge(q, r + 1, 3) = <<i(3), i(1)>>
    <2> HIDE DEF i
    <2> QED  BY <1>1, <1>3, <1>4 DEF Edge
<1> HIDE DEF i
<1>6. Triangle(mesh, t) = {Edge(q, r + 1, 1), Edge(q, r + 1, 2), Edge(q, r + 1, 3)}
    BY <1>2, <1>5, Zenon
<1>7. {Edge(q, r + 1, 1), Edge(q, r + 1, 2), Edge(q, r + 1, 3)} = {Edge(q, r + 1, j) : j \in 1..3}
    BY <1>3, Zenon
<1> QED  BY <1>6, <1>7, Zenon DEF t, Edges

(* A triangle belongs to a cube, and a corner of it to that cube alone.  *)
LEMMA CubeOfTriangle ==
    ASSUME NEW n \in Nat, NEW t \in 0..12 * n - 1
    PROVE  \E q \in 0..n - 1, r \in 0..11 : t = 12 * q + r
<1>1. t \div 12 \in 0..n - 1 /\ t % 12 \in 0..11 /\ t = 12 * (t \div 12) + (t % 12)
    OBVIOUS
<1> QED  BY <1>1, Zenon

LEMMA CornerNamed ==
    ASSUME NEW q \in Nat, NEW p \in Nat, NEW a \in 0..7, NEW b \in 0..7, 8 * q + a = 8 * p + b
    PROVE  q = p /\ a = b
OBVIOUS

(* The corners of a triangle, what passes its edges and what passes them *)
(* back.                                                                 *)
LEMMA TableOf ==
    ASSUME NEW r \in 0..11, NEW j \in 1..3
    PROVE  /\ faces[r + 1][j] \in 0..7 /\ faces[r + 1][Onward(j)] \in 0..7
           /\ PassedBy(faces[r + 1][j], faces[r + 1][Onward(j)]) = r + 1
           /\ \E s \in 0..11, i \in 1..3 :
                /\ faces[s + 1][i] = faces[r + 1][Onward(j)]
                /\ faces[s + 1][Onward(i)] = faces[r + 1][j]
<1>1. r + 1 \in 1..12 /\ Onward(j) \in 1..3
    BY DEF Onward
<1>2. TableHolds(r + 1)
    BY <1>1, FacesClose
<1>3. PICK s \in 1..12, i \in 1..3 :
          faces[s][i] = faces[r + 1][Onward(j)] /\ faces[s][Onward(i)] = faces[r + 1][j]
    BY <1>2, Zenon DEF TableHolds
<1>4. s - 1 \in 0..11 /\ (s - 1) + 1 = s
    BY <1>3
<1>5. \E u \in 0..11, i_1 \in 1..3 :
          faces[u + 1][i_1] = faces[r + 1][Onward(j)] /\ faces[u + 1][Onward(i_1)] = faces[r + 1][j]
    BY <1>3, <1>4, Zenon
<1> QED  BY <1>1, <1>2, <1>5, Zenon DEF TableHolds

LEMMA OneTrianglePasses ==
    ASSUME NEW mesh, NEW n \in Nat, NEW solid, CubesIn(mesh.vertices, mesh.indices, n, solid),
           NEW t \in 0..12 * n - 1, NEW u \in 0..12 * n - 1, NEW e,
           e \in Triangle(mesh, t), e \in Triangle(mesh, u)
    PROVE  t = u
<1>1. PICK q \in 0..n - 1, r \in 0..11 : t = 12 * q + r
    BY CubeOfTriangle, Zenon
<1>2. PICK p \in 0..n - 1, s \in 0..11 : u = 12 * p + s
    BY CubeOfTriangle, Zenon
<1>3. PICK j \in 1..3 : e = Edge(q, r + 1, j)
    <2>1. Triangle(mesh, 12 * q + r) = Edges(q, r + 1)
        BY TriangleEdges
    <2>2. e \in Edges(q, r + 1)
        BY <1>1, <2>1
    <2> QED  BY <2>2, Zenon DEF Edges
<1>4. PICK i \in 1..3 : e = Edge(p, s + 1, i)
    <2>1. Triangle(mesh, 12 * p + s) = Edges(p, s + 1)
        BY TriangleEdges
    <2>2. e \in Edges(p, s + 1)
        BY <1>2, <2>1
    <2> QED  BY <2>2, Zenon DEF Edges
<1> DEFINE a == faces[r + 1][j]
           b == faces[r + 1][Onward(j)]
           c == faces[s + 1][i]
           d == faces[s + 1][Onward(i)]
<1>5. /\ a \in 0..7 /\ b \in 0..7 /\ PassedBy(a, b) = r + 1
      /\ c \in 0..7 /\ d \in 0..7 /\ PassedBy(c, d) = s + 1
    BY TableOf, Zenon
<1>6. <<8 * q + a, 8 * q + b>> = <<8 * p + c, 8 * p + d>>
    BY <1>3, <1>4 DEF Edge
<1> HIDE DEF a, b, c, d
<1>7. q \in Nat /\ p \in Nat /\ 8 * q + a = 8 * p + c /\ 8 * q + b = 8 * p + d
    BY <1>6
<1>8. q = p /\ a = c /\ b = d
    BY <1>5, <1>7, CornerNamed
<1>9. r + 1 = s + 1
    BY <1>5, <1>8
<1> QED  BY <1>1, <1>2, <1>8, <1>9

LEMMA PassedBack ==
    ASSUME NEW mesh, NEW n \in Nat, NEW solid, CubesIn(mesh.vertices, mesh.indices, n, solid),
           NEW t \in 0..12 * n - 1, NEW e \in Triangle(mesh, t)
    PROVE  \E u \in 0..12 * n - 1 : <<e[2], e[1]>> \in Triangle(mesh, u)
<1>1. PICK q \in 0..n - 1, r \in 0..11 : t = 12 * q + r
    BY CubeOfTriangle, Zenon
<1>2. PICK j \in 1..3 : e = Edge(q, r + 1, j)
    <2>1. Triangle(mesh, 12 * q + r) = Edges(q, r + 1)
        BY TriangleEdges
    <2>2. e \in Edges(q, r + 1)
        BY <1>1, <2>1
    <2> QED  BY <2>2, Zenon DEF Edges
<1>3. PICK s \in 0..11, i \in 1..3 :
          faces[s + 1][i] = faces[r + 1][Onward(j)] /\ faces[s + 1][Onward(i)] = faces[r + 1][j]
    BY TableOf, Zenon
<1>4. <<e[2], e[1]>> = Edge(q, s + 1, i)
    BY <1>2, <1>3 DEF Edge
<1>5. <<e[2], e[1]>> \in Triangle(mesh, 12 * q + s)
    <2>1. Triangle(mesh, 12 * q + s) = Edges(q, s + 1)
        BY TriangleEdges
    <2> QED  BY <1>4, <2>1, Zenon DEF Edges
<1>6. 12 * q + s \in 0..12 * n - 1
    BY <1>3
<1> QED  BY <1>5, <1>6, Zenon

LEMMA OnePasser ==
    ASSUME NEW mesh, NEW n \in Nat, NEW solid, CubesIn(mesh.vertices, mesh.indices, n, solid),
           NEW t \in 0..12 * n - 1, NEW e, e \in Triangle(mesh, t)
    PROVE  Cardinality({u \in 0..12 * n - 1 : e \in Triangle(mesh, u)}) = 1
<1>1. \A u \in 0..12 * n - 1 : e \in Triangle(mesh, u) <=> u = t
    BY OneTrianglePasses, Zenon
<1>2. {u \in 0..12 * n - 1 : e \in Triangle(mesh, u)} = {t}
    BY <1>1, Zenon
<1> QED  BY <1>2, FS_Singleton

(* A mesh of cubes is closed, and a triangle lies in a face of its voxel. *)
LEMMA CubesClosed ==
    ASSUME NEW mesh, Cubes(mesh.vertices, mesh.indices),
           NEW t \in 0..(index_count(mesh) \div 3) - 1
    PROVE  /\ \A e \in Triangle(mesh, t) :
                /\ Cardinality({u \in 0..(index_count(mesh) \div 3) - 1 :
                                   <<e[2], e[1]>> \in Triangle(mesh, u)}) = 1
                /\ Cardinality({u \in 0..(index_count(mesh) \div 3) - 1 :
                                   e \in Triangle(mesh, u)}) = 1
           /\ \E axis \in 1..3, k \in {0, 1}, cell \in Cells : \A e \in Triangle(mesh, t) :
                /\ mesh.vertices[e[1] + 1].cell = cell
                /\ mesh.vertices[e[1] + 1].corner[axis] = k
<1>1. PICK n \in Nat : \E solid : CubesIn(mesh.vertices, mesh.indices, n, solid)
    BY Zenon DEF Cubes
<1>2. PICK solid : CubesIn(mesh.vertices, mesh.indices, n, solid)
    BY <1>1, Zenon
<1>3. (index_count(mesh) \div 3) - 1 = 12 * n - 1
    <2>1. index_count(mesh) = 36 * n
        BY <1>2 DEF CubesIn, index_count
    <2> QED  BY <2>1
<1>4. t \in 0..12 * n - 1
    BY <1>3
<1>5. ASSUME NEW e \in Triangle(mesh, t)
      PROVE  /\ Cardinality({u \in 0..12 * n - 1 : <<e[2], e[1]>> \in Triangle(mesh, u)}) = 1
             /\ Cardinality({u \in 0..12 * n - 1 : e \in Triangle(mesh, u)}) = 1
    <2>1. PICK u \in 0..12 * n - 1 : <<e[2], e[1]>> \in Triangle(mesh, u)
        BY <1>2, <1>4, PassedBack, Zenon
    <2> QED  BY <1>2, <1>4, <2>1, OnePasser, Zenon
<1>6. \E axis \in 1..3, k \in {0, 1}, cell \in Cells : \A e \in Triangle(mesh, t) :
          mesh.vertices[e[1] + 1].cell = cell /\ mesh.vertices[e[1] + 1].corner[axis] = k
    <2>1. PICK q \in 0..n - 1, r \in 0..11 : t = 12 * q + r
        BY <1>4, CubeOfTriangle, Zenon
    <2>2. r + 1 \in 1..12
        OBVIOUS
    <2>3. PICK axis \in 1..3, k \in {0, 1} : \A j \in 1..3 : positions[faces[r + 1][j] + 1][axis] = k
        BY <2>2, FacesClose, Zenon DEF TableHolds
    <2>4. solid[q + 1] \in Cells
        BY <1>2 DEF CubesIn
    <2>5. ASSUME NEW e \in Triangle(mesh, t)
          PROVE  /\ mesh.vertices[e[1] + 1].cell = solid[q + 1]
                 /\ mesh.vertices[e[1] + 1].corner[axis] = k
        <3>1. PICK j \in 1..3 : e = Edge(q, r + 1, j)
            <4>1. Triangle(mesh, 12 * q + r) = Edges(q, r + 1)
                BY <1>2, TriangleEdges
            <4>2. e \in Edges(q, r + 1)
                BY <2>1, <2>5, <4>1
            <4> QED  BY <4>2, Zenon DEF Edges
        <3>2. faces[r + 1][j] \in 0..7
            BY TableOf, Zenon
        <3>3. e[1] = 8 * q + faces[r + 1][j]
            BY <3>1 DEF Edge
        <3>4. /\ mesh.vertices[8 * q + faces[r + 1][j] + 1].cell = solid[q + 1]
              /\ mesh.vertices[8 * q + faces[r + 1][j] + 1].corner = positions[faces[r + 1][j] + 1]
            BY <1>2, <3>2, Zenon DEF CubesIn
        <3> QED  BY <2>3, <3>3, <3>4, Zenon
    <2> QED  BY <2>4, <2>5, Zenon
<1> QED  BY <1>3, <1>5, <1>6, Zenon

---------------------------------------------------------------------------
(* Native objects and their owners.                                      *)
Kinds == {"world", "palette", "streaming", "mesh"}

(* An object in a box has the fields of its kind; a palette holds no more *)
(* materials than there are identifiers, and a mesh is one of cubes.     *)
Boxed(x) ==
    \/ x = [kind |-> "world", dense |-> x.dense]
    \/ /\ x = [kind |-> "palette", materials |-> x.materials]
       /\ x.materials \in Seq(Hardness) /\ Len(x.materials) <= MaxId + 1
    \/ /\ x = [kind |-> "streaming", loaded |-> x.loaded, access_order |-> x.access_order,
               next_id |-> x.next_id, loads |-> x.loads, number |-> x.number]
       /\ InOrder(x.loaded, x.access_order, x.loads, x.number)
    \/ /\ x = [kind |-> "mesh", vertices |-> x.vertices, indices |-> x.indices]
       /\ Cubes(x.vertices, x.indices)

HeapInv ==
    /\ heap = [a \in Addresses |-> heap[a]]
    /\ \A a \in Addresses : heap[a] = Free \/ Boxed(heap[a])

(* A wrapper that was disposed of has forgotten its handle.              *)
WrapperInv ==
    /\ wrapper = [o \in Objects |-> wrapper[o]]
    /\ \A o \in Objects :
         \/ wrapper[o] = NoWrapper
         \/ /\ wrapper[o] = [kind |-> wrapper[o].kind, handle |-> wrapper[o].handle,
                             disposed |-> wrapper[o].disposed,
                             vertexCount |-> wrapper[o].vertexCount]
            /\ wrapper[o].kind \in Kinds /\ wrapper[o].disposed \in BOOLEAN
            /\ wrapper[o].disposed => wrapper[o].handle = Null

(* A wrapper counted the vertices of its mesh when it got it.            *)
CountsInv ==
    \A o \in Open : wrapper[o].kind = "mesh" => wrapper[o].vertexCount = vertex_count(At(o))

NativeInv == HeapInv /\ WrapperInv /\ OwnedOnce /\ CountsInv

---------------------------------------------------------------------------
(* What a box holds has one of the four kinds and is not free.           *)
LEMMA BoxedKind ==
    ASSUME NEW x, Boxed(x)
    PROVE  x.kind \in Kinds /\ x # Free
<1>1. CASE x = [kind |-> "world", dense |-> x.dense]
    <2>1. x.kind = "world"
        BY <1>1
    <2> QED  BY <2>1 DEF Kinds, Free
<1>2. CASE x = [kind |-> "palette", materials |-> x.materials]
    <2>1. x.kind = "palette"
        BY <1>2
    <2> QED  BY <2>1 DEF Kinds, Free
<1>3. CASE x = [kind |-> "streaming", loaded |-> x.loaded, access_order |-> x.access_order,
                next_id |-> x.next_id, loads |-> x.loads, number |-> x.number]
    <2>1. x.kind = "streaming"
        BY <1>3
    <2> QED  BY <2>1 DEF Kinds, Free
<1>4. CASE x = [kind |-> "mesh", vertices |-> x.vertices, indices |-> x.indices]
    <2>1. x.kind = "mesh"
        BY <1>4
    <2> QED  BY <2>1 DEF Kinds, Free
<1> QED  BY <1>1, <1>2, <1>3, <1>4 DEF Boxed

(* The wrapper's address holds an object of the wrapper's kind.          *)
LEMMA OpenIsBoxed ==
    ASSUME NativeInv, NEW o \in Objects, NEW kind \in Kinds, IsOpen(o, kind)
    PROVE  /\ o \in Open /\ wrapper[o].handle \in Addresses
           /\ At(o).kind = kind /\ Boxed(At(o))
<1>1. o \in Open /\ kind # "none" /\ kind # "free"
    BY DEF Open, IsOpen, Kinds
<1>2. wrapper[o].handle \in Addresses /\ At(o).kind = kind
    BY <1>1 DEF NativeInv, OwnedOnce, IsOpen
<1>3. At(o) # Free
    <2>1. Free.kind = "free"
        BY DEF Free
    <2> QED  BY <2>1, <1>1, <1>2
<1> QED  BY <1>1, <1>2, <1>3 DEF NativeInv, HeapInv, At

---------------------------------------------------------------------------
(* Creating an object and operating on one leave it in a box of its kind. *)
LEMMA CreatesBoxed ==
    ASSUME NEW kind \in {"world", "palette", "streaming"}
    PROVE  Boxed(Creates(kind)) /\ Creates(kind).kind = kind
<1>1. CASE kind = "world"
    BY <1>1 DEF Creates, voxel_create, Boxed
<1>2. CASE kind = "palette"
    <2>1. << >> \in Seq(Hardness) /\ Len(<< >>) <= MaxId + 1
        BY CApiAssumption
    <2> QED  BY <1>2, <2>1 DEF Creates, material_create, Boxed
<1>3. CASE kind = "streaming"
    <2> DEFINE none == [c \in Coords |-> 0]
    <2>1. InOrder({}, << >>, 0, none)
        <3>1. << >> \in Seq(Coords) /\ Len(<< >>) = 0 /\ ToSet(<< >>) = {}
            BY DEF ToSet
        <3>2. Ascending(<< >>, none)
            BY <3>1 DEF Ascending
        <3>3. 0 \in Nat /\ none \in [Coords -> Nat] /\ \A c \in Coords : none[c] <= 0
            OBVIOUS
        <3> HIDE DEF none
        <3>4. << >> \in Seq(Coords) /\ {} = ToSet(<< >>)
            BY <3>1
        <3> QED  BY <3>2, <3>3, <3>4, Zenon DEF InOrder
    <2>2. Creates(kind) = [kind |-> "streaming", loaded |-> {}, access_order |-> << >>,
                           next_id |-> 0, loads |-> 0, number |-> none]
        BY <1>3 DEF Creates, streaming_create
    <2> HIDE DEF none, InOrder
    <2>3. /\ Creates(kind).kind = "streaming" /\ Creates(kind).loaded = {}
          /\ Creates(kind).access_order = << >> /\ Creates(kind).next_id = 0
          /\ Creates(kind).loads = 0 /\ Creates(kind).number = none
        BY <2>2
    <2> QED  BY <1>3, <2>1, <2>2, <2>3 DEF Boxed
<1> QED  BY <1>1, <1>2, <1>3

LEMMA MeshBoxed ==
    ASSUME NEW chunk
    PROVE  Boxed(voxel_mesh_build(chunk)) /\ voxel_mesh_build(chunk).kind = "mesh"
<1> DEFINE mesh == voxel_mesh_build(chunk)
<1>1. \E vs, is : mesh = [kind |-> "mesh", vertices |-> vs, indices |-> is]
    BY DEF voxel_mesh_build
<1>2. PICK vs, is : mesh = [kind |-> "mesh", vertices |-> vs, indices |-> is]
    BY <1>1
<1> HIDE DEF mesh
<1>3. mesh.kind = "mesh" /\ mesh.vertices = vs /\ mesh.indices = is
    BY <1>2
<1>4. Cubes(mesh.vertices, mesh.indices)
    BY BuildsCubes DEF mesh
<1> QED  BY <1>2, <1>3, <1>4 DEF Boxed, mesh

LEMMA WorldKept ==
    ASSUME NEW w, Boxed(w), w.kind = "world", NEW c, NEW v, NEW value
    PROVE  Boxed(voxel_set(w, c, v, value)) /\ voxel_set(w, c, v, value).kind = "world"
<1>1. w = [kind |-> "world", dense |-> w.dense]
    BY DEF Boxed
<1>2. \A x : [w EXCEPT !.dense = x] = [kind |-> "world", dense |-> x]
    BY <1>1
<1>3. \E x : voxel_set(w, c, v, value) = [kind |-> "world", dense |-> x]
    BY <1>2 DEF voxel_set
<1> HIDE DEF voxel_set
<1> QED  BY <1>3 DEF Boxed

(* A palette refuses the material for which it has no identifier.        *)
LEMMA PaletteKept ==
    ASSUME NEW p, Boxed(p), p.kind = "palette", NEW h \in Hardness
    PROVE  /\ Boxed(material_set_property(p, h))
           /\ material_set_property(p, h).kind = "palette"
<1>1. /\ p = [kind |-> "palette", materials |-> p.materials]
      /\ p.materials \in Seq(Hardness) /\ Len(p.materials) <= MaxId + 1
    BY DEF Boxed
<1>2. CASE HasId(p)
    <2>1. material_set_property(p, h)
            = [kind |-> "palette", materials |-> Append(p.materials, h)]
        BY <1>1, <1>2 DEF material_set_property
    <2>2. /\ Append(p.materials, h) \in Seq(Hardness)
          /\ Len(Append(p.materials, h)) <= MaxId + 1
        BY <1>1, <1>2, CApiAssumption DEF HasId
    <2> QED  BY <2>1, <2>2 DEF Boxed
<1>3. CASE ~ HasId(p)
    BY <1>3 DEF material_set_property
<1> QED  BY <1>2, <1>3

LEMMA StreamingKept ==
    ASSUME NEW m, Boxed(m), m.kind = "streaming"
    PROVE  /\ \A c \in Coords :
                /\ Boxed(streaming_load(m, c)) /\ streaming_load(m, c).kind = "streaming"
                /\ Boxed(streaming_unload(m, c)) /\ streaming_unload(m, c).kind = "streaming"
           /\ Boxed(streaming_evict_oldest(m)) /\ streaming_evict_oldest(m).kind = "streaming"
<1> DEFINE Streamed(l, o, i, n, u) ==
        [kind |-> "streaming", loaded |-> l, access_order |-> o,
         next_id |-> i, loads |-> n, number |-> u]
<1>1. m = Streamed(m.loaded, m.access_order, m.next_id, m.loads, m.number)
    BY DEF Boxed
<1>2. InOrder(m.loaded, m.access_order, m.loads, m.number)
    BY DEF Boxed
<1>3. ASSUME NEW l, NEW o, NEW i, NEW n, NEW u, InOrder(l, o, n, u)
      PROVE  Boxed(Streamed(l, o, i, n, u)) /\ Streamed(l, o, i, n, u).kind = "streaming"
    BY <1>3 DEF Boxed
<1>4. ASSUME NEW c \in Coords
      PROVE  Boxed(streaming_load(m, c)) /\ streaming_load(m, c).kind = "streaming"
    <2>1. CASE c \notin m.loaded
        <3> DEFINE u == [m.number EXCEPT ![c] = m.loads + 1]
        <3>1. streaming_load(m, c) =
                Streamed(m.loaded \cup {c}, Append(m.access_order, c), (m.next_id + 1) % U32,
                         m.loads + 1, u)
            BY <1>1, <2>1 DEF streaming_load
        <3>2. InOrder(m.loaded \cup {c}, Append(m.access_order, c), m.loads + 1, u)
            BY <1>2, <2>1, LoadKeepsOrder
        <3> HIDE DEF u, Streamed, Boxed
        <3> QED  BY <1>3, <3>1, <3>2
    <2> QED  BY <2>1 DEF streaming_load
<1>5. ASSUME NEW c \in Coords
      PROVE  Boxed(streaming_unload(m, c)) /\ streaming_unload(m, c).kind = "streaming"
    <2> DEFINE rest == Retained(m.access_order, c)
    <2>1. streaming_unload(m, c) = [m EXCEPT !.loaded = @ \ {c}, !.access_order = rest]
        BY DEF streaming_unload
    <2>2. InOrder(m.loaded \ {c}, rest, m.loads, m.number)
        BY <1>2, UnloadKeepsOrder
    <2> HIDE DEF rest
    <2>3. streaming_unload(m, c) = Streamed(m.loaded \ {c}, rest, m.next_id, m.loads, m.number)
        BY <1>1, <2>1
    <2> HIDE DEF Streamed, Boxed
    <2> QED  BY <1>3, <2>2, <2>3
<1>6. Boxed(streaming_evict_oldest(m)) /\ streaming_evict_oldest(m).kind = "streaming"
    <2>1. CASE m.access_order # << >>
        <3>1. streaming_evict_oldest(m) =
                Streamed(m.loaded \ {Head(m.access_order)}, Tail(m.access_order),
                         m.next_id, m.loads, m.number)
            BY <1>1, <2>1 DEF streaming_evict_oldest
        <3>2. InOrder(m.loaded \ {Head(m.access_order)}, Tail(m.access_order), m.loads, m.number)
            BY <1>2, <2>1, EvictKeepsOrder
        <3> HIDE DEF Streamed, Boxed
        <3> QED  BY <1>3, <3>1, <3>2
    <2> QED  BY <2>1 DEF streaming_evict_oldest
<1> QED  BY <1>4, <1>5, <1>6

---------------------------------------------------------------------------
(* A call changes the object its wrapper owns and nothing else.          *)
LEMMA CallKeeps ==
    ASSUME NativeInv, NEW o \in Objects, NEW kind \in Kinds, IsOpen(o, kind),
           NEW native, Boxed(native), native.kind = kind, kind = "mesh" => native = At(o),
           heap' = [heap EXCEPT ![wrapper[o].handle] = native], wrapper' = wrapper
    PROVE  NativeInv'
<1> DEFINE h == wrapper[o].handle
<1>1. h \in Addresses /\ o \in Open /\ wrapper[o].kind = kind
    BY OpenIsBoxed DEF IsOpen
<1>2. heap' = [a \in Addresses |-> IF a = h THEN native ELSE heap[a]]
    BY <1>1 DEF NativeInv, HeapInv
<1>3. HeapInv'
    BY <1>2 DEF NativeInv, HeapInv, Boxed
<1>4. WrapperInv'
    BY DEF NativeInv, WrapperInv
<1>5. Open' = Open
    BY DEF Open
<1>6. \A p \in Open : wrapper[p].handle \in Addresses /\ heap'[wrapper[p].handle].kind = wrapper[p].kind
    <2> SUFFICES ASSUME NEW p \in Open
                 PROVE  /\ wrapper[p].handle \in Addresses
                        /\ heap'[wrapper[p].handle].kind = wrapper[p].kind
        OBVIOUS
    <2>1. /\ wrapper[p].handle \in Addresses /\ heap[wrapper[p].handle].kind = wrapper[p].kind
          /\ wrapper[p].handle = h => p = o
        BY <1>1 DEF NativeInv, OwnedOnce, At
    <2>2. heap'[wrapper[p].handle] = IF wrapper[p].handle = h THEN native ELSE heap[wrapper[p].handle]
        BY <1>2, <2>1
    <2> QED  BY <1>1, <2>1, <2>2
<1>7. \A p, q \in Open : wrapper[p].handle = wrapper[q].handle => p = q
    BY DEF NativeInv, OwnedOnce
<1>8. \A a \in Addresses : heap'[a] # Free => \E p \in Open : wrapper[p].handle = a
    BY <1>1, <1>2 DEF NativeInv, OwnedOnce
<1>9. CountsInv'
    <2> SUFFICES ASSUME NEW p \in Open, wrapper[p].kind = "mesh"
                 PROVE  heap'[wrapper[p].handle] = heap[wrapper[p].handle]
        BY <1>5 DEF NativeInv, CountsInv, At
    <2>1. wrapper[p].handle \in Addresses /\ (wrapper[p].handle = h => p = o)
        BY <1>1 DEF NativeInv, OwnedOnce
    <2> QED  BY <1>1, <1>2, <2>1 DEF At
<1> QED  BY <1>3, <1>4, <1>5, <1>6, <1>7, <1>8, <1>9 DEF NativeInv, OwnedOnce, At

(* A new wrapper gets an address nobody owns.                            *)
LEMMA WrapKeeps ==
    ASSUME NativeInv, NEW o \in Objects, wrapper[o] = NoWrapper,
           NEW native, Boxed(native), Wrap(o, native)
    PROVE  NativeInv'
<1>1. PICK a \in Addresses :
        /\ heap[a] = Free
        /\ heap' = [heap EXCEPT ![a] = native]
        /\ wrapper' = [wrapper EXCEPT ![o] =
               [kind |-> native.kind, handle |-> a, disposed |-> FALSE,
                vertexCount |-> IF native.kind = "mesh" THEN vertex_count(native) ELSE 0]]
    BY DEF Wrap
<1> DEFINE new == [kind |-> native.kind, handle |-> a, disposed |-> FALSE,
                   vertexCount |-> IF native.kind = "mesh" THEN vertex_count(native) ELSE 0]
<1>2. native.kind \in Kinds /\ native # Free
    BY BoxedKind
<1>3. new.kind = native.kind /\ new.handle = a /\ new.disposed = FALSE
    OBVIOUS
<1>4. /\ heap' = [b \in Addresses |-> IF b = a THEN native ELSE heap[b]]
      /\ wrapper' = [p \in Objects |-> IF p = o THEN new ELSE wrapper[p]]
    BY <1>1 DEF NativeInv, HeapInv, WrapperInv
<1>5. HeapInv'
    BY <1>4 DEF NativeInv, HeapInv, Boxed
<1>6. WrapperInv'
    <2>1. new = [kind |-> new.kind, handle |-> new.handle, disposed |-> new.disposed,
                 vertexCount |-> new.vertexCount]
        OBVIOUS
    <2> HIDE DEF new
    <2> QED  BY <1>2, <1>3, <1>4, <2>1 DEF NativeInv, WrapperInv
<1> HIDE DEF new
<1>7. Open' = Open \cup {o} /\ o \notin Open
    <2>1. NoWrapper.kind = "none"
        BY DEF NoWrapper
    <2>2. native.kind # "none"
        BY <1>2 DEF Kinds
    <2> QED  BY <1>3, <1>4, <2>1, <2>2 DEF Open
<1>8. \A p \in Open : wrapper[p].handle # a /\ wrapper'[p] = wrapper[p]
    <2> SUFFICES ASSUME NEW p \in Open
                 PROVE  wrapper[p].handle # a /\ wrapper'[p] = wrapper[p]
        OBVIOUS
    <2>1. p \in Objects /\ heap[wrapper[p].handle].kind = wrapper[p].kind
        BY DEF NativeInv, OwnedOnce, At, Open
    <2>2. wrapper[p].kind \in Kinds
        BY DEF NativeInv, WrapperInv, Open, NoWrapper
    <2>3. heap[a].kind = "free"
        BY <1>1 DEF Free
    <2> QED  BY <1>4, <1>7, <2>1, <2>2, <2>3 DEF Kinds
<1>9. \A p \in Open' : /\ wrapper'[p].handle \in Addresses
                       /\ heap'[wrapper'[p].handle].kind = wrapper'[p].kind
    BY <1>3, <1>4, <1>7, <1>8 DEF NativeInv, OwnedOnce, At
<1>10. \A p, q \in Open' : wrapper'[p].handle = wrapper'[q].handle => p = q
    BY <1>3, <1>4, <1>7, <1>8 DEF NativeInv, OwnedOnce
<1>11. \A b \in Addresses : heap'[b] # Free => \E p \in Open' : wrapper'[p].handle = b
    <2> SUFFICES ASSUME NEW b \in Addresses, heap'[b] # Free
                 PROVE  \E p \in Open' : wrapper'[p].handle = b
        OBVIOUS
    <2>1. CASE b = a
        BY <1>3, <1>4, <1>7, <2>1
    <2>2. CASE b # a
        <3>1. heap[b] # Free
            BY <1>4, <2>2
        <3>2. PICK p \in Open : wrapper[p].handle = b
            BY <3>1 DEF NativeInv, OwnedOnce
        <3> QED  BY <1>7, <1>8, <3>2
    <2> QED  BY <2>1, <2>2
<1>12. CountsInv'
    <2> SUFFICES ASSUME NEW p \in Open', wrapper'[p].kind = "mesh"
                 PROVE  wrapper'[p].vertexCount = vertex_count(heap'[wrapper'[p].handle])
        BY DEF CountsInv, At
    <2>1. CASE p = o
        <3>1. native.kind = "mesh" => new.vertexCount = vertex_count(native)
            BY DEF new
        <3> QED  BY <1>3, <1>4, <2>1, <3>1
    <2>2. CASE p # o
        <3>1. p \in Open /\ wrapper[p].handle # a /\ wrapper'[p] = wrapper[p]
            BY <1>7, <1>8, <2>2
        <3>2. wrapper[p].handle \in Addresses
            BY <3>1 DEF NativeInv, OwnedOnce
        <3> QED  BY <1>4, <3>1, <3>2 DEF NativeInv, CountsInv, At
    <2> QED  BY <2>1, <2>2
<1> QED  BY <1>5, <1>6, <1>9, <1>10, <1>11, <1>12 DEF NativeInv, OwnedOnce, At

(* Disposal and collection free the object of a wrapper that is open, and *)
(* only that one.                                                        *)
LEMMA ReleaseKeeps ==
    ASSUME NativeInv, NEW o \in Objects, wrapper[o] # NoWrapper,
           heap' = IF wrapper[o].disposed THEN heap ELSE Destroy(wrapper[o].handle),
           wrapper' = [wrapper EXCEPT ![o] = NoWrapper]
             \/ wrapper' = [wrapper EXCEPT ![o] = Released(o)]
    PROVE  NativeInv'
<1> DEFINE h == wrapper[o].handle
<1>1. /\ wrapper[o] = [kind |-> wrapper[o].kind, handle |-> wrapper[o].handle,
                       disposed |-> wrapper[o].disposed, vertexCount |-> wrapper[o].vertexCount]
      /\ wrapper[o].kind \in Kinds /\ wrapper[o].disposed \in BOOLEAN
    BY DEF NativeInv, WrapperInv
<1>2. PICK t : /\ t = TRUE
               /\ Released(o) = [kind |-> wrapper[o].kind, handle |-> Null, disposed |-> t,
                                 vertexCount |-> wrapper[o].vertexCount]
    <2>1. PICK t : t = TRUE
        OBVIOUS
    <2>2. Released(o) = [wrapper[o] EXCEPT !.handle = Null, !.disposed = t]
        BY <2>1, Zenon DEF Released
    <2>3. Released(o) = [kind |-> wrapper[o].kind, handle |-> Null, disposed |-> t,
                         vertexCount |-> wrapper[o].vertexCount]
        BY <1>1, <2>2
    <2> QED  BY <2>1, <2>3, Zenon
<1>3. /\ \A p \in Objects : p # o => wrapper'[p] = wrapper[p]
      /\ wrapper'[o] = NoWrapper \/ wrapper'[o] = Released(o)
      /\ wrapper' = [p \in Objects |-> wrapper'[p]]
    <2>1. wrapper = [p \in Objects |-> wrapper[p]]
        BY DEF NativeInv, WrapperInv
    <2>2. CASE wrapper' = [wrapper EXCEPT ![o] = NoWrapper]
        BY <2>1, <2>2
    <2>3. CASE wrapper' = [wrapper EXCEPT ![o] = Released(o)]
        BY <2>1, <2>3
    <2> QED  BY <2>2, <2>3
<1>4. Open' = Open \ {o}
    <2>1. NoWrapper.kind = "none"
        BY DEF NoWrapper
    <2>2. o \notin Open'
        BY <1>2, <1>3, <2>1 DEF Open
    <2> QED  BY <1>3, <2>2 DEF Open
<1>5. WrapperInv'
    <2>1. /\ Released(o) = [kind |-> Released(o).kind, handle |-> Released(o).handle,
                            disposed |-> Released(o).disposed,
                            vertexCount |-> Released(o).vertexCount]
          /\ Released(o).kind \in Kinds /\ Released(o).disposed \in BOOLEAN
          /\ Released(o).handle = Null
        BY <1>1, <1>2
    <2> QED  BY <1>3, <2>1 DEF NativeInv, WrapperInv
<1>6. heap' = [a \in Addresses |-> IF o \in Open /\ a = h THEN Free ELSE heap[a]]
    <2>1. CASE wrapper[o].disposed
        BY <2>1 DEF NativeInv, HeapInv, Open
    <2>2. CASE ~ wrapper[o].disposed
        <3>1. o \in Open
            BY <1>1, <2>2 DEF Open, Kinds
        <3>2. h \in Addresses
            BY <3>1 DEF NativeInv, OwnedOnce
        <3>3. heap' = [heap EXCEPT ![h] = Free]
            BY <2>2, <3>2, CApiAssumption DEF Destroy
        <3> QED  BY <3>1, <3>3 DEF NativeInv, HeapInv
    <2> QED  BY <2>1, <2>2
<1>7. HeapInv'
    BY <1>6 DEF NativeInv, HeapInv, Boxed
<1>8. \A p \in Open' : /\ wrapper'[p].handle \in Addresses
                       /\ heap'[wrapper'[p].handle].kind = wrapper'[p].kind
    <2> SUFFICES ASSUME NEW p \in Open'
                 PROVE  /\ wrapper'[p].handle \in Addresses
                        /\ heap'[wrapper'[p].handle].kind = wrapper'[p].kind
        OBVIOUS
    <2>1. p \in Open /\ p # o /\ p \in Objects /\ wrapper'[p] = wrapper[p]
        BY <1>3, <1>4 DEF Open
    <2>2. wrapper[p].handle \in Addresses /\ heap[wrapper[p].handle].kind = wrapper[p].kind
        BY <2>1 DEF NativeInv, OwnedOnce, At
    <2>3. o \in Open => wrapper[p].handle # h
        BY <2>1 DEF NativeInv, OwnedOnce
    <2> QED  BY <1>6, <2>1, <2>2, <2>3
<1>9. \A p, q \in Open' : wrapper'[p].handle = wrapper'[q].handle => p = q
    BY <1>3, <1>4 DEF NativeInv, OwnedOnce, Open
<1>10. \A a \in Addresses : heap'[a] # Free => \E p \in Open' : wrapper'[p].handle = a
    <2> SUFFICES ASSUME NEW a \in Addresses, heap'[a] # Free
                 PROVE  \E p \in Open' : wrapper'[p].handle = a
        OBVIOUS
    <2>1. heap[a] # Free /\ (o \in Open => a # h)
        BY <1>6
    <2>2. PICK p \in Open : wrapper[p].handle = a
        BY <2>1 DEF NativeInv, OwnedOnce
    <2>3. p \in Open' /\ wrapper'[p] = wrapper[p]
        BY <1>3, <1>4, <2>1, <2>2 DEF Open
    <2> QED  BY <2>2, <2>3
<1>11. CountsInv'
    <2> SUFFICES ASSUME NEW p \in Open', wrapper'[p].kind = "mesh"
                 PROVE  wrapper'[p].vertexCount = vertex_count(heap'[wrapper'[p].handle])
        BY DEF CountsInv, At
    <2>1. p \in Open /\ p # o /\ wrapper'[p] = wrapper[p]
        BY <1>3, <1>4 DEF Open
    <2>2. wrapper[p].handle \in Addresses /\ (o \in Open => wrapper[p].handle # h)
        BY <2>1 DEF NativeInv, OwnedOnce
    <2> QED  BY <1>6, <2>1, <2>2 DEF NativeInv, CountsInv, At
<1> QED  BY <1>5, <1>7, <1>8, <1>9, <1>10, <1>11 DEF NativeInv, OwnedOnce, At

---------------------------------------------------------------------------
LEMMA NativeInit == Init => NativeInv
<1> SUFFICES ASSUME Init PROVE NativeInv
    OBVIOUS
<1>1. HeapInv
    BY DEF Init, HeapInv
<1>2. WrapperInv
    BY DEF Init, WrapperInv
<1>3. Open = {}
    <2>1. NoWrapper.kind = "none"
        BY DEF NoWrapper
    <2> QED  BY <2>1 DEF Init, Open
<1>4. OwnedOnce
    BY <1>3 DEF Init, OwnedOnce
<1>5. CountsInv
    BY <1>3 DEF CountsInv
<1> QED  BY <1>1, <1>2, <1>4, <1>5 DEF NativeInv

LEMMA HeapUnmoved ==
    ASSUME NativeInv, UNCHANGED <<heap, wrapper>>
    PROVE  NativeInv'
BY DEF NativeInv, HeapInv, WrapperInv, OwnedOnce, CountsInv, Open, At

LEMMA NativeStep == NativeInv /\ [Next]_vars => NativeInv'
<1> SUFFICES ASSUME NativeInv, [Next]_vars PROVE NativeInv'
    OBVIOUS
<1>1. ASSUME NEW o \in Objects, NEW kind \in Kinds, NEW result, Call(o, kind, At(o), result)
      PROVE  NativeInv'
    <2>1. IsOpen(o, kind) /\ heap' = [heap EXCEPT ![wrapper[o].handle] = At(o)] /\ wrapper' = wrapper
        BY <1>1 DEF Call
    <2>2. Boxed(At(o)) /\ At(o).kind = kind
        BY <2>1, OpenIsBoxed
    <2> QED  BY <2>1, <2>2, CallKeeps
<1>2. ASSUME NEW o \in Objects, NEW kind \in {"world", "palette", "streaming"}, Construct(o, kind)
      PROVE  NativeInv'
    BY <1>2, CreatesBoxed, WrapKeeps DEF Construct
<1>3. ASSUME NEW o \in Objects, WorldCall(o)
      PROVE  NativeInv'
    <2>1. ASSUME NEW c \in Coords, NEW v \in Cells, Get(o, c, v)
          PROVE  NativeInv'
        BY <1>1, <2>1 DEF Get, Kinds
    <2>2. ASSUME NEW c \in Coords, NEW v \in Cells, NEW m \in Materials, Set(o, c, v, m)
          PROVE  NativeInv'
        <3>1. /\ IsOpen(o, "world") /\ wrapper' = wrapper
              /\ heap' = [heap EXCEPT ![wrapper[o].handle] = voxel_set(At(o), c, v, m)]
            BY <2>2 DEF Set, Call
        <3>2. Boxed(At(o)) /\ At(o).kind = "world"
            BY <3>1, OpenIsBoxed DEF Kinds
        <3>3. Boxed(voxel_set(At(o), c, v, m)) /\ voxel_set(At(o), c, v, m).kind = "world"
            BY <3>2, WorldKept
        <3> QED  BY <3>1, <3>3, CallKeeps DEF Kinds
    <2>3. ASSUME ChunkCount(o)
          PROVE  NativeInv'
        BY <1>1, <2>3 DEF ChunkCount, Kinds
    <2>4. ASSUME NEW p \in Objects, NEW c \in Coords, BuildMesh(o, p, c)
          PROVE  NativeInv'
        <3>1. CASE c \in DOMAIN At(o).dense
            <4>1. /\ wrapper[p] = NoWrapper
                  /\ Wrap(p, voxel_mesh_build(At(o).dense[c]))
                BY <2>4, <3>1 DEF BuildMesh
            <4> QED  BY <4>1, MeshBoxed, WrapKeeps
        <3>2. CASE c \notin DOMAIN At(o).dense
            <4>1. UNCHANGED <<heap, wrapper>>
                BY <2>4, <3>2 DEF BuildMesh
            <4> QED  BY <4>1, HeapUnmoved
        <3> QED  BY <3>1, <3>2
    <2> QED  BY <1>3, <2>1, <2>2, <2>3, <2>4 DEF WorldCall
<1>4. ASSUME NEW o \in Objects, GetVertices(o) \/ GetIndices(o)
      PROVE  NativeInv'
    BY <1>1, <1>4 DEF GetVertices, GetIndices, Kinds
<1>5. ASSUME NEW o \in Objects, PaletteCall(o)
      PROVE  NativeInv'
    <2>1. ASSUME NEW h \in Hardness, Add(o, h)
          PROVE  NativeInv'
        <3>1. /\ IsOpen(o, "palette") /\ wrapper' = wrapper
              /\ heap' = [heap EXCEPT ![wrapper[o].handle] = material_set_property(At(o), h)]
            BY <2>1 DEF Add, Call
        <3>2. Boxed(At(o)) /\ At(o).kind = "palette"
            BY <3>1, OpenIsBoxed DEF Kinds
        <3>3. /\ Boxed(material_set_property(At(o), h))
              /\ material_set_property(At(o), h).kind = "palette"
            BY <3>2, PaletteKept
        <3> QED  BY <3>1, <3>3, CallKeeps DEF Kinds
    <2>2. ASSUME NEW id \in 0..MaxId, TryGetHardness(o, id)
          PROVE  NativeInv'
        BY <1>1, <2>2 DEF TryGetHardness, Kinds
    <2>3. ASSUME Count(o)
          PROVE  NativeInv'
        BY <1>1, <2>3 DEF Count, Kinds
    <2> QED  BY <1>5, <2>1, <2>2, <2>3 DEF PaletteCall
<1>6. ASSUME NEW o \in Objects, StreamingCall(o)
      PROVE  NativeInv'
    <2>1. ASSUME NEW native, NEW result, Call(o, "streaming", native, result),
                 IsOpen(o, "streaming") =>
                    \/ \E c \in Coords : native = streaming_load(At(o), c)
                                         \/ native = streaming_unload(At(o), c)
                    \/ native = streaming_evict_oldest(At(o))
          PROVE  NativeInv'
        <3>1. /\ IsOpen(o, "streaming") /\ wrapper' = wrapper
              /\ heap' = [heap EXCEPT ![wrapper[o].handle] = native]
            BY <2>1 DEF Call
        <3>2. Boxed(At(o)) /\ At(o).kind = "streaming"
            BY <3>1, OpenIsBoxed DEF Kinds
        <3>3. Boxed(native) /\ native.kind = "streaming"
            BY <2>1, <3>1, <3>2, StreamingKept
        <3> QED  BY <3>1, <3>3, CallKeeps DEF Kinds
    <2>2. ASSUME NEW c \in Coords, Load(o, c) \/ Unload(o, c)
          PROVE  NativeInv'
        BY <2>1, <2>2 DEF Load, Unload
    <2>3. ASSUME EvictOldest(o)
          PROVE  NativeInv'
        BY <2>1, <2>3 DEF EvictOldest
    <2>4. ASSUME LoadedCount(o)
          PROVE  NativeInv'
        BY <1>1, <2>4 DEF LoadedCount, Kinds
    <2> QED  BY <1>6, <2>2, <2>3, <2>4 DEF StreamingCall
<1>7. ASSUME NEW o \in Objects, Dispose(o) \/ Collect(o)
      PROVE  NativeInv'
    <2>1. CASE wrapper[o].disposed /\ Dispose(o)
        BY <2>1, HeapUnmoved DEF Dispose
    <2>2. CASE ~ (wrapper[o].disposed /\ Dispose(o))
        BY <1>7, <2>2, ReleaseKeeps DEF Dispose, Collect
    <2> QED  BY <2>1, <2>2
<1>8. ASSUME NEW o \in Objects, Enter(o) \/ ThrowIfDisposed(o)
      PROVE  NativeInv'
    BY <1>8, HeapUnmoved DEF Enter, ThrowIfDisposed
<1>9. ASSUME ReturnFromFreed
      PROVE  NativeInv'
    BY <1>9, HeapUnmoved DEF ReturnFromFreed
<1>10. ASSUME NEW n \in Amounts, CounterInc(n) \/ GaugeSet(n)
       PROVE  NativeInv'
    BY <1>10, HeapUnmoved DEF CounterInc, GaugeSet
<1>11. ASSUME UNCHANGED vars
       PROVE  NativeInv'
    BY <1>11, HeapUnmoved DEF vars
<1> QED
    BY <1>2, <1>3, <1>4, <1>5, <1>6, <1>7, <1>8, <1>9, <1>10, <1>11 DEF Next

LEMMA NativeAlways == Spec => []NativeInv
<1> QED  BY NativeInit, NativeStep, PTL DEF Spec

---------------------------------------------------------------------------
(* Calls in progress.                                                    *)
CallerInv ==
    /\ caller \in Objects \cup {Null}
    /\ caller # Null => /\ argument \in Addresses
                        /\ \/ caller \in Open /\ argument = wrapper[caller].handle
                           \/ wrapper[caller] = NoWrapper /\ heap[argument] = Free

(* Only the finalizer reaches a wrapper during a call.  If it is the one *)
(* whose call it is, the object at the handle is freed; if it is another, *)
(* that one's handle is another address.                                 *)
LEMMA CollectedUnderCall ==
    ASSUME NativeInv, CallerInv, NEW o \in Objects, Collect(o), caller # Null
    PROVE  CallerInv'
<1>1. /\ caller \in Objects /\ argument \in Addresses
      /\ caller' = caller /\ argument' = argument
    BY DEF CallerInv, Collect
<1>2. /\ heap' = IF wrapper[o].disposed THEN heap ELSE Destroy(wrapper[o].handle)
      /\ wrapper' = [p \in Objects |-> IF p = o THEN NoWrapper ELSE wrapper[p]]
    BY DEF Collect, NativeInv, WrapperInv
<1>3. o \notin Open => heap' = heap
    BY <1>2 DEF Collect, Open, NativeInv, WrapperInv, Kinds
<1>4. o \in Open => /\ wrapper[o].handle \in Addresses
                    /\ heap' = [a \in Addresses |-> IF a = wrapper[o].handle THEN Free ELSE heap[a]]
    BY <1>2, CApiAssumption DEF Open, Destroy, NativeInv, HeapInv, OwnedOnce
<1>5. heap[argument] = Free => heap'[argument] = Free
    BY <1>1, <1>3, <1>4
<1>6. CASE wrapper[caller] = NoWrapper /\ heap[argument] = Free
    <2>1. wrapper'[caller] = NoWrapper
        BY <1>1, <1>2, <1>6
    <2> QED  BY <1>1, <1>5, <1>6, <2>1 DEF CallerInv
<1>7. CASE caller \in Open /\ argument = wrapper[caller].handle
    <2>1. CASE o = caller
        <3>1. heap'[argument] = Free /\ wrapper'[caller] = NoWrapper
            BY <1>1, <1>2, <1>4, <1>7, <2>1
        <3> QED  BY <1>1, <3>1 DEF CallerInv
    <2>2. CASE o # caller
        <3>1. wrapper'[caller] = wrapper[caller]
            BY <1>1, <1>2, <2>2
        <3>2. caller \in Open' /\ argument = wrapper'[caller].handle
            BY <1>7, <3>1 DEF Open
        <3> QED  BY <1>1, <3>2 DEF CallerInv
    <2> QED  BY <2>1, <2>2
<1> QED  BY <1>1, <1>6, <1>7 DEF CallerInv

LEMMA CallerInit == Init => CallerInv
BY DEF Init, CallerInv

LEMMA CallerStep == NativeInv /\ CallerInv /\ [Next]_vars => CallerInv'
<1> SUFFICES ASSUME NativeInv, CallerInv, [Next]_vars PROVE CallerInv'
    OBVIOUS
<1>1. ASSUME caller' = Null
      PROVE  CallerInv'
    BY <1>1 DEF CallerInv
<1>2. ASSUME Idle
      PROVE  CallerInv'
    BY <1>1, <1>2 DEF Idle
<1>3. ASSUME NEW o \in Objects, Returns(o)
      PROVE  CallerInv'
    BY <1>1, <1>3 DEF Returns
<1>4. ASSUME NEW o \in Objects, NEW kind, NEW native, NEW result, Call(o, kind, native, result)
      PROVE  CallerInv'
    BY <1>3, <1>4 DEF Call
<1>5. ASSUME NEW o \in Objects, Enter(o)
      PROVE  CallerInv'
    <2>1. o \in Open /\ wrapper[o].handle \in Addresses
        BY <1>5 DEF Enter, Open, NativeInv, OwnedOnce
    <2>2. caller' = o /\ argument' = wrapper[o].handle /\ UNCHANGED <<heap, wrapper>>
        BY <1>5 DEF Enter
    <2>3. o \in Open'
        BY <2>1, <2>2 DEF Open
    <2> QED  BY <2>1, <2>2, <2>3 DEF CallerInv
<1>6. ASSUME NEW o \in Objects, Collect(o)
      PROVE  CallerInv'
    <2>1. CASE caller = Null
        BY <1>1, <1>6, <2>1 DEF Collect
    <2> QED  BY <1>6, <2>1, CollectedUnderCall
<1>7. ASSUME NEW o \in Objects, NEW kind, Construct(o, kind)
      PROVE  CallerInv'
    BY <1>2, <1>7 DEF Construct
<1>8. ASSUME NEW o \in Objects, WorldCall(o)
      PROVE  CallerInv'
    BY <1>3, <1>4, <1>8 DEF WorldCall, Get, Set, ChunkCount, BuildMesh
<1>9. ASSUME NEW o \in Objects, GetVertices(o) \/ GetIndices(o)
      PROVE  CallerInv'
    BY <1>4, <1>9 DEF GetVertices, GetIndices
<1>10. ASSUME NEW o \in Objects, PaletteCall(o)
       PROVE  CallerInv'
    BY <1>4, <1>10 DEF PaletteCall, Add, TryGetHardness, Count
<1>11. ASSUME NEW o \in Objects, StreamingCall(o)
       PROVE  CallerInv'
    BY <1>4, <1>11 DEF StreamingCall, Load, Unload, EvictOldest, LoadedCount
<1>12. ASSUME NEW o \in Objects, ThrowIfDisposed(o) \/ Dispose(o)
       PROVE  CallerInv'
    BY <1>2, <1>12 DEF ThrowIfDisposed, Dispose
<1>13. ASSUME ReturnFromFreed
       PROVE  CallerInv'
    BY <1>1, <1>13 DEF ReturnFromFreed, Returns
<1>14. ASSUME NEW n \in Amounts, CounterInc(n) \/ GaugeSet(n)
       PROVE  CallerInv'
    BY <1>2, <1>14 DEF CounterInc, GaugeSet
<1>15. ASSUME UNCHANGED vars
       PROVE  CallerInv'
    BY <1>15 DEF vars, CallerInv, Open
<1> QED
    BY <1>5, <1>6, <1>7, <1>8, <1>9, <1>10, <1>11, <1>12, <1>13, <1>14, <1>15 DEF Next

(* Every native object has exactly one live wrapper, of its own kind,    *)
(* whatever is constructed, disposed of and finalized in whatever order  *)
(* and whichever addresses are given out again; and a call works on the  *)
(* object of its own wrapper, except that the finalizer may destroy it   *)
(* under the last call on a wrapper the program let go of: then no other *)
(* object takes its place during the call (Dispose, the finalizers).     *)
THEOREM OneOwner == Spec => []HandlesOwned
<1>1. NativeInv /\ CallerInv => HandlesOwned
    BY DEF NativeInv, CallerInv, HandlesOwned, CallsOwnObject
<1>2. Spec => []CallerInv
    BY CallerInit, CallerStep, NativeAlways, PTL DEF Spec
<1> QED  BY <1>1, <1>2, NativeAlways, PTL

(* The next eviction takes the chunk that was loaded longest ago, whatever *)
(* was unloaded, evicted and loaded again before (streaming_load, _unload, *)
(* _evict_oldest).                                                       *)
THEOREM OldestLoadEvicted == Spec => []EvictsOldestLoad
<1>1. ASSUME NativeInv, NEW a \in Natives("streaming")
      PROVE  InOrder(heap[a].loaded, heap[a].access_order, heap[a].loads, heap[a].number)
    <2>1. a \in Addresses /\ heap[a].kind = "streaming"
        BY DEF Natives
    <2>2. heap[a] # Free
        <3>1. Free.kind = "free"
            BY DEF Free
        <3> QED  BY <2>1, <3>1
    <2>3. Boxed(heap[a])
        BY <1>1, <2>1, <2>2 DEF NativeInv, HeapInv
    <2> HIDE DEF InOrder
    <2> QED  BY <2>1, <2>3 DEF Boxed
<1>2. NativeInv => EvictsOldestLoad
    BY <1>1 DEF EvictsOldestLoad, InOrder, Ascending
<1> QED  BY <1>2, NativeAlways, PTL

(* Every mesh is closed and consistently wound: each edge is passed once in *)
(* each direction, by triangles that lie in one face of one voxel; and the *)
(* C# side derives the number of indices there are from the number of    *)
(* vertices (phenotype_gfx_voxel_mesh_build, GetIndices).                *)
THEOREM MeshesAreClosed == Spec => []MeshesClosed
<1>1. ASSUME NativeInv, NEW a \in Natives("mesh")
      PROVE  Cubes(heap[a].vertices, heap[a].indices)
    <2>1. a \in Addresses /\ heap[a].kind = "mesh"
        BY DEF Natives
    <2>2. heap[a] # Free
        <3>1. Free.kind = "free"
            BY DEF Free
        <3> QED  BY <2>1, <3>1
    <2>3. Boxed(heap[a])
        BY <1>1, <2>1, <2>2 DEF NativeInv, HeapInv
    <2> HIDE DEF Cubes
    <2> QED  BY <2>1, <2>3 DEF Boxed
<1>2. ASSUME NativeInv, NEW o \in Open, wrapper[o].kind = "mesh"
      PROVE  estimatedIndices(o) = index_count(At(o))
    <2>1. /\ wrapper[o].handle \in Natives("mesh")
          /\ wrapper[o].vertexCount = vertex_count(At(o))
        BY <1>2 DEF NativeInv, OwnedOnce, CountsInv, Natives, At
    <2>2. PICK n \in Nat : \E solid : CubesIn(At(o).vertices, At(o).indices, n, solid)
        BY <1>1, <1>2, <2>1 DEF Cubes, At
    <2>3. vertex_count(At(o)) = 8 * n /\ index_count(At(o)) = 36 * n
        BY <2>2 DEF CubesIn, vertex_count, index_count
    <2>4. (8 * n) \div 8 = n
        OBVIOUS
    <2> QED  BY <2>1, <2>3, <2>4 DEF estimatedIndices
<1>3. NativeInv => MeshesClosed
    <2> SUFFICES ASSUME NativeInv PROVE MeshesClosed
        OBVIOUS
    <2>1. ASSUME NEW a \in Natives("mesh"),
                 NEW t \in 0..(index_count(heap[a]) \div 3) - 1
          PROVE  /\ \A e \in Triangle(heap[a], t) :
                      /\ Cardinality({u \in 0..(index_count(heap[a]) \div 3) - 1 :
                                         <<e[2], e[1]>> \in Triangle(heap[a], u)}) = 1
                      /\ Cardinality({u \in 0..(index_count(heap[a]) \div 3) - 1 :
                                         e \in Triangle(heap[a], u)}) = 1
                 /\ \E axis \in 1..3, k \in {0, 1}, cell \in Cells :
                      \A e \in Triangle(heap[a], t) :
                        /\ heap[a].vertices[e[1] + 1].cell = cell
                        /\ heap[a].vertices[e[1] + 1].corner[axis] = k
        BY <1>1, CubesClosed
    <2> QED  BY <1>2, <2>1 DEF MeshesClosed
<1> QED  BY <1>3, NativeAlways, PTL

(* A reply below the sentinel names the material just added, the sentinel *)
(* says the palette is full, and a palette only ever grows at its end    *)
(* (phenotype_gfx_material_set_property).                                *)
THEOREM MaterialIdsName == Spec => MaterialIdsLast
<1>1. ASSUME NativeInv, NEW o \in Objects, NEW h \in Hardness, Add(o, h)
      PROVE  NamesWhatWasAdded(o, h)
    <2> DEFINE palette == At(o).materials
               grown == heap'[wrapper[o].handle].materials
    <2>1. /\ IsOpen(o, "palette") /\ reply' = material_id(At(o))
          /\ heap' = [heap EXCEPT ![wrapper[o].handle] = material_set_property(At(o), h)]
        BY <1>1 DEF Add, Call
    <2>2. wrapper[o].handle \in Addresses /\ Boxed(At(o)) /\ At(o).kind = "palette"
        BY <1>1, <2>1, OpenIsBoxed DEF Kinds
    <2>3. /\ At(o) = [kind |-> "palette", materials |-> palette]
          /\ palette \in Seq(Hardness) /\ Len(palette) <= MaxId + 1
        BY <2>2 DEF Boxed
    <2>4. heap'[wrapper[o].handle] = material_set_property(At(o), h)
        BY <1>1, <2>1, <2>2 DEF NativeInv, HeapInv
    <2>5. CASE HasId(At(o))
        <3>1. grown = Append(palette, h) /\ reply' = Len(palette) /\ Len(palette) <= MaxId
            BY <2>1, <2>3, <2>4, <2>5 DEF material_set_property, material_id, HasId
        <3> HIDE DEF palette, grown
        <3>2. Len(grown) = Len(palette) + 1 /\ grown[Len(palette) + 1] = h
            BY <2>3, <3>1
        <3>3. IsPrefix(palette, grown)
            BY <2>3, <3>1 DEF IsPrefix
        <3> QED  BY <2>3, <3>1, <3>2, <3>3, CApiAssumption
                 DEF palette, grown, material_count, material_get_property, NamesWhatWasAdded
    <2>6. CASE ~ HasId(At(o))
        <3>1. grown = palette /\ reply' = MaxId /\ Len(palette) = MaxId + 1
            BY <2>1, <2>3, <2>4, <2>6, CApiAssumption DEF material_set_property, material_id, HasId
        <3> HIDE DEF palette, grown
        <3>2. IsPrefix(palette, grown)
            BY <2>3, <3>1 DEF IsPrefix
        <3> QED  BY <3>1, <3>2 DEF palette, grown, material_count, NamesWhatWasAdded
    <2> QED  BY <2>5, <2>6
<1>2. NativeInv /\ [Next]_vars
        => [\A o \in Objects, h \in Hardness : Add(o, h) => NamesWhatWasAdded(o, h)]_vars
    BY <1>1
<1> QED  BY <1>2, NativeAlways, PTL DEF Spec, MaterialIdsLast

---------------------------------------------------------------------------
---------------------------------------------------------------------------
(* The radix sort.  A quotient and its remainder.                        *)
LEMMA Quotient ==
    ASSUME NEW a \in Nat, NEW b \in Nat \ {0}
    PROVE  /\ a \div b \in Nat /\ a % b \in 0..b - 1
           /\ b * (a \div b) <= a /\ a < b * (a \div b) + b
OBVIOUS

(* A shifted key is a number, so that every digit counts in its bin.     *)
LEMMA ShiftedIsNat ==
    ASSUME NEW key \in Nat, NEW digit \in Nat
    PROVE  Shifted(key, digit) \in Nat
<1> DEFINE rest[n \in 0..digit] == IF n = 0 THEN key ELSE rest[n - 1] \div RADIX_SIZE
           body(h) == [n \in 0..digit |-> IF n = 0 THEN key ELSE h[n - 1] \div RADIX_SIZE]
           next == [n \in 1..digit |-> [k \in Nat |-> k \div RADIX_SIZE]]
<1>1. \A k \in Nat : k \div RADIX_SIZE \in Nat
    BY Quotient, SortAssumption
<1>2. next \in [1..digit -> [Nat -> Nat]]
    BY <1>1
<1>3. PICK f \in [0..digit -> Nat] : Follows(f, digit, key, next)
    <2> HIDE DEF next
    <2> QED  BY <1>2, Recursion
<1>4. rest = CHOOSE h : h = body(h)
    OBVIOUS
<1>5. Shifted(key, digit) = rest[digit]
    BY DEF Shifted
<1> HIDE DEF rest
<1>6. f = body(f)
    <2>1. f = [n \in 0..digit |-> f[n]] /\ \A n \in 0..digit : n = 0 \/ n \in 1..digit
        OBVIOUS
    <2>2. ASSUME NEW n \in 1..digit
          PROVE  f[n] = f[n - 1] \div RADIX_SIZE
        <3>1. n - 1 \in 0..digit /\ f[n - 1] \in Nat
            OBVIOUS
        <3> QED  BY <1>3, <3>1 DEF Follows
    <2> HIDE DEF next
    <2> QED  BY <1>3, <2>1, <2>2 DEF Follows
<1>7. rest = body(rest)
    <2> HIDE DEF body
    <2> QED  BY <1>4, <1>6
<1>8. ASSUME NEW n \in 0..digit
      PROVE  rest[n] = IF n = 0 THEN key ELSE rest[n - 1] \div RADIX_SIZE
    BY <1>7
<1> DEFINE S == {n \in 0..digit : rest[n] \in Nat}
<1>9. 0 \in S
    BY <1>8
<1>10. ASSUME NEW n \in 0..digit - 1, n \in S
       PROVE  n + 1 \in S
    <2>1. n + 1 \in 0..digit /\ n + 1 # 0 /\ (n + 1) - 1 = n
        OBVIOUS
    <2> QED  BY <1>1, <1>8, <1>10, <2>1
<1>11. 0..digit \subseteq S
    <2> HIDE DEF S
    <2> QED  BY <1>9, <1>10, UpTo
<1> QED  BY <1>5, <1>11

(* Every element is in one of the groups that are dispatched.            *)
LEMMA GroupsDispatched ==
    /\ dispatch_count(element_count, group_size) \in Nat \ {0}
    /\ \A i \in Elements : GroupOf(i) \in Groups
<1> DEFINE top == element_count + group_size - 1
           count == top \div group_size
<1>1. element_count \in Nat \ {0} /\ group_size \in Nat \ {0} /\ top \in Nat
    BY SortAssumption
<1>2. dispatch_count(element_count, group_size) = count
    BY <1>1 DEF dispatch_count
<1>3. count \in Nat /\ group_size * count <= top /\ top < group_size * count + group_size
    BY <1>1, Quotient
<1> HIDE DEF count
<1>4. ASSUME NEW i \in Elements
      PROVE  GroupOf(i) \in 0..count - 1
    <2> DEFINE g == i \div group_size
    <2>1. i \in Nat /\ i <= element_count - 1
        BY <1>1 DEF Elements
    <2>2. g \in Nat /\ group_size * g <= i
        BY <1>1, <2>1, Quotient
    <2> HIDE DEF g
    <2>3. ASSUME count <= g
          PROVE  FALSE
        <3>1. group_size * count <= group_size * g
            BY <1>1, <1>3, <2>2, <2>3
        <3> QED  BY <1>1, <1>3, <2>1, <2>2, <3>1
    <2> QED  BY <1>3, <2>2, <2>3 DEF GroupOf, g
<1>5. count # 0
    <2>1. 0 \in Elements
        BY <1>1 DEF Elements
    <2> QED  BY <1>3, <1>4, <2>1
<1> QED  BY <1>2, <1>3, <1>4, <1>5 DEF Groups

(* The sums of prefix_sum_pass, group by group.                          *)
LEMMA SumsStepwise ==
    ASSUME histogram \in [Groups -> [Digits -> Nat]], NEW d \in Digits, NEW g \in Groups
    PROVE  /\ SumBelow(d, g) \in Nat
           /\ g = 0 => SumBelow(d, g) = 0
           /\ g # 0 => SumBelow(d, g) = SumBelow(d, g - 1) + histogram[g - 1][d]
<1> DEFINE body(h, m) == [n \in 0..m |-> IF n = 0 THEN 0 ELSE h[n - 1] + histogram[n - 1][d]]
           upto(m) == CHOOSE h : h = body(h, m)
           next(m) == [n \in 1..m |-> [k \in Nat |-> k + histogram[n - 1][d]]]
<1>1. /\ \A m \in Groups : m \in Nat
      /\ \A m \in Groups : \A n \in 1..m : n - 1 \in Groups /\ histogram[n - 1][d] \in Nat
    <2>1. \A m \in Groups : m \in Nat /\ \A n \in 1..m : n - 1 \in Groups
        BY GroupsDispatched DEF Groups
    <2>2. \A k \in Groups : histogram[k][d] \in Nat
        OBVIOUS
    <2> QED  BY <2>1, <2>2
<1>2. \A m \in Groups : SumBelow(d, m) = upto(m)[m]
    BY DEF SumBelow
<1>3. ASSUME NEW m \in Groups
      PROVE  \A n \in 0..m : upto(m)[n] = IF n = 0 THEN 0 ELSE upto(m)[n - 1] + histogram[n - 1][d]
    <2>1. next(m) \in [1..m -> [Nat -> Nat]]
        BY <1>1
    <2>2. PICK zero : zero = 0 /\ zero \in Nat
        OBVIOUS
    <2>3. PICK f \in [0..m -> Nat] : Follows(f, m, zero, next(m))
        <3> HIDE DEF next
        <3> QED  BY <1>1, <2>1, <2>2, Recursion
    <2>4. f = body(f, m)
        <3>1. f = [n \in 0..m |-> f[n]] /\ \A n \in 0..m : n = 0 \/ n \in 1..m
            BY <1>1
        <3>2. ASSUME NEW n \in 1..m
              PROVE  f[n] = f[n - 1] + histogram[n - 1][d]
            <4>1. n - 1 \in 0..m /\ f[n - 1] \in Nat
                BY <1>1
            <4> QED  BY <2>3, <4>1 DEF Follows
        <3> HIDE DEF next
        <3> QED  BY <2>2, <2>3, <3>1, <3>2 DEF Follows
    <2>5. upto(m) = body(upto(m), m)
        <3> HIDE DEF body
        <3> QED  BY <2>4
    <2> HIDE DEF upto
    <2> QED  BY <2>5
<1> HIDE DEF upto
<1>4. ASSUME NEW m \in Groups
      PROVE  \A n \in 0..m : upto(m)[n] \in Nat
    <2> DEFINE S == {n \in 0..m : upto(m)[n] \in Nat}
    <2>1. 0 \in S
        BY <1>1, <1>3
    <2>2. ASSUME NEW n \in 0..m - 1, n \in S
          PROVE  n + 1 \in S
        <3>1. n + 1 \in 0..m /\ n + 1 \in 1..m /\ (n + 1) - 1 = n
            BY <1>1
        <3> QED  BY <1>1, <1>3, <2>2, <3>1
    <2>3. 0..m \subseteq S
        <3> HIDE DEF S
        <3> QED  BY <1>1, <2>1, <2>2, UpTo
    <2> QED  BY <2>3
<1>5. ASSUME g # 0
      PROVE  upto(g)[g - 1] = upto(g - 1)[g - 1]
    <2> DEFINE S == {n \in 0..g - 1 : upto(g)[n] = upto(g - 1)[n]}
    <2>1. g - 1 \in Groups /\ g \in Nat /\ g - 1 \in Nat
        BY <1>1, <1>5, GroupsDispatched DEF Groups
    <2>2. 0 \in S
        <3>1. 0 \in 0..g /\ 0 \in 0..g - 1
            BY <2>1
        <3> QED  BY <1>3, <2>1, <3>1
    <2>3. ASSUME NEW n \in 0..(g - 1) - 1, n \in S
          PROVE  n + 1 \in S
        <3>1. /\ n + 1 \in 0..g /\ n + 1 \in 0..g - 1 /\ n + 1 # 0 /\ (n + 1) - 1 = n
            BY <2>1
        <3> QED  BY <1>3, <2>1, <2>3, <3>1
    <2>4. 0..g - 1 \subseteq S
        <3> HIDE DEF S
        <3> QED  BY <2>1, <2>2, <2>3, UpTo
    <2> QED  BY <2>1, <2>4
<1>6. g \in 0..g /\ (g # 0 => g - 1 \in Groups)
    BY <1>1, GroupsDispatched DEF Groups
<1> QED  BY <1>2, <1>3, <1>4, <1>5, <1>6

Members(g, d) == {i \in Elements : GroupOf(i) = g /\ Digit(i) = d}
Tallied(g, d) == {i \in Elements : GroupOf(i) = g /\ Digit(i) = d /\ offset[i] # -1}

SortTypes ==
    /\ input \in [Elements -> Nat \X Nat] /\ output \in [Elements -> Nat \X Nat]
    /\ histogram \in [Groups -> [Digits -> Nat]] /\ local_hist \in [Groups -> [Digits -> Nat]]
    /\ pass = [kernel |-> pass.kernel, digit |-> pass.digit]
    /\ pass.kernel \in {"histogram", "scatter", "done"} /\ pass.digit \in Nat
    /\ offset \in [Elements -> Int]
    /\ \A i \in Elements : offset[i] >= -1 \/ (offset[i] = Stored /\ pass.kernel = "scatter")

(* The local offsets of one digit in one group are the numbers below its *)
(* count, each given once.                                               *)
Ranked(g, d) ==
    /\ local_hist[g][d] = Cardinality(Tallied(g, d))
    /\ \A i \in Tallied(g, d) : offset[i] \in 0..local_hist[g][d] - 1
    /\ \A n \in 0..local_hist[g][d] - 1 : \E i \in Tallied(g, d) : offset[i] = n
    /\ \A i, j \in Tallied(g, d) : offset[i] = offset[j] => i = j

(* A group that has stored no element yet has them ranked.               *)
Unstored(g) == \A i \in Elements : GroupOf(i) = g => offset[i] # Stored

RanksInv == pass.kernel # "done" => \A g \in Groups, d \in Digits : Unstored(g) => Ranked(g, d)

(* The slots of a group begin where those of the group before end.       *)
BasesInv ==
    pass.kernel = "scatter" => \A d \in Digits :
        /\ histogram[0][d] = 0
        /\ \A g \in Groups \ {0} :
             histogram[g][d] = histogram[g - 1][d] + Cardinality(Members(g - 1, d))

SortInv == SortTypes /\ RanksInv /\ BasesInv

LEMMA DigitsInRange ==
    ASSUME SortTypes, NEW i \in Elements
    PROVE  Digit(i) \in Digits /\ GroupOf(i) \in Groups
<1>1. input[i][1] \in Nat /\ pass.digit \in Nat
    BY DEF SortTypes
<1>2. Shifted(input[i][1], pass.digit) \in Nat
    BY <1>1, ShiftedIsNat
<1>3. Digit(i) \in Digits
    BY <1>2, Quotient, SortAssumption DEF Digit, Digits
<1> QED  BY <1>3, GroupsDispatched

LEMMA ElementsFinite == \A S \in SUBSET Elements : IsFiniteSet(S) /\ Cardinality(S) \in Nat
<1>1. IsFiniteSet(Elements)
    BY FS_Interval, SortAssumption DEF Elements
<1> QED  BY <1>1, FS_Subset, FS_CardinalityType

(* An atomic addition gives the next offset to one more element.         *)
LEMMA CountKeepsRanks ==
    ASSUME SortTypes, NEW i \in Elements, CountDigit(i), UNCHANGED <<input, pass>>,
           NEW g \in Groups, NEW d \in Digits, Ranked(g, d)
    PROVE  Ranked(g, d)'
<1> DEFINE here == g = GroupOf(i) /\ d = Digit(i)
           n == local_hist[GroupOf(i)][Digit(i)]
<1>1. Digit(i) \in Digits /\ GroupOf(i) \in Groups /\ offset[i] = -1
    BY DigitsInRange DEF CountDigit
<1>2. \A j \in Elements : offset'[j] = IF j = i THEN n ELSE offset[j]
    BY DEF CountDigit, SortTypes
<1>3. local_hist'[g][d] = IF here THEN local_hist[g][d] + 1 ELSE local_hist[g][d]
    BY <1>1 DEF CountDigit, SortTypes
<1>4. \A j : Digit(j)' = Digit(j) /\ GroupOf(j)' = GroupOf(j)
    BY DEF Digit, GroupOf
<1>5. n \in Nat /\ local_hist[g][d] \in Nat /\ i \notin Tallied(g, d)
    BY <1>1 DEF SortTypes, Tallied
<1>6. Tallied(g, d)' = IF here THEN Tallied(g, d) \cup {i} ELSE Tallied(g, d)
    <2> HIDE DEF n
    <2>1. n # -1
        BY <1>5
    <2> QED  BY <1>1, <1>2, <1>4, <2>1 DEF Tallied
<1>7. Tallied(g, d) \subseteq Elements /\ \A j \in Tallied(g, d) : offset'[j] = offset[j]
    BY <1>2, <1>5 DEF Tallied
<1>8. CASE here
    <2>1. n = local_hist[g][d] /\ local_hist'[g][d] = n + 1 /\ offset'[i] = n
        BY <1>2, <1>3, <1>8
    <2>2. Tallied(g, d)' = Tallied(g, d) \cup {i}
        BY <1>6, <1>8
    <2> HIDE DEF n
    <2>3. local_hist'[g][d] = Cardinality(Tallied(g, d)')
        BY <1>5, <1>7, <2>1, <2>2, ElementsFinite, FS_AddElement DEF Ranked
    <2>4. \A j \in Tallied(g, d) : offset[j] \in 0..n - 1
        BY <2>1 DEF Ranked
    <2>5. \A j \in Tallied(g, d)' : offset'[j] \in 0..(n + 1) - 1
        BY <1>5, <1>7, <2>1, <2>2, <2>4
    <2>6. \A k \in 0..(n + 1) - 1 : \E j \in Tallied(g, d)' : offset'[j] = k
        <3>1. ASSUME NEW k \in 0..(n + 1) - 1, k # n
              PROVE  \E j \in Tallied(g, d)' : offset'[j] = k
            <4>1. k \in 0..local_hist[g][d] - 1
                BY <1>5, <2>1, <3>1
            <4>2. PICK j \in Tallied(g, d) : offset[j] = k
                BY <4>1 DEF Ranked
            <4> QED  BY <1>7, <2>2, <4>2
        <3> QED  BY <2>1, <2>2, <3>1
    <2>7. \A j, k \in Tallied(g, d)' : offset'[j] = offset'[k] => j = k
        <3>1. \A j \in Tallied(g, d) : offset'[j] # n
            BY <1>5, <1>7, <2>4
        <3>2. \A j, k \in Tallied(g, d) : offset'[j] = offset'[k] => j = k
            BY <1>7 DEF Ranked
        <3> QED  BY <2>1, <2>2, <3>1, <3>2
    <2> QED  BY <2>1, <2>3, <2>5, <2>6, <2>7 DEF Ranked
<1>9. CASE ~ here
    <2> HIDE DEF here, n
    <2>1. Tallied(g, d)' = Tallied(g, d) /\ local_hist'[g][d] = local_hist[g][d]
        BY <1>3, <1>6, <1>9
    <2> QED  BY <1>7, <2>1 DEF Ranked
<1> QED  BY <1>8, <1>9

LEMMA SortStarts == SortInit => SortInv
<1> SUFFICES ASSUME SortInit PROVE SortInv
    OBVIOUS
<1>1. SortTypes
    <2>1. PICK keys \in [Elements -> Keys] : input = [i \in Elements |-> <<keys[i], i>>]
        BY DEF SortInit
    <2>2. input \in [Elements -> Nat \X Nat] /\ output \in [Elements -> Nat \X Nat]
        <3>1. 0 \in Nat /\ \A i \in Elements : i \in Nat /\ keys[i] \in Nat
            <4>1. \A i \in Elements : keys[i] \in Keys
                BY <2>1
            <4>2. \A i \in Elements : i \in Nat
                BY SortAssumption DEF Elements
            <4> QED  BY <4>1, <4>2, SortAssumption
        <3> QED  BY <2>1, <3>1 DEF SortInit
    <2>3. pass = [kernel |-> "histogram", digit |-> 0]
        BY DEF SortInit
    <2>4. offset = [i \in Elements |-> -1]
        BY DEF SortInit, Pending
    <2> QED  BY <2>2, <2>3, <2>4 DEF SortInit, SortTypes, NoCount
<1>2. RanksInv
    <2> SUFFICES ASSUME NEW g \in Groups, NEW d \in Digits
                 PROVE  Ranked(g, d)
        BY DEF RanksInv
    <2>1. local_hist[g][d] = 0 /\ Tallied(g, d) = {}
        BY DEF SortInit, NoCount, Pending, Tallied
    <2> QED  BY <2>1, FS_EmptySet DEF Ranked
<1>3. BasesInv
    BY DEF SortInit, BasesInv
<1> QED  BY <1>1, <1>2, <1>3 DEF SortInv

(* With its offsets and its counts reset, every group is ranked.         *)
LEMMA ResetRanks ==
    ASSUME local_hist' = NoCount, offset' = Pending
    PROVE  RanksInv'
<1> SUFFICES ASSUME NEW g \in Groups, NEW d \in Digits
             PROVE  Ranked(g, d)'
    BY DEF RanksInv
<1>1. local_hist'[g][d] = 0 /\ Tallied(g, d)' = {}
    BY DEF NoCount, Pending, Tallied
<1> QED  BY <1>1, FS_EmptySet DEF Ranked

(* What a group has tallied depends on the keys, the digit and the offsets. *)
LEMMA SameRanks ==
    ASSUME RanksInv, UNCHANGED <<input, pass, offset, local_hist>>
    PROVE  RanksInv' /\ \A g, d : Members(g, d)' = Members(g, d)
<1>1. \A i : Digit(i)' = Digit(i)
    BY DEF Digit
<1>2. \A g, d : Tallied(g, d)' = Tallied(g, d) /\ Members(g, d)' = Members(g, d)
    BY <1>1 DEF Tallied, Members
<1>3. \A g, d : Unstored(g)' = Unstored(g) /\ (Ranked(g, d) => Ranked(g, d)')
    BY <1>2 DEF Unstored, Ranked
<1> QED  BY <1>2, <1>3 DEF RanksInv

LEMMA SortStep == SortInv /\ [SortNext]_sort => SortInv'
<1> SUFFICES ASSUME SortInv, [SortNext]_sort PROVE SortInv'
    OBVIOUS
<1> USE DEF SortInv
<1>1. ASSUME NEW i \in Elements, tally(i) \/ rank(i)
      PROVE  SortInv'
    <2>1. CountDigit(i) /\ UNCHANGED <<input, output, histogram, pass>>
        BY <1>1 DEF tally, rank
    <2>2. Digit(i) \in Digits /\ GroupOf(i) \in Groups /\ offset[i] = -1
        BY <2>1, DigitsInRange DEF CountDigit
    <2>3. local_hist[GroupOf(i)][Digit(i)] \in Nat
        BY <2>2 DEF SortTypes
    <2>4. \A j \in Elements : offset'[j] = IF j = i THEN local_hist[GroupOf(i)][Digit(i)]
                                           ELSE offset[j]
        BY <2>1 DEF CountDigit, SortTypes
    <2>5. SortTypes'
        <3>1. local_hist' \in [Groups -> [Digits -> Nat]]
            BY <2>1, <2>2, <2>3 DEF CountDigit, SortTypes
        <3>2. offset' \in [Elements -> Int]
            BY <2>1, <2>3 DEF CountDigit, SortTypes
        <3>3. \A j \in Elements : offset'[j] >= -1 \/ (offset'[j] = Stored /\ pass'.kernel = "scatter")
            BY <2>1, <2>3, <2>4 DEF SortTypes
        <3> QED  BY <2>1, <3>1, <3>2, <3>3 DEF SortTypes
    <2>6. RanksInv'
        <3> SUFFICES ASSUME pass.kernel # "done", NEW g \in Groups, NEW d \in Digits, Unstored(g)'
                     PROVE  Ranked(g, d)'
            BY <2>1 DEF RanksInv
        <3>1. Unstored(g)
            <4>1. \A j \in Elements : offset[j] = Stored => offset'[j] = Stored
                BY <2>2, <2>4 DEF Stored
            <4> QED  BY <4>1 DEF Unstored, GroupOf
        <3> QED  BY <2>1, <3>1, CountKeepsRanks DEF RanksInv
    <2>7. BasesInv'
        <3>1. \A g, d : Members(g, d)' = Members(g, d)
            BY <2>1 DEF Members, Digit
        <3> QED  BY <2>1, <3>1 DEF BasesInv
    <2> QED  BY <2>5, <2>6, <2>7
<1>2. ASSUME NEW i \in Elements, scatter(i)
      PROVE  SortInv'
    <2>1. /\ pass.kernel = "scatter" /\ Counted(GroupOf(i))
          /\ output' = [output EXCEPT ![global_offset(i)] = input[i]]
          /\ offset' = [offset EXCEPT ![i] = Stored]
          /\ UNCHANGED <<input, histogram, local_hist, pass>>
        BY <1>2 DEF scatter
    <2>2. \A j \in Elements : offset'[j] = IF j = i THEN Stored ELSE offset[j]
        BY <2>1 DEF SortTypes
    <2>3. SortTypes'
        <3>1. output' \in [Elements -> Nat \X Nat]
            BY <2>1 DEF SortTypes
        <3>2. offset' \in [Elements -> Int]
            BY <2>1 DEF SortTypes, Stored
        <3>3. \A j \in Elements : offset'[j] >= -1 \/ (offset'[j] = Stored /\ pass'.kernel = "scatter")
            BY <2>1, <2>2 DEF SortTypes
        <3> QED  BY <2>1, <3>1, <3>2, <3>3 DEF SortTypes
    <2>4. RanksInv'
        <3> SUFFICES ASSUME NEW g \in Groups, NEW d \in Digits, Unstored(g)'
                     PROVE  Ranked(g, d)'
            BY DEF RanksInv
        <3>1. g # GroupOf(i)
            BY <2>2 DEF Unstored
        <3>2. \A j \in Elements : GroupOf(j) = g => offset'[j] = offset[j]
            BY <2>2, <3>1
        <3>3. Unstored(g)
            BY <3>2 DEF Unstored
        <3>4. Ranked(g, d)
            BY <2>1, <3>3 DEF RanksInv
        <3>5. Tallied(g, d)' = Tallied(g, d) /\ \A j \in Tallied(g, d) : offset'[j] = offset[j]
            BY <2>1, <3>2 DEF Tallied, Digit
        <3> QED  BY <2>1, <3>4, <3>5 DEF Ranked
    <2>5. BasesInv'
        <3>1. \A g, d : Members(g, d)' = Members(g, d)
            BY <2>1 DEF Members, Digit
        <3> QED  BY <2>1, <3>1 DEF BasesInv
    <2> QED  BY <2>3, <2>4, <2>5
<1>3. ASSUME NEW g \in Groups, publish(g)
      PROVE  SortInv'
    <2>1. /\ pass.kernel = "histogram" /\ UNCHANGED <<input, output, local_hist, pass, offset>>
          /\ histogram' = [histogram EXCEPT ![g] = local_hist[g]]
        BY <1>3 DEF publish
    <2>2. SortTypes'
        BY <2>1 DEF SortTypes
    <2>3. RanksInv'
        BY <2>1, SameRanks
    <2> QED  BY <2>1, <2>2, <2>3 DEF BasesInv
<1>4. ASSUME prefix_sum_pass
      PROVE  SortInv'
    <2>1. /\ pass.kernel = "histogram" /\ UNCHANGED <<input, output>>
          /\ \A g \in Groups : Counted(g) /\ histogram[g] = local_hist[g]
          /\ histogram' = [g \in Groups |-> [d \in Digits |-> SumBelow(d, g)]]
          /\ local_hist' = NoCount /\ offset' = Pending
          /\ pass' = [pass EXCEPT !.kernel = "scatter"]
        BY <1>4 DEF prefix_sum_pass, exclusive_sum
    <2>2. histogram \in [Groups -> [Digits -> Nat]]
        BY DEF SortTypes
    <2>3. pass' = [kernel |-> "scatter", digit |-> pass.digit] /\ pass.digit \in Nat
        BY <2>1 DEF SortTypes
    <2>4. SortTypes'
        <3>1. histogram' \in [Groups -> [Digits -> Nat]]
            BY <2>1, <2>2, SumsStepwise
        <3>2. local_hist' \in [Groups -> [Digits -> Nat]] /\ offset' = [i \in Elements |-> -1]
            BY <2>1 DEF NoCount, Pending
        <3> QED  BY <2>1, <2>3, <3>1, <3>2 DEF SortTypes
    <2>5. RanksInv'
        BY <2>1, ResetRanks
    <2>6. ASSUME NEW g \in Groups, NEW d \in Digits
          PROVE  histogram[g][d] = Cardinality(Members(g, d)) /\ Members(g, d)' = Members(g, d)
        <3>1. Unstored(g)
            BY <2>1 DEF SortTypes, Unstored, Stored
        <3>2. Tallied(g, d) = Members(g, d)
            BY <2>1 DEF Tallied, Members, Counted
        <3>3. Ranked(g, d)
            BY <2>1, <3>1 DEF RanksInv
        <3>4. Members(g, d)' = Members(g, d)
            BY <2>1, <2>3 DEF Members, Digit
        <3> QED  BY <2>1, <3>2, <3>3, <3>4 DEF Ranked
    <2>7. BasesInv'
        <3> SUFFICES ASSUME NEW d \in Digits
                     PROVE  /\ histogram'[0][d] = 0
                            /\ \A g \in Groups \ {0} : histogram'[g][d]
                                 = histogram'[g - 1][d] + Cardinality(Members(g - 1, d)')
            BY DEF BasesInv
        <3>1. \A g \in Groups : histogram'[g][d] = SumBelow(d, g)
            BY <2>1
        <3>2. 0 \in Groups /\ \A g \in Groups \ {0} : g - 1 \in Groups
            BY GroupsDispatched DEF Groups
        <3>3. \A g \in Groups : /\ g = 0 => SumBelow(d, g) = 0
                                /\ g # 0 => SumBelow(d, g) = SumBelow(d, g - 1) + histogram[g - 1][d]
            BY <2>2, SumsStepwise
        <3> QED  BY <2>6, <3>1, <3>2, <3>3
    <2> QED  BY <2>4, <2>5, <2>7
<1>5. ASSUME next_digit
      PROVE  SortInv'
    <2>1. /\ input' = output /\ output' = input /\ local_hist' = NoCount /\ offset' = Pending
          /\ UNCHANGED histogram
          /\ pass' = IF pass.digit + 1 < digit_count
                       THEN [kernel |-> "histogram", digit |-> pass.digit + 1]
                       ELSE [kernel |-> "done", digit |-> pass.digit]
        BY <1>5 DEF next_digit
    <2>2. /\ pass' = [kernel |-> pass'.kernel, digit |-> pass'.digit]
          /\ pass'.kernel \in {"histogram", "done"} /\ pass'.digit \in Nat
        BY <2>1 DEF SortTypes
    <2>3. SortTypes'
        <3>1. local_hist' \in [Groups -> [Digits -> Nat]] /\ offset' = [i \in Elements |-> -1]
            BY <2>1 DEF NoCount, Pending
        <3> QED  BY <2>1, <2>2, <3>1 DEF SortTypes
    <2>4. RanksInv'
        BY <2>1, ResetRanks
    <2> QED  BY <2>2, <2>3, <2>4 DEF BasesInv
<1>6. ASSUME UNCHANGED sort
      PROVE  SortInv'
    <2>1. UNCHANGED <<input, output, histogram, local_hist, pass, offset>>
        BY <1>6 DEF sort
    <2>2. RanksInv' /\ \A g, d : Members(g, d)' = Members(g, d)
        BY <2>1, SameRanks
    <2> QED  BY <2>1, <2>2 DEF SortTypes, BasesInv
<1> QED  BY <1>1, <1>2, <1>3, <1>4, <1>5, <1>6 DEF SortNext

(* The elements of a digit in the groups before m, and the slots up to   *)
(* where group m begins.                                                 *)
Earlier(m, d) == {i \in Elements : GroupOf(i) < m /\ Digit(i) = d}
Filled(m, d) == IF m = 0 THEN 0 ELSE histogram[m - 1][d] + Cardinality(Members(m - 1, d))

(* Group by group, the slots are filled without a gap and without sharing *)
(* one.                                                                  *)
LEMMA GroupsFill ==
    ASSUME SortInv, pass.kernel = "scatter", \A i \in Elements : offset[i] >= 0,
           NEW d \in Digits, NEW m \in 0..dispatch_count(element_count, group_size)
    PROVE  /\ Filled(m, d) = Cardinality(Earlier(m, d))
           /\ {global_offset(i) : i \in Earlier(m, d)} = 0..Filled(m, d) - 1
<1> DEFINE count == dispatch_count(element_count, group_size)
           slots(k) == {global_offset(i) : i \in Earlier(k, d)}
           S == {k \in 0..count : /\ Filled(k, d) = Cardinality(Earlier(k, d))
                                  /\ slots(k) = 0..Filled(k, d) - 1}
<1>1. count \in Nat /\ \A i \in Elements : GroupOf(i) \in Nat
    BY GroupsDispatched DEF Groups
<1>2. \A g \in Groups : Ranked(g, d) /\ Tallied(g, d) = Members(g, d)
    BY DEF SortInv, RanksInv, Unstored, Stored, Tallied, Members
<1>3. 0 \in S
    <2>1. Earlier(0, d) = {}
        BY <1>1 DEF Earlier
    <2> QED  BY <1>1, <2>1, FS_EmptySet DEF Filled
<1>4. ASSUME NEW k \in 0..count - 1, k \in S
      PROVE  k + 1 \in S
    <2> DEFINE E == Earlier(k, d)
               M == Members(k, d)
               base == histogram[k][d]
               size == Cardinality(M)
    <2>1. k \in Groups /\ k \in Nat /\ k + 1 \in 0..count /\ k + 1 # 0 /\ (k + 1) - 1 = k
        BY <1>1 DEF Groups
    <2>2. base = Filled(k, d) /\ base \in Nat /\ Filled(k + 1, d) = base + size
        BY <2>1 DEF Filled, SortInv, SortTypes, BasesInv
    <2>3. Earlier(k + 1, d) = E \cup M /\ E \cap M = {}
        <3>1. \A i \in Elements : (GroupOf(i) < k + 1) <=> (GroupOf(i) < k \/ GroupOf(i) = k)
            BY <1>1, <2>1
        <3>2. \A i \in Elements : ~ (GroupOf(i) < k /\ GroupOf(i) = k)
            BY <1>1, <2>1
        <3> QED  BY <3>1, <3>2 DEF Earlier, Members
    <2>4. IsFiniteSet(E) /\ IsFiniteSet(M) /\ size \in Nat /\ Cardinality(E) \in Nat
        BY ElementsFinite DEF Earlier, Members
    <2>5. Cardinality(E) = base /\ slots(k) = 0..base - 1
        BY <1>4, <2>2
    <2> HIDE DEF slots, S
    <2>6. Cardinality(Earlier(k + 1, d)) = base + size
        <3> HIDE DEF E, M
        <3>1. /\ Cardinality(E \cup M) = Cardinality(E) + Cardinality(M) - Cardinality(E \cap M)
              /\ Cardinality({}) = 0
            BY <2>4, FS_Union, FS_EmptySet
        <3>2. Cardinality(Earlier(k + 1, d)) = Cardinality(E \cup M) /\ Cardinality(E \cap M) = 0
            BY <2>3, <3>1, Zenon
        <3> QED  BY <2>4, <2>5, <3>1, <3>2
    <2>7. \A i \in M : global_offset(i) = base + offset[i]
        BY DEF Members, global_offset
    <2>8. /\ \A i \in M : offset[i] \in 0..size - 1
          /\ \A n \in 0..size - 1 : \E i \in M : offset[i] = n
        BY <1>2, <2>1 DEF Ranked
    <2> HIDE DEF base, size, E, M
    <2>9. slots(k + 1) = slots(k) \cup {global_offset(i) : i \in M}
        BY <2>3 DEF slots, E
    <2>10. {global_offset(i) : i \in M} = base..base + size - 1
        <3>1. \A i \in M : global_offset(i) \in base..base + size - 1
            BY <2>2, <2>4, <2>7, <2>8
        <3>2. ASSUME NEW n \in base..base + size - 1
              PROVE  \E i \in M : global_offset(i) = n
            <4>1. n - base \in 0..size - 1
                BY <2>2, <2>4
            <4>2. PICK i \in M : offset[i] = n - base
                BY <2>8, <4>1
            <4> QED  BY <2>2, <2>7, <4>2
        <3> QED  BY <3>1, <3>2
    <2>11. slots(k + 1) = 0..(base + size) - 1
        <3>1. \A n \in 0..(base + size) - 1 : n \in 0..base - 1 \/ n \in base..base + size - 1
            BY <2>2, <2>4
        <3>2. 0..base - 1 \subseteq 0..(base + size) - 1 /\ base..base + size - 1 \subseteq 0..(base + size) - 1
            BY <2>2, <2>4
        <3>3. slots(k + 1) = (0..base - 1) \cup (base..base + size - 1)
            BY <2>5, <2>9, <2>10
        <3> QED  BY <3>1, <3>2, <3>3
    <2> QED  BY <2>1, <2>2, <2>6, <2>11 DEF S
<1>5. 0..count \subseteq S
    <2> HIDE DEF S, count
    <2> QED  BY <1>1, <1>3, <1>4, UpTo
<1> QED  BY <1>5

(* Slots of a later group come after those of an earlier one.            *)
LEMMA GroupsAscend ==
    ASSUME SortInv, pass.kernel = "scatter", \A i \in Elements : offset[i] >= 0,
           NEW d \in Digits, NEW i \in Elements, NEW j \in Elements,
           Digit(i) = d, Digit(j) = d, GroupOf(i) < GroupOf(j)
    PROVE  global_offset(i) < global_offset(j)
<1> DEFINE g == GroupOf(j)
<1>1. g \in Groups /\ g \in Nat /\ g # 0 /\ g \in 0..dispatch_count(element_count, group_size)
    BY GroupsDispatched DEF Groups
<1>2. /\ global_offset(i) \in {global_offset(k) : k \in Earlier(g, d)}
      /\ {global_offset(k) : k \in Earlier(g, d)} = 0..Filled(g, d) - 1
    BY <1>1, GroupsFill DEF Earlier
<1>3. Filled(g, d) = histogram[g][d] /\ histogram[g][d] \in Nat
    BY <1>1 DEF Filled, SortInv, SortTypes, BasesInv
<1>4. global_offset(j) = histogram[g][d] + offset[j]
    BY DEF global_offset
<1>5. offset[j] \in Int /\ offset[j] >= 0
    BY DEF SortInv, SortTypes
<1> HIDE DEF g
<1> QED  BY <1>2, <1>3, <1>4, <1>5

LEMMA RanksAreCompact == SortInv => RanksCompact
<1> SUFFICES ASSUME SortInv, pass.kernel = "scatter", \A i \in Elements : offset[i] >= 0,
                    NEW d \in Digits
             PROVE  LET same == {i \in Elements : Digit(i) = d}
                    IN  /\ {global_offset(i) : i \in same} = 0..Cardinality(same) - 1
                        /\ \A i, j \in same :
                             GroupOf(i) < GroupOf(j) => global_offset(i) < global_offset(j)
    BY DEF RanksCompact
<1> DEFINE same == {i \in Elements : Digit(i) = d}
           count == dispatch_count(element_count, group_size)
<1>1. count \in 0..count /\ same = Earlier(count, d)
    BY GroupsDispatched DEF Groups, Earlier
<1>2. /\ Filled(count, d) = Cardinality(same)
      /\ {global_offset(i) : i \in same} = 0..Filled(count, d) - 1
    <2> HIDE DEF same, count
    <2> QED  BY <1>1, GroupsFill DEF count
<1> QED  BY <1>2, GroupsAscend

(* ScattersCompact (MCHost) for every number of elements, size of group, *)
(* radix and set of keys: the elements of one digit get the slots from   *)
(* zero up, each its own, the groups in order (scatter_pass).            *)
THEOREM ScattersAreCompact == HostSpec => []ScattersCompact
<1> DEFINE Sorted == subject = "sort" => SortInv
<1>1. HostInit => Sorted
    BY SortStarts DEF HostInit
<1>2. Sorted /\ [HostNext]_host => Sorted'
    <2> SUFFICES ASSUME Sorted, [HostNext]_host, subject' = "sort"
                 PROVE  SortInv'
        OBVIOUS
    <2>1. subject = "sort" /\ [SortNext]_sort
        BY DEF HostNext, host
    <2> QED  BY <2>1, SortStep
<1>3. Sorted => ScattersCompact
    BY RanksAreCompact DEF ScattersCompact
<1> QED  BY <1>1, <1>2, <1>3, PTL DEF HostSpec

---------------------------------------------------------------------------
(* The voxel kernels.  Voxels and coordinates name each other.           *)
GridPoint(c) == \A axis \in 1..3 : c[axis] \in 0..grid_size[axis] - 1

(* Division of natural numbers.                                          *)
LEMMA NatDividedOnce ==
    ASSUME NEW b \in Nat \ {0}, NEW q \in Nat, NEW r \in 0..b - 1
    PROVE  (q * b + r) \div b = q /\ (q * b + r) % b = r
<1> DEFINE a == q * b + r
<1>1. a \in Int /\ a = b * q + r
    <2>1. q * b \in Nat /\ b * q = q * b
        OBVIOUS
    <2> QED  BY <2>1
<1> HIDE DEF a
<1>2. a \div b = q /\ a % b = r
    BY <1>1, DividedOnce
<1> QED  BY <1>2 DEF a

(* The index of a coordinate on the grid names that coordinate.          *)
LEMMA CoordNamed ==
    ASSUME NEW c, GridPoint(c)
    PROVE  /\ coord_to_idx(c) \in GridCells
           /\ \A axis \in 1..3 : idx_to_coord(coord_to_idx(c))[axis] = c[axis]
<1> DEFINE g == grid_size[1]
           h == grid_size[2]
           d == grid_size[3]
           row == c[2] * g + c[1]
           layer == g * h
           idx == c[3] * layer + row
<1>1. g \in Nat \ {0} /\ h \in Nat \ {0} /\ d \in Nat \ {0}
    BY ProcessorAssumption
<1>2. c[1] \in 0..g - 1 /\ c[2] \in 0..h - 1 /\ c[3] \in 0..d - 1
    BY DEF GridPoint
<1>3. coord_to_idx(c) = (c[3] * h + c[2]) * g + c[1]
    <2>1. \A axis \in 1..3 : ~ (c[axis] < 0 \/ c[axis] >= grid_size[axis])
        BY ProcessorAssumption DEF GridPoint
    <2> QED  BY <2>1 DEF coord_to_idx
<1>4. voxel_count = layer * d
    BY DEF voxel_count
<1> HIDE DEF g, h, d
<1>5. layer \in Nat \ {0} /\ c[1] \in Nat /\ c[2] \in Nat /\ c[3] \in Nat
    BY <1>1, <1>2
<1>6. (c[3] * h + c[2]) * g + c[1] = idx
    <2>1. (c[3] * h + c[2]) * g = c[3] * h * g + c[2] * g
        BY <1>1, <1>5
    <2>2. c[3] * h * g = c[3] * layer
        BY <1>1, <1>5
    <2>3. c[3] * layer \in Nat /\ c[2] * g \in Nat
        BY <1>1, <1>5
    <2> QED  BY <1>5, <2>1, <2>2, <2>3
<1>7. row \in 0..layer - 1
    <2>1. (c[2] + 1) * g <= h * g
        BY <1>1, <1>2
    <2>2. (c[2] + 1) * g = c[2] * g + g /\ h * g = layer /\ c[2] * g \in Nat
        BY <1>1, <1>5
    <2> QED  BY <1>1, <1>2, <2>1, <2>2
<1>8. row \div g = c[2] /\ row % g = c[1]
    BY <1>1, <1>2, <1>5, NatDividedOnce
<1>9. layer = grid_size[1] * grid_size[2]
    BY DEF g, h
<1> HIDE DEF row, layer
<1>10. idx \div layer = c[3] /\ idx % layer = row
    BY <1>5, <1>7, NatDividedOnce
<1>11. idx \in 0..voxel_count - 1
    <2>1. (c[3] + 1) * layer <= d * layer
        BY <1>1, <1>2, <1>5
    <2>2. /\ (c[3] + 1) * layer = c[3] * layer + layer /\ d * layer = layer * d
          /\ c[3] * layer \in Nat
        BY <1>1, <1>5
    <2> QED  BY <1>4, <1>5, <1>7, <2>1, <2>2
<1> HIDE DEF idx
<1>12. idx_to_coord(idx) = <<c[1], c[2], c[3]>>
    BY <1>8, <1>9, <1>10 DEF idx_to_coord, g
<1>13. coord_to_idx(c) = idx
    BY <1>3, <1>6
<1>14. \A axis \in 1..3 : <<c[1], c[2], c[3]>>[axis] = c[axis]
    <2>1. \A axis \in 1..3 : axis = 1 \/ axis = 2 \/ axis = 3
        OBVIOUS
    <2> QED  BY <2>1
<1> QED  BY <1>11, <1>12, <1>13, <1>14 DEF GridCells

(* A voxel lies on the grid, and its coordinate is its own.              *)
LEMMA CellPlaced ==
    ASSUME NEW idx \in GridCells
    PROVE  GridPoint(idx_to_coord(idx)) /\ coord_to_idx(idx_to_coord(idx)) = idx
<1> DEFINE g == grid_size[1]
           h == grid_size[2]
           d == grid_size[3]
           layer == g * h
           z == idx \div layer
           row == idx % layer
           y == row \div g
           x == row % g
<1>1. g \in Nat \ {0} /\ h \in Nat \ {0} /\ d \in Nat \ {0}
    BY ProcessorAssumption
<1>2. voxel_count = layer * d /\ idx_to_coord(idx) = <<x, y, z>>
    BY DEF voxel_count, idx_to_coord
<1>3. idx \in 0..voxel_count - 1
    BY DEF GridCells
<1>4. g = grid_size[1] /\ h = grid_size[2] /\ d = grid_size[3]
    OBVIOUS
<1> HIDE DEF g, h, d
<1>5. layer \in Nat \ {0} /\ layer = g * h
    BY <1>1
<1> HIDE DEF layer
<1>6. idx \in Nat /\ idx < layer * d
    <2>1. layer * d \in Nat
        BY <1>1, <1>5
    <2> QED  BY <1>2, <1>3, <2>1
<1>7. z \in Nat /\ row \in 0..layer - 1 /\ idx = z * layer + row
    <2>1. z \in Nat /\ row \in 0..layer - 1 /\ idx = layer * z + row
        BY <1>5, <1>6, NatDivided
    <2> HIDE DEF z, row
    <2>2. layer * z = z * layer
        BY <1>5, <2>1
    <2> QED  BY <2>1, <2>2
<1> HIDE DEF z, row
<1>8. row \in Nat
    BY <1>5, <1>7
<1>9. y \in Nat /\ x \in 0..g - 1 /\ row = y * g + x
    <2>1. y \in Nat /\ x \in 0..g - 1 /\ row = g * y + x
        BY <1>1, <1>8, NatDivided
    <2> HIDE DEF y, x
    <2>2. g * y = y * g
        BY <1>1, <2>1
    <2> QED  BY <2>1, <2>2
<1> HIDE DEF y, x
<1>10. z < d
    <2>1. ASSUME d <= z
          PROVE  d * layer <= z * layer
        BY <1>1, <1>5, <1>7, <2>1
    <2>2. d * layer = layer * d /\ z * layer \in Nat /\ d * layer \in Nat
        BY <1>1, <1>5, <1>7
    <2> QED  BY <1>1, <1>6, <1>7, <2>1, <2>2
<1>11. y < h
    <2>1. ASSUME h <= y
          PROVE  h * g <= y * g
        BY <1>1, <1>9, <2>1
    <2>2. h * g = layer /\ y * g \in Nat
        BY <1>1, <1>5, <1>9
    <2> QED  BY <1>1, <1>5, <1>7, <1>9, <2>1, <2>2
<1>12. GridPoint(<<x, y, z>>)
    <2>1. \A axis \in 1..3 : axis = 1 \/ axis = 2 \/ axis = 3
        OBVIOUS
    <2>2. x \in 0..g - 1 /\ y \in 0..h - 1 /\ z \in 0..d - 1
        BY <1>1, <1>7, <1>9, <1>10, <1>11
    <2> QED  BY <1>4, <2>1, <2>2 DEF GridPoint
<1>13. coord_to_idx(<<x, y, z>>) = (z * h + y) * g + x
    <2>1. \A axis \in 1..3 : ~ (<<x, y, z>>[axis] < 0 \/ <<x, y, z>>[axis] >= grid_size[axis])
        BY <1>12, ProcessorAssumption DEF GridPoint
    <2> QED  BY <2>1, <1>4 DEF coord_to_idx
<1>14. (z * h + y) * g + x = idx
    <2>1. (z * h + y) * g = z * h * g + y * g
        BY <1>1, <1>7, <1>9
    <2>2. z * h * g = z * layer
        BY <1>1, <1>5, <1>7
    <2>3. z * layer \in Nat /\ y * g \in Nat
        BY <1>1, <1>5, <1>7, <1>9
    <2> QED  BY <1>7, <1>9, <2>1, <2>2, <2>3
<1> QED  BY <1>2, <1>12, <1>13, <1>14

(* The loops of smooth, one coordinate at a time.                        *)
Read(idx, k) == coord_to_idx(Beside(idx, k))

(* A loop reads a voxel of the neighbourhood or none.                    *)
LEMMA ReadTouches ==
    ASSUME NEW idx \in GridCells, NEW k \in 0..26
    PROVE  /\ Read(idx, k) \in GridCells => Read(idx, k) \in Touching(idx)
           /\ Read(idx, 13) = idx
<1> DEFINE c == Beside(idx, k)
           here == idx_to_coord(idx)
           n == Read(idx, k)
<1>1. GridPoint(here) /\ coord_to_idx(here) = idx
    BY CellPlaced
<1>2. \A axis \in 1..3 : here[axis] \in Int
    BY <1>1, ProcessorAssumption DEF GridPoint
<1>3. \A axis \in 1..3 : Shift(k)[axis] \in -1..1 /\ c[axis] = here[axis] + Shift(k)[axis]
    <2>1. k % 3 \in 0..2 /\ (k \div 3) % 3 \in 0..2 /\ k \div 9 \in 0..2
        OBVIOUS
    <2>2. \A axis \in 1..3 : axis = 1 \/ axis = 2 \/ axis = 3
        OBVIOUS
    <2>3. Shift(k)[1] = (k % 3) - 1 /\ Shift(k)[2] = ((k \div 3) % 3) - 1 /\ Shift(k)[3] = (k \div 9) - 1
        BY DEF Shift
    <2>4. \A axis \in 1..3 : Shift(k)[axis] \in -1..1
        BY <2>1, <2>2, <2>3
    <2> QED  BY <2>4 DEF Beside
<1>4. ASSUME n \in GridCells
      PROVE  n \in Touching(idx)
    <2>1. GridPoint(c)
        <3>1. ~ \E axis \in 1..3 : c[axis] < 0 \/ c[axis] >= grid_size[axis]
            BY <1>4 DEF Read, coord_to_idx, OffGrid, GridCells
        <3>2. \A axis \in 1..3 : c[axis] \in Int
            BY <1>2, <1>3
        <3> HIDE DEF c
        <3> QED  BY <3>1, <3>2, ProcessorAssumption DEF GridPoint
    <2>2. \A axis \in 1..3 : idx_to_coord(n)[axis] = c[axis]
        BY <2>1, CoordNamed DEF Read
    <2>3. \A axis \in 1..3 : idx_to_coord(n)[axis] - here[axis] \in -1..1
        <3> HIDE DEF c, here, n
        <3> QED  BY <1>2, <1>3, <2>2
    <2> QED  BY <1>4, <2>3 DEF Touching
<1>5. Read(idx, 13) = idx
    <2>1. \A axis \in 1..3 : Shift(13)[axis] = 0
        <3>1. Shift(13) = <<0, 0, 0>>
            BY DEF Shift
        <3> QED  BY <3>1
    <2> DEFINE d == Beside(idx, 13)
    <2>2. \A axis \in 1..3 : d[axis] = here[axis]
        <3>1. \A axis \in 1..3 : d[axis] = here[axis] + Shift(13)[axis]
            BY DEF Beside
        <3> HIDE DEF d, here
        <3> QED  BY <1>2, <2>1, <3>1
    <2>3. coord_to_idx(d) = coord_to_idx(here)
        <3> HIDE DEF d, here
        <3> QED  BY <2>2 DEF coord_to_idx
    <2> QED  BY <1>1, <2>3 DEF Read
<1> QED  BY <1>4, <1>5

(* A length that is at least one is a number to divide by.               *)
LEMMA LengthNat ==
    ASSUME NEW X, NEW t \in Seq(X), Len(t) >= 1
    PROVE  Len(t) \in Nat \ {0}
OBVIOUS

(* What an invocation reads is of its neighbourhood and is not nothing.  *)
LEMMA NeighboursTouch ==
    ASSUME NEW idx \in GridCells
    PROVE  NeighbourList[idx] \in Seq(Touching(idx)) /\ Len(NeighbourList[idx]) \in Nat \ {0}
<1> DEFINE X == Touching(idx)
           read(k) == Read(idx, k)
           next == [n \in 1..27 |-> [t \in Seq(X) |->
                       IF read(n - 1) \in GridCells THEN Append(t, read(n - 1)) ELSE t]]
           upTo[k \in 0..27] ==
               IF k = 0 THEN << >>
               ELSE IF coord_to_idx(Beside(idx, k - 1)) \in GridCells
               THEN Append(upTo[k - 1], coord_to_idx(Beside(idx, k - 1)))
               ELSE upTo[k - 1]
           body(h) == [k \in 0..27 |->
               IF k = 0 THEN << >>
               ELSE IF coord_to_idx(Beside(idx, k - 1)) \in GridCells
               THEN Append(h[k - 1], coord_to_idx(Beside(idx, k - 1)))
               ELSE h[k - 1]]
<1>1. << >> \in Seq(X) /\ 27 \in Nat
    OBVIOUS
<1>2. next \in [1..27 -> [Seq(X) -> Seq(X)]]
    <2>1. \A n \in 1..27 : read(n - 1) \in GridCells => read(n - 1) \in X
        <3>1. \A n \in 1..27 : n - 1 \in 0..26
            OBVIOUS
        <3> QED  BY <3>1, ReadTouches
    <2>2. \A n \in 1..27 : \A t \in Seq(X) :
              (IF read(n - 1) \in GridCells THEN Append(t, read(n - 1)) ELSE t) \in Seq(X)
        <3> HIDE DEF X, read
        <3> QED  BY <2>1, AppendOne
    <2> HIDE DEF X, read
    <2> QED  BY <2>2
<1>3. upTo = CHOOSE h : h = body(h)
    OBVIOUS
<1>4. NeighbourList[idx] = upTo[27]
    BY DEF NeighbourList
<1> HIDE DEF upTo, next
<1>5. PICK f \in [0..27 -> Seq(X)] : f[0] = << >> /\ \A n \in 1..27 : f[n] = next[n][f[n - 1]]
    <2> DEFINE Q == Seq(X)
               N == 27
               first == << >>
    <2>1. first \in Q /\ next \in [1..N -> [Q -> Q]] /\ N \in Nat
        BY <1>1, <1>2
    <2> HIDE DEF body, Q, N, first
    <2>2. \E f \in [0..N -> Q] : Follows(f, N, first, next)
        BY <2>1, Recursion
    <2> QED  BY <2>2 DEF Q, Follows, N, first
<1>6. ASSUME NEW n \in 1..27
      PROVE  f[n] = IF read(n - 1) \in GridCells THEN Append(f[n - 1], read(n - 1)) ELSE f[n - 1]
    <2>1. n - 1 \in 0..27 /\ f[n - 1] \in Seq(X)
        <3> HIDE DEF X
        <3>1. n - 1 \in 0..27
            OBVIOUS
        <3> QED  BY <1>5, <3>1
    <2>2. next[n] = [t \in Seq(X) |->
                        IF read(n - 1) \in GridCells THEN Append(t, read(n - 1)) ELSE t]
        BY DEF next
    <2> HIDE DEF read, X
    <2> QED  BY <1>5, <2>1, <2>2
<1>7. f = body(f)
    <2>1. f = [n \in 0..27 |-> f[n]]
        OBVIOUS
    <2>2. \A n \in 0..27 : n = 0 \/ n \in 1..27
        OBVIOUS
    <2>3. \A n \in 0..27 : f[n] = IF n = 0 THEN << >>
              ELSE IF coord_to_idx(Beside(idx, n - 1)) \in GridCells
              THEN Append(f[n - 1], coord_to_idx(Beside(idx, n - 1))) ELSE f[n - 1]
        BY <1>5, <1>6, <2>2 DEF Read
    <2> QED  BY <2>1, <2>3
<1>8. upTo = body(upTo)
    <2> HIDE DEF body
    <2> QED  BY <1>3, <1>7
<1>9. upTo[0] = << >> /\ \A n \in 1..27 :
          upTo[n] = IF read(n - 1) \in GridCells THEN Append(upTo[n - 1], read(n - 1)) ELSE upTo[n - 1]
    <2>1. \A n \in 0..27 : upTo[n] = IF n = 0 THEN << >>
              ELSE IF coord_to_idx(Beside(idx, n - 1)) \in GridCells
              THEN Append(upTo[n - 1], coord_to_idx(Beside(idx, n - 1))) ELSE upTo[n - 1]
        BY <1>8
    <2>2. 0 \in 0..27 /\ \A n \in 1..27 : n \in 0..27 /\ n # 0
        OBVIOUS
    <2> QED  BY <2>1, <2>2 DEF Read
<1> DEFINE S == {n \in 0..27 : upTo[n] \in Seq(X) /\ (n >= 14 => Len(upTo[n]) >= 1)}
<1>10. 0 \in S
    <2> HIDE DEF X
    <2>1. 0 \in 0..27 /\ ~ (0 >= 14)
        OBVIOUS
    <2> QED  BY <1>1, <1>9, <2>1
<1>11. ASSUME NEW n \in 0..26, n \in S
       PROVE  n + 1 \in S
    <2>1. n + 1 \in 1..27 /\ (n + 1) - 1 = n /\ n + 1 \in 0..27
        OBVIOUS
    <2>2. upTo[n + 1] = IF read(n) \in GridCells THEN Append(upTo[n], read(n)) ELSE upTo[n]
        BY <1>9, <2>1
    <2>3. read(n) \in GridCells => read(n) \in X
        BY ReadTouches
    <2>4. n = 13 => read(n) \in GridCells
        BY ReadTouches
    <2>5. upTo[n] \in Seq(X) /\ (n >= 14 => Len(upTo[n]) >= 1)
        BY <1>11
    <2>6. read(n) \in X => Append(upTo[n], read(n)) \in Seq(X)
                             /\ Len(Append(upTo[n], read(n))) = Len(upTo[n]) + 1 /\ Len(upTo[n]) \in Nat
        <3> HIDE DEF X, read
        <3> QED  BY <2>5, AppendOne
    <2> HIDE DEF X, read
    <2>7. upTo[n + 1] \in Seq(X)
        BY <2>2, <2>3, <2>5, <2>6
    <2>8. n + 1 >= 14 => Len(upTo[n + 1]) >= 1
        <3>1. n + 1 >= 14 => n = 13 \/ n >= 14
            OBVIOUS
        <3>2. CASE read(n) \in GridCells
            <4>1. upTo[n + 1] = Append(upTo[n], read(n))
                BY <2>2, <3>2
            <4>2. Len(upTo[n + 1]) = Len(upTo[n]) + 1 /\ Len(upTo[n]) \in Nat
                BY <2>3, <2>6, <3>2, <4>1
            <4>3. \A m \in Nat : m + 1 >= 1
                OBVIOUS
            <4> QED  BY <4>2, <4>3
        <3>3. CASE read(n) \notin GridCells
            <4>1. upTo[n + 1] = upTo[n] /\ n # 13
                BY <2>2, <2>4, <3>3
            <4> QED  BY <2>5, <3>1, <4>1
        <3> QED  BY <3>2, <3>3
    <2> QED  BY <2>1, <2>7, <2>8
<1>12. 27 \in S
    <2> DEFINE N == 27
    <2>1. N \in Nat /\ N - 1 = 26
        OBVIOUS
    <2> HIDE DEF N, S
    <2>2. 0..N \subseteq S
        BY <1>10, <1>11, <2>1, UpTo
    <2>3. N \in 0..N
        BY <2>1
    <2> QED  BY <2>2, <2>3 DEF N
<1>13. upTo[27] \in Seq(X) /\ Len(upTo[27]) >= 1
    BY <1>12
<1> HIDE DEF X
<1>14. \A t \in Seq(X) : Len(t) >= 1 => Len(t) \in Nat \ {0}
    BY LengthNat
<1>15. NeighbourList[idx] \in Seq(X) /\ Len(NeighbourList[idx]) \in Nat \ {0}
    BY <1>4, <1>13, <1>14
<1> QED  BY <1>15 DEF X

(* The mixture of a value and an average lies between the least and the  *)
(* greatest of what went into them.                                      *)
LEMMA MixedBetween ==
    ASSUME NEW original \in Nat, NEW sum \in Nat, NEW count \in Nat \ {0}, NEW percent \in 0..100,
           NEW lo \in Nat, NEW hi \in Nat, lo <= original, original <= hi,
           lo * count <= sum, sum <= hi * count
    PROVE  Mixed(original, sum, count, percent) \in lo..hi
<1> DEFINE rest == 100 - percent
           whole == original * rest * count + sum * percent
           base == 100 * count
           q == whole \div base
<1>1. rest \in Nat /\ percent \in Nat /\ rest + percent = 100
    OBVIOUS
<1> HIDE DEF rest
<1>2. ASSUME NEW m \in Nat
      PROVE  m * base = m * rest * count + (m * count) * percent
    <2>1. m * base = (m * count) * 100
        OBVIOUS
    <2>2. m * rest * count = (m * count) * rest
        BY <1>1
    <2>3. (m * count) * 100 = (m * count) * rest + (m * count) * percent
        <3>1. m * count \in Nat
            OBVIOUS
        <3> QED  BY <1>1, <3>1
    <2> QED  BY <2>1, <2>2, <2>3
<1>3. lo * base <= whole
    <2>1. lo * rest <= original * rest
        BY <1>1
    <2>2. lo * rest * count <= original * rest * count
        BY <1>1, <2>1
    <2>3. (lo * count) * percent <= sum * percent
        BY <1>1
    <2>4. /\ lo * rest * count \in Nat /\ original * rest * count \in Nat
          /\ (lo * count) * percent \in Nat /\ sum * percent \in Nat
        BY <1>1
    <2>5. lo * base = lo * rest * count + (lo * count) * percent
        BY <1>2
    <2> DEFINE b == lo * base
               w == whole
               s == lo * rest * count
               t == (lo * count) * percent
               u == original * rest * count
               v == sum * percent
    <2>6. w = u + v /\ b = s + t
        BY <2>5
    <2>7. s \in Nat /\ t \in Nat /\ u \in Nat /\ v \in Nat
        BY <2>4
    <2>8. s <= u /\ t <= v
        BY <2>2, <2>3
    <2> HIDE DEF b, w, s, t, u, v
    <2>9. b <= w
        BY <2>6, <2>7, <2>8
    <2> QED  BY <2>9 DEF b, w
<1>4. whole <= hi * base
    <2>1. original * rest <= hi * rest
        BY <1>1
    <2>2. original * rest * count <= hi * rest * count
        BY <1>1, <2>1
    <2>3. sum * percent <= (hi * count) * percent
        BY <1>1
    <2>4. /\ hi * rest * count \in Nat /\ original * rest * count \in Nat
          /\ (hi * count) * percent \in Nat /\ sum * percent \in Nat
        BY <1>1
    <2>5. hi * base = hi * rest * count + (hi * count) * percent
        BY <1>2
    <2> DEFINE b == hi * base
               w == whole
               s == hi * rest * count
               t == (hi * count) * percent
               u == original * rest * count
               v == sum * percent
    <2>6. w = u + v /\ b = s + t
        BY <2>5
    <2>7. s \in Nat /\ t \in Nat /\ u \in Nat /\ v \in Nat
        BY <2>4
    <2>8. u <= s /\ v <= t
        BY <2>2, <2>3
    <2> HIDE DEF b, w, s, t, u, v
    <2>9. w <= b
        BY <2>6, <2>7, <2>8
    <2> QED  BY <2>9 DEF b, w
<1>5. whole \in Nat /\ base \in Nat \ {0}
    <2>1. original * rest * count \in Nat /\ sum * percent \in Nat
        BY <1>1
    <2> QED  BY <2>1
<1>6. Mixed(original, sum, count, percent) = q
    BY DEF Mixed, rest
<1> HIDE DEF whole, base
<1>7. q \in Nat /\ base * q <= whole /\ whole < base * q + base
    BY <1>5, Quotient
<1> HIDE DEF q
<1>8. ASSUME NEW a \in Nat, NEW b \in Nat, a < b
      PROVE  a * base + base <= b * base
    <2>1. a + 1 <= b
        BY <1>8
    <2>2. (a + 1) * base <= b * base
        BY <1>5, <2>1
    <2>3. (a + 1) * base = a * base + base
        BY <1>5
    <2> QED  BY <2>2, <2>3
<1>9. base * q = q * base /\ q * base \in Nat /\ lo * base \in Nat /\ hi * base \in Nat
    BY <1>5, <1>7
<1>10. ~ (q < lo)
    <2>1. q < lo => q * base + base <= lo * base
        BY <1>7, <1>8
    <2> QED  BY <1>3, <1>5, <1>7, <1>9, <2>1
<1>11. ~ (hi < q)
    <2>1. hi < q => hi * base + base <= q * base
        BY <1>7, <1>8
    <2> QED  BY <1>4, <1>5, <1>7, <1>9, <2>1
<1> QED  BY <1>6, <1>7, <1>10, <1>11

(* A sum of n numbers between two members of S lies between n times each. *)
Within(S, n, sum) == \E lo, hi \in S : lo * n <= sum /\ sum <= hi * n

(* One more member of S keeps it so.                                     *)
LEMMA OneMore ==
    ASSUME NEW S \in SUBSET Nat, NEW n \in Nat, NEW sum \in Nat, Within(S, n, sum), NEW v \in S
    PROVE  Within(S, n + 1, sum + v)
<1>1. PICK lo \in S, hi \in S : lo * n <= sum /\ sum <= hi * n
    BY DEF Within
<1>2. lo \in Nat /\ hi \in Nat /\ v \in Nat
    OBVIOUS
<1>3. ASSUME NEW a \in Nat
      PROVE  a * (n + 1) = a * n + a /\ a * n \in Nat
    OBVIOUS
<1>4. v <= lo => v * n <= lo * n
    BY <1>2
<1>5. hi <= v => hi * n <= v * n
    BY <1>2
<1>6. \E low \in S : low * (n + 1) <= sum + v
    <2>1. CASE v <= lo
        <3>1. v * (n + 1) <= sum + v
            BY <1>1, <1>2, <1>3, <1>4, <2>1
        <3> QED  BY <3>1
    <2>2. CASE ~ (v <= lo)
        <3>1. lo * (n + 1) <= sum + v
            BY <1>1, <1>2, <1>3, <2>2
        <3> QED  BY <3>1
    <2> QED  BY <2>1, <2>2
<1>7. \E high \in S : sum + v <= high * (n + 1)
    <2>1. CASE hi <= v
        <3>1. sum + v <= v * (n + 1)
            BY <1>1, <1>2, <1>3, <1>5, <2>1
        <3> QED  BY <3>1
    <2>2. CASE ~ (hi <= v)
        <3>1. sum + v <= hi * (n + 1)
            BY <1>1, <1>2, <1>3, <2>2
        <3> QED  BY <3>1
    <2> QED  BY <2>1, <2>2
<1> QED  BY <1>6, <1>7 DEF Within

---------------------------------------------------------------------------
(* What a voxel, its copy and its invocation are during a dispatch.  Its *)
(* neighbours' copies may be from before or from within the dispatch.    *)
Works(idx) == idx \in DOMAIN running

Untouched(idx) ==
    /\ Works(idx) /\ running[idx] = Fresh
    /\ grid[idx] = held.voxels[idx] /\ scratch[idx] = held.scratch[idx]

Summing(idx) ==
    /\ Works(idx) /\ running[idx].loads \in 0..Len(NeighbourList[idx]) /\ running[idx].sum \in Nat
    /\ grid[idx] = held.voxels[idx] /\ scratch[idx] = held.voxels[idx]
    /\ Within(Surroundings(idx), running[idx].loads, running[idx].sum)

Smoothed(idx) ==
    /\ ~ Works(idx) /\ scratch[idx] = held.voxels[idx]
    /\ \E least, greatest \in Surroundings(idx) : grid[idx] \in least..greatest

CellInv(idx) ==
    /\ job.operation \in {"fill", "carve"} =>
           grid[idx] = IF Works(idx) THEN held.voxels[idx] ELSE Wanted(idx)
    /\ job.operation = "smooth" => Untouched(idx) \/ Summing(idx) \/ Smoothed(idx)

ProcessorTypes ==
    /\ grid \in [GridCells -> Nat] /\ scratch \in [GridCells -> Nat]
    /\ job \in Jobs \cup {NoJob}
    /\ held.voxels \in [GridCells -> Nat] /\ held.scratch \in [GridCells -> Nat]

ProcessorInv == ProcessorTypes /\ \A idx \in GridCells : CellInv(idx)

(* The invocations of a dispatch cover the grid.                         *)
LEMMA AllStarted == GridCells \subseteq Started(voxel_count, workgroup_size)
<1> DEFINE top == voxel_count + workgroup_size - 1
           count == top \div workgroup_size
<1>1. voxel_count \in Nat \ {0} /\ workgroup_size \in Nat \ {0}
    <2> DEFINE g == grid_size[1]
               h == grid_size[2]
               d == grid_size[3]
    <2>1. g \in Nat \ {0} /\ h \in Nat \ {0} /\ d \in Nat \ {0} /\ workgroup_size \in Nat \ {0}
        BY ProcessorAssumption
    <2>2. voxel_count = g * h * d
        BY DEF voxel_count
    <2> HIDE DEF g, h, d
    <2> QED  BY <2>1, <2>2
<1>2. top \in Nat
    BY <1>1
<1>3. count \in Nat /\ top < workgroup_size * count + workgroup_size
    BY <1>1, <1>2, Quotient
<1>4. dispatch_count(voxel_count, workgroup_size) = count
    BY <1>1 DEF dispatch_count
<1> HIDE DEF count
<1>5. workgroup_size * count = count * workgroup_size /\ count * workgroup_size \in Nat
    BY <1>1, <1>3
<1>6. voxel_count <= count * workgroup_size
    BY <1>1, <1>3, <1>5
<1>7. Started(voxel_count, workgroup_size) = 0..count * workgroup_size - 1
    BY <1>4 DEF Started
<1> DEFINE all == count * workgroup_size
<1>8. all \in Nat /\ voxel_count <= all
    BY <1>5, <1>6
<1> HIDE DEF all
<1> QED  BY <1>1, <1>7, <1>8 DEF GridCells, all

(* What a neighbourhood held are numbers, the voxel's own among them.    *)
LEMMA OwnSurroundings ==
    ASSUME ProcessorTypes, NEW idx \in GridCells
    PROVE  /\ Surroundings(idx) \in SUBSET Nat
           /\ held.voxels[idx] \in Surroundings(idx)
           /\ \A n \in Touching(idx) : held.voxels[n] \in Surroundings(idx) /\ held.scratch[n] \in Surroundings(idx)
<1>1. Touching(idx) \subseteq GridCells
    BY DEF Touching
<1>2. idx \in Touching(idx)
    <2>1. \A axis \in 1..3 : idx_to_coord(idx)[axis] \in Int
        BY CellPlaced, ProcessorAssumption DEF GridPoint
    <2> DEFINE c == idx_to_coord(idx)
    <2>2. \A axis \in 1..3 : c[axis] - c[axis] \in -1..1
        <3> HIDE DEF c
        <3>1. \A axis \in 1..3 : c[axis] \in Int
            BY <2>1 DEF c
        <3> QED  BY <3>1
    <2> QED  BY <2>2 DEF Touching
<1> QED  BY <1>1, <1>2 DEF ProcessorTypes, Surroundings

(* An invocation leaves the others' voxels alone.                        *)
LEMMA CellKept ==
    ASSUME NEW idx \in GridCells, CellInv(idx),
           grid'[idx] = grid[idx], scratch'[idx] = scratch[idx],
           Works(idx)' <=> Works(idx), Works(idx) => running'[idx] = running[idx],
           job' = job, held' = held
    PROVE  CellInv(idx)'
<1>1. Surroundings(idx)' = Surroundings(idx) /\ Wanted(idx)' = Wanted(idx)
    BY DEF Surroundings, Wanted
<1>2. job.operation = "smooth" => (Untouched(idx) \/ Summing(idx) \/ Smoothed(idx))'
    <2>1. Untouched(idx) => Untouched(idx)'
        BY DEF Untouched
    <2>2. Summing(idx) => Summing(idx)'
        BY <1>1 DEF Summing, Within
    <2>3. Smoothed(idx) => Smoothed(idx)'
        BY <1>1 DEF Smoothed
    <2> QED  BY <2>1, <2>2, <2>3 DEF CellInv
<1>3. job.operation \in {"fill", "carve"} =>
          grid'[idx] = IF Works(idx)' THEN held'.voxels[idx] ELSE Wanted(idx)'
    BY <1>1 DEF CellInv
<1> QED  BY <1>2, <1>3 DEF CellInv

(* Before the first dispatch nothing is promised.                        *)
LEMMA ProcessorBegin == ProcessorInit => ProcessorInv
<1> SUFFICES ASSUME ProcessorInit PROVE ProcessorInv
    OBVIOUS
<1>1. ProcessorTypes
    <2>1. grid \in [GridCells -> Nat] /\ scratch \in [GridCells -> Nat]
        BY ProcessorAssumption DEF ProcessorInit
    <2>2. held.voxels = grid /\ held.scratch = scratch /\ job = NoJob
        BY DEF ProcessorInit
    <2> QED  BY <2>1, <2>2 DEF ProcessorTypes
<1>2. job.operation = "none"
    BY DEF ProcessorInit, NoJob
<1> QED  BY <1>1, <1>2 DEF ProcessorInv, CellInv

(* A dispatch starts an invocation for every voxel.                      *)
LEMMA DispatchCovers ==
    ASSUME ProcessorInv, NEW j \in Jobs, dispatch_job(j)
    PROVE  ProcessorInv'
<1>1. /\ grid' = grid /\ scratch' = scratch /\ job' = j
      /\ held'.voxels = grid /\ held'.scratch = scratch
    BY DEF dispatch_job
<1>2. ProcessorTypes'
    BY <1>1 DEF ProcessorInv, ProcessorTypes
<1>3. ASSUME NEW idx \in GridCells
      PROVE  CellInv(idx)'
    <2>1. Works(idx)' /\ running'[idx] = Fresh
        BY AllStarted DEF dispatch_job, Works
    <2>2. Untouched(idx)'
        BY <1>1, <2>1 DEF Untouched
    <2>3. grid'[idx] = held'.voxels[idx]
        BY <1>1
    <2> QED  BY <2>1, <2>2, <2>3 DEF CellInv
<1> QED  BY <1>2, <1>3 DEF ProcessorInv

(* An invocation that returns touches no other.                          *)
LEMMA OthersReturn ==
    ASSUME NEW idx, Return(idx)
    PROVE  /\ ~ Works(idx)'
           /\ \A other : other # idx =>
                 /\ Works(other)' <=> Works(other)
                 /\ Works(other) => running'[other] = running[other]
BY DEF Return, Works

(* The jobs and their parameters.                                        *)
LEMMA JobShapes ==
    ASSUME ProcessorTypes
    PROVE  /\ job.operation \in {"fill", "carve"} => job.material_id \in Nat
           /\ job.operation = "smooth" => job.smooth_factor \in 0..100
           /\ job # NoJob => job.operation \in {"fill", "carve", "smooth"}
<1>1. CASE job = NoJob
    BY <1>1 DEF NoJob
<1>2. CASE job \in [operation : {"fill", "carve"}, material_id : MaterialIds]
    <2>1. job.operation \in {"fill", "carve"} /\ job.material_id \in Nat
        BY <1>2, ProcessorAssumption
    <2> QED  BY <2>1
<1>3. CASE job \in [operation : {"smooth"}, smooth_factor : Percentages]
    <2>1. job.operation = "smooth" /\ job.smooth_factor \in 0..100
        BY <1>3, ProcessorAssumption
    <2> QED  BY <2>1
<1> QED  BY <1>1, <1>2, <1>3 DEF ProcessorTypes, Jobs

(* A fill or a carve does to its voxel what the job wants.               *)
LEMMA EditsWanted ==
    ASSUME ProcessorInv, NEW idx \in DOMAIN running, fill(idx) \/ carve(idx)
    PROVE  ProcessorInv'
<1>1. /\ idx \in GridCells /\ Return(idx) /\ scratch' = scratch /\ job' = job /\ held' = held
      /\ job.operation \in {"fill", "carve"}
    BY DEF fill, carve
<1>2. CellInv(idx) /\ Works(idx) /\ grid[idx] = held.voxels[idx]
    BY <1>1 DEF ProcessorInv, CellInv, Works
<1>3. job.material_id \in Nat
    BY <1>1, JobShapes DEF ProcessorInv
<1>4. Wanted(idx) \in Nat /\ grid' = [grid EXCEPT ![idx] = Wanted(idx)]
    <2>1. CASE fill(idx)
        BY <1>3, <2>1 DEF fill, Wanted
    <2>2. CASE carve(idx)
        <3>1. job.operation # "fill"
            BY <2>2 DEF carve
        <3>2. Wanted(idx) = IF grid[idx] = job.material_id THEN 0 ELSE grid[idx]
            BY <1>2, <3>1 DEF Wanted
        <3>3. grid[idx] \in Nat
            BY <1>1 DEF ProcessorInv, ProcessorTypes
        <3> QED  BY <2>2, <3>2, <3>3 DEF carve
    <2> QED  BY <2>1, <2>2
<1>5. ProcessorTypes'
    BY <1>1, <1>4 DEF ProcessorInv, ProcessorTypes
<1>6. ASSUME NEW other \in GridCells
      PROVE  CellInv(other)'
    <2>1. CASE other = idx
        <3>1. grid'[idx] = Wanted(idx) /\ Wanted(idx)' = Wanted(idx)
            BY <1>1, <1>4 DEF ProcessorInv, ProcessorTypes, Wanted
        <3>2. ~ Works(idx)' /\ job'.operation # "smooth"
            BY <1>1, OthersReturn
        <3> QED  BY <2>1, <3>1, <3>2 DEF CellInv
    <2>2. CASE other # idx
        <3>1. CellInv(other) /\ grid'[other] = grid[other] /\ scratch'[other] = scratch[other]
            BY <1>1, <1>4, <2>2 DEF ProcessorInv, ProcessorTypes
        <3> QED  BY <1>1, <2>2, <3>1, OthersReturn, CellKept
    <2> QED  BY <2>1, <2>2
<1> QED  BY <1>5, <1>6 DEF ProcessorInv

(* Where an invocation of smooth is.                                     *)
LEMMA SmoothAt ==
    ASSUME ProcessorInv, NEW idx \in GridCells, Works(idx), job.operation = "smooth"
    PROVE  Untouched(idx) \/ Summing(idx)
BY DEF ProcessorInv, CellInv, Smoothed

(* The first copy.                                                       *)
LEMMA CopyKeeps ==
    ASSUME ProcessorInv, NEW idx \in DOMAIN running, smooth_copy(idx)
    PROVE  ProcessorInv'
<1>1. /\ idx \in GridCells /\ Works(idx) /\ grid' = grid /\ job' = job /\ held' = held
      /\ job.operation = "smooth" /\ running[idx] = Fresh
      /\ scratch' = [scratch EXCEPT ![idx] = grid[idx]]
      /\ running' = [running EXCEPT ![idx].loads = 0]
    BY DEF smooth_copy, Works
<1>2. grid[idx] = held.voxels[idx] /\ held.voxels[idx] \in Nat
    BY <1>1, SmoothAt DEF Untouched, Summing, ProcessorInv, ProcessorTypes
<1>3. ProcessorTypes'
    BY <1>1, <1>2 DEF ProcessorInv, ProcessorTypes
<1>4. running'[idx].loads = 0 /\ running'[idx].sum = 0 /\ Works(idx)'
    BY <1>1 DEF Works, Fresh
<1>5. Summing(idx)'
    <2>1. scratch'[idx] = held.voxels[idx]
        BY <1>1, <1>2 DEF ProcessorInv, ProcessorTypes
    <2>2. held.voxels[idx] \in Surroundings(idx) /\ Surroundings(idx)' = Surroundings(idx)
        BY <1>1, OwnSurroundings DEF ProcessorInv, Surroundings
    <2>3. Within(Surroundings(idx), 0, 0)
        <3>1. held.voxels[idx] * 0 = 0
            BY <1>2
        <3> QED  BY <2>2, <3>1 DEF Within
    <2>4. 0 \in 0..Len(NeighbourList[idx])
        BY <1>1, NeighboursTouch
    <2>5. Within(Surroundings(idx), running[idx].loads, running[idx].sum)'
        BY <1>4, <2>2, <2>3 DEF Within
    <2> QED  BY <1>1, <1>2, <1>4, <2>1, <2>4, <2>5 DEF Summing
<1>6. ASSUME NEW other \in GridCells
      PROVE  CellInv(other)'
    <2>1. CASE other = idx
        BY <1>1, <1>5, <2>1 DEF CellInv
    <2>2. CASE other # idx
        <3>1. CellInv(other) /\ grid'[other] = grid[other] /\ scratch'[other] = scratch[other]
            BY <1>1, <2>2 DEF ProcessorInv, ProcessorTypes
        <3>2. (Works(other)' <=> Works(other)) /\ (Works(other) => running'[other] = running[other])
            BY <1>1, <2>2 DEF Works
        <3> QED  BY <1>1, <3>1, <3>2, CellKept
    <2> QED  BY <2>1, <2>2
<1> QED  BY <1>3, <1>6 DEF ProcessorInv

(* A load adds a value that the neighbourhood held, before the dispatch  *)
(* or since.                                                             *)
LEMMA LoadKeeps ==
    ASSUME ProcessorInv, NEW idx \in DOMAIN running, smooth_load(idx)
    PROVE  ProcessorInv'
<1> DEFINE list == NeighbourList[idx]
           n == running[idx].loads + 1
           v == scratch[list[n]]
<1>1. /\ idx \in GridCells /\ Works(idx) /\ grid' = grid /\ scratch' = scratch /\ job' = job
      /\ held' = held /\ job.operation = "smooth" /\ running[idx].loads \in 0..Len(list) - 1
    BY DEF smooth_load, Works
<1>2. running' = [running EXCEPT ![idx] = [loads |-> n, sum |-> @.sum + v]]
    BY DEF smooth_load
<1>3. Len(list) \in Nat /\ list \in Seq(Touching(idx))
    BY <1>1, NeighboursTouch
<1>4. Summing(idx)
    <2>1. ~ Untouched(idx)
        <3>1. Fresh.loads = -1
            BY DEF Fresh
        <3>2. running[idx].loads # -1
            BY <1>1, <1>3
        <3> QED  BY <3>1, <3>2 DEF Untouched
    <2> QED  BY <1>1, <2>1, SmoothAt
<1>5. n \in 1..Len(list) /\ list[n] \in Touching(idx) /\ list[n] \in GridCells
    <2>1. n \in 1..Len(list)
        BY <1>1, <1>3
    <2>2. list[n] \in Touching(idx)
        <3> HIDE DEF n, list
        <3> QED  BY <1>3, <2>1
    <2> QED  BY <2>1, <2>2 DEF Touching
<1> HIDE DEF list
<1>6. v \in Surroundings(idx)
    <2> DEFINE m == list[n]
    <2>1. CellInv(m) /\ m \in GridCells /\ m \in Touching(idx)
        BY <1>5 DEF ProcessorInv
    <2> HIDE DEF m
    <2>2. scratch[m] = held.voxels[m] \/ scratch[m] = held.scratch[m]
        BY <1>1, <2>1 DEF CellInv, Untouched, Summing, Smoothed
    <2>3. scratch[m] \in Surroundings(idx)
        BY <1>1, <2>1, <2>2, OwnSurroundings DEF ProcessorInv
    <2> QED  BY <2>3 DEF m
<1>7. Within(Surroundings(idx), n, running[idx].sum + v)
    <2>1. Surroundings(idx) \in SUBSET Nat
        BY <1>1, OwnSurroundings DEF ProcessorInv
    <2>2. running[idx].loads \in Nat /\ running[idx].sum \in Nat
        BY <1>1, <1>4, <1>3 DEF Summing
    <2>3. Within(Surroundings(idx), running[idx].loads, running[idx].sum)
        BY <1>4 DEF Summing
    <2> HIDE DEF v
    <2> QED  BY <1>6, <2>1, <2>2, <2>3, OneMore
<1>8. running'[idx].loads = n /\ running'[idx].sum = running[idx].sum + v /\ Works(idx)'
    BY <1>1, <1>2 DEF Works
<1>9. Summing(idx)'
    <2>1. v \in Nat /\ running[idx].sum \in Nat
        BY <1>1, <1>4, <1>6, OwnSurroundings DEF ProcessorInv, Summing
    <2>2. Surroundings(idx)' = Surroundings(idx)
        BY <1>1 DEF Surroundings
    <2>3. running[idx].sum + v \in Nat
        <3> HIDE DEF v
        <3> QED  BY <2>1
    <2>4. Within(Surroundings(idx), running[idx].loads, running[idx].sum)'
        <3> HIDE DEF n, v
        <3> QED  BY <1>7, <1>8, <2>2 DEF Within
    <2>5. n \in 0..Len(NeighbourList[idx])
        BY <1>3, <1>5 DEF list
    <2> HIDE DEF n, v
    <2> QED  BY <1>1, <1>4, <1>8, <2>3, <2>4, <2>5 DEF Summing
<1>10. ProcessorTypes'
    BY <1>1 DEF ProcessorInv, ProcessorTypes
<1>11. ASSUME NEW other \in GridCells
       PROVE  CellInv(other)'
    <2>1. CASE other = idx
        BY <1>1, <1>9, <2>1 DEF CellInv
    <2>2. CASE other # idx
        <3>1. CellInv(other) /\ grid'[other] = grid[other] /\ scratch'[other] = scratch[other]
            BY <1>1 DEF ProcessorInv
        <3>2. (Works(other)' <=> Works(other)) /\ (Works(other) => running'[other] = running[other])
            <4> HIDE DEF n, v
            <4> QED  BY <1>2, <2>2 DEF Works
        <3> QED  BY <1>1, <3>1, <3>2, CellKept
    <2> QED  BY <2>1, <2>2
<1> QED  BY <1>10, <1>11 DEF ProcessorInv

(* What is stored lies between what was read.                            *)
LEMMA StoreKeeps ==
    ASSUME ProcessorInv, NEW idx \in DOMAIN running, smooth_store(idx)
    PROVE  ProcessorInv'
<1> DEFINE count == Len(NeighbourList[idx])
           value == Mixed(scratch[idx], running[idx].sum, count, job.smooth_factor)
<1>1. /\ idx \in GridCells /\ Works(idx) /\ scratch' = scratch /\ job' = job /\ held' = held
      /\ job.operation = "smooth" /\ running[idx].loads = count /\ Return(idx)
      /\ grid' = [grid EXCEPT ![idx] = value]
    BY DEF smooth_store, Works
<1>2. count \in Nat \ {0}
    BY <1>1, NeighboursTouch
<1>3. Summing(idx)
    <2>1. ~ Untouched(idx)
        <3>1. Fresh.loads = -1
            BY DEF Fresh
        <3>2. running[idx].loads # -1
            BY <1>1, <1>2
        <3> QED  BY <3>1, <3>2 DEF Untouched
    <2> QED  BY <1>1, <2>1, SmoothAt
<1> HIDE DEF count
<1> DEFINE original == scratch[idx]
           sum == running[idx].sum
           S == Surroundings(idx)
<1>4. original \in S /\ original = held.voxels[idx] /\ sum \in Nat /\ S \in SUBSET Nat
    BY <1>1, <1>3, OwnSurroundings DEF Summing, ProcessorInv
<1>5. job.smooth_factor \in 0..100
    BY <1>1, JobShapes DEF ProcessorInv
<1>6. PICK lo \in S, hi \in S : lo * count <= sum /\ sum <= hi * count
    BY <1>1, <1>3 DEF Summing, Within
<1>7. \E least, greatest \in S : value \in least..greatest
    <2> HIDE DEF original, sum, S
    <2>1. original \in Nat /\ lo \in Nat /\ hi \in Nat
        BY <1>4, <1>6
    <2>2. PICK least \in S : least <= original /\ least * count <= sum
        <3>1. CASE lo <= original
            BY <1>6, <3>1
        <3>2. CASE ~ (lo <= original)
            <4>1. original * count <= lo * count
                BY <1>2, <2>1, <3>2
            <4>2. original * count <= sum
                <5>1. original * count \in Nat /\ lo * count \in Nat
                    BY <1>2, <2>1
                <5> QED  BY <1>4, <1>6, <4>1, <5>1
            <4> QED  BY <1>4, <2>1, <4>2
        <3> QED  BY <3>1, <3>2
    <2>3. PICK greatest \in S : original <= greatest /\ sum <= greatest * count
        <3>1. CASE original <= hi
            BY <1>6, <3>1
        <3>2. CASE ~ (original <= hi)
            <4>1. hi * count <= original * count
                BY <1>2, <2>1, <3>2
            <4>2. sum <= original * count
                <5>1. original * count \in Nat /\ hi * count \in Nat
                    BY <1>2, <2>1
                <5> QED  BY <1>4, <1>6, <4>1, <5>1
            <4> QED  BY <1>4, <2>1, <4>2
        <3> QED  BY <3>1, <3>2
    <2>4. least \in Nat /\ greatest \in Nat
        BY <1>4
    <2>5. Mixed(original, sum, count, job.smooth_factor) \in least..greatest
        BY <1>2, <1>4, <1>5, <2>1, <2>2, <2>3, <2>4, MixedBetween
    <2> QED  BY <2>5 DEF original, sum
<1>8. value \in Nat
    <2> HIDE DEF value, S
    <2>1. \A least, greatest \in S : \A w \in least..greatest : w \in Nat
        BY <1>4
    <2> QED  BY <1>7, <2>1
<1> HIDE DEF value
<1>9. ProcessorTypes'
    BY <1>1, <1>8 DEF ProcessorInv, ProcessorTypes
<1>10. Smoothed(idx)'
    <2>1. Surroundings(idx)' = Surroundings(idx) /\ grid'[idx] = value
        BY <1>1 DEF Surroundings, ProcessorInv, ProcessorTypes
    <2>2. ~ Works(idx)'
        BY <1>1, OthersReturn
    <2> QED  BY <1>1, <1>4, <1>7, <2>1, <2>2 DEF Smoothed
<1>11. ASSUME NEW other \in GridCells
       PROVE  CellInv(other)'
    <2>1. CASE other = idx
        BY <1>1, <1>10, <2>1 DEF CellInv
    <2>2. CASE other # idx
        <3>1. CellInv(other) /\ grid'[other] = grid[other] /\ scratch'[other] = scratch[other]
            BY <1>1, <2>2 DEF ProcessorInv, ProcessorTypes
        <3> QED  BY <1>1, <2>2, <3>1, OthersReturn, CellKept
    <2> QED  BY <2>1, <2>2
<1> QED  BY <1>9, <1>11 DEF ProcessorInv

(* Every step of an invocation keeps every voxel explained.              *)
LEMMA ProcessorStep == ProcessorInv /\ [ProcessorNext]_processor => ProcessorInv'
<1> SUFFICES ASSUME ProcessorInv, [ProcessorNext]_processor PROVE ProcessorInv'
    OBVIOUS
<1>1. ASSUME NEW idx \in DOMAIN running, return_early(idx)
      PROVE  ProcessorInv'
    <2>1. /\ idx \notin GridCells /\ Return(idx) /\ grid' = grid /\ scratch' = scratch
          /\ job' = job /\ held' = held
        BY <1>1 DEF return_early
    <2>2. ProcessorTypes'
        BY <2>1 DEF ProcessorInv, ProcessorTypes
    <2>3. ASSUME NEW other \in GridCells
          PROVE  CellInv(other)'
        <3>1. CellInv(other) /\ other # idx
            BY <2>1 DEF ProcessorInv
        <3> QED  BY <2>1, <3>1, OthersReturn, CellKept
    <2> QED  BY <2>2, <2>3 DEF ProcessorInv
<1>2. ASSUME UNCHANGED processor
      PROVE  ProcessorInv'
    <2>1. /\ grid' = grid /\ scratch' = scratch /\ job' = job /\ held' = held /\ running' = running
        BY <1>2 DEF processor
    <2>2. ProcessorTypes'
        BY <2>1 DEF ProcessorInv, ProcessorTypes
    <2>3. ASSUME NEW other \in GridCells
          PROVE  CellInv(other)'
        <3>1. CellInv(other) /\ (Works(other)' <=> Works(other))
            BY <2>1 DEF ProcessorInv, Works
        <3> QED  BY <2>1, <3>1, CellKept
    <2> QED  BY <2>2, <2>3 DEF ProcessorInv
<1>3. ASSUME NEW idx \in DOMAIN running, invocation(idx)
      PROVE  ProcessorInv'
    BY <1>1, <1>3, EditsWanted, CopyKeeps, LoadKeeps, StoreKeeps DEF invocation
<1> QED  BY <1>2, <1>3, DispatchCovers DEF ProcessorNext

(* What every voxel is makes the dispatch local.                         *)
LEMMA CellsAreLocal == ProcessorInv => OperationsLocal
<1> SUFFICES ASSUME ProcessorInv, job # NoJob, NEW idx \in GridCells
             PROVE  \/ job.operation = "smooth" /\ SmoothLocal(idx)
                    \/ job.operation # "smooth" /\ grid[idx] = Wanted(idx)
                    \/ job.operation # "smooth" /\ running # << >> /\ grid[idx] = held.voxels[idx]
    BY DEF OperationsLocal
<1>1. CellInv(idx)
    BY DEF ProcessorInv
<1>2. running = << >> => ~ Works(idx)
    BY DEF Works
<1>3. job.operation \in {"fill", "carve", "smooth"}
    BY JobShapes DEF ProcessorInv
<1>4. CASE job.operation = "smooth"
    <2>1. held.voxels[idx] \in Surroundings(idx) /\ held.voxels[idx] \in Nat
        BY OwnSurroundings DEF ProcessorInv
    <2>2. held.voxels[idx] \in held.voxels[idx]..held.voxels[idx]
        BY <2>1
    <2>3. \E least, greatest \in Surroundings(idx) : grid[idx] \in least..greatest
        BY <1>1, <1>4, <2>1, <2>2 DEF CellInv, Untouched, Summing, Smoothed
    <2>4. running = << >> => scratch[idx] = held.voxels[idx]
        BY <1>1, <1>2, <1>4 DEF CellInv, Untouched, Summing, Smoothed
    <2> QED  BY <1>4, <2>3, <2>4 DEF SmoothLocal
<1>5. CASE job.operation \in {"fill", "carve"}
    BY <1>1, <1>2, <1>5 DEF CellInv
<1> QED  BY <1>3, <1>4, <1>5

(* A filled or carved voxel is what the job makes of it, and a smoothed  *)
(* one lies within what its neighbourhood held when the dispatch began,  *)
(* for any grid and any interleaving of the invocations, dispatch after  *)
(* dispatch (fill, carve, smooth).                                       *)
THEOREM DispatchesAreLocal == HostSpec => []DispatchesLocal
<1> DEFINE Moved == subject = "processor" => ProcessorInv
<1>1. HostInit => Moved
    BY ProcessorBegin DEF HostInit
<1>2. Moved /\ [HostNext]_host => Moved'
    <2> SUFFICES ASSUME Moved, [HostNext]_host, subject' = "processor"
                 PROVE  ProcessorInv'
        OBVIOUS
    <2>1. subject = "processor" /\ [ProcessorNext]_processor
        BY DEF HostNext, host
    <2> QED  BY <2>1, ProcessorStep
<1>3. Moved => DispatchesLocal
    BY CellsAreLocal DEF DispatchesLocal
<1> QED  BY <1>1, <1>2, <1>3, PTL DEF HostSpec

---------------------------------------------------------------------------
(* The window.  The greatest of three numbers is one of them and bounds all. *)
LEMMA MaxOfThree ==
    ASSUME NEW x \in Int, NEW y \in Int, NEW z \in Int
    PROVE  /\ Max({x, y, z}) \in {x, y, z}
           /\ \A n \in Int : Max({x, y, z}) <= n <=> x <= n /\ y <= n /\ z <= n
<1> DEFINE S == {x, y, z}
           top(m) == m \in S /\ \A n \in S : m >= n
<1>1. \E m \in S : \A n \in S : m >= n
    <2>1. (x >= y /\ x >= z) \/ (y >= x /\ y >= z) \/ (z >= x /\ z >= y)
        OBVIOUS
    <2> QED  BY <2>1
<1>2. top(Max(S))
    <2> HIDE DEF S
    <2> QED  BY <1>1 DEF Max
<1> QED  BY <1>2

LEMMA AbsOf ==
    ASSUME NEW n \in Int
    PROVE  /\ Abs(n) \in Nat /\ n <= Abs(n) /\ -n <= Abs(n) /\ Abs(-n) = Abs(n)
           /\ \A m \in Int : Abs(n) <= m <=> -m <= n /\ n <= m
BY DEF Abs

(* A chunk lies within a ring if none of its three distances exceeds it. *)
Heavy(w) == IF w = 0 THEN 1 ELSE w

LEMMA RingOf ==
    ASSUME NEW c \in [1..3 -> Int], NEW a \in [1..3 -> Int], NEW w \in Nat
    PROVE  /\ RingDistance(c, a, w) \in Nat
           /\ \A n \in Int : RingDistance(c, a, w) <= n
                <=> /\ Abs(c[1] - a[1]) <= n
                    /\ Abs(c[2] - a[2]) * Heavy(w) <= n
                    /\ Abs(c[3] - a[3]) <= n
<1> DEFINE x == Abs(c[1] - a[1])
           y == Abs(c[2] - a[2]) * Heavy(w)
           z == Abs(c[3] - a[3])
<1>1. x \in Nat /\ y \in Nat /\ z \in Nat
    <2>1. \A axis \in 1..3 : c[axis] \in Int /\ a[axis] \in Int
        OBVIOUS
    <2>2. \A axis \in 1..3 : c[axis] - a[axis] \in Int
        BY <2>1
    <2>3. Abs(c[1] - a[1]) \in Nat /\ Abs(c[2] - a[2]) \in Nat /\ Abs(c[3] - a[3]) \in Nat
        BY <2>2, AbsOf
    <2>4. Heavy(w) \in Nat
        BY DEF Heavy
    <2>5. \A m, n \in Nat : m * n \in Nat
        OBVIOUS
    <2> QED  BY <2>3, <2>4, <2>5
<1>2. RingDistance(c, a, w) = Max({x, y, z})
    BY DEF RingDistance, Heavy
<1> HIDE DEF x, y, z
<1>3. /\ Max({x, y, z}) \in {x, y, z}
      /\ \A n \in Int : Max({x, y, z}) <= n <=> x <= n /\ y <= n /\ z <= n
    BY <1>1, MaxOfThree
<1>4. RingDistance(c, a, w) \in Nat
    BY <1>1, <1>2, <1>3
<1> QED  BY <1>2, <1>3, <1>4 DEF x, y, z

(* Division keeps order, and cancels a common factor.                    *)
LEMMA DivisionGrows ==
    ASSUME NEW a \in Int, NEW b \in Int, NEW n \in Nat \ {0}, a <= b
    PROVE  a \div n <= b \div n
<1> DEFINE p == a \div n
           q == b \div n
           r == a % n
           s == b % n
<1>1. /\ p \in Int /\ q \in Int /\ r \in 0..n - 1 /\ s \in 0..n - 1
      /\ a = n * p + r /\ b = n * q + s
    OBVIOUS
<1> HIDE DEF p, q, r, s
<1>2. ASSUME q < p
      PROVE  n * q + n <= n * p
    <2>1. q + 1 <= p
        BY <1>1, <1>2
    <2>2. n * (q + 1) <= n * p
        BY <1>1, <2>1
    <2>3. n * (q + 1) = n * q + n
        BY <1>1
    <2> QED  BY <2>2, <2>3
<1>3. p <= q
    <2> DEFINE u == n * p
               v == n * q
    <2>1. u \in Int /\ v \in Int /\ a = u + r /\ b = v + s
        BY <1>1
    <2>2. q < p => v + n <= u
        BY <1>2
    <2> HIDE DEF u, v
    <2> QED  BY <1>1, <2>1, <2>2
<1> QED  BY <1>3 DEF p, q

(* What the window keeps between steps.                                  *)
WindowTypes ==
    /\ policy \in Policies /\ Checked(policy)
    /\ render_ring \in Int
    /\ anchor \in [1..3 -> Int]

PolicyShape(p) ==
    /\ p.mesh_ring \in Byte /\ p.sim_ring \in Byte /\ p.coarse_ring \in Byte
    /\ p.seam_chunks \in Byte /\ p.vy_weight \in Byte /\ p.sim_lod_step \in Byte
    /\ p.prefetch_ring \in Byte /\ p.cos_theta \in -128..127 /\ p.fade_ticks \in Byte

LEMMA PolicyFields ==
    ASSUME NEW p \in Policies
    PROVE  PolicyShape(p)
BY WindowAssumption DEF PolicyShape

LEMMA WindowStarts == WindowInit => WindowTypes
<1> SUFFICES ASSUME WindowInit PROVE WindowTypes
    OBVIOUS
<1>1. policy \in Policies /\ Checked(policy)
    BY DEF WindowInit
<1>2. render_ring \in Int
    <2>1. policy.mesh_ring \in Byte
        BY <1>1, PolicyFields DEF PolicyShape
    <2> QED  BY <2>1 DEF WindowInit, DefaultRenderRing, Byte
<1>3. anchor \in [1..3 -> Int]
    BY DEF WindowInit
<1> QED  BY <1>1, <1>2, <1>3 DEF WindowTypes

LEMMA WindowStep == WindowTypes /\ [WindowNext]_window => WindowTypes'
<1> SUFFICES ASSUME WindowTypes, [WindowNext]_window PROVE WindowTypes'
    OBVIOUS
<1>1. ASSUME NEW axis \in 1..3, NEW by \in {-1, 1}, MoveAnchor(axis, by)
      PROVE  WindowTypes'
    BY <1>1 DEF MoveAnchor, WindowTypes, Checked
<1>2. ASSUME NEW p \in Policies, SetPolicy(p)
      PROVE  WindowTypes'
    BY <1>2 DEF SetPolicy, WindowTypes, Checked
<1>3. ASSUME NEW ring \in RenderRings, SetPlan(ring)
      PROVE  WindowTypes'
    BY <1>3, WindowAssumption DEF SetPlan, WindowTypes, Checked
<1>4. CASE UNCHANGED window
    BY <1>4 DEF window, WindowTypes, Checked
<1> QED  BY <1>1, <1>2, <1>3, <1>4 DEF WindowNext

(* One step of the camera changes a chunk's ring by the weight at most.  *)
LEMMA StepMovesRing ==
    ASSUME NEW c \in [1..3 -> Int], NEW a \in [1..3 -> Int], NEW axis \in 1..3, NEW by \in {-1, 1},
           NEW w \in Nat \ {0}
    PROVE  RingDistance(c, [a EXCEPT ![axis] = @ + by], w) <= RingDistance(c, a, w) + w
<1> DEFINE b == [a EXCEPT ![axis] = @ + by]
           r == RingDistance(c, a, w)
<1>1. b \in [1..3 -> Int] /\ \A k \in 1..3 : b[k] \in a[k] - 1..a[k] + 1
    OBVIOUS
<1>2. \A k \in 1..3 : a[k] \in Int /\ b[k] \in Int /\ c[k] \in Int
    BY <1>1
<1> HIDE DEF b
<1>3. ASSUME NEW k \in 1..3
      PROVE  /\ Abs(c[k] - b[k]) \in Nat /\ Abs(c[k] - a[k]) \in Nat
             /\ Abs(c[k] - b[k]) <= Abs(c[k] - a[k]) + 1
    BY <1>1, <1>2 DEF Abs
<1>4. /\ r \in Nat /\ Heavy(w) = w
      /\ Abs(c[1] - a[1]) <= r /\ Abs(c[2] - a[2]) * w <= r /\ Abs(c[3] - a[3]) <= r
    <2>1. Heavy(w) = w
        BY DEF Heavy
    <2>2. r \in Nat
        BY RingOf
    <2>3. r \in Int /\ r <= r
        BY <2>2
    <2> HIDE DEF r
    <2>4. RingDistance(c, a, w) <= r
        BY <2>3 DEF r
    <2> QED  BY <2>1, <2>2, <2>3, <2>4, RingOf
<1> HIDE DEF r
<1>5. Abs(c[1] - b[1]) <= r + w /\ Abs(c[3] - b[3]) <= r + w
    BY <1>3, <1>4
<1>6. Abs(c[2] - b[2]) * w <= r + w
    <2> DEFINE m == Abs(c[2] - a[2])
               n == Abs(c[2] - b[2])
    <2>1. m \in Nat /\ n \in Nat /\ n <= m + 1 /\ m * w <= r
        BY <1>3, <1>4
    <2> HIDE DEF m, n
    <2>2. n * w <= (m + 1) * w
        BY <2>1
    <2>3. (m + 1) * w = m * w + w /\ m * w \in Int /\ n * w \in Int
        BY <2>1
    <2>4. n * w <= r + w
        BY <1>4, <2>1, <2>2, <2>3
    <2> QED  BY <2>4 DEF n
<1>7. r + w \in Int
    BY <1>4
<1> QED  BY <1>1, <1>4, <1>5, <1>6, <1>7, RingOf DEF b, r

LEMMA AroundPoints ==
    ASSUME WindowTypes, NEW c \in Around
    PROVE  /\ c \in [1..3 -> Int] /\ c = <<c[1], c[2], c[3]>>
           /\ \A axis \in 1..3 : c[axis] - anchor[axis] \in -Reach..Reach
<1>1. PICK d \in (-Reach..Reach) \X (-Reach..Reach) \X (-Reach..Reach) :
          c = <<anchor[1] + d[1], anchor[2] + d[2], anchor[3] + d[3]>>
    BY DEF Around
<1>2. Reach \in Nat /\ \A axis \in 1..3 : anchor[axis] \in Int
    BY WindowAssumption DEF WindowTypes
<1>3. d[1] \in -Reach..Reach /\ d[2] \in -Reach..Reach /\ d[3] \in -Reach..Reach
    OBVIOUS
<1> DEFINE x == anchor[1] + d[1]
           y == anchor[2] + d[2]
           z == anchor[3] + d[3]
<1>4. /\ x \in Int /\ y \in Int /\ z \in Int
      /\ x - anchor[1] \in -Reach..Reach /\ y - anchor[2] \in -Reach..Reach
      /\ z - anchor[3] \in -Reach..Reach
    BY <1>2, <1>3
<1>5. c = <<x, y, z>>
    BY <1>1
<1> HIDE DEF x, y, z
<1>6. c[1] = x /\ c[2] = y /\ c[3] = z /\ c \in [1..3 -> Int]
    BY <1>4, <1>5
<1>7. \A axis \in 1..3 : axis = 1 \/ axis = 2 \/ axis = 3
    OBVIOUS
<1> QED  BY <1>4, <1>5, <1>6, <1>7

(* A seam as wide as a step is crossed in two.                           *)
LEMMA SeamCrossed ==
    ASSUME WindowTypes, [WindowNext]_window, policy' = policy,
           policy.seam_chunks >= policy.vy_weight, NEW c \in Around
    PROVE  {classify(policy, RingDistance(c, anchor, policy.vy_weight)),
            classify(policy', RingDistance(c, anchor', policy'.vy_weight))} # {"Meshed", "Unloaded"}
<1> DEFINE w == policy.vy_weight
           near == policy.mesh_ring
           wide == policy.seam_chunks
           r == RingDistance(c, anchor, w)
           s == RingDistance(c, anchor', w)
<1>1. w \in Nat \ {0} /\ near \in Nat /\ wide \in Nat /\ w <= wide
    <2>1. PolicyShape(policy) /\ w # 0
        BY PolicyFields DEF WindowTypes, Checked
    <2> QED  BY <2>1 DEF PolicyShape, Byte
<1>2. c \in [1..3 -> Int] /\ anchor \in [1..3 -> Int] /\ anchor' \in [1..3 -> Int]
    BY AroundPoints, WindowStep DEF WindowTypes
<1>3. r \in Nat /\ s \in Nat
    BY <1>1, <1>2, RingOf
<1>4. r <= s + w /\ s <= r + w
    <2>1. ASSUME NEW axis \in 1..3, NEW by \in {-1, 1}, MoveAnchor(axis, by)
          PROVE  r <= s + w /\ s <= r + w
        <3>1. anchor' = [anchor EXCEPT ![axis] = @ + by]
            BY <2>1 DEF MoveAnchor
        <3>2. -by \in {-1, 1} /\ anchor = [anchor' EXCEPT ![axis] = @ + (-by)]
            <4>1. -by \in {-1, 1} /\ anchor[axis] \in Int /\ anchor'[axis] = anchor[axis] + by
                BY <1>2, <3>1
            <4>2. anchor'[axis] + (-by) = anchor[axis]
                BY <4>1
            <4> DEFINE back == [anchor' EXCEPT ![axis] = @ + (-by)]
            <4>3. back \in [1..3 -> Int] /\ \A k \in 1..3 : back[k] = anchor[k]
                BY <1>2, <3>1, <4>1, <4>2
            <4> HIDE DEF back
            <4>4. anchor = back
                BY <1>2, <4>3
            <4> QED  BY <4>1, <4>4 DEF back
        <3>3. s <= r + w
            BY <1>1, <1>2, <3>1, StepMovesRing
        <3>4. r <= s + w
            BY <1>1, <1>2, <3>2, StepMovesRing
        <3> QED  BY <3>3, <3>4
    <2>2. CASE anchor' = anchor
        BY <1>1, <1>3, <2>2
    <2>3. \/ \E axis \in 1..3, by \in {-1, 1} : MoveAnchor(axis, by)
          \/ anchor' = anchor
        BY DEF WindowNext, SetPolicy, SetPlan, window
    <2> QED  BY <2>1, <2>2, <2>3
<1> HIDE DEF r, s, w, near, wide
<1>5. ~ (r <= near /\ s > near + wide) /\ ~ (s <= near /\ r > near + wide)
    BY <1>1, <1>3, <1>4
<1>6. /\ classify(policy, r) = "Meshed" => r <= near
      /\ classify(policy, s) = "Meshed" => s <= near
      /\ classify(policy, r) = "Unloaded" => ~ (r <= near + wide)
      /\ classify(policy, s) = "Unloaded" => ~ (s <= near + wide)
    BY <1>1, <1>3 DEF classify, near, wide
<1>7. {classify(policy, r), classify(policy, s)} # {"Meshed", "Unloaded"}
    <2>1. /\ ~ (classify(policy, r) = "Meshed" /\ classify(policy, s) = "Unloaded")
          /\ ~ (classify(policy, s) = "Meshed" /\ classify(policy, r) = "Unloaded")
        BY <1>1, <1>3, <1>5, <1>6
    <2>2. "Meshed" # "Unloaded"
        OBVIOUS
    <2> QED  BY <2>1, <2>2
<1> QED  BY <1>7 DEF r, s, w

(* The weight of a ring falls outwards, and is something in the seam.    *)
LEMMA SeamFalls ==
    ASSUME WindowTypes, NEW k \in 1..policy.seam_chunks
    PROVE  /\ seam_blend(policy, k) \in 1..255
           /\ \A m \in k..policy.seam_chunks : seam_blend(policy, m) <= seam_blend(policy, k)
<1> DEFINE s == policy.seam_chunks
           share(m) == IF m >= s THEN 255 ELSE 255 * (s - m)
<1>1. s \in 1..255
    BY PolicyFields DEF WindowTypes, PolicyShape, Byte
<1>2. \A m \in 1..s : seam_blend(policy, m) = share(m) \div s
    BY <1>1 DEF seam_blend
<1> HIDE DEF s
<1>3. \A m \in 1..s : share(m) \in 255..255 * s
    BY <1>1
<1>4. \A m \in k..s : share(m) <= share(k) /\ m \in 1..s
    BY <1>1 DEF s
<1>5. k \in 1..s
    BY DEF s
<1> HIDE DEF share
<1>6. ASSUME NEW m \in k..s
      PROVE  seam_blend(policy, m) <= seam_blend(policy, k)
    <2>1. share(m) \in Int /\ share(k) \in Int /\ s \in Nat \ {0} /\ share(m) <= share(k)
        BY <1>1, <1>3, <1>4, <1>5
    <2> QED  BY <1>2, <1>4, <1>5, <2>1, DivisionGrows
<1>7. seam_blend(policy, k) \in 1..255
    <2>1. share(k) \in Int /\ s \in Nat \ {0} /\ s <= share(k) /\ share(k) <= 255 * s /\ 255 * s \in Int
        BY <1>1, <1>3, <1>5
    <2>2. s \div s <= share(k) \div s /\ share(k) \div s <= (255 * s) \div s
        BY <1>1, <2>1, DivisionGrows
    <2>3. s \div s = 1 /\ (255 * s) \div s = 255 /\ share(k) \div s \in Int
        BY <1>1, <2>1
    <2> QED  BY <1>2, <1>5, <2>2, <2>3
<1> QED  BY <1>6, <1>7 DEF s

(* What the rings within the seam say of a chunk's state.                *)
LEMMA LifecycleOf ==
    ASSUME NEW p, NEW ring
    PROVE  /\ has_mesh(classify(p, ring))
                <=> \/ ring <= p.mesh_ring
                    \/ ring <= p.mesh_ring + p.seam_chunks /\ p.fade_ticks # 0
           /\ is_resident(classify(p, ring))
                <=> ring <= p.mesh_ring \/ ring <= p.mesh_ring + p.seam_chunks
BY DEF has_mesh, is_resident, classify

LEMMA RingsFall == WindowTypes => FartherIsCoarser
<1> SUFFICES ASSUME WindowTypes, NEW near \in Rings, NEW far \in Rings, near < far
             PROVE  /\ Weight(policy, render_ring, far) <= Weight(policy, render_ring, near)
                    /\ role(policy, render_ring, near) = "Seam"
                         => Weight(policy, render_ring, near) \in 1..255
                    /\ Seldom(sim_cohort(policy, near)) <= Seldom(sim_cohort(policy, far))
                    /\ has_mesh(classify(policy, far)) => has_mesh(classify(policy, near))
                    /\ is_resident(classify(policy, far)) => is_resident(classify(policy, near))
                    /\ \A l, m \in 0..1 :
                         EvictedBefore([ring |-> far, lru_pos |-> l], [ring |-> near, lru_pos |-> m])
    BY DEF FartherIsCoarser
<1> DEFINE p == policy
           mesh == policy.mesh_ring
           s == policy.seam_chunks
           W(ring) == Weight(p, render_ring, ring)
           R(ring) == role(p, render_ring, ring)
<1>1. near \in Nat /\ far \in Nat
    BY WindowAssumption DEF Rings
<1>2. PolicyShape(p) /\ Checked(p) /\ render_ring \in Int
    BY PolicyFields DEF WindowTypes
<1>3. ASSUME NEW ring \in Nat
      PROVE  /\ ring <= mesh => R(ring) = "Inner"
             /\ ~ (ring <= mesh) /\ ring > render_ring => R(ring) = "Frozen"
             /\ ~ (ring <= mesh) /\ ~ (ring > render_ring) /\ ring <= mesh + s => R(ring) = "Seam"
             /\ ~ (ring <= mesh) /\ ~ (ring > render_ring) /\ ~ (ring <= mesh + s)
                    => R(ring) = "Outer"
    BY DEF role
<1>4. ASSUME NEW ring \in Nat
      PROVE  /\ R(ring) = "Inner" => W(ring) = 256
             /\ R(ring) = "Seam" => W(ring) = seam_blend(p, ring - mesh)
             /\ R(ring) = "Outer" => W(ring) = 0
             /\ R(ring) = "Frozen" => W(ring) = -1
    BY DEF Weight
<1> HIDE DEF W, R
<1>5. ASSUME NEW ring \in Nat, R(ring) = "Seam"
      PROVE  /\ ring - mesh \in 1..s /\ W(ring) \in 1..255
             /\ \A m \in (ring - mesh)..s : seam_blend(p, m) <= W(ring)
    <2>1. ~ (ring <= mesh) /\ ring <= mesh + s
        BY <1>3, <1>5
    <2>2. ring - mesh \in 1..s
        <3>1. mesh \in Nat /\ s \in Nat
            BY <1>2 DEF PolicyShape, Byte
        <3> QED  BY <2>1, <3>1
    <2> QED  BY <1>4, <1>5, <2>2, SeamFalls
<1>6. W(far) <= W(near)
    <2>1. mesh \in Nat /\ s \in Nat
        BY <1>2 DEF PolicyShape, Byte
    <2> HIDE DEF mesh, s
    <2>2. CASE R(near) = "Inner"
        BY <1>1, <1>3, <1>4, <1>5, <2>2
    <2>3. CASE R(near) = "Frozen"
        BY <1>1, <1>2, <1>3, <1>4, <2>1, <2>3
    <2>4. CASE R(near) = "Outer"
        BY <1>1, <1>2, <1>3, <1>4, <2>1, <2>4
    <2>5. CASE R(near) = "Seam"
        <3>1. CASE R(far) = "Seam"
            <4>1. far - mesh \in (near - mesh)..s
                BY <1>1, <1>5, <2>1, <2>5, <3>1
            <4> QED  BY <1>1, <1>4, <1>5, <2>5, <3>1, <4>1
        <3>2. CASE R(far) = "Outer" \/ R(far) = "Frozen"
            BY <1>1, <1>4, <1>5, <2>5, <3>2
        <3>3. R(far) # "Inner"
            BY <1>1, <1>3, <2>1, <2>5
        <3> QED  BY <1>1, <1>3, <3>1, <3>2, <3>3
    <2> QED  BY <1>1, <1>3, <2>2, <2>3, <2>4, <2>5
<1>7. Seldom(sim_cohort(p, near)) <= Seldom(sim_cohort(p, far))
    BY <1>1, <1>2 DEF Seldom, sim_cohort, PolicyShape, Checked, Byte
<1>8. /\ has_mesh(classify(p, far)) => has_mesh(classify(p, near))
      /\ is_resident(classify(p, far)) => is_resident(classify(p, near))
    <2>1. mesh \in Nat /\ s \in Nat
        BY <1>2 DEF PolicyShape, Byte
    <2> HIDE DEF mesh, s
    <2>2. /\ far <= mesh => near <= mesh
          /\ far <= mesh + s => near <= mesh + s
        BY <1>1, <2>1
    <2> QED  BY <1>1, <2>2, LifecycleOf DEF mesh, s
<1>9. \A l, m \in 0..1 :
        EvictedBefore([ring |-> far, lru_pos |-> l], [ring |-> near, lru_pos |-> m])
    BY <1>1 DEF EvictedBefore
<1> QED  BY <1>1, <1>5, <1>6, <1>7, <1>8, <1>9 DEF W, R

(* The prefetch cone: the vector to a chunk, and the threshold.          *)
Dot(f, x, y, z) == f[1] * x + f[2] * y + f[3] * z
Length(x, y, z) == Abs(x) + Abs(y) + Abs(z)
Least(p, l) == IF p.cos_theta > 0 THEN Saturated(Saturated(p.cos_theta * l) * One) ELSE 0

LEMMA ConeOf ==
    ASSUME NEW p, NEW c, NEW a, NEW f, NEW x, NEW y, NEW z,
           x = c[1] - a[1], y = (c[2] - a[2]) * p.vy_weight, z = c[3] - a[3]
    PROVE  /\ Along(f, Away(p, c, a)) = Dot(f, x, y, z)
           /\ in_prefetch_cone(p, c, a, f) <=>
                /\ p.prefetch_ring # 0
                /\ \/ RingDistance(c, a, p.vy_weight) <= p.mesh_ring
                   \/ /\ RingDistance(c, a, p.vy_weight) <= p.mesh_ring + p.prefetch_ring
                      /\ Wrapped(Dot(f, x, y, z)) > Least(p, Length(x, y, z))
<1> DEFINE d == Away(p, c, a)
<1>1. d[1] = x /\ d[2] = y /\ d[3] = z
    BY DEF Away
<1> HIDE DEF d
<1>2. Along(f, d) = Dot(f, x, y, z)
    BY <1>1 DEF Along, Dot
<1>3. LeastAlong(p, d) = Least(p, Length(x, y, z))
    BY <1>1 DEF LeastAlong, Least, Length
<1> QED  BY <1>2, <1>3 DEF in_prefetch_cone, d

(* Of two opposite products at most one is positive, wrapped or not.     *)
LEMMA OneSidePositive ==
    ASSUME NEW n \in Int
    PROVE  /\ Wrapped(n) \in Int /\ Wrapped(-n) \in Int
           /\ Wrapped(n) <= I32Half - 1
           /\ ~ (Wrapped(n) > 0 /\ Wrapped(-n) > 0)
<1> DEFINE m == 2 * I32Half
           p == (n + I32Half) \div m
           r == (n + I32Half) % m
           q == ((-n) + I32Half) \div m
           s == ((-n) + I32Half) % m
<1>1. I32Half \in Nat \ {0} /\ m \in Nat \ {0} /\ m = I32Half + I32Half
    BY WindowAssumption
<1>2. /\ p \in Int /\ q \in Int /\ r \in 0..m - 1 /\ s \in 0..m - 1
      /\ n + I32Half = m * p + r /\ (-n) + I32Half = m * q + s
    <2>1. ASSUME NEW a \in Int, NEW b \in Nat \ {0}
          PROVE  a \div b \in Int /\ a % b \in 0..b - 1 /\ a = b * (a \div b) + (a % b)
        OBVIOUS
    <2>2. n + I32Half \in Int /\ (-n) + I32Half \in Int
        BY <1>1
    <2> HIDE DEF m
    <2> QED  BY <1>1, <2>1, <2>2
<1>3. Wrapped(n) = r - I32Half /\ Wrapped(-n) = s - I32Half
    BY DEF Wrapped
<1> HIDE DEF m, p, q, r, s
<1>4. m * p \in Int /\ m * q \in Int /\ m * (p + q) = m * p + m * q
    BY <1>1, <1>2
<1>5. \A t \in Int : m * t >= 0 \/ m * t <= -m
    <2> SUFFICES ASSUME NEW t \in Int PROVE m * t >= 0 \/ m * t <= -m
        OBVIOUS
    <2>1. CASE t >= 0
        BY <1>1, <2>1
    <2>2. CASE t <= -1
        <3>1. m * t <= m * (-1)
            BY <1>1, <2>2
        <3> QED  BY <1>1, <3>1
    <2> QED  BY <2>1, <2>2
<1>6. m * (p + q) + r + s = m
    <2> DEFINE u == m * p
               v == m * q
    <2>1. u \in Int /\ v \in Int /\ m * (p + q) = u + v
          /\ n + I32Half = u + r /\ (-n) + I32Half = v + s
        BY <1>2, <1>4
    <2> HIDE DEF u, v
    <2> QED  BY <1>1, <1>2, <2>1
<1>7. r + s <= m \/ r + s >= m + m
    <2> DEFINE w == m * (p + q)
    <2>1. p + q \in Int
        BY <1>2
    <2>2. (w >= 0 \/ w <= -m) /\ w \in Int
        BY <1>4, <1>5, <2>1
    <2> HIDE DEF w
    <2>3. w + r + s = m
        BY <1>6 DEF w
    <2> QED  BY <1>1, <1>2, <2>2, <2>3
<1> QED  BY <1>1, <1>2, <1>3, <1>7

LEMMA ProductBound ==
    ASSUME NEW n \in Nat, NEW f \in -n..n, NEW x \in Int
    PROVE  f * x \in Int /\ n * Abs(x) \in Nat /\ f * x <= n * Abs(x) /\ f * (-x) = -(f * x)
<1>1. f \in Int /\ f <= n /\ -f <= n
    OBVIOUS
<1>2. f * x \in Int /\ f * (-x) = -(f * x) /\ (-f) * (-x) = f * x
    BY <1>1
<1>3. CASE x >= 0
    <2>1. Abs(x) = x /\ x \in Nat
        BY <1>3 DEF Abs
    <2>2. f * x <= n * x /\ n * x \in Nat
        BY <1>1, <2>1
    <2> QED  BY <1>2, <2>1, <2>2
<1>4. CASE x < 0
    <2> DEFINE y == -x
               g == -f
    <2>1. Abs(x) = y /\ y \in Nat /\ g \in Int /\ g <= n
        BY <1>1, <1>4 DEF Abs
    <2>2. g * y <= n * y /\ n * y \in Nat
        <3> HIDE DEF y, g
        <3> QED  BY <2>1
    <2> QED  BY <1>2, <2>1, <2>2
<1> QED  BY <1>3, <1>4

(* No component longer than n, no product longer than n times the length. *)
LEMMA DotBound ==
    ASSUME NEW f \in Forward, NEW x \in Int, NEW y \in Int, NEW z \in Int, NEW n \in Nat
    PROVE  /\ Dot(f, x, y, z) \in Int /\ Length(x, y, z) \in Nat
           /\ (\A axis \in 1..3 : Abs(f[axis]) <= n) => Dot(f, x, y, z) <= n * Length(x, y, z)
<1>1. f[1] \in Int /\ f[2] \in Int /\ f[3] \in Int
    BY WindowAssumption
<1>2. Abs(x) \in Nat /\ Abs(y) \in Nat /\ Abs(z) \in Nat
    BY AbsOf
<1>3. Dot(f, x, y, z) \in Int /\ Length(x, y, z) \in Nat
    <2>1. f[1] * x \in Int /\ f[2] * y \in Int /\ f[3] * z \in Int
        BY <1>1
    <2> QED  BY <1>2, <2>1 DEF Dot, Length
<1>4. ASSUME \A axis \in 1..3 : Abs(f[axis]) <= n
      PROVE  Dot(f, x, y, z) <= n * Length(x, y, z)
    <2>1. f[1] \in -n..n /\ f[2] \in -n..n /\ f[3] \in -n..n
        <3>1. \A e \in Int : Abs(e) <= n => e \in -n..n
            BY AbsOf
        <3>2. Abs(f[1]) <= n /\ Abs(f[2]) <= n /\ Abs(f[3]) <= n
            BY <1>4
        <3> QED  BY <1>1, <3>1, <3>2
    <2> DEFINE u == f[1] * x
               v == f[2] * y
               w == f[3] * z
               a == n * Abs(x)
               b == n * Abs(y)
               c == n * Abs(z)
    <2>2. u \in Int /\ a \in Nat /\ u <= a
        BY <2>1, ProductBound
    <2>3. v \in Int /\ b \in Nat /\ v <= b
        BY <2>1, ProductBound
    <2>4. w \in Int /\ c \in Nat /\ w <= c
        BY <2>1, ProductBound
    <2>5. Dot(f, x, y, z) = u + v + w
        BY DEF Dot
    <2>6. n * Length(x, y, z) = a + b + c
        BY <1>2 DEF Length
    <2> HIDE DEF u, v, w, a, b, c
    <2> QED  BY <2>2, <2>3, <2>4, <2>5, <2>6
<1> QED  BY <1>3, <1>4

LEMMA DotOpposite ==
    ASSUME NEW f \in Forward, NEW x \in Int, NEW y \in Int, NEW z \in Int
    PROVE  /\ Dot(f, -x, -y, -z) = -Dot(f, x, y, z)
           /\ Length(-x, -y, -z) = Length(x, y, z)
<1>1. f[1] \in Int /\ f[2] \in Int /\ f[3] \in Int
    BY WindowAssumption
<1> DEFINE u == f[1] * x
           v == f[2] * y
           w == f[3] * z
<1>2. u \in Int /\ v \in Int /\ w \in Int
    BY <1>1
<1>3. f[1] * (-x) = -u /\ f[2] * (-y) = -v /\ f[3] * (-z) = -w
    <2>1. \A m, n \in Int : m * (-n) = -(m * n)
        OBVIOUS
    <2> QED  BY <1>1, <2>1
<1>4. Dot(f, x, y, z) = u + v + w
    BY DEF Dot
<1>5. Dot(f, -x, -y, -z) = (-u) + (-v) + (-w)
    BY <1>3 DEF Dot
<1> HIDE DEF u, v, w
<1>6. Dot(f, -x, -y, -z) = -Dot(f, x, y, z)
    BY <1>2, <1>4, <1>5
<1>7. Length(-x, -y, -z) = Length(x, y, z)
    BY AbsOf DEF Length
<1> QED  BY <1>6, <1>7

(* A threshold that was cut off is no less than any i32.                 *)
LEMMA LeastBound ==
    ASSUME NEW p, p.cos_theta \in -128..127, NEW l \in Nat
    PROVE  /\ Least(p, l) \in Nat
           /\ p.cos_theta > 0 => \/ Least(p, l) = p.cos_theta * One * l
                                \/ Least(p, l) = I32Half - 1
<1> DEFINE k == p.cos_theta
<1>1. One \in Nat \ {0} /\ I32Half \in Nat \ {0} /\ k \in Int
    BY WindowAssumption DEF k
<1>2. CASE k > 0
    <2> DEFINE inner == Saturated(k * l)
    <2>1. k * l \in Nat /\ k * One * l = (k * l) * One
        BY <1>1, <1>2
    <2>2. Least(p, l) = Saturated(inner * One)
        BY <1>2 DEF Least, k
    <2>3. inner = k * l \/ (inner = I32Half - 1 /\ k * l > I32Half - 1)
        BY <2>1 DEF Saturated
    <2>4. inner \in Nat
        BY <1>1, <2>1, <2>3
    <2> HIDE DEF inner, k
    <2>5. inner * One \in Nat /\ inner <= inner * One
        BY <1>1, <2>4
    <2>6. Least(p, l) = inner * One \/ Least(p, l) = I32Half - 1
        BY <2>2 DEF Saturated
    <2>7. Least(p, l) \in Nat
        BY <1>1, <2>5, <2>6
    <2>8. CASE inner = k * l
        BY <2>1, <2>6, <2>7, <2>8 DEF k
    <2>9. CASE inner = I32Half - 1
        <3>1. Least(p, l) = I32Half - 1
            <4> DEFINE e == inner * One
            <4>1. e \in Nat /\ I32Half - 1 <= e /\ Least(p, l) = Saturated(e)
                BY <2>2, <2>5, <2>9
            <4> HIDE DEF e
            <4> QED  BY <1>1, <4>1 DEF Saturated
        <3> QED  BY <2>7, <3>1 DEF k
    <2> QED  BY <2>3, <2>8, <2>9
<1>3. CASE ~ (k > 0)
    BY <1>3 DEF Least
<1> QED  BY <1>2, <1>3

LEMMA ConePointsAhead == WindowTypes => PrefetchAhead
<1> SUFFICES ASSUME WindowTypes, NEW f \in Forward, NEW c \in Around
             PROVE  LET ring == RingDistance(c, anchor, policy.vy_weight)
                        along == Along(f, Away(policy, c, anchor))
                        opposite == [axis \in 1..3 |-> 2 * anchor[axis] - c[axis]]
                    IN  in_prefetch_cone(policy, c, anchor, f) /\ ring > policy.mesh_ring =>
                          /\ ring <= policy.mesh_ring + policy.prefetch_ring
                          /\ ~in_prefetch_cone(policy, opposite, anchor, f)
                          /\ Wrapped(along) = along =>
                               /\ along > 0
                               /\ policy.cos_theta > 0 =>
                                    \E axis \in 1..3 : Abs(f[axis]) > policy.cos_theta * One
    BY DEF PrefetchAhead
<1> DEFINE w == policy.vy_weight
           mesh == policy.mesh_ring
           ahead == policy.prefetch_ring
           ring == RingDistance(c, anchor, w)
           along == Along(f, Away(policy, c, anchor))
           opposite == [axis \in 1..3 |-> 2 * anchor[axis] - c[axis]]
           back == RingDistance(opposite, anchor, w)
           x == c[1] - anchor[1]
           y == (c[2] - anchor[2]) * w
           z == c[3] - anchor[3]
           dot == Dot(f, x, y, z)
           long == Length(x, y, z)
           least == Least(policy, long)
<1>1. /\ w \in Nat /\ mesh \in Nat /\ ahead \in Nat /\ policy.cos_theta \in -128..127
      /\ c \in [1..3 -> Int] /\ anchor \in [1..3 -> Int]
    <2>1. PolicyShape(policy)
        BY PolicyFields DEF WindowTypes
    <2> QED  BY <2>1, AroundPoints DEF PolicyShape, Byte, WindowTypes
<1>2. \A axis \in 1..3 : /\ c[axis] \in Int /\ anchor[axis] \in Int
                         /\ opposite[axis] - anchor[axis] = -(c[axis] - anchor[axis])
    BY <1>1
<1>3. x \in Int /\ y \in Int /\ z \in Int
    <2>1. c[2] - anchor[2] \in Int
        BY <1>2
    <2>2. \A m \in Int : m * w \in Int
        BY <1>1
    <2> QED  BY <1>2, <2>1, <2>2
<1>4. /\ opposite[1] - anchor[1] = -x
      /\ (opposite[2] - anchor[2]) * w = -y
      /\ opposite[3] - anchor[3] = -z
    <2>1. \A m \in Int : (-m) * w = -(m * w)
        BY <1>1
    <2>2. opposite[2] - anchor[2] = -(c[2] - anchor[2]) /\ c[2] - anchor[2] \in Int
        BY <1>2
    <2> HIDE DEF opposite
    <2> QED  BY <1>2, <2>1, <2>2
<1>5. back = ring
    <2>1. \A axis \in 1..3 : Abs(opposite[axis] - anchor[axis]) = Abs(c[axis] - anchor[axis])
        <3>1. \A axis \in 1..3 : c[axis] - anchor[axis] \in Int
            BY <1>2
        <3> HIDE DEF opposite
        <3> QED  BY <1>2, <3>1, AbsOf
    <2> HIDE DEF opposite
    <2> QED  BY <2>1 DEF RingDistance
<1>6. ring \in Nat
    BY <1>1, RingOf
<1>7. /\ along = dot
      /\ in_prefetch_cone(policy, c, anchor, f) <=>
           /\ ahead # 0
           /\ \/ ring <= mesh
              \/ ring <= mesh + ahead /\ Wrapped(dot) > least
    BY ConeOf
<1>8. in_prefetch_cone(policy, opposite, anchor, f) <=>
        /\ ahead # 0
        /\ \/ back <= mesh
           \/ /\ back <= mesh + ahead
              /\ Wrapped(Dot(f, -x, -y, -z)) > Least(policy, Length(-x, -y, -z))
    <2> HIDE DEF opposite, x, y, z
    <2> QED  BY <1>4, ConeOf
<1>9. /\ dot \in Int /\ long \in Nat /\ least \in Nat
      /\ Dot(f, -x, -y, -z) = -dot /\ Length(-x, -y, -z) = long
    <2> HIDE DEF x, y, z
    <2>1. dot \in Int /\ long \in Nat
        BY <1>3, DotBound
    <2>2. Dot(f, -x, -y, -z) = -dot /\ Length(-x, -y, -z) = long
        BY <1>3, DotOpposite
    <2> HIDE DEF dot, long
    <2> QED  BY <1>1, <2>1, <2>2, LeastBound
<1>10. ASSUME Wrapped(dot) > least, policy.cos_theta > 0, Wrapped(dot) = dot
       PROVE  \E axis \in 1..3 : Abs(f[axis]) > policy.cos_theta * One
    <2> DEFINE n == policy.cos_theta * One
    <2>1. n \in Nat
        BY <1>1, <1>10, WindowAssumption
    <2>2. \A axis \in 1..3 : Abs(f[axis]) \in Int
        <3>1. \A axis \in 1..3 : f[axis] \in Int
            BY WindowAssumption
        <3> QED  BY <3>1, AbsOf
    <2> HIDE DEF n, x, y, z
    <2>3. least = n * long \/ least = I32Half - 1
        <3> HIDE DEF dot, long
        <3> QED  BY <1>1, <1>9, <1>10, LeastBound DEF n
    <2>4. Wrapped(dot) <= I32Half - 1 /\ I32Half \in Nat
        BY <1>9, OneSidePositive, WindowAssumption
    <2>5. least = n * long
        BY <1>9, <1>10, <2>3, <2>4
    <2>6. (\A axis \in 1..3 : Abs(f[axis]) <= n) => dot <= n * long
        BY <1>3, <2>1, DotBound
    <2>7. dot > n * long
        BY <1>10, <2>5
    <2>8. n * long \in Int
        BY <1>9, <2>5
    <2>9. ~ \A axis \in 1..3 : Abs(f[axis]) <= n
        <3> DEFINE e == n * long
        <3>1. e \in Int /\ dot > e /\ dot \in Int
            BY <1>9, <2>7, <2>8
        <3>2. (\A axis \in 1..3 : Abs(f[axis]) <= n) => dot <= e
            BY <2>6
        <3> HIDE DEF e, dot
        <3> QED  BY <3>1, <3>2
    <2>10. \E axis \in 1..3 : Abs(f[axis]) > n
        BY <2>1, <2>2, <2>9
    <2> QED  BY <2>10 DEF n
<1>11. /\ Wrapped(dot) \in Int /\ Wrapped(-dot) \in Int
       /\ ~ (Wrapped(dot) > 0 /\ Wrapped(-dot) > 0)
    <2> HIDE DEF dot
    <2> QED  BY <1>9, OneSidePositive
<1> HIDE DEF ring, back, along, dot, long, least, x, y, z, opposite, mesh, ahead
<1>12. ASSUME in_prefetch_cone(policy, c, anchor, f), ring > mesh
       PROVE  /\ ring <= mesh + ahead
              /\ ~in_prefetch_cone(policy, opposite, anchor, f)
              /\ Wrapped(along) = along =>
                   /\ along > 0
                   /\ policy.cos_theta > 0 =>
                        \E axis \in 1..3 : Abs(f[axis]) > policy.cos_theta * One
    <2>1. ring <= mesh + ahead /\ Wrapped(dot) > least
        BY <1>1, <1>6, <1>7, <1>12
    <2>2. Wrapped(dot) > 0 /\ ~ (Wrapped(-dot) > least)
        BY <1>9, <1>11, <2>1
    <2>3. ~in_prefetch_cone(policy, opposite, anchor, f)
        <3>1. in_prefetch_cone(policy, opposite, anchor, f) =>
                back <= mesh \/ Wrapped(-dot) > least
            <4>1. /\ Wrapped(Dot(f, -x, -y, -z)) = Wrapped(-dot)
                  /\ Least(policy, Length(-x, -y, -z)) = Least(policy, long)
                BY <1>9, Zenon
            <4>2. Least(policy, long) = least
                BY DEF least
            <4> QED  BY <1>8, <4>1, <4>2
        <3>2. ~ (back <= mesh)
            BY <1>1, <1>5, <1>6, <1>12
        <3> QED  BY <2>2, <3>1, <3>2
    <2>4. Wrapped(along) = along => along > 0
        BY <1>7, <2>2
    <2> QED  BY <1>7, <1>10, <2>1, <2>3, <2>4
<1> QED  BY <1>12 DEF ring, along, opposite, mesh, ahead


(* The triples of three finite sets.                                     *)
LEMMA Triples ==
    ASSUME NEW S, IsFiniteSet(S), NEW T, IsFiniteSet(T), NEW U, IsFiniteSet(U)
    PROVE  /\ IsFiniteSet(S \X T \X U)
           /\ Cardinality(S \X T \X U) <= Cardinality(S) * Cardinality(T) * Cardinality(U)
<1> DEFINE P == (S \X T) \X U
           f == [p \in P |-> <<p[1][1], p[1][2], p[2]>>]
<1>1. IsFiniteSet(P) /\ Cardinality(P) = Cardinality(S) * Cardinality(T) * Cardinality(U)
    <2>1. IsFiniteSet(S \X T) /\ Cardinality(S \X T) = Cardinality(S) * Cardinality(T)
        BY FS_Product
    <2> QED  BY <2>1, FS_Product
<1>2. f \in [P -> S \X T \X U]
    OBVIOUS
<1>3. ASSUME NEW t \in S \X T \X U
      PROVE  \E p \in P : f[p] = t
    <2> DEFINE p == <<<<t[1], t[2]>>, t[3]>>
    <2>1. p \in P /\ f[p] = t
        OBVIOUS
    <2> QED  BY <2>1
<1> HIDE DEF P, f
<1>4. f \in Surjection(P, S \X T \X U)
    BY <1>2, <1>3 DEF Surjection
<1> QED  BY <1>1, <1>4, FS_Surjection

LEMMA CubesGrow ==
    ASSUME NEW a \in Nat, NEW b \in Nat, a <= b
    PROVE  /\ a * a \in Nat /\ a * a * a \in Nat /\ a * a <= b * b /\ a * a * a <= b * b * b
<1>1. a * a <= b * b /\ a * a \in Nat /\ b * b \in Nat
    BY SMT
<1> DEFINE p == a * a
           q == b * b
<1> HIDE DEF p, q
<1>2. p <= q /\ p \in Nat /\ q \in Nat
    BY <1>1 DEF p, q
<1>3. p * a <= q * b /\ p * a \in Nat
    BY <1>2, SMT
<1> QED  BY <1>1, <1>3 DEF p, q

(* The chunks within a ring, as many as a cube holds.                    *)
Near(n) == {c \in Around : RingDistance(c, anchor, policy.vy_weight) <= n}

LEMMA NearIsCube ==
    ASSUME WindowTypes, NEW n \in 0..Reach
    PROVE  /\ IsFiniteSet(Near(n)) /\ Cardinality(Near(n)) \in Nat
           /\ Cardinality(Near(n)) <= (2 * n + 1) * (2 * n + 1) * (2 * n + 1)
           /\ Cardinality({c[1] : c \in Near(n)}) = 2 * n + 1
<1> DEFINE w == policy.vy_weight
           I(k) == anchor[k] - n..anchor[k] + n
           side == 2 * n + 1
<1>1. w \in Nat /\ n \in Nat /\ Reach \in Nat /\ n <= Reach
      /\ anchor \in [1..3 -> Int] /\ \A k \in 1..3 : anchor[k] \in Int
    BY PolicyFields, WindowAssumption DEF WindowTypes, PolicyShape, Byte
<1>2. ASSUME NEW k \in 1..3
      PROVE  IsFiniteSet(I(k)) /\ Cardinality(I(k)) = side
    <2> DEFINE a == anchor[k]
    <2>0. a \in Int /\ n \in Nat
        BY <1>1
    <2> HIDE DEF a
    <2>1. a - n \in Int /\ a + n \in Int /\ ~ (a - n > a + n) /\ (a + n) - (a - n) + 1 = side
        BY <2>0
    <2>2. IsFiniteSet(a - n..a + n) /\ Cardinality(a - n..a + n) = (a + n) - (a - n) + 1
        BY <2>1, FS_Interval
    <2> QED  BY <2>1, <2>2 DEF a
<1>3. Near(n) \subseteq I(1) \X I(2) \X I(3)
    <2> SUFFICES ASSUME NEW c \in Near(n) PROVE c \in I(1) \X I(2) \X I(3)
        OBVIOUS
    <2>1. c \in Around /\ RingDistance(c, anchor, w) <= n
        BY DEF Near
    <2>2. c \in [1..3 -> Int] /\ c = <<c[1], c[2], c[3]>>
        BY <2>1, AroundPoints
    <2>3. Abs(c[1] - anchor[1]) <= n /\ Abs(c[2] - anchor[2]) * Heavy(w) <= n
          /\ Abs(c[3] - anchor[3]) <= n
        <3>1. \A m \in Int : RingDistance(c, anchor, w) <= m
                <=> /\ Abs(c[1] - anchor[1]) <= m
                    /\ Abs(c[2] - anchor[2]) * Heavy(w) <= m
                    /\ Abs(c[3] - anchor[3]) <= m
            BY <1>1, <2>2, RingOf
        <3> QED  BY <1>1, <2>1, <3>1
    <2>4. \A k \in 1..3 : c[k] \in Int /\ c[k] - anchor[k] \in Int /\ Abs(c[k] - anchor[k]) \in Nat
        <3>1. \A k \in 1..3 : c[k] \in Int /\ c[k] - anchor[k] \in Int
            BY <1>1, <2>2
        <3> QED  BY <3>1, AbsOf
    <2>5. Abs(c[2] - anchor[2]) <= n
        <3> DEFINE m == Abs(c[2] - anchor[2])
                   h == Heavy(w)
        <3>1. m \in Nat /\ h \in Nat \ {0} /\ m * h <= n
            BY <1>1, <2>3, <2>4 DEF Heavy
        <3> HIDE DEF m, h
        <3>2. m <= m * h /\ m * h \in Nat
            BY <3>1
        <3>3. m <= n
            BY <1>1, <3>1, <3>2
        <3> QED  BY <3>3 DEF m
    <2>6. \A k \in 1..3 : c[k] \in I(k)
        <3> SUFFICES ASSUME NEW k \in 1..3 PROVE c[k] \in I(k)
            OBVIOUS
        <3>1. Abs(c[k] - anchor[k]) <= n
            <4>1. k = 1 \/ k = 2 \/ k = 3
                OBVIOUS
            <4> QED  BY <2>3, <2>5, <4>1
        <3>2. -n <= c[k] - anchor[k] /\ c[k] - anchor[k] <= n
            BY <1>1, <2>4, <3>1, AbsOf
        <3> QED  BY <1>1, <2>4, <3>2
    <2> HIDE DEF I
    <2>7. c[1] \in I(1) /\ c[2] \in I(2) /\ c[3] \in I(3)
        BY <2>6
    <2> QED  BY <2>2, <2>7
<1>4. {c[1] : c \in Near(n)} = I(1)
    <2>1. \A c \in Near(n) : c[1] \in I(1)
        BY <1>3
    <2>2. ASSUME NEW x \in I(1)
          PROVE  \E c \in Near(n) : c[1] = x
        <3> DEFINE c == <<x, anchor[2], anchor[3]>>
                   d == <<x - anchor[1], 0, 0>>
        <3>1. x \in Int /\ x - anchor[1] \in -n..n /\ x = anchor[1] + (x - anchor[1])
            BY <1>1
        <3>2. c \in Around
            <4>1. d \in (-Reach..Reach) \X (-Reach..Reach) \X (-Reach..Reach)
                BY <1>1, <3>1
            <4>2. c = <<anchor[1] + d[1], anchor[2] + d[2], anchor[3] + d[3]>>
                BY <1>1, <3>1
            <4> HIDE DEF c, d
            <4> QED  BY <4>1, <4>2 DEF Around
        <3>3. c \in [1..3 -> Int] /\ c[1] = x /\ c[2] = anchor[2] /\ c[3] = anchor[3]
            BY <1>1, <3>1
        <3> HIDE DEF c
        <3>4. Abs(c[1] - anchor[1]) <= n /\ Abs(c[3] - anchor[3]) <= n
              /\ Abs(c[2] - anchor[2]) * Heavy(w) <= n
            <4>1. Abs(c[2] - anchor[2]) = 0 /\ Abs(c[3] - anchor[3]) = 0
                BY <1>1, <3>3 DEF Abs
            <4>2. Heavy(w) \in Nat
                BY <1>1 DEF Heavy
            <4>3. Abs(c[1] - anchor[1]) <= n
                BY <1>1, <3>1, <3>3 DEF Abs
            <4> QED  BY <1>1, <4>1, <4>2, <4>3
        <3>5. RingDistance(c, anchor, w) <= n
            <4>1. \A m \in Int : RingDistance(c, anchor, w) <= m
                    <=> /\ Abs(c[1] - anchor[1]) <= m
                        /\ Abs(c[2] - anchor[2]) * Heavy(w) <= m
                        /\ Abs(c[3] - anchor[3]) <= m
                BY <1>1, <3>3, RingOf
            <4>2. n \in Int
                BY <1>1
            <4> QED  BY <3>4, <4>1, <4>2
        <3> QED  BY <3>2, <3>3, <3>5 DEF Near
    <2> HIDE DEF I
    <2> QED  BY <2>1, <2>2
<1> HIDE DEF I
<1>5. /\ IsFiniteSet(Near(n)) /\ Cardinality(Near(n)) \in Nat
      /\ Cardinality(Near(n)) <= side * side * side
    <2>1. /\ IsFiniteSet(I(1) \X I(2) \X I(3))
          /\ Cardinality(I(1) \X I(2) \X I(3)) <= side * side * side
        <3>1. /\ IsFiniteSet(I(1)) /\ IsFiniteSet(I(2)) /\ IsFiniteSet(I(3))
              /\ Cardinality(I(1)) = side /\ Cardinality(I(2)) = side /\ Cardinality(I(3)) = side
            BY <1>2
        <3>2. /\ IsFiniteSet(I(1) \X I(2) \X I(3))
              /\ Cardinality(I(1) \X I(2) \X I(3))
                   <= Cardinality(I(1)) * Cardinality(I(2)) * Cardinality(I(3))
            BY <3>1, Triples
        <3> QED  BY <3>1, <3>2
    <2>2. /\ IsFiniteSet(Near(n))
          /\ Cardinality(Near(n)) <= Cardinality(I(1) \X I(2) \X I(3))
        BY <1>3, <2>1, FS_Subset
    <2>3. /\ Cardinality(Near(n)) \in Nat /\ Cardinality(I(1) \X I(2) \X I(3)) \in Nat
        BY <2>1, <2>2, FS_CardinalityType
    <2>4. side * side * side \in Int
        BY <1>1
    <2> HIDE DEF side
    <2> QED  BY <2>1, <2>2, <2>3, <2>4
<1>6. Cardinality({c[1] : c \in Near(n)}) = side
    BY <1>2, <1>4
<1> QED  BY <1>5, <1>6

LEMMA BudgetsKept == WindowTypes => BudgetsHold
<1> SUFFICES ASSUME WindowTypes PROVE BudgetsHold
    OBVIOUS
<1> DEFINE p == policy
           mesh == policy.mesh_ring
           coarse == policy.coarse_ring
           seam == policy.seam_chunks
           n == mesh + seam
           top == Max({mesh, coarse})
           residents == {c \in Around : is_resident(classify(policy, RingDistance(c, anchor, policy.vy_weight)))}
           count == Cardinality(residents)
           wide == 2 * top + 1
           inner == 2 * n + 1
<1>1. mesh \in Nat /\ seam \in Nat /\ coarse \in Nat /\ policy.vy_weight \in Nat /\ n \in 0..Reach
      /\ MaxU32 \in Nat
    <2>1. PolicyShape(policy) /\ n <= Reach /\ Reach \in Nat /\ MaxU32 \in Nat
        BY PolicyFields, WindowAssumption DEF WindowTypes
    <2>2. mesh \in Byte /\ seam \in Byte /\ coarse \in Byte /\ policy.vy_weight \in Byte
        BY <2>1 DEF PolicyShape
    <2> HIDE DEF mesh, seam, coarse
    <2> QED  BY <2>1, <2>2 DEF Byte
<1>2. residents = Near(n)
    <2>1. ASSUME NEW c \in Around
          PROVE  is_resident(classify(policy, RingDistance(c, anchor, policy.vy_weight)))
                   <=> RingDistance(c, anchor, policy.vy_weight) <= n
        <3>1. RingDistance(c, anchor, policy.vy_weight) \in Nat
            BY <1>1, AroundPoints, RingOf DEF WindowTypes
        <3>2. RingDistance(c, anchor, policy.vy_weight) <= mesh
                => RingDistance(c, anchor, policy.vy_weight) <= n
            BY <1>1, <3>1
        <3> QED  BY <3>2, LifecycleOf
    <2> QED  BY <2>1 DEF Near
<1>3. top \in Nat
    <2>1. {mesh, coarse} = {mesh, coarse, coarse}
        OBVIOUS
    <2>2. Max({mesh, coarse, coarse}) \in {mesh, coarse, coarse}
        BY <1>1, MaxOfThree
    <2> QED  BY <1>1, <2>1, <2>2
<1>4. inner_side_chunks(policy) + seam_side_chunks(policy) = inner
    BY <1>1 DEF inner_side_chunks, seam_side_chunks
<1>5. mvp_max_resident_chunks(policy)
        = IF wide * wide > MaxU32 THEN MaxU32 ELSE Capped(wide * wide * wide)
    BY DEF mvp_max_resident_chunks, mvp_active_window_chunks
<1> HIDE DEF residents
<1>6. count \in Nat /\ count <= inner * inner * inner
      /\ Cardinality({c[1] : c \in residents}) = inner
    BY <1>1, <1>2, NearIsCube
<1>7. inner \in Nat /\ wide \in Nat /\ wide >= 1
    BY <1>1, <1>3
<1> HIDE DEF n, top, count, wide, inner, mesh, seam, coarse
<1>8. ASSUME n <= top
      PROVE  /\ Capped(count) <= mvp_max_resident_chunks(policy)
             /\ \A side \in 0..2 * Reach, budget \in {0, 27, 125, MaxU32} :
                  fits(policy, side, budget) => count <= budget
    <2>1. inner <= wide
        BY <1>1, <1>3, <1>8 DEF inner, wide
    <2>2. /\ wide * wide \in Nat /\ wide * wide * wide \in Nat /\ inner * inner * inner \in Nat
          /\ inner * inner * inner <= wide * wide * wide
        <3>1. wide <= wide
            BY <1>7
        <3> QED  BY <1>7, <2>1, <3>1, CubesGrow
    <2> DEFINE square == wide * wide
               cube == wide * wide * wide
               most == mvp_max_resident_chunks(policy)
    <2>3. square \in Nat /\ cube \in Nat /\ count <= cube
        <3> DEFINE small == inner * inner * inner
        <3>1. small \in Nat /\ count <= small /\ small <= cube /\ cube \in Nat
            BY <1>6, <2>2
        <3> HIDE DEF small, cube
        <3>2. count <= cube
            BY <1>6, <3>1
        <3> QED  BY <2>2, <3>2 DEF cube
    <2>4. most = IF square > MaxU32 THEN MaxU32 ELSE Capped(cube)
        BY <1>5
    <2> HIDE DEF square, cube, most
    <2>5. Capped(count) <= most
        BY <1>1, <1>6, <2>3, <2>4 DEF Capped
    <2>6. most = MaxU32 \/ (count <= most /\ most = cube)
        BY <1>1, <1>6, <2>3, <2>4 DEF Capped
    <2>7. ASSUME NEW side \in 0..2 * Reach, NEW budget \in {0, 27, 125, MaxU32},
                 fits(policy, side, budget)
          PROVE  count <= budget
        <3> DEFINE full == side * side * side
        <3>1. side \in Nat
            <4>1. Reach \in Nat
                BY WindowAssumption
            <4> QED  BY <4>1
        <3>2. full \in Nat /\ side <= full
            <4>1. CASE side = 0
                BY <4>1
            <4>2. CASE side # 0
                <5>1. side <= side * side /\ side * side \in Nat
                    BY <3>1, <4>2
                <5> DEFINE m == side * side
                <5> HIDE DEF m
                <5>2. side <= m /\ m \in Nat
                    BY <5>1 DEF m
                <5>3. m <= m * side /\ m * side \in Nat
                    BY <3>1, <4>2, <5>2
                <5>4. side <= m * side
                    BY <3>1, <5>2, <5>3
                <5> QED  BY <5>3, <5>4 DEF m
            <4> QED  BY <4>1, <4>2
        <3>3. full <= MaxU32 /\ most <= full /\ full <= budget
            BY <2>7 DEF fits, most
        <3>4. budget \in Nat
            BY <1>1
        <3>5. full # MaxU32
            <4>1. side <= MaxU32
                <5> HIDE DEF full
                <5> QED  BY <1>1, <3>1, <3>2, <3>3
            <4>2. side \in 0..MaxU32
                BY <1>1, <3>1, <4>1
            <4> QED  BY <4>2, WindowAssumption
        <3> HIDE DEF full
        <3>6. most # MaxU32
            BY <1>1, <3>2, <3>3, <3>5
        <3>7. count <= most /\ most \in Nat
            BY <2>3, <2>6, <3>6
        <3> QED  BY <1>6, <3>2, <3>3, <3>4, <3>7
    <2> QED  BY <2>5, <2>7 DEF most
<1>9. /\ policy.mesh_ring + policy.seam_chunks <= Max({policy.mesh_ring, policy.coarse_ring})
           => /\ Capped(count) <= mvp_max_resident_chunks(policy)
              /\ \A side \in 0..2 * Reach, budget \in {0, 27, 125, MaxU32} :
                   fits(policy, side, budget) => count <= budget
      /\ Cardinality({c[1] : c \in residents}) = inner_side_chunks(policy) + seam_side_chunks(policy)
    BY <1>4, <1>6, <1>8 DEF n, top, mesh, seam, coarse
<1> QED  BY <1>9 DEF BudgetsHold, count, residents

(* The quotient is the one number whose remainder is in range.           *)
LEMMA QuotientIs ==
    ASSUME NEW a \in Int, NEW n \in Nat \ {0}, NEW q \in Int, NEW r \in 0..n - 1, a = n * q + r
    PROVE  a \div n = q
<1> DEFINE p == a \div n
           s == a % n
<1>1. p \in Int /\ s \in 0..n - 1 /\ a = n * p + s
    OBVIOUS
<1> HIDE DEF p, s
<1>2. \A x, y \in Int : x < y => n * x + n <= n * y
    <2> SUFFICES ASSUME NEW x \in Int, NEW y \in Int, x < y PROVE n * x + n <= n * y
        OBVIOUS
    <2>1. x + 1 <= y
        OBVIOUS
    <2>2. n * (x + 1) <= n * y /\ n * (x + 1) = n * x + n
        BY <2>1
    <2> QED  BY <2>2
<1>3. (p < q => n * p + n <= n * q) /\ (q < p => n * q + n <= n * p)
    BY <1>1, <1>2
<1> DEFINE u == n * p
           v == n * q
<1>4. u \in Int /\ v \in Int
    BY <1>1
<1>5. u + s = v + r /\ (p < q => u + n <= v) /\ (q < p => v + n <= u)
    BY <1>1, <1>3
<1> HIDE DEF u, v
<1>6. p = q
    BY <1>1, <1>4, <1>5
<1> QED  BY <1>6 DEF p

LEMMA DivisionCancels ==
    ASSUME NEW a \in Int, NEW n \in Nat \ {0}, NEW k \in Nat \ {0}
    PROVE  (k * a) \div (k * n) = a \div n
<1> DEFINE q == a \div n
           r == a % n
<1>1. q \in Int /\ r \in 0..n - 1 /\ a = n * q + r
    OBVIOUS
<1> HIDE DEF q, r
<1>2. k * a \in Int /\ k * n \in Nat \ {0} /\ k * r \in Int
    BY <1>1
<1>3. k * r \in 0..k * n - 1
    <2>1. 0 <= k * r
        BY <1>1
    <2>2. r + 1 <= n
        BY <1>1
    <2>3. k * (r + 1) <= k * n /\ k * (r + 1) = k * r + k
        BY <1>1, <2>2
    <2> QED  BY <1>2, <2>1, <2>3
<1>4. k * a = (k * n) * q + k * r
    BY <1>1
<1> DEFINE b == k * a
           m == k * n
           t == k * r
<1> HIDE DEF b, m, t
<1>5. b \div m = q
    <2>1. b \in Int /\ m \in Nat \ {0} /\ t \in 0..m - 1 /\ b = m * q + t
        BY <1>2, <1>3, <1>4 DEF b, m, t
    <2> QED  BY <1>1, <2>1, QuotientIs
<1> QED  BY <1>5 DEF b, m, q

(* What the selection keeps between steps.                               *)
DetailTypes ==
    /\ distance \in Distances
    /\ tiers \in [near : 0..MaxDistance, mid : 0..MaxDistance, cull : 0..MaxDistance,
                  near_resolution : Nat, mid_resolution : Nat, far_resolution : Nat]

LEMMA DetailStarts == DetailInit => DetailTypes
<1> SUFFICES ASSUME DetailInit PROVE DetailTypes
    OBVIOUS
<1>1. MaxDistance \in Nat /\ 6 <= MaxDistance
    BY DetailAssumption
<1>2. 0 \in Distances /\ 2 \in 0..MaxDistance /\ 4 \in 0..MaxDistance /\ 6 \in 0..MaxDistance
    BY <1>1 DEF Distances
<1> QED  BY <1>2 DEF DetailInit, DefaultTiers, DetailTypes

LEMMA DetailStep == DetailTypes /\ [DetailNext]_detail => DetailTypes'
<1> SUFFICES ASSUME DetailTypes, [DetailNext]_detail PROVE DetailTypes'
    OBVIOUS
<1>1. ASSUME NEW which \in {"near", "mid", "cull"}, NEW value \in Thresholds, SetDistance(which, value)
      PROVE  DetailTypes'
    <2>1. value \in 0..MaxDistance
        BY DetailAssumption
    <2> QED  BY <1>1, <2>1 DEF SetDistance, DetailTypes, Distances
<1>2. ASSUME NEW which \in {"near_resolution", "mid_resolution", "far_resolution"},
             NEW value \in Resolutions, SetResolution(which, value)
      PROVE  DetailTypes'
    <2>1. value \in Nat
        BY DetailAssumption
    <2> QED  BY <1>2, <2>1 DEF SetResolution, DetailTypes, Distances
<1>3. ASSUME NEW by \in {-1, 1}, MoveViewer(by)
      PROVE  DetailTypes'
    BY <1>3 DEF MoveViewer, DetailTypes, Distances
<1>4. CASE UNCHANGED detail
    BY <1>4 DEF detail, DetailTypes, Distances
<1> QED  BY <1>1, <1>2, <1>3, <1>4 DEF DetailNext

(* The level between the two thresholds, and its numerator.              *)
Between(d, s, p) == s > 0 /\ InEdges(d, s, p.near) > 0 /\ InEdges(d, s, p.far) < 0
Width(s, p) == s * (p.far - p.near)
Rising(d, s, p) == 2 * InEdges(d, s, p.near) * p.max_level + Width(s, p)

LEMMA EdgesOf ==
    ASSUME NEW d \in Int, NEW s \in Int, NEW p \in LodPolicies
    PROVE  /\ p.near \in Int /\ p.far \in Int /\ p.max_level \in Nat
           /\ InEdges(d, s, p.near) \in Int /\ InEdges(d, s, p.far) \in Int
           /\ Width(s, p) = InEdges(d, s, p.near) - InEdges(d, s, p.far)
<1>1. p.near \in Int /\ p.far \in Int /\ p.max_level \in Nat
    BY DetailAssumption
<1> DEFINE near == p.near
           far == p.far
<1>2. near \in Int /\ far \in Int
    BY <1>1
<1> HIDE DEF near, far
<1>3. s * near \in Int /\ s * far \in Int /\ s * (far - near) = s * far - s * near
    BY <1>2
<1> QED  BY <1>1, <1>3 DEF InEdges, Width, near, far

LEMMA LevelIs ==
    ASSUME NEW d \in Int, NEW s \in Int, NEW p \in LodPolicies
    PROVE  /\ s <= 0 => select_lod(d, s, p) = p.max_level
           /\ s > 0 /\ InEdges(d, s, p.near) <= 0 => select_lod(d, s, p) = 0
           /\ s > 0 /\ InEdges(d, s, p.near) > 0 /\ InEdges(d, s, p.far) >= 0
                => select_lod(d, s, p) = p.max_level
           /\ Between(d, s, p) =>
                /\ Width(s, p) \in Nat \ {0} /\ Rising(d, s, p) \in Nat
                /\ select_lod(d, s, p) = Rising(d, s, p) \div (2 * Width(s, p))
           /\ select_lod(d, s, p) \in 0..p.max_level
<1> DEFINE x == InEdges(d, s, p.near)
           y == InEdges(d, s, p.far)
           w == Width(s, p)
           m == p.max_level
           t == Rising(d, s, p)
           level == select_lod(d, s, p)
<1>1. x \in Int /\ y \in Int /\ w = x - y /\ m \in Nat
    BY EdgesOf
<1>2. /\ s <= 0 => level = m
      /\ s > 0 /\ x <= 0 => level = 0
      /\ s > 0 /\ x > 0 /\ y >= 0 => level = m
    BY <1>1 DEF select_lod
<1>3. s > 0 /\ x > 0 /\ y < 0 => level = t \div (2 * w)
    <2>1. ASSUME s > 0, x > 0, y < 0
          PROVE  level = t \div (2 * w)
        <3>1. ~ (s <= 0) /\ ~ (x <= 0) /\ ~ (y >= 0)
            BY <1>1, <2>1
        <3> QED  BY <3>1, Zenon DEF select_lod, Rising, Width
    <2> QED  BY <2>1
<1>4. t = 2 * x * m + w
    BY DEF Rising
<1>5. Between(d, s, p) <=> s > 0 /\ x > 0 /\ y < 0
    BY DEF Between
<1> HIDE DEF x, y, w, m, t, level
<1>6. ASSUME x > 0, y < 0
      PROVE  w \in Nat \ {0} /\ t \in Nat /\ t \div (2 * w) \in 0..m
    <2>1. w \in Nat \ {0} /\ x \in Nat /\ x <= w
        BY <1>1, <1>6
    <2> DEFINE a == x * m
               b == w * m
    <2>2. a \in Nat /\ b \in Nat /\ a <= b /\ 2 * x * m = 2 * a /\ (2 * w) * m = 2 * b
        BY <1>1, <2>1
    <2> DEFINE n == 2 * w
    <2>3. n \in Nat \ {0} /\ w < n /\ n * m = 2 * b
        BY <2>1, <2>2
    <2> HIDE DEF a, b, n
    <2>4. t = 2 * a + w /\ t \in Nat /\ 0 <= t /\ t <= 2 * b + w
        BY <1>4, <2>1, <2>2
    <2>5. 2 * b + w \in Int /\ (2 * b + w) \div n = m
        <3>1. w \in 0..n - 1 /\ 2 * b + w \in Int /\ 2 * b + w = n * m + w
            BY <2>1, <2>2, <2>3
        <3> QED  BY <1>1, <2>3, <3>1, QuotientIs
    <2>6. 0 \div n = 0
        BY <2>3
    <2>7. 0 \div n <= t \div n /\ t \div n <= (2 * b + w) \div n
        BY <2>3, <2>4, <2>5, DivisionGrows
    <2>8. t \div n \in Int
        BY <2>3, <2>4
    <2> QED  BY <1>1, <2>1, <2>4, <2>5, <2>6, <2>7, <2>8 DEF n
<1>7. level \in 0..m
    BY <1>1, <1>2, <1>3, <1>6
<1> QED  BY <1>2, <1>3, <1>5, <1>6, <1>7 DEF x, y, w, m, t, level

(* The level depends on the distance in voxels alone.                    *)
LEMMA LevelScales ==
    ASSUME NEW d \in Int, NEW s \in Int, NEW p \in LodPolicies, NEW k \in Nat \ {0}
    PROVE  select_lod(k * d, k * s, p) = select_lod(d, s, p)
<1> DEFINE c == k * d
           r == k * s
           near == p.near
           far == p.far
           x == InEdges(d, s, p.near)
           y == InEdges(d, s, p.far)
           u == InEdges(c, r, p.near)
           v == InEdges(c, r, p.far)
<1>1. c \in Int /\ r \in Int /\ near \in Int /\ far \in Int /\ p.max_level \in Nat
      /\ x \in Int /\ y \in Int /\ u \in Int /\ v \in Int
    <2>1. c \in Int /\ r \in Int
        OBVIOUS
    <2> HIDE DEF c, r
    <2> QED  BY <2>1, EdgesOf
<1>2. \A e \in Int : InEdges(c, r, e) = k * InEdges(d, s, e)
    <2> SUFFICES ASSUME NEW e \in Int PROVE InEdges(c, r, e) = k * InEdges(d, s, e)
        OBVIOUS
    <2>1. r * e = k * (s * e) /\ s * e \in Int
        OBVIOUS
    <2>2. k * (d - s * e) = k * d - k * (s * e)
        BY <2>1
    <2> QED  BY <2>1, <2>2 DEF InEdges
<1>3. u = k * x /\ v = k * y
    BY <1>1, <1>2
<1>4. \A n \in Int : (k * n <= 0 <=> n <= 0) /\ (k * n >= 0 <=> n >= 0) /\ k * n \in Int
    <2> SUFFICES ASSUME NEW n \in Int
                 PROVE  (k * n <= 0 <=> n <= 0) /\ (k * n >= 0 <=> n >= 0) /\ k * n \in Int
        OBVIOUS
    <2>1. (n > 0 => k * n > 0) /\ (n < 0 => k * n < 0) /\ (n = 0 => k * n = 0) /\ k * n \in Int
        OBVIOUS
    <2> QED  BY <2>1
<1>5. (r <= 0 <=> s <= 0) /\ (u <= 0 <=> x <= 0) /\ (v >= 0 <=> y >= 0)
    BY <1>1, <1>3, <1>4
<1> HIDE DEF c, r
<1>6. CASE Between(d, s, p)
    <2>1. Between(c, r, p)
        BY <1>1, <1>5, <1>6 DEF Between
    <2> DEFINE a == Rising(d, s, p)
               w == Width(s, p)
               m == p.max_level
    <2>2. a = 2 * x * m + w /\ w = x - y
        BY EdgesOf DEF Rising
    <2>3. Rising(c, r, p) = 2 * u * m + Width(r, p) /\ Width(r, p) = u - v
        BY <1>1, EdgesOf DEF Rising
    <2>4. a \in Nat /\ w \in Nat \ {0} /\ m \in Nat /\ select_lod(d, s, p) = a \div (2 * w)
        BY <1>1, <1>6, LevelIs
    <2>5. select_lod(c, r, p) = Rising(c, r, p) \div (2 * Width(r, p))
        BY <1>1, <2>1, LevelIs
    <2> HIDE DEF x, y, u, v, a, w, m
    <2>6. Width(r, p) = k * w
        <3>1. k * (x - y) = k * x - k * y
            BY <1>1
        <3> QED  BY <1>3, <2>2, <2>3, <3>1
    <2>7. Rising(c, r, p) = k * a
        <3>1. 2 * (k * x) * m = k * (2 * x * m) /\ 2 * x * m \in Int
            BY <1>1, <2>4
        <3> DEFINE b == 2 * x * m
        <3> HIDE DEF b
        <3>2. b \in Int /\ k * (b + w) = k * b + k * w
            BY <2>4, <3>1 DEF b
        <3> QED  BY <1>3, <2>2, <2>3, <2>6, <3>1, <3>2 DEF b
    <2>8. 2 * (k * w) = k * (2 * w) /\ 2 * w \in Nat \ {0}
        BY <2>4
    <2> QED  BY <2>4, <2>5, <2>6, <2>7, <2>8, DivisionCancels DEF c, r
<1>7. CASE ~ Between(d, s, p)
    <2>1. s <= 0 \/ (s > 0 /\ x <= 0) \/ (s > 0 /\ x > 0 /\ y >= 0)
        BY <1>1, <1>7 DEF Between
    <2>2. CASE s <= 0
        BY <1>1, <1>5, <2>2, LevelIs DEF c, r
    <2>3. CASE s > 0 /\ x <= 0
        <3>1. r > 0 /\ u <= 0
            BY <1>1, <1>5, <2>3
        <3> QED  BY <1>1, <2>3, <3>1, LevelIs DEF c, r
    <2>4. CASE s > 0 /\ x > 0 /\ y >= 0
        <3>1. r > 0 /\ u > 0 /\ v >= 0
            BY <1>1, <1>5, <2>4
        <3> QED  BY <1>1, <2>4, <3>1, LevelIs DEF c, r
    <2> QED  BY <2>1, <2>2, <2>3, <2>4
<1> QED  BY <1>6, <1>7

(* Farther away it never falls.                                          *)
LEMMA LevelRises ==
    ASSUME NEW d \in Int, NEW e \in Int, d <= e, NEW s \in Int, NEW p \in LodPolicies
    PROVE  select_lod(d, s, p) <= select_lod(e, s, p)
<1> DEFINE m == p.max_level
           low == select_lod(d, s, p)
           high == select_lod(e, s, p)
           x == InEdges(d, s, p.near)
           y == InEdges(d, s, p.far)
           u == InEdges(e, s, p.near)
           v == InEdges(e, s, p.far)
<1>1. m \in Nat /\ low \in 0..m /\ high \in 0..m /\ x \in Int /\ y \in Int /\ u \in Int /\ v \in Int
      /\ x <= u /\ y <= v
    <2>1. p.near \in Int /\ p.far \in Int /\ m \in Nat /\ low \in 0..m /\ high \in 0..m
          /\ x \in Int /\ y \in Int /\ u \in Int /\ v \in Int
        BY EdgesOf, LevelIs
    <2>2. \A n \in Int : s * n \in Int
        OBVIOUS
    <2>3. \A n \in Int : InEdges(d, s, n) <= InEdges(e, s, n)
        <3> SUFFICES ASSUME NEW n \in Int PROVE InEdges(d, s, n) <= InEdges(e, s, n)
            OBVIOUS
        <3> DEFINE k == s * n
        <3>1. k \in Int
            BY <2>2
        <3> HIDE DEF k
        <3>2. d - k <= e - k
            BY <3>1
        <3> QED  BY <3>2 DEF InEdges, k
    <2> QED  BY <2>1, <2>3
<1>2. CASE low = 0 \/ high = m
    BY <1>1, <1>2
<1>3. CASE low # 0 /\ high # m
    <2>1. s > 0 /\ x > 0 /\ v < 0
        <3>1. ~ (s <= 0)
            BY <1>3, LevelIs
        <3>2. ~ (x <= 0)
            BY <1>3, <3>1, LevelIs
        <3>3. u > 0
            BY <1>1, <3>2
        <3>4. ~ (v >= 0)
            BY <1>3, <3>1, <3>3, LevelIs
        <3> QED  BY <1>1, <3>1, <3>2, <3>4
    <2>2. Between(d, s, p) /\ Between(e, s, p)
        <3>1. u > 0 /\ y < 0
            BY <1>1, <2>1
        <3> QED  BY <2>1, <3>1 DEF Between
    <2> DEFINE a == Rising(d, s, p)
               b == Rising(e, s, p)
               w == Width(s, p)
    <2>3. a \in Nat /\ b \in Nat /\ w \in Nat \ {0} /\ low = a \div (2 * w) /\ high = b \div (2 * w)
        BY <2>2, LevelIs
    <2>4. a = 2 * x * m + w /\ b = 2 * u * m + w
        BY DEF Rising
    <2> HIDE DEF a, b, w, x, y, u, v, m, low, high
    <2>5. a <= b
        <3>1. 2 * x * m <= 2 * u * m /\ 2 * x * m \in Int /\ 2 * u * m \in Int
            <4>1. 2 * x * m = m * (2 * x) /\ 2 * u * m = m * (2 * u)
                BY <1>1
            <4>2. m * (2 * x) <= m * (2 * u) /\ m * (2 * x) \in Int /\ m * (2 * u) \in Int
                BY <1>1
            <4> QED  BY <4>1, <4>2
        <3> DEFINE i == 2 * x * m
                   j == 2 * u * m
        <3> HIDE DEF i, j
        <3>2. i \in Int /\ j \in Int /\ i <= j
            BY <3>1 DEF i, j
        <3> QED  BY <2>3, <2>4, <3>2 DEF i, j
    <2>6. 2 * w \in Nat \ {0}
        BY <2>3
    <2> QED  BY <2>3, <2>5, <2>6, DivisionGrows DEF low, high
<1> QED  BY <1>2, <1>3

LEMMA TiersCompose == DetailTypes => TiersAndScalesCompose
<1> SUFFICES ASSUME DetailTypes PROVE TiersAndScalesCompose
    OBVIOUS
<1>1. MaxDistance \in Nat /\ distance \in Int
    BY DetailAssumption DEF DetailTypes, Distances
<1>2. ASSUME validate_thresholds(tiers)
      PROVE  {"Mid", "Far", "Culled"} \subseteq {select_tier(tiers, d) : d \in Distances}
    <2>1. /\ tiers.near \in 0..MaxDistance /\ tiers.mid \in 0..MaxDistance
          /\ tiers.cull \in 0..MaxDistance
        BY DEF DetailTypes
    <2>2. tiers.near < tiers.mid /\ tiers.mid < tiers.cull
        BY <1>2 DEF validate_thresholds
    <2>3. tiers.near \in Distances /\ tiers.mid \in Distances /\ tiers.cull \in Distances
        BY <1>1, <2>1 DEF Distances
    <2>4. /\ select_tier(tiers, tiers.near) = "Mid"
          /\ select_tier(tiers, tiers.mid) = "Far"
          /\ select_tier(tiers, tiers.cull) = "Culled"
        BY <1>1, <2>1, <2>2 DEF select_tier
    <2> QED  BY <2>3, <2>4
<1>3. ASSUME NEW p \in LodPolicies, NEW s \in Scales
      PROVE  /\ plan_chunk_render(distance, TRUE, s, p) \in 0..p.max_level
             /\ \A k \in 2..3 : plan_chunk_render(k * distance, TRUE, k * s, p)
                                  = plan_chunk_render(distance, TRUE, s, p)
    <2>1. s \in Int
        BY DetailAssumption
    <2>2. \A k \in 2..3 : k \in Nat \ {0}
        OBVIOUS
    <2>3. \A k \in 2..3 : select_lod(k * distance, k * s, p) = select_lod(distance, s, p)
        BY <1>1, <2>1, <2>2, LevelScales
    <2>4. select_lod(distance, s, p) \in 0..p.max_level
        BY <1>1, <2>1, LevelIs
    <2> QED  BY <2>3, <2>4 DEF plan_chunk_render
<1> QED  BY <1>2, <1>3 DEF TiersAndScalesCompose

LEMMA WithdrawingStep ==
    ASSUME DetailTypes, DetailTypes', distance' > distance, distance >= 0
    PROVE  /\ \A p \in LodPolicies, s \in Scales : select_lod(distance', s, p) >= select_lod(distance, s, p)
           /\ ~Cheaper(for_distance(tiers, distance').mode, for_distance(tiers, distance).mode)
           /\ tiers.near_resolution >= tiers.mid_resolution /\ tiers.mid_resolution >= tiers.far_resolution =>
                select_resolution(tiers, distance') <= select_resolution(tiers, distance)
<1> DEFINE d == distance
           e == distance'
           near == tiers.near
           mid == tiers.mid
           cull == tiers.cull
<1>1. d \in Nat /\ e \in Nat /\ d < e
      /\ near \in Int /\ mid \in Int /\ cull \in Int
      /\ tiers.near_resolution \in Nat /\ tiers.mid_resolution \in Nat /\ tiers.far_resolution \in Nat
    BY DetailAssumption DEF DetailTypes, Distances
<1>2. ASSUME NEW p \in LodPolicies, NEW s \in Scales
      PROVE  select_lod(e, s, p) >= select_lod(d, s, p)
    <2>1. s \in Int
        BY DetailAssumption
    <2>2. select_lod(d, s, p) <= select_lod(e, s, p)
        BY <1>1, <2>1, LevelRises
    <2>3. select_lod(d, s, p) \in Int /\ select_lod(e, s, p) \in Int
        <3>1. p.max_level \in Nat
            BY DetailAssumption
        <3>2. select_lod(d, s, p) \in 0..p.max_level /\ select_lod(e, s, p) \in 0..p.max_level
            BY <1>1, <2>1, LevelIs
        <3> QED  BY <3>1, <3>2
    <2> QED  BY <2>2, <2>3
<1>3. \A n \in Nat : for_distance(tiers, n).mode
                       = IF n <= near THEN Modes[1] ELSE IF n <= mid THEN Modes[2] ELSE Modes[3]
    BY DEF for_distance, Modes
<1>4. ~Cheaper(for_distance(tiers, e).mode, for_distance(tiers, d).mode)
    <2> SUFFICES ASSUME NEW i \in 1..3, NEW j \in 1..3, i < j,
                        Modes[i] = for_distance(tiers, e).mode,
                        Modes[j] = for_distance(tiers, d).mode
                 PROVE  FALSE
        BY DEF Cheaper
    <2>1. \A a, b \in 1..3 : Modes[a] = Modes[b] => a = b
        BY DEF Modes
    <2>2. Modes[j] = IF d <= near THEN Modes[1] ELSE IF d <= mid THEN Modes[2] ELSE Modes[3]
        BY <1>1, <1>3
    <2>3. Modes[i] = IF e <= near THEN Modes[1] ELSE IF e <= mid THEN Modes[2] ELSE Modes[3]
        BY <1>1, <1>3
    <2>4. j = IF d <= near THEN 1 ELSE IF d <= mid THEN 2 ELSE 3
        <3>1. 1 \in 1..3 /\ 2 \in 1..3 /\ 3 \in 1..3
            OBVIOUS
        <3> HIDE DEF d, e, near, mid
        <3> QED  BY <2>1, <2>2, <3>1
    <2>5. i = IF e <= near THEN 1 ELSE IF e <= mid THEN 2 ELSE 3
        <3>1. 1 \in 1..3 /\ 2 \in 1..3 /\ 3 \in 1..3
            OBVIOUS
        <3> HIDE DEF d, e, near, mid
        <3> QED  BY <2>1, <2>3, <3>1
    <2> HIDE DEF d, e, near, mid, cull
    <2> QED  BY <1>1, <2>4, <2>5
<1>5. \A n \in Nat : select_resolution(tiers, n)
                       = IF n < near THEN tiers.near_resolution
                         ELSE IF n < mid THEN tiers.mid_resolution
                         ELSE IF n < cull THEN tiers.far_resolution
                         ELSE 0
    BY DEF select_resolution, select_tier
<1>6. ASSUME tiers.near_resolution >= tiers.mid_resolution, tiers.mid_resolution >= tiers.far_resolution
      PROVE  select_resolution(tiers, e) <= select_resolution(tiers, d)
    <2> DEFINE a == tiers.near_resolution
               b == tiers.mid_resolution
               c == tiers.far_resolution
    <2>1. a \in Nat /\ b \in Nat /\ c \in Nat /\ a >= b /\ b >= c
        BY <1>1, <1>6
    <2>2. /\ select_resolution(tiers, d)
               = IF d < near THEN a ELSE IF d < mid THEN b ELSE IF d < cull THEN c ELSE 0
          /\ select_resolution(tiers, e)
               = IF e < near THEN a ELSE IF e < mid THEN b ELSE IF e < cull THEN c ELSE 0
        BY <1>1, <1>5
    <2> HIDE DEF a, b, c, d, e, near, mid, cull
    <2> QED  BY <1>1, <2>1, <2>2
<1> QED  BY <1>2, <1>4, <1>6

---------------------------------------------------------------------------
(* The window and the tiers, of a host that moves one of them.           *)
PlanInv == WindowTypes /\ DetailTypes

LEMMA PlanBegins == HostInit => PlanInv
BY WindowStarts, DetailStarts DEF HostInit, PlanInv

LEMMA PlanStep == PlanInv /\ [HostNext]_host => PlanInv'
<1> SUFFICES ASSUME PlanInv, [HostNext]_host PROVE PlanInv'
    OBVIOUS
<1>1. [WindowNext]_window /\ [DetailNext]_detail
    BY DEF HostNext, host, window, detail
<1> QED  BY <1>1, WindowStep, DetailStep DEF PlanInv

LEMMA PlanAlways == HostSpec => []PlanInv
BY PlanBegins, PlanStep, PTL DEF HostSpec

(* What is drawn, kept, fetched and budgeted falls with the distance, for *)
(* every accepted policy and plan, every place of the camera and every    *)
(* threshold that is set (classify, in_prefetch_cone, MvpResidentBudget,  *)
(* select_lod).                                                           *)
THEOREM DetailStaysPlanned == HostSpec => []DetailIsPlanned
<1>1. PlanInv => DetailIsPlanned
    BY RingsFall, BudgetsKept, ConePointsAhead, TiersCompose DEF PlanInv, DetailIsPlanned
<1> QED  BY <1>1, PlanAlways, PTL

(* No step of a camera takes a chunk from meshed to unloaded across a seam *)
(* as wide as the step, and no step away shows more (classify, select_lod, *)
(* select_resolution, for_distance).                                       *)
THEOREM DetailFollows == HostSpec => DetailFollowsViewer
<1>1. PlanInv /\ [HostNext]_host =>
        [policy' = policy /\ policy.seam_chunks >= policy.vy_weight =>
           \A c \in Around :
              LET old == classify(policy, RingDistance(c, anchor, policy.vy_weight))
                  new == classify(policy', RingDistance(c, anchor', policy'.vy_weight))
              IN  {old, new} # {"Meshed", "Unloaded"}]_window
    <2> SUFFICES ASSUME PlanInv, [HostNext]_host, policy' = policy,
                        policy.seam_chunks >= policy.vy_weight, NEW c \in Around
                 PROVE  {classify(policy, RingDistance(c, anchor, policy.vy_weight)),
                         classify(policy', RingDistance(c, anchor', policy'.vy_weight))}
                           # {"Meshed", "Unloaded"}
        OBVIOUS
    <2>1. WindowTypes /\ [WindowNext]_window
        BY DEF PlanInv, HostNext, host, window
    <2> QED  BY <2>1, SeamCrossed
<1>2. PlanInv /\ [HostNext]_host =>
        [distance' > distance /\ distance >= 0 =>
           /\ \A p \in LodPolicies, s \in Scales : select_lod(distance', s, p) >= select_lod(distance, s, p)
           /\ ~Cheaper(for_distance(tiers, distance').mode, for_distance(tiers, distance).mode)
           /\ tiers.near_resolution >= tiers.mid_resolution /\ tiers.mid_resolution >= tiers.far_resolution =>
                select_resolution(tiers, distance') <= select_resolution(tiers, distance)]_detail
    <2> SUFFICES ASSUME PlanInv, [HostNext]_host, distance' > distance, distance >= 0
                 PROVE  /\ \A p \in LodPolicies, s \in Scales :
                             select_lod(distance', s, p) >= select_lod(distance, s, p)
                        /\ ~Cheaper(for_distance(tiers, distance').mode, for_distance(tiers, distance).mode)
                        /\ tiers.near_resolution >= tiers.mid_resolution
                           /\ tiers.mid_resolution >= tiers.far_resolution =>
                             select_resolution(tiers, distance') <= select_resolution(tiers, distance)
        BY DEF detail
    <2>1. DetailTypes /\ DetailTypes'
        BY PlanStep DEF PlanInv
    <2> QED  BY <2>1, WithdrawingStep
<1>3. HostSpec => SeamAbsorbsSteps
    BY <1>1, PlanAlways, PTL DEF HostSpec, SeamAbsorbsSteps
<1>4. HostSpec => WithdrawingCoarsens
    BY <1>2, PlanAlways, PTL DEF HostSpec, WithdrawingCoarsens
<1> QED  BY <1>3, <1>4 DEF DetailFollowsViewer

---------------------------------------------------------------------------
(* The gestalt.  Reports in order, by a set of pairs.                    *)
Totals == Nat \X Nat \X Nat
EarlierReports == {r \in Totals \X Totals : ReportBefore(r[1], r[2])}

LEMMA ReportsOrdered ==
    /\ StrictlyOrders(EarlierReports, Totals)
    /\ \A a, b \in Totals : <<a, b>> \in EarlierReports <=> ReportBefore(a, b)
    /\ \A a, b \in Totals : ~ (ReportBefore(a, b) /\ ReportBefore(b, a))
<1>1. \A a, b \in Totals : <<a, b>> \in EarlierReports <=> ReportBefore(a, b)
    BY DEF EarlierReports
<1>2. \A a \in Totals : a[1] \in Nat /\ a[2] \in Nat /\ a[3] \in Nat /\ a = <<a[1], a[2], a[3]>>
    BY DEF Totals
<1>3. \A a \in Totals : ~ ReportBefore(a, a)
    BY <1>2 DEF ReportBefore
<1>4. ASSUME NEW a \in Totals, NEW b \in Totals, ~ ReportBefore(a, b), ~ ReportBefore(b, a)
      PROVE  a = b
    <2>1. a[1] = b[1] /\ a[2] = b[2] /\ a[3] = b[3]
        BY <1>2, <1>4 DEF ReportBefore
    <2>2. a = <<a[1], a[2], a[3]>> /\ b = <<b[1], b[2], b[3]>>
        BY <1>2
    <2> QED  BY <2>1, <2>2
<1>5. ASSUME NEW a \in Totals, NEW b \in Totals, NEW c \in Totals,
             ~ ReportBefore(b, a), ReportBefore(b, c)
      PROVE  ReportBefore(a, c)
    BY <1>2, <1>5 DEF ReportBefore
<1>6. \A a, b \in Totals : ~ (ReportBefore(a, b) /\ ReportBefore(b, a))
    BY <1>2 DEF ReportBefore
<1> QED  BY <1>1, <1>3, <1>4, <1>5, <1>6 DEF StrictlyOrders

(* The stable order of the places of a sequence of reports.              *)
Precedes(s, j, k) == ReportBefore(s[j], s[k]) \/ (~ ReportBefore(s[k], s[j]) /\ j < k)
Stable(s) == {p \in (1..Len(s)) \X (1..Len(s)) : Precedes(s, p[1], p[2])}

LEMMA ReportIn ==
    ASSUME NEW s \in Seq(Totals)
    PROVE  /\ Len(s) \in Nat /\ DOMAIN s = 1..Len(s) /\ s \in [1..Len(s) -> Totals]
           /\ \A k \in 1..Len(s) : s[k] \in Totals
OBVIOUS

LEMMA StableOrders ==
    ASSUME NEW s \in Seq(Totals)
    PROVE  /\ Orders(Stable(s), Len(s))
           /\ \A j, k \in 1..Len(s) : <<j, k>> \in Stable(s) <=> Precedes(s, j, k)
<1>1. \A j, k \in 1..Len(s) : <<j, k>> \in Stable(s) <=> Precedes(s, j, k)
    BY DEF Stable
<1>2. \A k \in 1..Len(s) : s[k] \in Totals /\ k \in Nat
    BY ReportIn
<1>3. /\ \A a \in Totals : ~ ReportBefore(a, a)
      /\ \A a, b \in Totals : a = b \/ ReportBefore(a, b) \/ ReportBefore(b, a)
      /\ \A a, b, c \in Totals : ~ ReportBefore(b, a) /\ ReportBefore(b, c) => ReportBefore(a, c)
      /\ \A a, b \in Totals : ~ (ReportBefore(a, b) /\ ReportBefore(b, a))
    BY ReportsOrdered DEF StrictlyOrders
<1>4. \A j, k \in Nat : j = k \/ j < k \/ k < j
    OBVIOUS
<1>5. \A i, j, k \in Nat : ~ (i < i) /\ (i < j /\ j < k => i < k)
    OBVIOUS
<1>6. \A k \in 1..Len(s) : ~ Precedes(s, k, k)
    BY <1>2, <1>3, <1>5 DEF Precedes
<1>7. \A j, k \in 1..Len(s) : j = k \/ Precedes(s, j, k) \/ Precedes(s, k, j)
    BY <1>2, <1>4 DEF Precedes
<1>8. ASSUME NEW i \in 1..Len(s), NEW j \in 1..Len(s), NEW k \in 1..Len(s),
             Precedes(s, i, j), Precedes(s, j, k)
      PROVE  Precedes(s, i, k)
    <2> DEFINE a == s[i]
               b == s[j]
               c == s[k]
    <2>1. a \in Totals /\ b \in Totals /\ c \in Totals
        BY <1>2
    <2>2. /\ ReportBefore(a, b) \/ (~ ReportBefore(b, a) /\ i < j)
          /\ ReportBefore(b, c) \/ (~ ReportBefore(c, b) /\ j < k)
        BY <1>8 DEF Precedes
    <2>3. i < j /\ j < k => i < k
        BY <1>2, <1>5
    <2> HIDE DEF a, b, c
    <2>4. ReportBefore(a, c) \/ (~ ReportBefore(c, a) /\ i < k)
        BY <1>3, <2>1, <2>2, <2>3
    <2> QED  BY <2>4 DEF Precedes, a, b, c
<1> QED  BY <1>1, <1>6, <1>7, <1>8 DEF Orders

(* Sorting gives each report a place of its own, in order.               *)
LEMMA SortedReports ==
    ASSUME NEW s \in Seq(Totals)
    PROVE  /\ sorted_reports(s) \in [1..Len(s) -> Totals]
           /\ Ascends(sorted_reports(s), Len(s), EarlierReports)
           /\ \E at \in Injection(1..Len(s), 1..Len(s)) :
                \A place \in 1..Len(s) : sorted_reports(s)[place] = s[at[place]]
<1> DEFINE N == Len(s)
           K == 1..N
           R == Stable(s)
           standing(k) == Cardinality(Beneath(R, N, k))
           at == [place \in K |-> CHOOSE k \in K : standing(k) = place - 1]
           u == sorted_reports(s)
<1>1. N \in Nat /\ DOMAIN s = K /\ \A k \in K : s[k] \in Totals
    BY ReportIn
<1>2. \A k \in K : {j \in K : Precedes(s, j, k)} = Beneath(R, N, k)
    BY StableOrders DEF Beneath
<1>3. u = [place \in K |-> s[at[place]]]
    <2>1. u = [place \in K |-> s[CHOOSE k \in K :
                 Cardinality({j \in K : Precedes(s, j, k)}) = place - 1]]
        BY <1>1 DEF sorted_reports, Precedes
    <2>2. \A place \in K : (CHOOSE k \in K : Cardinality({j \in K : Precedes(s, j, k)}) = place - 1)
                             = at[place]
        <3> SUFFICES ASSUME NEW place \in K
                     PROVE  (CHOOSE k \in K : Cardinality({j \in K : Precedes(s, j, k)}) = place - 1)
                              = at[place]
            OBVIOUS
        <3>1. at[place] = CHOOSE k \in K : Cardinality(Beneath(R, N, k)) = place - 1
            OBVIOUS
        <3>2. \A k \in K : Cardinality({j \in K : Precedes(s, j, k)}) = place - 1
                             <=> Cardinality(Beneath(R, N, k)) = place - 1
            BY <1>2
        <3> HIDE DEF K, R, N, at
        <3> QED  BY <3>1, <3>2
    <2> HIDE DEF at
    <2> QED  BY <2>1, <2>2
<1>4. /\ \A k \in K : standing(k) \in 0..N - 1
      /\ \A j, k \in K : <<j, k>> \in R => standing(j) < standing(k)
      /\ \A place \in K : \E k \in K : standing(k) = place - 1
    <2>1. Orders(R, N)
        BY StableOrders
    <2> HIDE DEF R, N
    <2> QED  BY <1>1, <2>1, Ranks
<1>5. \A place \in K : at[place] \in K /\ standing(at[place]) = place - 1
    <2> HIDE DEF standing, K
    <2> QED  BY <1>4
<1> HIDE DEF at, u, standing
<1>6. \A p, q \in K : at[p] = at[q] => p = q
    <2>1. \A p, q \in K : p - 1 = q - 1 => p = q
        BY <1>1
    <2> QED  BY <1>5, <2>1
<1>7. at \in Injection(K, K)
    <2>1. at \in [K -> K]
        BY <1>5 DEF at
    <2> HIDE DEF K
    <2> QED  BY <1>6, <2>1 DEF Injection, IsInjective
<1>8. u \in [K -> Totals]
    BY <1>1, <1>3, <1>5
<1>9. ASSUME NEW p \in K, NEW q \in K, p < q
      PROVE  <<u[q], u[p]>> \notin EarlierReports
    <2> DEFINE j == at[p]
               k == at[q]
    <2>1. j \in K /\ k \in K /\ standing(j) = p - 1 /\ standing(k) = q - 1
        BY <1>5
    <2>2. u[p] = s[j] /\ u[q] = s[k]
        BY <1>3
    <2> HIDE DEF j, k
    <2>3. ~ (standing(k) < standing(j))
        BY <1>1, <1>9, <2>1
    <2>4. ~ Precedes(s, k, j)
        BY <1>4, <2>1, <2>3, StableOrders
    <2> QED  BY <1>1, <2>1, <2>2, <2>4, ReportsOrdered DEF Precedes
<1>10. \A place \in K : u[place] = s[at[place]]
    BY <1>3
<1>11. Ascends(u, N, EarlierReports)
    BY <1>9 DEF Ascends
<1> QED  BY <1>7, <1>8, <1>10, <1>11 DEF u

(* Exchanging two reports changes nothing once they are sorted.          *)
LEMMA ExchangedSorted ==
    ASSUME NEW s \in Seq(Totals), NEW i \in 1..Len(s), NEW j \in 1..Len(s)
    PROVE  sorted_reports([s EXCEPT ![i] = s[j], ![j] = s[i]]) = sorted_reports(s)
<1> DEFINE N == Len(s)
           K == 1..N
           r == [s EXCEPT ![i] = s[j], ![j] = s[i]]
           e == [k \in K |-> IF k = i THEN j ELSE IF k = j THEN i ELSE k]
           v == sorted_reports(s)
           w == sorted_reports(r)
<1>1. N \in Nat /\ s \in [K -> Totals] /\ \A k \in K : s[k] \in Totals
    BY ReportIn
<1>2. r \in Seq(Totals) /\ Len(r) = N
    <2>1. r \in [1..N -> Totals]
        BY <1>1
    <2> HIDE DEF r
    <2>2. r \in Seq(Totals)
        BY <1>1, <2>1
    <2>3. DOMAIN r = 1..N /\ DOMAIN r = 1..Len(r) /\ Len(r) \in Nat
        BY <2>1, <2>2
    <2>4. Len(r) = N
        BY <1>1, <2>3
    <2> QED  BY <2>2, <2>4
<1>3. \A k \in K : e[k] \in K /\ e[e[k]] = k /\ r[e[k]] = s[k]
    BY <1>1
<1> HIDE DEF r, e
<1>4. PICK a \in Injection(K, K) : \A place \in K : v[place] = s[a[place]]
    BY SortedReports
<1>5. PICK b \in Injection(K, K) : \A place \in K : w[place] = r[b[place]]
    BY <1>2, SortedReports
<1>6. /\ v \in [K -> Totals] /\ w \in [K -> Totals]
      /\ Ascends(v, N, EarlierReports) /\ Ascends(w, N, EarlierReports)
    BY <1>2, SortedReports
<1> HIDE DEF v, w
<1>7. IsFiniteSet(K)
    BY <1>1, FS_Interval
<1> DEFINE back == [k \in K |-> CHOOSE q \in K : b[q] = k]
           t == [q \in K |-> back[e[a[q]]]]
<1>8. \A k \in K : back[k] \in K /\ b[back[k]] = k
    <2>1. b \in Surjection(K, K)
        <3> HIDE DEF K
        <3> QED  BY <1>7, FS_Injection
    <2> HIDE DEF K
    <2> QED  BY <2>1 DEF Surjection
<1> HIDE DEF back
<1>9. \A q \in K : a[q] \in K /\ e[a[q]] \in K /\ t[q] \in K /\ b[t[q]] = e[a[q]]
    <2>1. \A q \in K : a[q] \in K
        BY DEF Injection
    <2> QED  BY <1>3, <1>8, <2>1
<1>10. t \in Injection(K, K)
    <2>1. t \in [K -> K]
        BY <1>9
    <2>2. ASSUME NEW p \in K, NEW q \in K, t[p] = t[q]
          PROVE  p = q
        <3> HIDE DEF t
        <3>1. b[t[p]] = e[a[p]] /\ b[t[q]] = e[a[q]] /\ b[t[p]] = b[t[q]]
            BY <1>9, <2>2
        <3>2. e[e[a[p]]] = a[p] /\ e[e[a[q]]] = a[q]
            BY <1>3, <1>9
        <3>3. a[p] = a[q]
            BY <3>1, <3>2
        <3> QED  BY <3>3 DEF Injection, IsInjective
    <2> HIDE DEF t, K
    <2> QED  BY <2>1, <2>2 DEF Injection, IsInjective
<1>11. \A q \in K : w[t[q]] = v[q]
    <2> SUFFICES ASSUME NEW q \in K PROVE w[t[q]] = v[q]
        OBVIOUS
    <2> HIDE DEF t, K
    <2>1. a[q] \in K /\ t[q] \in K /\ b[t[q]] = e[a[q]]
        BY <1>9
    <2>2. w[t[q]] = r[b[t[q]]] /\ r[e[a[q]]] = s[a[q]] /\ v[q] = s[a[q]]
        BY <1>3, <1>4, <1>5, <2>1
    <2> QED  BY <2>1, <2>2
<1> HIDE DEF t, N
<1>12. v = w
    <2>1. StrictlyOrders(EarlierReports, Totals)
        BY ReportsOrdered
    <2>2. N \in Nat /\ Rearranges(v, w, t, N)
        BY <1>1, <1>10, <1>11 DEF Rearranges
    <2>3. /\ v \in [1..N -> Totals] /\ w \in [1..N -> Totals]
          /\ Ascends(v, N, EarlierReports) /\ Ascends(w, N, EarlierReports)
        BY <1>6
    <2> HIDE DEF K
    <2> QED  BY <2>1, <2>2, <2>3, OneSorting
<1> QED  BY <1>12 DEF v, w, r

ReportsTyped == reports \in Seq(Totals)

LEMMA FoldIsBlind == ReportsTyped => FoldOrderBlind
<1> SUFFICES ASSUME ReportsTyped, NEW i \in DOMAIN reports, NEW j \in DOMAIN reports
             PROVE  fold([reports EXCEPT ![i] = reports[j], ![j] = reports[i]]) = fold(reports)
    BY DEF FoldOrderBlind
<1>1. reports \in Seq(Totals) /\ i \in 1..Len(reports) /\ j \in 1..Len(reports)
    BY ReportIn DEF ReportsTyped
<1>2. sorted_reports([reports EXCEPT ![i] = reports[j], ![j] = reports[i]])
        = sorted_reports(reports)
    BY <1>1, ExchangedSorted
<1> QED  BY <1>2 DEF fold

(* The gestalt of a tick is one whatever the order in which any number of *)
(* cohorts report, although the sums are rounded at every addition (fold). *)
THEOREM ReportsAreOrderBlind == HostSpec => []AggregatesAgree
<1>1. HostInit => ReportsTyped
    BY DEF HostInit, GestaltInit, ReportsTyped
<1>2. ReportsTyped /\ [HostNext]_host => ReportsTyped'
    <2> SUFFICES ASSUME ReportsTyped, [HostNext]_host PROVE ReportsTyped'
        OBVIOUS
    <2>1. (\E c \in Cohorts : Report(c)) \/ reports' = reports
        BY DEF HostNext, host, GestaltNext
    <2>2. ASSUME NEW c \in Cohorts, Report(c)
          PROVE  ReportsTyped'
        <3>1. c \in Totals
            BY GestaltAssumption DEF Totals
        <3> QED  BY <2>2, <3>1 DEF Report, ReportsTyped
    <2> QED  BY <2>1, <2>2 DEF ReportsTyped
<1>3. ReportsTyped => AggregatesAgree
    BY FoldIsBlind DEF AggregatesAgree
<1> QED  BY <1>1, <1>2, <1>3, PTL DEF HostSpec

---------------------------------------------------------------------------
(* The grids.  The cells of a grid that is n wide are numbered row by row. *)
LEMMA CellOnce ==
    ASSUME NEW n \in Nat, NEW m \in Nat, NEW x \in 0..n - 1, NEW z \in 0..m - 1
    PROVE  /\ z * n + x \in 0..n * m - 1
           /\ (z * n + x) % n = x /\ (z * n + x) \div n = z
<1>1. n \in Nat \ {0} /\ m \in Nat \ {0} /\ z \in Nat
    OBVIOUS
<1>2. (z * n + x) % n = x /\ (z * n + x) \div n = z
    BY <1>1, NatDividedOnce
<1>3. z * n + x \in 0..n * m - 1
    <2> DEFINE p == z * n
               q == n * m
               r == (m - 1 - z) * n
    <2>1. p \in Nat /\ q \in Nat /\ r \in Nat /\ p + r + n = q
        BY <1>1
    <2> HIDE DEF p, q, r
    <2>2. p + x \in 0..q - 1
        BY <2>1
    <2> QED  BY <2>2 DEF p, q
<1> QED  BY <1>2, <1>3

(* Every number below the size of the grid is a cell's.                  *)
LEMMA NumberIsCell ==
    ASSUME NEW n \in Nat \ {0}, NEW m \in Nat, NEW i \in 0..n * m - 1
    PROVE  /\ i % n \in 0..n - 1 /\ i \div n \in 0..m - 1
           /\ i = (i \div n) * n + (i % n)
<1> DEFINE q == i \div n
           r == i % n
           p == q * n
<1>1. i \in Nat /\ i < n * m
    OBVIOUS
<1>2. q \in Nat /\ r \in 0..n - 1 /\ i = n * q + r
    BY <1>1, NatDivided
<1> HIDE DEF q, r
<1>3. i = q * n + r
    BY <1>2
<1>4. ASSUME m <= q
      PROVE  FALSE
    <2> DEFINE over == (q - m) * n
    <2>1. over \in Nat /\ q * n = over + n * m
        BY <1>2, <1>4
    <2> HIDE DEF over
    <2>2. q * n >= n * m
        BY <2>1
    <2> QED  BY <1>1, <1>2, <1>3, <2>2
<1>5. q \in 0..m - 1
    BY <1>2, <1>4
<1> QED  BY <1>2, <1>3, <1>5 DEF q, r

(* What a field holds.                                                   *)
Heights == Elevations \cup {0}

FieldTypeOK ==
    /\ field.width \in Nat /\ field.height \in Nat
    /\ field = [width |-> field.width, height |-> field.height, data |-> field.data]
    /\ field.data \in [1..field.width * field.height -> Heights]
    /\ written \in [(0..field.width - 1) \X (0..field.height - 1) -> Heights]
    /\ bank \in Seq(Waves)

(* The field holds at every tile what was written there.                 *)
GridInv ==
    /\ FieldTypeOK
    /\ \A x \in 0..field.width - 1, z \in 0..field.height - 1 :
         field.data[Tile(x, z)] = written[<<x, z>>]

LEMMA TileWithin ==
    ASSUME FieldTypeOK, NEW x \in 0..field.width - 1, NEW z \in 0..field.height - 1
    PROVE  Tile(x, z) \in 1..field.width * field.height
<1> DEFINE i == z * field.width + x
           n == field.width * field.height
<1>1. n \in Nat
    BY DEF FieldTypeOK
<1>2. i \in 0..n - 1
    BY CellOnce DEF FieldTypeOK
<1>3. Tile(x, z) = i + 1
    BY DEF Tile
<1> HIDE DEF i, n
<1>4. Tile(x, z) \in 1..n
    BY <1>1, <1>2, <1>3
<1> QED  BY <1>4 DEF n

LEMMA TilesDiffer ==
    ASSUME FieldTypeOK,
           NEW x \in 0..field.width - 1, NEW z \in 0..field.height - 1,
           NEW u \in 0..field.width - 1, NEW v \in 0..field.height - 1,
           Tile(x, z) = Tile(u, v)
    PROVE  x = u /\ z = v
<1> DEFINE i == z * field.width + x
           j == v * field.width + u
<1>1. field.width \in Nat /\ field.height \in Nat
    BY DEF FieldTypeOK
<1>2. i % field.width = x /\ i \div field.width = z
    <2>1. field.width \in Nat \ {0} /\ z \in Nat
        BY <1>1
    <2>2. (z * field.width + x) \div field.width = z /\ (z * field.width + x) % field.width = x
        BY <2>1, NatDividedOnce
    <2> QED  BY <2>2
<1>3. j % field.width = u /\ j \div field.width = v
    <2>1. field.width \in Nat \ {0} /\ v \in Nat
        BY <1>1
    <2>2. (v * field.width + u) \div field.width = v /\ (v * field.width + u) % field.width = u
        BY <2>1, NatDividedOnce
    <2> QED  BY <2>2
<1>6. i \in Int /\ j \in Int
    BY <1>1
<1>4. Tile(x, z) = i + 1 /\ Tile(u, v) = j + 1
    BY DEF Tile
<1> HIDE DEF i, j
<1>5. i = j
    <2>1. i + 1 = j + 1
        BY <1>4
    <2> QED  BY <1>6, <2>1
<1> QED  BY <1>2, <1>3, <1>5

(* A new field is flat.                                                  *)
LEMMA GridBegins == GridInit => GridInv
<1> SUFFICES ASSUME GridInit PROVE GridInv
    OBVIOUS
<1>1. PICK d \in Fields :
         /\ with_data(d[1], d[2], << >>).ok
         /\ field = with_data(d[1], d[2], << >>).value
    BY DEF GridInit
<1>2. d[1] \in Int /\ d[2] \in Int
    BY GridAssumption
<1>3. ~(d[1] < 0 \/ d[2] < 0)
    BY <1>1 DEF with_data, OutOfBounds
<1>4. d[1] \in Nat /\ d[2] \in Nat
    BY <1>2, <1>3
<1>5. field = [width |-> d[1], height |-> d[2], data |-> [k \in 1..d[1] * d[2] |-> 0]]
    BY <1>1, <1>3 DEF with_data, Ok
<1>6. /\ field.width = d[1] /\ field.height = d[2]
      /\ field.data = [k \in 1..d[1] * d[2] |-> 0]
    BY <1>5
<1>7. written = [t \in (0..field.width - 1) \X (0..field.height - 1) |-> 0] /\ bank = << >>
    BY DEF GridInit
<1>8. FieldTypeOK
    <2>1. field.data \in [1..field.width * field.height -> Heights]
        BY <1>6 DEF Heights
    <2>2. written \in [(0..field.width - 1) \X (0..field.height - 1) -> Heights]
        BY <1>7 DEF Heights
    <2> QED  BY <1>4, <1>5, <1>6, <1>7, <2>1, <2>2 DEF FieldTypeOK
<1>9. ASSUME NEW x \in 0..field.width - 1, NEW z \in 0..field.height - 1
      PROVE  field.data[Tile(x, z)] = written[<<x, z>>]
    <2>1. Tile(x, z) \in 1..field.width * field.height
        BY <1>8, TileWithin
    <2> HIDE DEF Tile
    <2>2. field.data[Tile(x, z)] = 0
        BY <1>6, <2>1
    <2>3. written[<<x, z>>] = 0
        BY <1>7
    <2> QED  BY <2>2, <2>3
<1> QED  BY <1>8, <1>9 DEF GridInv

(* A write replaces the height of one tile and of no other.              *)
LEMMA HeightSet ==
    ASSUME GridInv, NEW x \in Int, NEW z \in Int, NEW value \in Elevations, set_height(x, z, value)
    PROVE  GridInv'
<1>1. bank' = bank
    BY DEF set_height
<1>2. CASE ~InField(x, z)
    <2>1. field' = field /\ written' = written
        BY <1>2 DEF set_height
    <2> QED  BY <1>1, <2>1 DEF GridInv, FieldTypeOK, Tile
<1>3. CASE InField(x, z)
    <2> DEFINE k == Tile(x, z)
    <2>1. /\ field' = [field EXCEPT !.data[k] = value]
          /\ written' = [written EXCEPT ![<<x, z>>] = value]
        BY <1>3 DEF set_height
    <2>2. x \in 0..field.width - 1 /\ z \in 0..field.height - 1
        BY <1>3 DEF InField
    <2>3. k \in 1..field.width * field.height
        BY <2>2, TileWithin DEF GridInv
    <2>4. /\ field'.width = field.width /\ field'.height = field.height
          /\ field'.data = [field.data EXCEPT ![k] = value]
          /\ field' = [width |-> field'.width, height |-> field'.height, data |-> field'.data]
        <3> HIDE DEF k
        <3>1. field = [width |-> field.width, height |-> field.height, data |-> field.data]
            BY DEF GridInv, FieldTypeOK
        <3> QED  BY <2>1, <3>1
    <2> HIDE DEF k
    <2>5. FieldTypeOK'
        <3>1. value \in Heights
            BY DEF Heights
        <3>2. field'.data \in [1..field'.width * field'.height -> Heights]
            BY <2>4, <3>1 DEF GridInv, FieldTypeOK
        <3>3. written' \in [(0..field'.width - 1) \X (0..field'.height - 1) -> Heights]
            BY <2>1, <2>4, <3>1 DEF GridInv, FieldTypeOK
        <3> QED  BY <1>1, <2>4, <3>2, <3>3 DEF GridInv, FieldTypeOK
    <2>6. ASSUME NEW u \in 0..field.width - 1, NEW v \in 0..field.height - 1
          PROVE  field'.data[Tile(u, v)] = written'[<<u, v>>]
        <3>1. Tile(u, v) \in 1..field.width * field.height
            BY TileWithin DEF GridInv
        <3>2. field.data[Tile(u, v)] = written[<<u, v>>]
            BY DEF GridInv
        <3>3. <<u, v>> \in (0..field.width - 1) \X (0..field.height - 1)
            OBVIOUS
        <3>4. Tile(u, v) = k => u = x /\ v = z
            BY <2>2, TilesDiffer DEF GridInv, k
        <3>5. DOMAIN field.data = 1..field.width * field.height
              /\ DOMAIN written = (0..field.width - 1) \X (0..field.height - 1)
            BY DEF GridInv, FieldTypeOK
        <3>6. CASE Tile(u, v) = k
            BY <2>1, <2>4, <3>1, <3>3, <3>4, <3>5, <3>6
        <3>7. CASE Tile(u, v) # k
            <4>1. <<u, v>> # <<x, z>>
                BY <3>7 DEF k
            <4> QED  BY <2>1, <2>4, <3>1, <3>2, <3>3, <3>5, <3>7, <4>1
        <3> QED  BY <3>6, <3>7
    <2>7. \A u \in 0..field'.width - 1, v \in 0..field'.height - 1 : Tile(u, v)' = Tile(u, v)
        BY <2>4 DEF Tile
    <2> QED  BY <2>4, <2>5, <2>6, <2>7 DEF GridInv
<1> QED  BY <1>2, <1>3

LEMMA GridStep ==
    ASSUME GridInv, [GridNext]_surface
    PROVE  GridInv'
<1>1. ASSUME NEW t \in Edits, NEW value \in Elevations, set_height(t[1], t[2], value)
      PROVE  GridInv'
    <2>1. t[1] \in Int /\ t[2] \in Int
        BY GridAssumption
    <2> QED  BY <1>1, <2>1, HeightSet
<1>2. ASSUME NEW wave \in Waves, add(wave)
      PROVE  GridInv'
    BY <1>2 DEF add, GridInv, FieldTypeOK, Tile
<1>3. CASE UNCHANGED surface
    BY <1>3 DEF surface, GridInv, FieldTypeOK, Tile
<1> QED  BY <1>1, <1>2, <1>3 DEF GridNext

(* A tile is read as it was last written, and no other is read.          *)
LEMMA HeightGot ==
    ASSUME GridInv, NEW x \in Int, NEW z \in Int
    PROVE  IF <<x, z>> \in DOMAIN written THEN get_height(x, z) = Ok(written[<<x, z>>])
                                          ELSE ~get_height(x, z).ok
<1>1. <<x, z>> \in DOMAIN written <=> InField(x, z)
    BY DEF GridInv, FieldTypeOK, InField
<1>2. CASE InField(x, z)
    BY <1>1, <1>2 DEF GridInv, InField, get_height
<1>3. CASE ~InField(x, z)
    BY <1>1, <1>3 DEF get_height, OutOfBounds
<1> QED  BY <1>2, <1>3

(* The two triangles of a quad.                                          *)
Half(res, x, z, side) ==
    LET b == z * (res + 1) + x
    IN  IF side = 0 THEN <<b, b + res + 1, b + res + 2>> ELSE <<b, b + res + 2, b + 1>>

NumberOf(res, x, z, side) == 2 * (z * res + x) + side + 1

LEMMA TriangleAt ==
    ASSUME NEW res \in Nat \ {0}, NEW k \in 1..2 * res * res
    PROVE  \E x \in 0..res - 1, z \in 0..res - 1, side \in {0, 1} :
               k = NumberOf(res, x, z, side) /\ triangles(res)[k] = Half(res, x, z, side)
<1> DEFINE a == k - 1
           m == res * res
           c == a \div 2
           s == a % 2
           x == c % res
           z == c \div res
           b == z * (res + 1) + x
           quad == << <<b, (z + 1) * (res + 1) + x, (z + 1) * (res + 1) + x + 1>>,
                      <<b, (z + 1) * (res + 1) + x + 1, b + 1>> >>
<1>1. m \in Nat /\ 2 * res * res = 2 * m
    OBVIOUS
<1>2. a \in Nat /\ a < 2 * m
    <2> HIDE DEF m
    <2> QED  BY <1>1
<1>3. c \in Nat /\ s \in {0, 1} /\ a = 2 * c + s
    <2> HIDE DEF a
    <2> QED  BY <1>2
<1>4. c \in 0..m - 1
    <2> HIDE DEF a, m, c, s
    <2> QED  BY <1>1, <1>2, <1>3
<1>5. x \in 0..res - 1 /\ z \in 0..res - 1 /\ c = z * res + x
    <2> HIDE DEF c
    <2> QED  BY <1>4, NumberIsCell DEF m
<1>6. a \div (2 * res) = z
    <2> DEFINE n == 2 * res
               r == 2 * x + s
    <2>1. n \in Nat \ {0} /\ r \in 0..n - 1 /\ z \in Nat
        <3> HIDE DEF s, x, z
        <3> QED  BY <1>3, <1>5
    <2>2. a = z * n + r
        <3> HIDE DEF a, c, s, x, z
        <3>1. z * n = 2 * (z * res)
            BY <1>5
        <3>2. z * res \in Int
            BY <1>5
        <3> DEFINE p == z * res
        <3> HIDE DEF p
        <3>3. a = 2 * (p + x) + s /\ p \in Int
            BY <1>3, <1>5, <3>2 DEF p
        <3>4. a = 2 * p + (2 * x + s)
            BY <1>3, <1>5, <3>3
        <3> QED  BY <3>1, <3>4 DEF p
    <2> HIDE DEF n, r, z
    <2>3. (z * n + r) \div n = z
        BY <2>1, NatDividedOnce
    <2> QED  BY <2>2, <2>3 DEF n
<1>7. k = NumberOf(res, x, z, s)
    <2> HIDE DEF c, s, x, z
    <2>1. k = a + 1
        OBVIOUS
    <2> QED  BY <1>3, <1>5, <2>1 DEF NumberOf
<1>8. triangles(res)[k] = quad[s + 1]
    <2>1. triangles(res)[k] = quad[(a % 2) + 1]
        <3>1. a \div (2 * res) = z
            BY <1>6
        <3> QED  BY <3>1 DEF triangles
    <2> QED  BY <2>1
<1>9. quad[s + 1] = Half(res, x, z, s)
    <2> HIDE DEF c, s, x, z
    <2>1. (z + 1) * (res + 1) = z * (res + 1) + (res + 1) /\ z * (res + 1) \in Int
        BY <1>5
    <2> DEFINE q == z * (res + 1)
    <2>2. (z + 1) * (res + 1) + x = b + res + 1 /\ (z + 1) * (res + 1) + x + 1 = b + res + 2
        <3> HIDE DEF q
        <3>1. q \in Int /\ (z + 1) * (res + 1) = q + (res + 1) /\ b = q + x
            BY <2>1 DEF q
        <3> HIDE DEF b
        <3> QED  BY <1>5, <3>1
    <2>3. s = 0 => quad[s + 1] = <<b, b + res + 1, b + res + 2>>
        <3> HIDE DEF b
        <3> QED  BY <2>2
    <2>4. s = 1 => quad[s + 1] = <<b, b + res + 2, b + 1>>
        <3> HIDE DEF b
        <3> QED  BY <2>2
    <2> QED  BY <1>3, <2>3, <2>4 DEF Half
<1> HIDE DEF a, c, s, x, z, quad
<1> QED  BY <1>3, <1>5, <1>7, <1>8, <1>9

(* The vertex in a column and a row.                                     *)
LEMMA VertexAt ==
    ASSUME NEW res \in Nat \ {0}, NEW u \in 0..res, NEW v \in 0..res
    PROVE  /\ v * (res + 1) + u + 1 \in DOMAIN vertices(res)
           /\ vertices(res)[v * (res + 1) + u + 1] = <<u, v>>
<1> DEFINE n == res + 1
           i == v * n + u
<1>1. n \in Nat /\ u \in 0..n - 1 /\ v \in 0..n - 1
    OBVIOUS
<1>2. i \in 0..n * n - 1 /\ i % n = u /\ i \div n = v
    <2> HIDE DEF n
    <2> QED  BY <1>1, CellOnce
<1>3. vertices(res) = [k \in 1..n * n |-> <<(k - 1) % n, (k - 1) \div n>>]
    BY DEF vertices
<1>4. n * n \in Nat
    OBVIOUS
<1> DEFINE m == n * n
<1> HIDE DEF i, m
<1>5. i + 1 \in 1..m /\ (i + 1) - 1 = i
    BY <1>2, <1>4 DEF m
<1> HIDE DEF n
<1>6. vertices(res)[i + 1] = <<i % n, i \div n>>
    BY <1>3, <1>5 DEF m
<1> QED  BY <1>2, <1>3, <1>5, <1>6 DEF i, m, n

(* The corners of both triangles are corners of the quad, and each turns *)
(* the same way by the area of a square.                                 *)
CornersOf(res, x, z, side) ==
    IF side = 0 THEN << <<x, z>>, <<x, z + 1>>, <<x + 1, z + 1>> >>
                ELSE << <<x, z>>, <<x + 1, z + 1>>, <<x + 1, z>> >>

LEMMA HalfCorners ==
    ASSUME NEW res \in Nat \ {0}, NEW x \in 0..res - 1, NEW z \in 0..res - 1, NEW side \in {0, 1},
           NEW j \in 1..3
    PROVE  /\ Half(res, x, z, side)[j] + 1 \in DOMAIN vertices(res)
           /\ vertices(res)[Half(res, x, z, side)[j] + 1] = CornersOf(res, x, z, side)[j]
<1> DEFINE n == res + 1
           b == z * n + x
<1>1. \A u, v \in 0..res : v * n + u + 1 \in DOMAIN vertices(res) /\ vertices(res)[v * n + u + 1] = <<u, v>>
    BY VertexAt
<1>2. /\ (z + 1) * n + x = b + n /\ (z + 1) * n + (x + 1) = b + n + 1
      /\ z * n + (x + 1) = b + 1 /\ b \in Int
    <2> DEFINE p == z * n
    <2>1. p \in Int /\ (z + 1) * n = p + n
        OBVIOUS
    <2>2. b = p + x
        OBVIOUS
    <2> HIDE DEF p, b
    <2>3. (z + 1) * n + x = b + n /\ (z + 1) * n + (x + 1) = b + n + 1 /\ p + (x + 1) = b + 1 /\ b \in Int
        BY <2>1, <2>2
    <2> QED  BY <2>3 DEF p
<1>3. x \in 0..res /\ x + 1 \in 0..res /\ z \in 0..res /\ z + 1 \in 0..res
    OBVIOUS
<1> DEFINE R(i, c) == i + 1 \in DOMAIN vertices(res) /\ vertices(res)[i + 1] = c
<1>4. R(b, <<x, z>>)
    BY <1>1, <1>3
<1>5. R(b + n, <<x, z + 1>>)
    <2>1. R((z + 1) * n + x, <<x, z + 1>>)
        BY <1>1, <1>3
    <2> HIDE DEF R, b, n
    <2> QED  BY <1>2, <2>1
<1>6. R(b + n + 1, <<x + 1, z + 1>>)
    <2>1. R((z + 1) * n + (x + 1), <<x + 1, z + 1>>)
        BY <1>1, <1>3
    <2> HIDE DEF R, b, n
    <2> QED  BY <1>2, <2>1
<1>7. R(b + 1, <<x + 1, z>>)
    <2>1. R(z * n + (x + 1), <<x + 1, z>>)
        BY <1>1, <1>3
    <2> HIDE DEF R, b, n
    <2> QED  BY <1>2, <2>1
<1>8. b + n = b + res + 1 /\ b + n + 1 = b + res + 2
    <2> HIDE DEF b
    <2> QED  BY <1>2
<1>9. Half(res, x, z, side) = IF side = 0 THEN <<b, b + n, b + n + 1>> ELSE <<b, b + n + 1, b + 1>>
    <2>1. Half(res, x, z, side) = IF side = 0 THEN <<b, b + res + 1, b + res + 2>> ELSE <<b, b + res + 2, b + 1>>
        BY DEF Half
    <2> HIDE DEF b, n
    <2> QED  BY <1>8, <2>1
<1> HIDE DEF b, n, R
<1>10. j = 1 \/ j = 2 \/ j = 3
    OBVIOUS
<1>11. R(Half(res, x, z, side)[j], CornersOf(res, x, z, side)[j])
    <2>1. CASE side = 0
        BY <1>4, <1>5, <1>6, <1>9, <1>10, <2>1 DEF CornersOf
    <2>2. CASE side = 1
        BY <1>4, <1>6, <1>7, <1>9, <1>10, <2>2 DEF CornersOf
    <2> QED  BY <2>1, <2>2
<1> QED  BY <1>11 DEF R

(* An edge, with its sense, is of one triangle.                          *)
EdgesFrom(t) == {<<t[1], t[2]>>, <<t[2], t[3]>>, <<t[3], t[1]>>}

LEMMA EdgeOnce ==
    ASSUME NEW res \in Nat \ {0},
           NEW x \in 0..res - 1, NEW z \in 0..res - 1, NEW s \in {0, 1},
           NEW u \in 0..res - 1, NEW v \in 0..res - 1, NEW t \in {0, 1},
           NEW e \in EdgesFrom(Half(res, x, z, s)), e \in EdgesFrom(Half(res, u, v, t))
    PROVE  x = u /\ z = v /\ s = t
<1> DEFINE n == res + 1
           b == z * n + x
           c == v * n + u
<1>1. b \in Nat /\ c \in Nat /\ n \in Nat /\ 2 <= n
    OBVIOUS
<1>2. b % n = x /\ b \div n = z
    <2>1. n \in Nat \ {0} /\ x \in 0..n - 1 /\ z \in Nat
        OBVIOUS
    <2> HIDE DEF n
    <2>2. (z * n + x) \div n = z /\ (z * n + x) % n = x
        BY <2>1, NatDividedOnce
    <2> QED  BY <2>2
<1>3. c % n = u /\ c \div n = v
    <2>1. n \in Nat \ {0} /\ u \in 0..n - 1 /\ v \in Nat
        OBVIOUS
    <2> HIDE DEF n
    <2> QED  BY <2>1, NatDividedOnce
<1>4. Half(res, x, z, s) = IF s = 0 THEN <<b, b + n, b + n + 1>> ELSE <<b, b + n + 1, b + 1>>
    <2>1. Half(res, x, z, s) = IF s = 0 THEN <<b, b + res + 1, b + res + 2>> ELSE <<b, b + res + 2, b + 1>>
        BY DEF Half
    <2>2. b + n = b + res + 1 /\ b + n + 1 = b + res + 2
        <3> HIDE DEF b
        <3> QED  BY <1>1
    <2> HIDE DEF b, n
    <2> QED  BY <2>1, <2>2
<1>5. Half(res, u, v, t) = IF t = 0 THEN <<c, c + n, c + n + 1>> ELSE <<c, c + n + 1, c + 1>>
    <2>1. Half(res, u, v, t) = IF t = 0 THEN <<c, c + res + 1, c + res + 2>> ELSE <<c, c + res + 2, c + 1>>
        BY DEF Half
    <2>2. c + n = c + res + 1 /\ c + n + 1 = c + res + 2
        <3> HIDE DEF c
        <3> QED  BY <1>1
    <2> HIDE DEF c, n
    <2> QED  BY <2>1, <2>2
<1> HIDE DEF b, c, n
<1> DEFINE lower(a) == {<<a, a + n>>, <<a + n, a + n + 1>>, <<a + n + 1, a>>}
           upper(a) == {<<a, a + n + 1>>, <<a + n + 1, a + 1>>, <<a + 1, a>>}
<1>6. e \in IF s = 0 THEN lower(b) ELSE upper(b)
    BY <1>4 DEF EdgesFrom
<1>7. e \in IF t = 0 THEN lower(c) ELSE upper(c)
    BY <1>5 DEF EdgesFrom
<1>8. b = c /\ s = t
    <2> DEFINE p == e[1]
               q == e[2]
    <2>1. s = 0 => \/ p = b /\ q = b + n
                   \/ p = b + n /\ q = b + n + 1
                   \/ p = b + n + 1 /\ q = b
        BY <1>6
    <2>2. s = 1 => \/ p = b /\ q = b + n + 1
                   \/ p = b + n + 1 /\ q = b + 1
                   \/ p = b + 1 /\ q = b
        BY <1>6
    <2>3. t = 0 => \/ p = c /\ q = c + n
                   \/ p = c + n /\ q = c + n + 1
                   \/ p = c + n + 1 /\ q = c
        BY <1>7
    <2>4. t = 1 => \/ p = c /\ q = c + n + 1
                   \/ p = c + n + 1 /\ q = c + 1
                   \/ p = c + 1 /\ q = c
        BY <1>7
    <2> HIDE DEF p, q, lower, upper
    <2> QED  BY <1>1, <2>1, <2>2, <2>3, <2>4
<1> QED  BY <1>2, <1>3, <1>8

(* A flat mesh of any heights tiles its patch.                           *)
LEMMA FlatMeshTiles ==
    ASSUME NEW res \in 1..MaxResolution, NEW height
    PROVE  Tiled(FlatMesh(res, height).value, res)
<1> DEFINE mesh == FlatMesh(res, height).value
           side == Size \div res
           corner(i) == mesh.vertices[i + 1]
           scaled(p) == <<p[1] * side, height[p], p[2] * side>>
<1>1. res \in Nat \ {0} /\ Size \in Nat
    BY GridAssumption
<1>2. side \in Nat
    BY <1>1, NatDivided
<1>3. mesh = [vertices |-> [k \in DOMAIN vertices(res) |-> scaled(vertices(res)[k])],
              triangles |-> triangles(res)]
    BY DEF FlatMesh, Ok
<1>4. mesh.triangles = triangles(res) /\ mesh.vertices = [k \in DOMAIN vertices(res) |-> scaled(vertices(res)[k])]
    BY <1>3
<1> DEFINE last == 2 * res * res
<1>5. last \in Nat
    BY <1>1
<1>6. DOMAIN mesh.triangles = 1..last /\ Len(mesh.triangles) = last
    <2>1. \A k \in 1..last : TRUE
        OBVIOUS
    <2>2. triangles(res) = [k \in 1..last |-> triangles(res)[k]]
        BY DEF triangles
    <2> HIDE DEF mesh, last
    <2> QED  BY <1>4, <1>5, <2>2
<1> HIDE DEF mesh, side, last
<1>7. ASSUME NEW k \in 1..last
      PROVE  LET t == mesh.triangles[k]
             IN  Turn(corner(t[1]), corner(t[2]), corner(t[3])) = -side * side
    <2>1. PICK x \in 0..res - 1, z \in 0..res - 1, s \in {0, 1} : triangles(res)[k] = Half(res, x, z, s)
        BY <1>1, TriangleAt DEF last
    <2> DEFINE t == Half(res, x, z, s)
               c == CornersOf(res, x, z, s)
    <2>2. \A j \in 1..3 : corner(t[j]) = scaled(c[j])
        <3> SUFFICES ASSUME NEW j \in 1..3 PROVE corner(t[j]) = scaled(c[j])
            OBVIOUS
        <3>1. t[j] + 1 \in DOMAIN vertices(res) /\ vertices(res)[t[j] + 1] = c[j]
            BY <1>1, HalfCorners
        <3> HIDE DEF t, c, scaled
        <3> QED  BY <1>4, <3>1
    <2> DEFINE p == x * side
               q == z * side
    <2>3. /\ p \in Int /\ q \in Int
          /\ (x + 1) * side = p + side /\ (z + 1) * side = q + side
        BY <1>2
    <2>4. /\ scaled(<<x, z>>)[1] = p /\ scaled(<<x, z>>)[3] = q
          /\ scaled(<<x, z + 1>>)[1] = p /\ scaled(<<x, z + 1>>)[3] = q + side
          /\ scaled(<<x + 1, z>>)[1] = p + side /\ scaled(<<x + 1, z>>)[3] = q
          /\ scaled(<<x + 1, z + 1>>)[1] = p + side /\ scaled(<<x + 1, z + 1>>)[3] = q + side
        BY <2>3
    <2> HIDE DEF p, q, scaled, t
    <2>5. Turn(scaled(c[1]), scaled(c[2]), scaled(c[3])) = -side * side
        <3>1. (p - p) * (q + side - q) - (q + side - q) * (p + side - p) = -side * side
            <4>1. p - p = 0 /\ q + side - q = side /\ p + side - p = side
                BY <1>2, <2>3
            <4> QED  BY <1>2, <4>1
        <3>2. (p + side - p) * (q - q) - (q + side - q) * (p + side - p) = -side * side
            <4>1. q - q = 0 /\ q + side - q = side /\ p + side - p = side
                BY <1>2, <2>3
            <4> QED  BY <1>2, <4>1
        <3>3. CASE s = 0
            <4>1. c[1] = <<x, z>> /\ c[2] = <<x, z + 1>> /\ c[3] = <<x + 1, z + 1>>
                BY <3>3 DEF CornersOf
            <4> DEFINE f == scaled(c[1])
                       g == scaled(c[2])
                       h == scaled(c[3])
            <4> HIDE DEF c
            <4>2. /\ f[1] = p /\ g[1] = p /\ h[1] = p + side
                  /\ f[3] = q /\ g[3] = q + side /\ h[3] = q + side
                BY <2>4, <4>1
            <4> HIDE DEF f, g, h
            <4>3. Turn(f, g, h) = (g[1] - f[1]) * (h[3] - f[3]) - (g[3] - f[3]) * (h[1] - f[1])
                BY DEF Turn
            <4>4. Turn(f, g, h) = (p - p) * (q + side - q) - (q + side - q) * (p + side - p)
                BY <1>2, <2>3, <4>2, <4>3
            <4> QED  BY <3>1, <4>4 DEF f, g, h
        <3>4. CASE s = 1
            <4>1. c[1] = <<x, z>> /\ c[2] = <<x + 1, z + 1>> /\ c[3] = <<x + 1, z>>
                BY <3>4 DEF CornersOf
            <4> DEFINE f == scaled(c[1])
                       g == scaled(c[2])
                       h == scaled(c[3])
            <4> HIDE DEF c
            <4>2. /\ f[1] = p /\ g[1] = p + side /\ h[1] = p + side
                  /\ f[3] = q /\ g[3] = q + side /\ h[3] = q
                BY <2>4, <4>1
            <4> HIDE DEF f, g, h
            <4>3. Turn(f, g, h) = (g[1] - f[1]) * (h[3] - f[3]) - (g[3] - f[3]) * (h[1] - f[1])
                BY DEF Turn
            <4>4. Turn(f, g, h) = (p + side - p) * (q - q) - (q + side - q) * (p + side - p)
                BY <1>2, <2>3, <4>2, <4>3
            <4> QED  BY <3>2, <4>4 DEF f, g, h
        <3> QED  BY <3>3, <3>4
    <2> HIDE DEF corner, c
    <2>6. mesh.triangles[k] = t
        BY <1>4, <2>1 DEF t
    <2> QED  BY <2>2, <2>5, <2>6
<1>8. ASSUME NEW j \in 1..last, NEW k \in 1..last, j # k
      PROVE  EdgesFrom(mesh.triangles[j]) \cap EdgesFrom(mesh.triangles[k]) = {}
    <2>1. PICK x \in 0..res - 1, z \in 0..res - 1, s \in {0, 1} :
              j = NumberOf(res, x, z, s) /\ triangles(res)[j] = Half(res, x, z, s)
        BY <1>1, TriangleAt DEF last
    <2>2. PICK u \in 0..res - 1, v \in 0..res - 1, t \in {0, 1} :
              k = NumberOf(res, u, v, t) /\ triangles(res)[k] = Half(res, u, v, t)
        BY <1>1, TriangleAt DEF last
    <2> SUFFICES ASSUME NEW e \in EdgesFrom(Half(res, x, z, s)), e \in EdgesFrom(Half(res, u, v, t))
                 PROVE  FALSE
        BY <1>4, <2>1, <2>2
    <2>3. x = u /\ z = v /\ s = t
        BY <1>1, EdgeOnce
    <2> QED  BY <1>8, <2>1, <2>2, <2>3
<1>9. \A t : {<<t[1], t[2]>>, <<t[2], t[3]>>, <<t[3], t[1]>>} = EdgesFrom(t)
    BY DEF EdgesFrom
<1>10. Len(mesh.triangles) = 2 * res * res
    BY <1>6 DEF last
<1> HIDE DEF corner, scaled
<1> QED  BY <1>6, <1>7, <1>8, <1>9, <1>10 DEF Tiled, mesh, side, corner

(* A mesh of a field draws every height where it was written.            *)
LEMMA FieldDrawn ==
    ASSUME GridInv, NEW res \in 1..MaxResolution, field.width = res + 1, field.height = res + 1
    PROVE  LET mesh == build_mesh_from_height(res)
               drawn == {mesh.value.vertices[k] : k \in DOMAIN mesh.value.vertices}
           IN  /\ mesh.ok
               /\ drawn = {<<t[1] * (Size \div res), written[t], t[2] * (Size \div res)>> : t \in DOMAIN written}
               /\ Tiled(mesh.value, res)
               /\ build_mesh(res).value.triangles = mesh.value.triangles
<1> DEFINE mesh == build_mesh_from_height(res)
           side == Size \div res
           n == res + 1
           tiles == (0..res) \X (0..res)
           height == [t \in tiles |-> IF get_height(t[1], t[2]).ok THEN get_height(t[1], t[2]).value ELSE 0]
           point(t) == <<t[1] * side, written[t], t[2] * side>>
           all == DOMAIN vertices(res)
<1>1. res \in Nat \ {0}
    BY GridAssumption
<1>2. mesh = FlatMesh(res, height)
    BY <1>1 DEF build_mesh_from_height
<1>3. DOMAIN written = tiles
    BY <1>1 DEF GridInv, FieldTypeOK
<1>4. ASSUME NEW t \in tiles
      PROVE  height[t] = written[t]
    <2>1. t[1] \in Int /\ t[2] \in Int /\ t = <<t[1], t[2]>>
        BY <1>1
    <2>2. get_height(t[1], t[2]) = Ok(written[t])
        BY <1>3, <2>1, HeightGot
    <2> QED  BY <2>2 DEF Ok
<1> HIDE DEF height
<1>5. /\ mesh.ok
      /\ mesh.value.triangles = triangles(res)
      /\ mesh.value.vertices = [k \in all |-> LET v == vertices(res)[k] IN <<v[1] * side, height[v], v[2] * side>>]
    BY <1>2 DEF FlatMesh, Ok
<1>6. Tiled(mesh.value, res)
    BY <1>2, FlatMeshTiles
<1>7. build_mesh(res).value.triangles = triangles(res)
    BY <1>1 DEF build_mesh, FlatMesh, Ok
<1>8. \A k \in all : vertices(res)[k] \in tiles
    <2> SUFFICES ASSUME NEW k \in all PROVE vertices(res)[k] \in tiles
        OBVIOUS
    <2>1. n \in Nat \ {0} /\ n * n \in Nat
        BY <1>1
    <2>2. k \in 1..n * n /\ vertices(res)[k] = <<(k - 1) % n, (k - 1) \div n>>
        BY DEF vertices
    <2> DEFINE m == n * n
               i == k - 1
    <2>3. i \in 0..m - 1
        <3> HIDE DEF m
        <3> QED  BY <2>1, <2>2 DEF m
    <2>4. i % n \in 0..n - 1 /\ i \div n \in 0..n - 1
        <3> HIDE DEF i
        <3> QED  BY <2>1, <2>3, NumberIsCell DEF m
    <2>5. n - 1 = res
        BY <1>1
    <2> HIDE DEF n, i, m
    <2> QED  BY <2>2, <2>4, <2>5 DEF i
<1>9. \A t \in tiles : \E k \in all : vertices(res)[k] = t
    <2> SUFFICES ASSUME NEW t \in tiles PROVE \E k \in all : vertices(res)[k] = t
        OBVIOUS
    <2> DEFINE x == t[1]
               z == t[2]
               i == z * n + x
    <2>1. n \in Nat /\ x \in 0..n - 1 /\ z \in 0..n - 1 /\ t = <<x, z>>
        BY <1>1
    <2>2. i \in 0..n * n - 1 /\ i % n = x /\ i \div n = z
        <3> HIDE DEF n, x, z
        <3> QED  BY <2>1, CellOnce
    <2>3. vertices(res) = [k \in 1..n * n |-> <<(k - 1) % n, (k - 1) \div n>>]
        BY DEF vertices
    <2>4. n * n \in Nat
        BY <2>1
    <2> DEFINE m == n * n
    <2> HIDE DEF i, m, x, z
    <2>5. i + 1 \in 1..m /\ (i + 1) - 1 = i
        BY <2>2, <2>4 DEF m
    <2> HIDE DEF n
    <2>6. vertices(res)[i + 1] = <<i % n, i \div n>>
        BY <2>3, <2>5 DEF m
    <2>7. i + 1 \in all
        BY <2>3, <2>5 DEF m
    <2> QED  BY <2>1, <2>2, <2>6, <2>7
<1>10. {mesh.value.vertices[k] : k \in DOMAIN mesh.value.vertices} = {point(t) : t \in DOMAIN written}
    <2>1. \A k \in all : mesh.value.vertices[k] = point(vertices(res)[k])
        <3> HIDE DEF mesh, side, all, tiles
        <3> QED  BY <1>4, <1>5, <1>8
    <2>2. DOMAIN mesh.value.vertices = all
        <3> HIDE DEF mesh, side, all, tiles
        <3> QED  BY <1>5
    <2> HIDE DEF mesh, point, all, tiles
    <2> QED  BY <1>3, <1>8, <1>9, <2>1, <2>2
<1> HIDE DEF mesh
<1> QED  BY <1>5, <1>6, <1>7, <1>10 DEF mesh

(* A field of another size is refused.                                   *)
LEMMA OtherFields ==
    ASSUME GridInv, NEW res \in 0..MaxResolution
    PROVE  /\ DOMAIN written = (0..res) \X (0..res) => field.width = res + 1 /\ field.height = res + 1
           /\ ~(DOMAIN written = (0..res) \X (0..res) /\ res > 0) => ~build_mesh_from_height(res).ok
<1> DEFINE w == field.width
           h == field.height
<1>1. res \in Nat /\ w \in Nat /\ h \in Nat /\ DOMAIN written = (0..w - 1) \X (0..h - 1)
    BY GridAssumption DEF GridInv, FieldTypeOK
<1> HIDE DEF w, h
<1>2. ASSUME DOMAIN written = (0..res) \X (0..res)
      PROVE  w = res + 1 /\ h = res + 1
    <2>1. \A x, z \in Int : x \in 0..w - 1 /\ z \in 0..h - 1 <=> x \in 0..res /\ z \in 0..res
        <3> SUFFICES ASSUME NEW x \in Int, NEW z \in Int
                     PROVE  x \in 0..w - 1 /\ z \in 0..h - 1 <=> x \in 0..res /\ z \in 0..res
            OBVIOUS
        <3>1. <<x, z>> \in DOMAIN written <=> x \in 0..w - 1 /\ z \in 0..h - 1
            BY <1>1
        <3>2. <<x, z>> \in DOMAIN written <=> x \in 0..res /\ z \in 0..res
            BY <1>2
        <3> QED  BY <3>1, <3>2
    <2>2. res \in 0..w - 1 /\ res \in 0..h - 1
        BY <1>1, <2>1
    <2>3. w - 1 \in 0..res
        BY <1>1, <2>1, <2>2
    <2>4. h - 1 \in 0..res
        BY <1>1, <2>1, <2>2
    <2> QED  BY <1>1, <2>2, <2>3, <2>4
<1>3. w = res + 1 /\ h = res + 1 => DOMAIN written = (0..res) \X (0..res)
    <2>1. w = res + 1 /\ h = res + 1 => w - 1 = res /\ h - 1 = res
        BY <1>1
    <2> QED  BY <1>1, <2>1
<1>4. ASSUME ~(DOMAIN written = (0..res) \X (0..res) /\ res > 0)
      PROVE  ~build_mesh_from_height(res).ok
    <2>1. res <= 0 \/ w # res + 1 \/ h # res + 1
        BY <1>1, <1>3, <1>4
    <2> QED  BY <2>1 DEF build_mesh_from_height, InvalidResolution, InvalidDataLength, w, h
<1> QED  BY <1>2, <1>4 DEF w, h

LEMMA HeightsAreDrawn ==
    ASSUME GridInv
    PROVE  HeightsDrawn
<1>1. ASSUME NEW x \in -1..MaxResolution + 1, NEW z \in -1..MaxResolution + 1
      PROVE  IF <<x, z>> \in DOMAIN written THEN get_height(x, z) = Ok(written[<<x, z>>])
                                            ELSE ~get_height(x, z).ok
    BY HeightGot
<1> DEFINE meshOf(res) == build_mesh_from_height(res)
           drawnOf(res) == {meshOf(res).value.vertices[k] : k \in DOMAIN meshOf(res).value.vertices}
           whole(res) == /\ meshOf(res).ok
                         /\ drawnOf(res) = {<<t[1] * (Size \div res), written[t], t[2] * (Size \div res)>> : t \in DOMAIN written}
                         /\ Tiled(meshOf(res).value, res)
                         /\ build_mesh(res).value.triangles = meshOf(res).value.triangles
           covers(res) == DOMAIN written = (0..res) \X (0..res) /\ res > 0
<1>2. ASSUME NEW res \in 0..MaxResolution
      PROVE  IF covers(res) THEN whole(res) ELSE ~meshOf(res).ok
    <2>1. CASE covers(res)
        <3>1. res \in 1..MaxResolution
            BY <2>1, GridAssumption
        <3>2. field.width = res + 1 /\ field.height = res + 1
            BY <2>1, OtherFields
        <3>3. whole(res)
            BY <3>1, <3>2, FieldDrawn
        <3> QED  BY <2>1, <3>3
    <2>2. CASE ~covers(res)
        BY <2>2, OtherFields
    <2> QED  BY <2>1, <2>2
<1> QED  BY <1>1, <1>2 DEF HeightsDrawn

---------------------------------------------------------------------------
(* The waves.  A whole number of periods leaves the remainder as it was. *)
LEMMA QuotientMoves ==
    ASSUME NEW a \in Int, NEW n \in Nat \ {0}, NEW b \in Int
    PROVE  (a + n * b) \div n = (a \div n) + b
<1> DEFINE q == a \div n
           r == a % n
           c == a + n * b
<1>1. q \in Int /\ r \in 0..n - 1 /\ a = n * q + r
    OBVIOUS
<1> HIDE DEF q, r
<1>2. c \in Int /\ q + b \in Int
    BY <1>1
<1>3. c = n * (q + b) + r
    <2>1. n * (q + b) = n * q + n * b /\ n * q \in Int /\ n * b \in Int
        BY <1>1
    <2> QED  BY <1>1, <2>1
<1> HIDE DEF c
<1>4. c \div n = q + b
    BY <1>1, <1>2, <1>3, QuotientIs
<1> QED  BY <1>4 DEF c, q

LEMMA SineTurns ==
    ASSUME NEW q \in Int, NEW j \in Int
    PROVE  /\ sine(q + 4 * j) = sine(q) /\ cosine(q + 4 * j) = cosine(q)
           /\ sine(q) \in Int /\ cosine(q) \in Int
<1>1. \A p \in Int : (p + 4 * j) % 4 = p % 4 /\ p % 4 \in 0..3
    OBVIOUS
<1>2. \A p \in Int : sine(p + 4 * j) = sine(p) /\ sine(p) \in Int
    <2> SUFFICES ASSUME NEW p \in Int PROVE sine(p + 4 * j) = sine(p) /\ sine(p) \in Int
        OBVIOUS
    <2>1. sine(p + 4 * j) = sine(p)
        BY <1>1 DEF sine
    <2>2. \/ p % 4 = 0 \/ p % 4 = 1 \/ p % 4 = 2 \/ p % 4 = 3
        BY <1>1
    <2>3. sine(p) \in Int
        BY <2>2 DEF sine
    <2> QED  BY <2>1, <2>3
<1>3. q + 1 \in Int /\ (q + 4 * j) + 1 = (q + 1) + 4 * j
    OBVIOUS
<1> QED  BY <1>2, <1>3 DEF cosine

(* The waves that may be in a bank, seen as what their fields are.       *)
LEMMA WaveFields ==
    ASSUME NEW w \in Waves
    PROVE  /\ w.amplitude \in Int /\ w.wavelength \in Int /\ w.steepness \in Int /\ w.speed \in Int
           /\ w.direction[1] \in Int /\ w.direction[2] \in Int
<1>1. w \in [amplitude : Int, wavelength : Int, steepness : 0..2, direction : Axes, speed : Int]
    BY GridAssumption
<1>2. w.direction \in Axes
    BY <1>1
<1> QED  BY <1>1, <1>2 DEF Axes

(* A patch that holds a wave a whole number of times has it in the same  *)
(* quarter, up to whole turns, on opposite sides.                        *)
LEMMA PhaseRepeats ==
    ASSUME NEW w \in Waves, Moves(w), Size % w.wavelength = 0, NEW x \in Int, NEW z \in Int, NEW time \in Int
    PROVE  /\ phase(w, x, z, time) \in Int
           /\ \E j \in Int : phase(w, x + Size, z, time) = phase(w, x, z, time) + 4 * j
           /\ \E j \in Int : phase(w, x, z + Size, time) = phase(w, x, z, time) + 4 * j
<1> DEFINE n == w.wavelength
           m == Size \div n
           dx == w.direction[1]
           dz == w.direction[2]
           a == dx * x + dz * z - w.speed * time
<1>1. n \in Nat \ {0} /\ dx \in Int /\ dz \in Int /\ w.speed \in Int /\ Size \in Nat
    BY WaveFields, GridAssumption DEF Moves
<1>2. m \in Int /\ Size = n * m
    <2>1. Size \div n \in Nat /\ Size % n \in 0..n - 1 /\ Size = n * (Size \div n) + (Size % n)
        BY <1>1, NatDivided
    <2> QED  BY <1>1, <2>1
<1>3. a \in Int
    BY <1>1
<1> HIDE DEF n, m, dx, dz
<1>4. ASSUME NEW d \in Int
      PROVE  (4 * (a + d * Size)) \div n = ((4 * a) \div n) + 4 * (d * m)
    <2>1. 4 * (a + d * Size) = 4 * a + n * (4 * (d * m))
        <3>1. d * Size = n * (d * m) /\ d * m \in Int /\ n * (d * m) \in Int
            BY <1>1, <1>2
        <3>2. n * (4 * (d * m)) = 4 * (n * (d * m))
            BY <1>1, <3>1
        <3> DEFINE p == n * (d * m)
        <3> HIDE DEF p, a
        <3>3. 4 * (a + p) = 4 * a + 4 * p
            BY <1>3, <3>1 DEF p
        <3> QED  BY <3>1, <3>2, <3>3 DEF p
    <2> HIDE DEF a
    <2>2. 4 * a \in Int /\ 4 * (d * m) \in Int
        BY <1>2, <1>3
    <2>3. (4 * a + n * (4 * (d * m))) \div n = ((4 * a) \div n) + 4 * (d * m)
        <3> DEFINE e == 4 * a
                   f == 4 * (d * m)
        <3>1. e \in Int /\ f \in Int /\ n \in Nat \ {0}
            BY <1>1, <2>2
        <3> HIDE DEF e, f
        <3>2. (e + n * f) \div n = (e \div n) + f
            BY <3>1, QuotientMoves
        <3> QED  BY <3>2 DEF e, f
    <2> QED  BY <2>1, <2>3
<1>5. phase(w, x, z, time) = (4 * a) \div n /\ (4 * a) \div n \in Int
    <2>1. phase(w, x, z, time) = (4 * a) \div n
        BY DEF phase, n, dx, dz
    <2> HIDE DEF a
    <2> QED  BY <1>1, <1>3, <2>1
<1>6. phase(w, x + Size, z, time) = (4 * (a + dx * Size)) \div n
    <2>1. dx * (x + Size) + dz * z - w.speed * time = a + dx * Size
        BY <1>1
    <2> QED  BY <2>1 DEF phase, n, dx, dz
<1>7. phase(w, x, z + Size, time) = (4 * (a + dz * Size)) \div n
    <2>1. dx * x + dz * (z + Size) - w.speed * time = a + dz * Size
        BY <1>1
    <2> QED  BY <2>1 DEF phase, n, dx, dz
<1> HIDE DEF a
<1>8. dx * m \in Int /\ dz * m \in Int
    BY <1>1, <1>2
<1> QED  BY <1>1, <1>4, <1>5, <1>6, <1>7, <1>8

(* Opposite sides of a patch are moved and shaded alike by every wave, and *)
(* so by the bank.                                                       *)
Repeats == \A k \in DOMAIN bank : Moves(bank[k]) => Size % bank[k].wavelength = 0

LEMMA WaveRepeats ==
    ASSUME NEW w \in Waves, Moves(w), Size % w.wavelength = 0, NEW x \in Int, NEW z \in Int, NEW time \in Int
    PROVE  /\ displacement(w, x + Size, z, time) = displacement(w, x, z, time)
           /\ displacement(w, x, z + Size, time) = displacement(w, x, z, time)
           /\ slope(w, x + Size, z, time) = slope(w, x, z, time)
           /\ slope(w, x, z + Size, time) = slope(w, x, z, time)
<1>1. /\ sine(phase(w, x + Size, z, time)) = sine(phase(w, x, z, time))
      /\ cosine(phase(w, x + Size, z, time)) = cosine(phase(w, x, z, time))
    BY PhaseRepeats, SineTurns
<1>2. /\ sine(phase(w, x, z + Size, time)) = sine(phase(w, x, z, time))
      /\ cosine(phase(w, x, z + Size, time)) = cosine(phase(w, x, z, time))
    BY PhaseRepeats, SineTurns
<1>3. displacement(w, x + Size, z, time) = displacement(w, x, z, time)
    BY <1>1, Zenon DEF displacement
<1>4. displacement(w, x, z + Size, time) = displacement(w, x, z, time)
    BY <1>2, Zenon DEF displacement
<1>5. slope(w, x + Size, z, time) = slope(w, x, z, time)
    BY <1>1, Zenon DEF slope
<1>6. slope(w, x, z + Size, time) = slope(w, x, z, time)
    BY <1>2, Zenon DEF slope
<1> QED  BY <1>3, <1>4, <1>5, <1>6

LEMMA BankRepeats ==
    ASSUME bank \in Seq(Waves), Repeats, NEW x \in Int, NEW z \in Int, NEW time \in Int
    PROVE  /\ sample_displacement(x + Size, z, time) = sample_displacement(x, z, time)
           /\ sample_displacement(x, z + Size, time) = sample_displacement(x, z, time)
           /\ sample_normal(x + Size, z, time) = sample_normal(x, z, time)
           /\ sample_normal(x, z + Size, time) = sample_normal(x, z, time)
<1> DEFINE terms(u, v) == [k \in DOMAIN bank |-> IF Moves(bank[k]) THEN displacement(bank[k], u, v, time)
                                                                  ELSE <<0, 0, 0>>]
           moving == {k \in DOMAIN bank : Moves(bank[k])}
           slopes(u, v) == [k \in moving |-> slope(bank[k], u, v, time)]
<1>1. ASSUME NEW k \in DOMAIN bank, Moves(bank[k])
      PROVE  /\ displacement(bank[k], x + Size, z, time) = displacement(bank[k], x, z, time)
             /\ displacement(bank[k], x, z + Size, time) = displacement(bank[k], x, z, time)
             /\ slope(bank[k], x + Size, z, time) = slope(bank[k], x, z, time)
             /\ slope(bank[k], x, z + Size, time) = slope(bank[k], x, z, time)
    <2>1. bank[k] \in Waves
        OBVIOUS
    <2>2. Size % bank[k].wavelength = 0
        BY <1>1 DEF Repeats
    <2> QED  BY <1>1, <2>1, <2>2, WaveRepeats
<1>2. terms(x + Size, z) = terms(x, z) /\ terms(x, z + Size) = terms(x, z)
    BY <1>1
<1>3. slopes(x + Size, z) = slopes(x, z) /\ slopes(x, z + Size) = slopes(x, z)
    BY <1>1
<1>4. \A u, v : sample_displacement(u, v, time) = Summed(terms(u, v)) /\ sample_normal(u, v, time) = slopes(u, v)
    BY DEF sample_displacement, sample_normal
<1> HIDE DEF terms, slopes
<1> QED  BY <1>2, <1>3, <1>4

(* A sum of whole numbers is one.                                        *)
LEMMA SummedInt ==
    ASSUME NEW terms, Len(terms) \in Nat,
           \A k \in 1..Len(terms) : \A axis \in 1..3 : terms[k][axis] \in Int
    PROVE  Summed(terms) \in [1..3 -> Int]
<1> DEFINE N == Len(terms)
           X == [1..3 -> Int]
           first == [axis \in 1..3 |-> 0]
           next == [k \in 1..N |-> [t \in X |-> [axis \in 1..3 |-> t[axis] + terms[k][axis]]]]
           sum[k \in 0..Len(terms)] == IF k = 0 THEN [axis \in 1..3 |-> 0]
                                       ELSE [axis \in 1..3 |-> sum[k - 1][axis] + terms[k][axis]]
           body(f) == [k \in 0..N |-> IF k = 0 THEN first ELSE [axis \in 1..3 |-> f[k - 1][axis] + terms[k][axis]]]
<1>1. Summed(terms) = sum[N]
    BY DEF Summed
<1>2. sum = CHOOSE f : f = body(f)
    OBVIOUS
<1> HIDE DEF sum
<1>3. first \in X
    OBVIOUS
<1>4. next \in [1..N -> [X -> X]]
    OBVIOUS
<1> HIDE DEF N, X, first, next, body
<1>5. N \in Nat
    BY DEF N
<1>6. PICK g \in [0..N -> X] : Follows(g, N, first, next)
    BY <1>3, <1>4, <1>5, Recursion
<1>7. g[0] = first /\ \A k \in 1..N : g[k] = next[k][g[k - 1]]
    BY <1>6 DEF Follows
<1>8. ASSUME NEW k \in 1..N
      PROVE  g[k] = [axis \in 1..3 |-> g[k - 1][axis] + terms[k][axis]]
    <2>1. k - 1 \in 0..N /\ g[k - 1] \in X
        BY <1>5, <1>6
    <2>2. next[k][g[k - 1]] = [axis \in 1..3 |-> g[k - 1][axis] + terms[k][axis]]
        BY <2>1 DEF next
    <2> QED  BY <1>7, <2>2
<1>9. g = body(g)
    <2>1. \A k \in 0..N : k = 0 \/ (k \in 1..N /\ k # 0)
        BY <1>5
    <2>2. \A k \in 0..N : g[k] = IF k = 0 THEN first ELSE [axis \in 1..3 |-> g[k - 1][axis] + terms[k][axis]]
        BY <1>7, <1>8, <2>1
    <2>3. g = [k \in 0..N |-> g[k]]
        BY <1>6
    <2> QED  BY <2>2, <2>3 DEF body
<1>10. sum = body(sum)
    BY <1>2, <1>9
<1> DEFINE S == {k \in 0..N : sum[k] \in X}
<1>11. 0 \in S
    BY <1>3, <1>5, <1>10 DEF body
<1>12. ASSUME NEW k \in 0..N - 1, k \in S
       PROVE  k + 1 \in S
    <2>1. k + 1 \in 1..N /\ k + 1 \in 0..N /\ k + 1 # 0 /\ (k + 1) - 1 = k
        BY <1>5
    <2>2. sum[k + 1] = [axis \in 1..3 |-> sum[k][axis] + terms[k + 1][axis]]
        BY <1>10, <2>1 DEF body
    <2>3. sum[k] \in X
        BY <1>12
    <2>4. \A axis \in 1..3 : terms[k + 1][axis] \in Int
        BY <2>1 DEF N
    <2>5. sum[k + 1] \in X
        <3>1. \A axis \in 1..3 : sum[k][axis] \in Int
            BY <2>3 DEF X
        <3>2. \A axis \in 1..3 : sum[k][axis] + terms[k + 1][axis] \in Int
            BY <2>4, <3>1
        <3> QED  BY <2>2, <3>2 DEF X
    <2> QED  BY <2>1, <2>5
<1>13. 0..N \subseteq S
    <2> HIDE DEF S
    <2> QED  BY <1>5, <1>11, <1>12, UpTo
<1>14. N \in S
    BY <1>5, <1>13
<1> QED  BY <1>1, <1>14 DEF X

LEMMA DisplacementInt ==
    ASSUME bank \in Seq(Waves), NEW x \in Int, NEW z \in Int, NEW time \in Int
    PROVE  sample_displacement(x, z, time) \in [1..3 -> Int]
<1> DEFINE terms == [k \in DOMAIN bank |-> IF Moves(bank[k]) THEN displacement(bank[k], x, z, time)
                                                             ELSE <<0, 0, 0>>]
<1>1. DOMAIN bank = 1..Len(bank) /\ Len(bank) \in Nat
    OBVIOUS
<1>2. Len(terms) = Len(bank)
    BY <1>1
<1>3. ASSUME NEW k \in 1..Len(bank), NEW axis \in 1..3
      PROVE  terms[k][axis] \in Int
    <2> DEFINE w == bank[k]
               q == phase(w, x, z, time)
    <2>1. w \in Waves
        BY <1>1
    <2>2. CASE ~Moves(w)
        <3>1. terms[k] = <<0, 0, 0>>
            BY <1>1, <2>2
        <3>2. axis = 1 \/ axis = 2 \/ axis = 3
            OBVIOUS
        <3> HIDE DEF terms
        <3> QED  BY <3>1, <3>2
    <2>3. CASE Moves(w)
        <3>1. q \in Int
            <4>1. w.wavelength \in Nat \ {0} /\ w.direction[1] \in Int /\ w.direction[2] \in Int /\ w.speed \in Int
                BY <2>1, <2>3, WaveFields DEF Moves
            <4> DEFINE a == 4 * (w.direction[1] * x + w.direction[2] * z - w.speed * time)
                       n == w.wavelength
            <4>2. a \in Int /\ n \in Nat \ {0}
                <5> DEFINE dx == w.direction[1]
                           dz == w.direction[2]
                           speed == w.speed
                <5>1. dx \in Int /\ dz \in Int /\ speed \in Int
                    BY <4>1
                <5> HIDE DEF dx, dz, speed
                <5>2. 4 * (dx * x + dz * z - speed * time) \in Int
                    BY <5>1
                <5> QED  BY <4>1, <5>2 DEF dx, dz, speed
            <4>3. q = a \div n
                BY DEF phase
            <4> HIDE DEF a, n, q
            <4> QED  BY <4>2, <4>3
        <3> HIDE DEF q
        <3>2. sine(q) \in Int /\ cosine(q) \in Int
            BY <3>1, SineTurns
        <3>3. /\ w.amplitude \in Int /\ w.steepness \in Int
              /\ w.direction[1] \in Int /\ w.direction[2] \in Int
            BY <2>1, WaveFields
        <3>4. terms[k] = <<-(w.direction[1] * w.steepness * w.amplitude * sine(q)),
                           2 * w.amplitude * cosine(q),
                           -(w.direction[2] * w.steepness * w.amplitude * sine(q))>>
            BY <1>1, <2>3 DEF displacement, q
        <3> HIDE DEF w, terms
        <3>5. /\ -(w.direction[1] * w.steepness * w.amplitude * sine(q)) \in Int
              /\ 2 * w.amplitude * cosine(q) \in Int
              /\ -(w.direction[2] * w.steepness * w.amplitude * sine(q)) \in Int
            <4> DEFINE dx == w.direction[1]
                       dz == w.direction[2]
                       h == w.steepness
                       b == w.amplitude
                       c == cosine(q)
                       d == sine(q)
            <4>1. dx \in Int /\ dz \in Int /\ h \in Int /\ b \in Int /\ c \in Int /\ d \in Int
                BY <3>2, <3>3
            <4> HIDE DEF dx, dz, h, b, c, d
            <4>2. -(dx * h * b * d) \in Int
                BY <4>1
            <4>3. 2 * b * c \in Int
                BY <4>1
            <4>4. -(dz * h * b * d) \in Int
                BY <4>1
            <4> QED  BY <4>2, <4>3, <4>4 DEF dx, dz, h, b, c, d
        <3>6. axis = 1 \/ axis = 2 \/ axis = 3
            OBVIOUS
        <3> QED  BY <3>4, <3>5, <3>6
    <2> QED  BY <2>2, <2>3
<1>4. sample_displacement(x, z, time) = Summed(terms)
    BY DEF sample_displacement
<1> HIDE DEF terms
<1> QED  BY <1>1, <1>2, <1>3, <1>4, SummedInt

(* What the vertex in a column and a row of a patch is.                  *)
Placed(res, column, row, time) ==
    LET x == column * step_of(res) - (Size \div 2)
        z == row * step_of(res) - (Size \div 2)
        moved == sample_displacement(x, z, time)
    IN  <<2 * x + moved[1], moved[2], 2 * z + moved[3]>>

Shaded(res, column, row, time) ==
    sample_normal(column * step_of(res) - (Size \div 2), row * step_of(res) - (Size \div 2), time)

LEMMA BuiltAt ==
    ASSUME NEW res \in 1..MaxResolution, NEW time \in Int, NEW u \in 0..res, NEW v \in 0..res
    PROVE  /\ build(res, time).ok
           /\ build(res, time).value.vertices[v * (res + 1) + u + 1] = Placed(res, u, v, time)
           /\ build(res, time).value.normals[v * (res + 1) + u + 1] = Shaded(res, u, v, time)
           /\ build(res, time).value # EmptyMesh
<1> DEFINE k == v * (res + 1) + u + 1
           all == DOMAIN vertices(res)
           at(j) == <<vertices(res)[j][1] * step_of(res) - (Size \div 2),
                      vertices(res)[j][2] * step_of(res) - (Size \div 2)>>
           moved(j) == sample_displacement(at(j)[1], at(j)[2], time)
           placed(j) == <<2 * at(j)[1] + moved(j)[1], moved(j)[2], 2 * at(j)[2] + moved(j)[3]>>
           mesh == [vertices  |-> [j \in all |-> placed(j)],
                    normals   |-> [j \in all |-> sample_normal(at(j)[1], at(j)[2], time)],
                    triangles |-> triangles(res)]
<1>1. res \in Nat \ {0} /\ ~(res < 1 \/ Size <= 0)
    BY GridAssumption
<1>2. build(res, time) = Ok(mesh)
    BY <1>1, Zenon DEF build
<1>3. k \in all /\ vertices(res)[k] = <<u, v>>
    BY <1>1, VertexAt
<1> HIDE DEF k, all
<1>4. at(k) = <<u * step_of(res) - (Size \div 2), v * step_of(res) - (Size \div 2)>>
    BY <1>3
<1>5. placed(k) = Placed(res, u, v, time)
    BY <1>4 DEF Placed
<1>6. sample_normal(at(k)[1], at(k)[2], time) = Shaded(res, u, v, time)
    BY <1>4 DEF Shaded
<1> HIDE DEF at, placed
<1>7. mesh.vertices[k] = Placed(res, u, v, time) /\ mesh.normals[k] = Shaded(res, u, v, time)
    BY <1>3, <1>5, <1>6
<1>8. mesh # EmptyMesh
    <2>1. DOMAIN mesh.vertices # {}
        BY <1>3
    <2>2. DOMAIN EmptyMesh.vertices = {}
        BY DEF EmptyMesh
    <2> HIDE DEF mesh
    <2> QED  BY <2>1, <2>2
<1> HIDE DEF mesh
<1> QED  BY <1>2, <1>7, <1>8 DEF Ok, k

(* A patch joins itself.                                                 *)
LEMMA SidesJoin ==
    ASSUME bank \in Seq(Waves), Repeats, NEW res \in 1..MaxResolution, NEW time \in Int, NEW i \in 0..res
    PROVE  /\ Placed(res, res, i, time) = [Placed(res, 0, i, time) EXCEPT ![1] = @ + 2 * Size]
           /\ Placed(res, i, res, time) = [Placed(res, i, 0, time) EXCEPT ![3] = @ + 2 * Size]
           /\ Shaded(res, res, i, time) = Shaded(res, 0, i, time)
           /\ Shaded(res, i, res, time) = Shaded(res, i, 0, time)
<1> DEFINE s == step_of(res)
           half == Size \div 2
           edge == 0 * s - half
           here == i * s - half
<1>1. res \in Nat \ {0} /\ Size \in Nat
    BY GridAssumption
<1>2. s \in Int /\ half \in Int
    BY <1>1 DEF step_of
<1>3. res * s = Size
    <2>1. Size % (2 * res) = 0
        BY GridAssumption
    <2> DEFINE n == 2 * res
               q == Size \div n
    <2>2. n \in Nat \ {0} /\ n = 2 * res
        BY <1>1
    <2> HIDE DEF n
    <2>3. q \in Nat /\ Size % n \in 0..n - 1 /\ Size = n * q + (Size % n)
        BY <1>1, <2>2, NatDivided
    <2>4. Size % n = 0
        BY <2>1 DEF n
    <2> HIDE DEF q
    <2>5. Size = n * q
        <3>1. n * q \in Int
            BY <2>2, <2>3
        <3> QED  BY <2>3, <2>4, <3>1
    <2>6. Size = res * (2 * q) + 0
        BY <1>1, <2>2, <2>3, <2>5
    <2>7. Size \div res = 2 * q
        BY <1>1, <2>3, <2>6, QuotientIs
    <2> QED  BY <1>1, <2>3, <2>6, <2>7 DEF step_of
<1>4. edge \in Int /\ here \in Int /\ res * s - half = edge + Size
    <2>1. i * s \in Int /\ 0 * s = 0
        BY <1>1, <1>2
    <2> HIDE DEF s, half
    <2> QED  BY <1>1, <1>2, <1>3, <2>1
<1> HIDE DEF edge, here
<1> DEFINE a == sample_displacement(edge, here, time)
           b == sample_displacement(here, edge, time)
<1>5. /\ sample_displacement(edge + Size, here, time) = a
      /\ sample_displacement(here, edge + Size, time) = b
      /\ sample_normal(edge + Size, here, time) = sample_normal(edge, here, time)
      /\ sample_normal(here, edge + Size, time) = sample_normal(here, edge, time)
    BY <1>4, BankRepeats
<1>6. a \in [1..3 -> Int] /\ b \in [1..3 -> Int]
    BY <1>4, DisplacementInt
<1>7. /\ Placed(res, 0, i, time) = <<2 * edge + a[1], a[2], 2 * here + a[3]>>
      /\ Placed(res, i, 0, time) = <<2 * here + b[1], b[2], 2 * edge + b[3]>>
      /\ Shaded(res, 0, i, time) = sample_normal(edge, here, time)
      /\ Shaded(res, i, 0, time) = sample_normal(here, edge, time)
    BY DEF Placed, Shaded, edge, here
<1>8. /\ Shaded(res, res, i, time) = sample_normal(edge + Size, here, time)
      /\ Shaded(res, i, res, time) = sample_normal(here, edge + Size, time)
    BY <1>4 DEF Shaded, here
<1>9. /\ Placed(res, res, i, time) = <<2 * (edge + Size) + a[1], a[2], 2 * here + a[3]>>
      /\ Placed(res, i, res, time) = <<2 * here + b[1], b[2], 2 * (edge + Size) + b[3]>>
    BY <1>4, <1>5 DEF Placed, here
<1> HIDE DEF a, b, s, half
<1>10. /\ 2 * (edge + Size) + a[1] = 2 * edge + a[1] + 2 * Size
       /\ 2 * (edge + Size) + b[3] = 2 * edge + b[3] + 2 * Size
    BY <1>1, <1>4, <1>6
<1>11. \A p, q, r, t : /\ [<<p, q, r>> EXCEPT ![1] = @ + t] = <<p + t, q, r>>
                       /\ [<<p, q, r>> EXCEPT ![3] = @ + t] = <<p, q, r + t>>
    OBVIOUS
<1>12. Placed(res, res, i, time) = [Placed(res, 0, i, time) EXCEPT ![1] = @ + 2 * Size]
    <2> DEFINE p == 2 * edge + a[1]
               q == a[2]
               r == 2 * here + a[3]
               t == 2 * Size
               left == Placed(res, 0, i, time)
    <2>1. left = <<p, q, r>>
        BY <1>7
    <2>2. Placed(res, res, i, time) = <<p + t, q, r>>
        BY <1>9, <1>10
    <2> HIDE DEF p, q, r, t, left
    <2>3. [left EXCEPT ![1] = @ + t] = <<p + t, q, r>>
        BY <1>11, <2>1
    <2> QED  BY <2>2, <2>3 DEF left, t
<1>13. Placed(res, i, res, time) = [Placed(res, i, 0, time) EXCEPT ![3] = @ + 2 * Size]
    <2> DEFINE p == 2 * here + b[1]
               q == b[2]
               r == 2 * edge + b[3]
               t == 2 * Size
               left == Placed(res, i, 0, time)
    <2>1. left = <<p, q, r>>
        BY <1>7
    <2>2. Placed(res, i, res, time) = <<p, q, r + t>>
        BY <1>9, <1>10
    <2> HIDE DEF p, q, r, t, left
    <2>3. [left EXCEPT ![3] = @ + t] = <<p, q, r + t>>
        BY <1>11, <2>1
    <2> QED  BY <2>2, <2>3 DEF left, t
<1> QED  BY <1>5, <1>7, <1>8, <1>12, <1>13

LEMMA PatchesDoJoin ==
    ASSUME GridInv
    PROVE  PatchesJoin
<1> SUFFICES ASSUME Repeats, NEW d \in Distances, NEW time \in 0..2
             PROVE  LET drawn == draw(TRUE, DefaultTiers, d, time)
                        res == select_resolution(DefaultTiers, d)
                        at(column, row) == row * (res + 1) + column + 1
                        v == drawn.value.vertices
                        n == drawn.value.normals
                    IN  /\ drawn.ok <=> d >= 0
                        /\ d >= 0 => drawn.value = EmptyMesh <=> d >= DefaultTiers.cull
                        /\ d >= 0 /\ drawn.value # EmptyMesh =>
                             \A i \in 0..res :
                                /\ v[at(res, i)] = [v[at(0, i)] EXCEPT ![1] = @ + 2 * Size]
                                /\ v[at(i, res)] = [v[at(i, 0)] EXCEPT ![3] = @ + 2 * Size]
                                /\ n[at(res, i)] = n[at(0, i)] /\ n[at(i, res)] = n[at(i, 0)]
    BY DEF PatchesJoin, Repeats
<1> DEFINE drawn == draw(TRUE, DefaultTiers, d, time)
           res == select_resolution(DefaultTiers, d)
<1>1. /\ d \in Int /\ time \in Int
      /\ DefaultTiers.near = 2 /\ DefaultTiers.mid = 4 /\ DefaultTiers.cull = 6
      /\ DefaultTiers.near_resolution = 3 /\ DefaultTiers.mid_resolution = 2 /\ DefaultTiers.far_resolution = 1
    BY DetailAssumption DEF Distances, DefaultTiers
<1>2. CASE d < 0
    <2>1. drawn = InvalidDistance
        BY <1>1, <1>2 DEF draw, select_tier
    <2> HIDE DEF drawn
    <2>2. ~drawn.ok
        BY <2>1 DEF InvalidDistance
    <2>3. ~(d >= 0)
        BY <1>1, <1>2
    <2> QED  BY <2>2, <2>3 DEF drawn
<1>3. CASE d >= 6
    <2>1. select_tier(DefaultTiers, d) = "Culled"
        BY <1>1, <1>3 DEF select_tier
    <2>2. res = 0
        BY <2>1 DEF select_resolution
    <2>3. drawn = Ok(EmptyMesh)
        BY <2>1, <2>2 DEF draw
    <2> HIDE DEF drawn, res
    <2>4. drawn.ok /\ drawn.value = EmptyMesh
        BY <2>3 DEF Ok
    <2>5. d >= 0 /\ d >= DefaultTiers.cull
        BY <1>1, <1>3
    <2> QED  BY <2>4, <2>5 DEF drawn
<1>4. CASE d \in 0..5
    <2>1. select_tier(DefaultTiers, d) \in {"Near", "Mid", "Far"}
        BY <1>1, <1>4 DEF select_tier
    <2>2. res \in 1..3
        BY <1>1, <2>1 DEF select_resolution
    <2>3. res \in 1..MaxResolution
        BY <1>1, <2>2, GridAssumption
    <2>4. drawn = build(res, time)
        <3> HIDE DEF res
        <3>1. ~(res <= 0)
            BY <2>2
        <3> QED  BY <2>1, <3>1 DEF draw, res
    <2> HIDE DEF res, drawn
    <2>5. bank \in Seq(Waves)
        BY DEF GridInv, FieldTypeOK
    <2>6. 0 \in 0..res /\ res \in 0..res
        BY <2>2
    <2>7. drawn.ok /\ drawn.value # EmptyMesh
        BY <1>1, <2>3, <2>4, <2>6, BuiltAt
    <2> DEFINE v == drawn.value.vertices
               n == drawn.value.normals
               at(column, row) == row * (res + 1) + column + 1
    <2>8. \A column, row \in 0..res : v[at(column, row)] = Placed(res, column, row, time)
                                      /\ n[at(column, row)] = Shaded(res, column, row, time)
        BY <1>1, <2>3, <2>4, BuiltAt
    <2> HIDE DEF v, n, at
    <2>9. ASSUME NEW i \in 0..res
          PROVE  /\ v[at(res, i)] = [v[at(0, i)] EXCEPT ![1] = @ + 2 * Size]
                 /\ v[at(i, res)] = [v[at(i, 0)] EXCEPT ![3] = @ + 2 * Size]
                 /\ n[at(res, i)] = n[at(0, i)] /\ n[at(i, res)] = n[at(i, 0)]
        <3>1. /\ Placed(res, res, i, time) = [Placed(res, 0, i, time) EXCEPT ![1] = @ + 2 * Size]
              /\ Placed(res, i, res, time) = [Placed(res, i, 0, time) EXCEPT ![3] = @ + 2 * Size]
              /\ Shaded(res, res, i, time) = Shaded(res, 0, i, time)
              /\ Shaded(res, i, res, time) = Shaded(res, i, 0, time)
            BY <1>1, <2>3, <2>5, SidesJoin
        <3>2. /\ v[at(res, i)] = Placed(res, res, i, time) /\ v[at(0, i)] = Placed(res, 0, i, time)
              /\ v[at(i, res)] = Placed(res, i, res, time) /\ v[at(i, 0)] = Placed(res, i, 0, time)
              /\ n[at(res, i)] = Shaded(res, res, i, time) /\ n[at(0, i)] = Shaded(res, 0, i, time)
              /\ n[at(i, res)] = Shaded(res, i, res, time) /\ n[at(i, 0)] = Shaded(res, i, 0, time)
            BY <2>6, <2>8
        <3> QED  BY <3>1, <3>2, Zenon
    <2>10. d >= 0 /\ ~(d >= DefaultTiers.cull)
        BY <1>1, <1>4
    <2> QED  BY <2>7, <2>9, <2>10 DEF v, n, at, drawn, res
<1>5. d < 0 \/ d >= 6 \/ d \in 0..5
    BY <1>1
<1> QED  BY <1>2, <1>3, <1>4, <1>5

(* The heights of a field are read, and drawn, where they were written, by *)
(* triangles that tile the patch, and a patch of water joins itself on    *)
(* all sides while it holds every wave a whole number of times, for any   *)
(* field, writes, waves and size (set_height, build_mesh_from_height,     *)
(* build).                                                                *)
THEOREM SurfacesStayWhole == HostSpec => []SurfacesAreWhole
<1> DEFINE Surveyed == subject = "grid" => GridInv
<1>1. HostInit => Surveyed
    BY GridBegins DEF HostInit
<1>2. Surveyed /\ [HostNext]_host => Surveyed'
    <2> SUFFICES ASSUME Surveyed, [HostNext]_host, subject' = "grid"
                 PROVE  GridInv'
        OBVIOUS
    <2>1. subject = "grid" /\ [GridNext]_surface
        BY DEF HostNext, host
    <2> QED  BY <2>1, GridStep
<1>3. Surveyed => SurfacesAreWhole
    BY HeightsAreDrawn, PatchesDoJoin DEF SurfacesAreWhole
<1> QED  BY <1>1, <1>2, <1>3, PTL DEF HostSpec
=============================================================================
