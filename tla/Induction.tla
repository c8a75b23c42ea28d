------------------------------ MODULE Induction ------------------------------
(***************************************************************************)
(* Induction and recursion in a form that the installed provers can use: *)
(* over sets of numbers and functions, with no operator as a parameter.  *)
(* The library's proof that finite sets are well-founded under inclusion *)
(* is what they rest on.  Also division with a remainder, and that finite *)
(* sequences can be sorted, in one way.                                  *)
(***************************************************************************)
EXTENDS Integers, FiniteSetTheorems, WellFoundedInduction, TLAPS

(* Division, on both sides of the origin: a number is its quotient and its *)
(* remainder.                                                            *)
LEMMA Divided ==
    ASSUME NEW a \in Int, NEW b \in Nat \ {0}
    PROVE  a \div b \in Int /\ a % b \in 0..b - 1 /\ a = b * (a \div b) + (a % b)
OBVIOUS

LEMMA NatDivided ==
    ASSUME NEW a \in Nat, NEW b \in Nat \ {0}
    PROVE  a \div b \in Nat /\ a % b \in 0..b - 1 /\ a = b * (a \div b) + (a % b)
OBVIOUS

(* And a quotient and a remainder in range are those division gives.     *)
LEMMA DividedOnce ==
    ASSUME NEW b \in Nat \ {0}, NEW a \in Int, NEW q \in Int, NEW r \in 0..b - 1, a = b * q + r
    PROVE  a \div b = q /\ a % b = r
<1> DEFINE p == a \div b
           s == a % b
<1>1. p \in Int /\ s \in 0..b - 1 /\ a = b * p + s
    BY Divided
<1> HIDE DEF p, s
<1>2. ASSUME NEW m \in Int, NEW n \in Int, m < n
      PROVE  b * m + b <= b * n
    <2>1. m + 1 <= n /\ m + 1 \in Int
        BY <1>2
    <2>2. b * (m + 1) <= b * n
        BY <2>1
    <2>3. b * (m + 1) = b * m + b
        OBVIOUS
    <2> QED  BY <2>2, <2>3
<1> DEFINE x == b * p
           y == b * q
<1>3. x \in Int /\ y \in Int
    BY <1>1
<1>4. ~ p < q
    <2>1. p < q => x + b <= y
        BY <1>1, <1>2
    <2>2. x + s = y + r
        BY <1>1
    <2> HIDE DEF x, y
    <2> QED  BY <1>1, <1>3, <2>1, <2>2
<1>5. ~ q < p
    <2>1. q < p => y + b <= x
        BY <1>1, <1>2
    <2>2. x + s = y + r
        BY <1>1
    <2> HIDE DEF x, y
    <2> QED  BY <1>1, <1>3, <2>1, <2>2
<1>6. p = q
    BY <1>1, <1>4, <1>5
<1>7. s = r
    BY <1>1, <1>3, <1>6
<1> QED  BY <1>6, <1>7 DEF p, s

(* A set of natural numbers that is not empty has a least element.       *)
LEMMA LeastNat ==
    ASSUME NEW T \in SUBSET Nat, T # {}
    PROVE  \E n \in T : \A m \in T : n <= m
<1> DEFINE below(n) == 0..n
           initials == {below(n) : n \in T}
<1>1. \A n \in T : below(n) \in FiniteSubsetsOf(Nat)
    BY FS_Interval DEF FiniteSubsetsOf
<1>2. IsWellFoundedOn(StrictSubsetOrdering(Nat), FiniteSubsetsOf(Nat))
    BY FS_StrictSubsetOrderingWellFounded
<1>3. initials \subseteq FiniteSubsetsOf(Nat) /\ initials # {}
    BY <1>1
<1>4. PICK x \in initials : \A y \in initials : <<y, x>> \notin StrictSubsetOrdering(Nat)
    <2> HIDE DEF initials
    <2> QED  BY <1>2, <1>3, WFMin
<1>5. PICK n \in T : x = below(n)
    OBVIOUS
<1>6. ASSUME NEW m \in T, m < n
      PROVE  FALSE
    <2>1. n \in below(n) /\ n \notin below(m) /\ below(m) \subseteq below(n)
        BY <1>6
    <2>2. below(m) \in initials /\ below(m) \in SUBSET Nat /\ below(n) \in SUBSET Nat
        OBVIOUS
    <2> HIDE DEF initials, below
    <2>3. <<below(m), below(n)>> \in StrictSubsetOrdering(Nat)
        BY <2>1, <2>2 DEF StrictSubsetOrdering
    <2> QED  BY <1>4, <1>5, <2>2, <2>3
<1> QED  BY <1>6

(* A set that holds 0 and, with every number below N, its successor holds *)
(* all numbers up to N.                                                  *)
LEMMA UpTo ==
    ASSUME NEW N \in Nat, NEW S, 0 \in S, \A n \in 0..N - 1 : n \in S => n + 1 \in S
    PROVE  0..N \subseteq S
<1> DEFINE T == (0..N) \ S
<1>1. ASSUME T # {}
      PROVE  FALSE
    <2>1. PICK n \in T : \A m \in T : n <= m
        <3>1. T \in SUBSET Nat
            OBVIOUS
        <3> HIDE DEF T
        <3> QED  BY <1>1, <3>1, LeastNat
    <2>2. n # 0 /\ n - 1 \in 0..N - 1 /\ n - 1 \notin T
        BY <2>1
    <2>3. n - 1 \in S
        BY <2>2
    <2> QED  BY <2>1, <2>2, <2>3
<1> QED  BY <1>1

(* A sequence of values can be defined by its first and by how each      *)
(* follows from the one before.                                          *)
Follows(f, N, first, next) == f[0] = first /\ \A n \in 1..N : f[n] = next[n][f[n - 1]]

LEMMA Recursion ==
    ASSUME NEW N \in Nat, NEW X, NEW first \in X, NEW next \in [1..N -> [X -> X]]
    PROVE  \E f \in [0..N -> X] : Follows(f, N, first, next)
<1> DEFINE prefix(n, f) == f[0] = first /\ \A k \in 1..n : f[k] = next[k][f[k - 1]]
           S == {n \in 0..N : \E f \in [0..n -> X] : prefix(n, f)}
<1>1. 0 \in S
    <2>1. [k \in 0..0 |-> first] \in [0..0 -> X] /\ prefix(0, [k \in 0..0 |-> first])
        OBVIOUS
    <2>2. \E f \in [0..0 -> X] : prefix(0, f)
        <3> HIDE DEF prefix
        <3> QED  BY <2>1
    <2> HIDE DEF prefix
    <2> QED  BY <2>2
<1>2. ASSUME NEW n \in 0..N - 1, n \in S
      PROVE  n + 1 \in S
    <2>1. PICK f \in [0..n -> X] : prefix(n, f)
        BY <1>2
    <2> DEFINE g == [k \in 0..n + 1 |-> IF k = n + 1 THEN next[n + 1][f[n]] ELSE f[k]]
    <2>2. n \in 0..n /\ n + 1 \in 1..N /\ f[n] \in X
        BY <2>1
    <2>3. next[n + 1][f[n]] \in X
        BY <2>2
    <2>4. g \in [0..n + 1 -> X]
        BY <2>1, <2>3
    <2>5. \A k \in 0..n : g[k] = f[k]
        OBVIOUS
    <2>6. g[n + 1] = next[n + 1][g[n]]
        BY <2>2, <2>5
    <2>7. \A k \in 1..n : g[k] = next[k][g[k - 1]]
        <3> HIDE DEF g
        <3> QED  BY <2>1, <2>5
    <2>8. prefix(n + 1, g)
        <3> HIDE DEF g
        <3>1. \A k \in 1..n + 1 : k \in 1..n \/ k = n + 1
            OBVIOUS
        <3> QED  BY <2>1, <2>5, <2>6, <2>7, <3>1
    <2> HIDE DEF g, prefix
    <2> QED  BY <2>4, <2>8
<1>3. N \in S
    <2> HIDE DEF S
    <2>1. 0..N \subseteq S
        BY <1>1, <1>2, UpTo
    <2> QED  BY <2>1
<1> QED  BY <1>3 DEF Follows

(* A strict and total order of the numbers up to N, as a set of pairs.   *)
Orders(R, N) ==
    /\ \A k \in 1..N : <<k, k>> \notin R
    /\ \A j, k \in 1..N : j = k \/ <<j, k>> \in R \/ <<k, j>> \in R
    /\ \A i, j, k \in 1..N : <<i, j>> \in R /\ <<j, k>> \in R => <<i, k>> \in R

Beneath(R, N, k) == {j \in 1..N : <<j, k>> \in R}

(* The number of those before it is each number's place, a different one *)
(* for each.                                                             *)
LEMMA Ranks ==
    ASSUME NEW N \in Nat, NEW R, Orders(R, N)
    PROVE  /\ \A k \in 1..N : Cardinality(Beneath(R, N, k)) \in 0..N - 1
           /\ \A j, k \in 1..N :
                 <<j, k>> \in R => Cardinality(Beneath(R, N, j)) < Cardinality(Beneath(R, N, k))
           /\ \A place \in 1..N : \E k \in 1..N : Cardinality(Beneath(R, N, k)) = place - 1
<1> DEFINE K == 1..N
           rank(k) == Cardinality(Beneath(R, N, k))
<1>1. IsFiniteSet(K) /\ Cardinality(K) = N
    BY FS_Interval
<1>2. \A k \in K : Beneath(R, N, k) \subseteq K /\ k \notin Beneath(R, N, k)
    BY DEF Orders, Beneath
<1>3. ASSUME NEW k \in K
      PROVE  IsFiniteSet(Beneath(R, N, k)) /\ rank(k) \in 0..N - 1
    <2> DEFINE B == Beneath(R, N, k)
    <2>1. B \subseteq K /\ B # K
        BY <1>2
    <2> HIDE DEF B, K
    <2>2. IsFiniteSet(B) /\ Cardinality(B) <= N /\ (Cardinality(B) = N => B = K)
        BY <1>1, <2>1, FS_Subset
    <2>3. Cardinality(B) \in Nat
        BY <2>2, FS_CardinalityType
    <2> QED  BY <2>1, <2>2, <2>3 DEF B
<1>4. ASSUME NEW j \in K, NEW k \in K, <<j, k>> \in R
      PROVE  rank(j) < rank(k)
    <2> DEFINE A == Beneath(R, N, j)
               B == Beneath(R, N, k)
    <2>1. A \subseteq B
        BY <1>4 DEF Orders, Beneath
    <2>2. j \in B /\ j \notin A
        BY <1>2, <1>4 DEF Beneath
    <2>3. IsFiniteSet(B) /\ Cardinality(B) \in Nat /\ Cardinality(A) \in Nat
        BY <1>3
    <2> HIDE DEF A, B
    <2>4. Cardinality(A) <= Cardinality(B) /\ (Cardinality(A) = Cardinality(B) => A = B)
        BY <2>1, <2>3, FS_Subset
    <2>5. A # B
        BY <2>2
    <2>6. Cardinality(A) < Cardinality(B)
        BY <2>3, <2>4, <2>5
    <2> QED  BY <2>6 DEF A, B
<1> DEFINE f == [k \in K |-> rank(k)]
           T == 0..N - 1
<1>5. f \in Injection(K, T)
    <2>1. f \in [K -> T]
        BY <1>3
    <2>2. ASSUME NEW j \in K, NEW k \in K, f[j] = f[k]
          PROVE  j = k
        <3>1. rank(j) = rank(k) /\ rank(j) \in Nat /\ rank(k) \in Nat
            BY <1>3, <2>2
        <3>2. j = k \/ <<j, k>> \in R \/ <<k, j>> \in R
            BY DEF Orders
        <3> HIDE DEF rank
        <3> QED  BY <1>4, <3>1, <3>2
    <2> HIDE DEF f, T
    <2> QED  BY <2>1, <2>2 DEF Injection, IsInjective
<1>6. IsFiniteSet(T) /\ Cardinality(T) = N
    BY FS_Interval
<1>7. f \in Surjection(K, T)
    <2> HIDE DEF f, T, K
    <2> QED  BY <1>1, <1>5, <1>6, FS_Injection
<1>8. ASSUME NEW place \in 1..N
      PROVE  \E k \in K : rank(k) = place - 1
    <2>1. place - 1 \in T
        OBVIOUS
    <2> QED  BY <1>7, <2>1 DEF Surjection
<1> QED  BY <1>3, <1>4, <1>8

(* Two sequences of the same values, both in order, are one.             *)
Ascends(s, N, R) == \A p, q \in 1..N : p < q => <<s[q], s[p]>> \notin R

StrictlyOrders(R, X) ==
    /\ \A x \in X : <<x, x>> \notin R
    /\ \A x, y \in X : x = y \/ <<x, y>> \in R \/ <<y, x>> \in R
    /\ \A x, y, z \in X : <<y, x>> \notin R /\ <<y, z>> \in R => <<x, z>> \in R

Rearranges(s, u, t, N) == t \in Injection(1..N, 1..N) /\ \A q \in 1..N : u[t[q]] = s[q]

LEMMA NoneEarlier ==
    ASSUME NEW N \in Nat, NEW X, NEW R, StrictlyOrders(R, X),
           NEW s \in [1..N -> X], NEW u \in [1..N -> X], Ascends(s, N, R), Ascends(u, N, R),
           NEW t, Rearranges(s, u, t, N), NEW p \in 1..N
    PROVE  <<s[p], u[p]>> \notin R
<1> SUFFICES ASSUME <<s[p], u[p]>> \in R, t \in Injection(1..N, 1..N),
                    \A q \in 1..N : u[t[q]] = s[q]
             PROVE  FALSE
    BY DEF Rearranges
<1>1. ASSUME NEW q \in 1..p
      PROVE  t[q] \in 1..p - 1
    <2>1. q \in 1..N /\ t[q] \in 1..N /\ u[t[q]] = s[q]
        BY DEF Injection
    <2>2. <<s[p], s[q]>> \notin R \/ q = p
        BY <2>1 DEF Ascends
    <2>3. <<s[q], u[p]>> \in R
        BY <2>1, <2>2 DEF StrictlyOrders
    <2>4. ASSUME p < t[q]
          PROVE  FALSE
        <3>1. <<u[t[q]], u[p]>> \notin R
            BY <2>1, <2>4 DEF Ascends
        <3> QED  BY <2>1, <2>3, <3>1
    <2>5. t[q] # p
        <3> SUFFICES ASSUME t[q] = p PROVE FALSE
            OBVIOUS
        <3>1. <<u[p], u[p]>> \in R
            BY <2>1, <2>3
        <3> QED  BY <3>1 DEF StrictlyOrders
    <2> QED  BY <2>1, <2>4, <2>5
<1> DEFINE f == [q \in 1..p |-> t[q]]
<1>2. f \in [1..p -> 1..p - 1] /\ p \in Nat
    BY <1>1
<1>3. /\ IsFiniteSet(1..p) /\ IsFiniteSet(1..p - 1)
      /\ Cardinality(1..p - 1) < Cardinality(1..p)
    <2>1. p \in Nat \ {0} /\ 1 \in Int /\ p - 1 \in Int
        OBVIOUS
    <2>2. IsFiniteSet(1..p) /\ Cardinality(1..p) = p
        BY <2>1, FS_Interval
    <2> DEFINE m == p - 1
    <2>3. m \in Nat /\ m < p
        BY <2>1
    <2> HIDE DEF m
    <2>4. IsFiniteSet(1..m) /\ Cardinality(1..m) = m
        <3>1. 1 \in Int /\ m \in Int
            BY <2>3
        <3>2. IsFiniteSet(1..m) /\ Cardinality(1..m) = IF 1 > m THEN 0 ELSE m - 1 + 1
            BY <3>1, FS_Interval
        <3> QED  BY <2>3, <3>2
    <2> QED  BY <2>2, <2>3, <2>4 DEF m
<1>4. PICK q, r \in 1..p : q # r /\ f[q] = f[r]
    <2> HIDE DEF f
    <2> DEFINE A == 1..p
               B == 1..p - 1
    <2>1. f \in [A -> B] /\ IsFiniteSet(A) /\ IsFiniteSet(B) /\ Cardinality(B) < Cardinality(A)
        BY <1>2, <1>3
    <2> HIDE DEF A, B
    <2>2. \E x, y \in A : x # y /\ f[x] = f[y]
        BY <2>1, FS_PigeonHole
    <2> QED  BY <2>2 DEF A
<1>5. t[q] = t[r] /\ q \in 1..N /\ r \in 1..N
    BY <1>4
<1> QED  BY <1>4, <1>5 DEF Injection, IsInjective

LEMMA OneSorting ==
    ASSUME NEW N \in Nat, NEW X, NEW R, StrictlyOrders(R, X),
           NEW s \in [1..N -> X], NEW u \in [1..N -> X], Ascends(s, N, R), Ascends(u, N, R),
           NEW t, Rearranges(s, u, t, N)
    PROVE  s = u
<1> SUFFICES ASSUME t \in Injection(1..N, 1..N), \A q \in 1..N : u[t[q]] = s[q]
             PROVE  s = u
    BY DEF Rearranges
<1> DEFINE K == 1..N
           back == [k \in K |-> CHOOSE q \in K : t[q] = k]
<1>1. t \in Surjection(K, K)
    BY FS_Interval, FS_Injection
<1>2. \A k \in K : back[k] \in K /\ t[back[k]] = k
    BY <1>1 DEF Surjection
<1>3. back \in [K -> K]
    BY <1>2
<1> HIDE DEF back
<1>4. back \in Injection(K, K)
    <2>1. \A j, k \in K : back[j] = back[k] => j = k
        BY <1>2
    <2> HIDE DEF K
    <2> QED  BY <1>3, <2>1 DEF Injection, IsInjective
<1>5. \A k \in K : s[back[k]] = u[k]
    BY <1>2
<1>6. ASSUME NEW p \in K
      PROVE  s[p] = u[p]
    <2>1. <<s[p], u[p]>> \notin R
        BY NoneEarlier
    <2>2. <<u[p], s[p]>> \notin R
        <3>1. Rearranges(u, s, back, N)
            BY <1>4, <1>5 DEF Rearranges
        <3> QED  BY <3>1, NoneEarlier
    <2> QED  BY <2>1, <2>2 DEF StrictlyOrders
<1> QED  BY <1>6

=============================================================================
