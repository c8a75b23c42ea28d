-------------------------- MODULE PostStack_proofs --------------------------
(***************************************************************************)
(* Proofs about PostStack, for any effects, render orders and availability *)
(* providers: the temporary texture is given back whatever happens, a    *)
(* frame throws for the two known reasons only, the two registries agree, *)
(* and a frame shows the chain of its passes.                            *)
(***************************************************************************)
EXTENDS PostStack, Induction, SequenceTheorems

Frames == [pc : {"idle", "passes", "failed", "done"}, at : Nat,
           cur : {"src", "ping"}, next : {"src", "ping"},
           enabled : SUBSET Effects, lutTexture : BOOLEAN]

FramesAwake == frame.pc \in {"passes", "failed"} => stage = "awake"

(* The audit of Awake, with the provider it falls back to.               *)
AuditFaithful ==
    stage = "awake" /\ availability = Default => supported = materials

IInv ==
    /\ frame \in Frames
    /\ TemporaryReturned
    /\ FramesAwake
    /\ AuditFaithful
    /\ FailuresExplained

(* The call of a frame is a frame.                                       *)
LEMMA CalledIsFrame ==
    ASSUME NEW pc \in {"idle", "passes", "failed", "done"},
           NEW enabled \in SUBSET Effects, NEW lutTexture \in BOOLEAN
    PROVE  /\ Called(pc, enabled, lutTexture) \in Frames
           /\ Called(pc, enabled, lutTexture).pc = pc
  BY DEF Called, NoFrame, Frames

(* A built-in provider that throws was vouched for by an injected provider *)
(* of availability, since the audit of the default one is faithful.      *)
LEMMA ThrowIsVouchedFor ==
    ASSUME IInv, FailPass
    PROVE  availability # Default /\ supported \ materials # {}
<1>1. stage = "awake"
  BY DEF IInv, FramesAwake, FailPass, Drawing
<1>2. Pass \in supported \ materials
  BY DEF FailPass, ApplyParamsThrows, Runs, IsSupported
<1>. QED
  BY <1>1, <1>2 DEF IInv, AuditFaithful

LEMMA InitEstablishes == Init => IInv
<1>. SUFFICES ASSUME Init PROVE IInv
  OBVIOUS
<1>1. frame \in Frames /\ frame.pc = "idle" /\ ~ping /\ stage = "constructed"
  BY DEF Init, NoFrame, Frames
<1>. QED
  BY <1>1 DEF IInv, TemporaryReturned, FramesAwake, AuditFaithful, FailuresExplained

(* One step per action.  Outside a frame nothing a failed frame depends on *)
(* is changed before Present has taken the frame away.                   *)
LEMMA NextPreserves == IInv /\ [Next]_vars => IInv'
<1>. SUFFICES ASSUME IInv, [Next]_vars PROVE IInv'
  OBVIOUS
<1>. USE DEF TemporaryReturned, FramesAwake, AuditFaithful, FailuresExplained
<1>1. ASSUME NEW claimed \in Overrides, SetAvailabilityProvider(claimed) PROVE IInv'
  BY <1>1 DEF IInv, SetAvailabilityProvider, drawing
<1>2. ASSUME NEW found \in SUBSET Effects, Awake(found) PROVE IInv'
  BY <1>2 DEF IInv, Awake, drawing
<1>3. CASE OnDestroy
  BY <1>3 DEF IInv, OnDestroy, Between
<1>4. CASE Construct
  <2>1. frame' \in Frames /\ frame'.pc = "idle" /\ ~ping' /\ stage' = "constructed"
    BY <1>4 DEF Construct, NoFrame, Frames
  <2>. QED
    BY <2>1 DEF IInv
<1>5. ASSUME NEW e \in Effects, NEW kind \in Kinds, RegisterPass(e, kind) PROVE IInv'
  BY <1>5 DEF IInv, RegisterPass, Between, setup, drawing
<1>6. ASSUME NEW e \in Effects, UnregisterPass(e) PROVE IInv'
  BY <1>6 DEF IInv, UnregisterPass, Between, setup, drawing
<1>7. ASSUME NEW wanted \in RenderOrders, OrderPasses(wanted) PROVE IInv'
  BY <1>7 DEF IInv, OrderPasses, Between, setup, drawing
<1>8. CASE InitPasses
  BY <1>8 DEF IInv, InitPasses, Between, setup, drawing
<1>9. ASSUME NEW enabled \in SUBSET Effects, NEW lutTexture \in BOOLEAN,
             BlitThrough(enabled, lutTexture)
      PROVE  IInv'
  BY <1>9, CalledIsFrame DEF IInv, BlitThrough, Between, setup
<1>10. ASSUME NEW enabled \in SUBSET Effects, NEW lutTexture \in BOOLEAN,
              OnRenderImage(enabled, lutTexture)
       PROVE  IInv'
  <2>1. CASE Strays(registry) # {}
    BY <1>10, <2>1, CalledIsFrame DEF IInv, OnRenderImage, setup
  <2>2. CASE Strays(registry) = {}
    <3>1. frame' = [Called("passes", enabled, lutTexture) EXCEPT !.at = 1] /\ ping'
      BY <1>10, <2>2 DEF OnRenderImage
    <3>2. frame' \in Frames /\ frame'.pc = "passes"
      BY <3>1, CalledIsFrame DEF Frames
    <3>. QED
      BY <1>10, <3>1, <3>2 DEF IInv, OnRenderImage, setup
  <2>. QED
    BY <2>1, <2>2
<1>11. CASE SkipPass
  BY <1>11 DEF IInv, SkipPass, Drawing, Advanced, Frames, setup
<1>12. CASE CompositeLut
  BY <1>12 DEF IInv, CompositeLut, Drawing, Advanced, Frames, setup
<1>13. CASE DrawPass
  <2>0. Advanced \in Frames /\ Advanced.pc = frame.pc
    BY DEF IInv, Advanced, Frames
  <2>1. frame' \in Frames /\ frame'.pc = frame.pc
    <3>1. CASE Draws(Pass)
      <4>1. frame' = [Advanced EXCEPT !.cur = frame.next, !.next = frame.cur]
        BY <1>13, <3>1 DEF DrawPass
      <4>2. frame.cur \in {"src", "ping"} /\ frame.next \in {"src", "ping"}
        BY DEF IInv, Frames
      <4>. QED
        BY <2>0, <4>1, <4>2 DEF Frames
    <3>2. CASE ~Draws(Pass)
      BY <1>13, <3>2, <2>0 DEF DrawPass
    <3>. QED
      BY <3>1, <3>2
  <2>. QED
    BY <1>13, <2>1 DEF IInv, DrawPass, Drawing, setup
<1>14. CASE FailPass
  <2>1. frame' \in Frames /\ frame'.pc = "failed" /\ ~ping'
    BY <1>14 DEF IInv, FailPass, Frames
  <2>2. availability # Default /\ supported \ materials # {}
    BY <1>14, ThrowIsVouchedFor
  <2>. QED
    BY <1>14, <2>1, <2>2 DEF IInv, FailPass, Drawing, setup
<1>15. CASE FinishFrame
  <2>1. frame' \in Frames /\ frame'.pc = "done" /\ ~ping'
    BY <1>15 DEF IInv, FinishFrame, Frames
  <2>. QED
    BY <1>15, <2>1 DEF IInv, FinishFrame, setup
<1>16. CASE Present
  <2>1. frame' \in Frames /\ frame'.pc = "idle"
    BY <1>16 DEF Present, NoFrame, Frames
  <2>. QED
    BY <1>16, <2>1 DEF IInv, Present, setup
<1>17. CASE UNCHANGED vars
  BY <1>17 DEF IInv, vars
<1>. QED
  BY <1>1, <1>2, <1>3, <1>4, <1>5, <1>6, <1>7, <1>8, <1>9, <1>10, <1>11, <1>12,
     <1>13, <1>14, <1>15, <1>16, <1>17 DEF Next

LEMMA Invariance == Spec => []IInv
  BY InitEstablishes, NextPreserves, PTL DEF Spec

(* The temporary texture is held exactly while passes are drawn: no path *)
(* out of a frame, normal or exceptional, keeps it.                      *)
THEOREM TemporaryReturnedHolds == Spec => []TemporaryReturned
<1>1. IInv => TemporaryReturned
  BY DEF IInv
<1>. QED
  BY <1>1, Invariance, PTL

(* A frame throws only because the order names an effect nobody registered *)
(* or because an injected availability provider vouched for a shader that *)
(* was not found; with the default provider the audit excludes the latter. *)
THEOREM FailuresExplainedHolds == Spec => []FailuresExplained
<1>1. IInv => FailuresExplained
  BY DEF IInv
<1>. QED
  BY <1>1, Invariance, PTL

---------------------------------------------------------------------------
(* Kept, by the list it is taken from.  The function it is defined by    *)
(* exists, so that it can be unfolded.                                   *)
KeepsStepwise(f, s, S) ==
    /\ f[0] = << >>
    /\ \A n \in 1..Len(s) : f[n] = IF s[n] \in S THEN Append(f[n - 1], s[n]) ELSE f[n - 1]
    /\ Kept(s, S) = f[Len(s)]

LEMMA KeptStepwise ==
    ASSUME NEW X, NEW s \in Seq(X), NEW S
    PROVE  \E f \in [0..Len(s) -> Seq(X)] : KeepsStepwise(f, s, S)
<1> DEFINE N == Len(s)
           next == [n \in 1..N |-> [t \in Seq(X) |-> IF s[n] \in S THEN Append(t, s[n]) ELSE t]]
           kept[n \in 0..N] ==
               IF n = 0 THEN << >>
               ELSE IF s[n] \in S THEN Append(kept[n - 1], s[n]) ELSE kept[n - 1]
           body(h) == [n \in 0..N |->
               IF n = 0 THEN << >>
               ELSE IF s[n] \in S THEN Append(h[n - 1], s[n]) ELSE h[n - 1]]
<1>1. N \in Nat /\ << >> \in Seq(X) /\ \A n \in 1..N : s[n] \in X
    OBVIOUS
<1>2. next \in [1..N -> [Seq(X) -> Seq(X)]]
    BY <1>1
<1>3. kept = CHOOSE h : h = body(h)
    OBVIOUS
<1>4. Kept(s, S) = kept[N]
    BY DEF Kept
<1> HIDE DEF kept, N, next
<1>5. PICK first : first = << >> /\ first \in Seq(X)
    BY <1>1
<1>6. PICK f \in [0..N -> Seq(X)] : f[0] = first /\ \A n \in 1..N : f[n] = next[n][f[n - 1]]
    <2> DEFINE Q == Seq(X)
    <2>1. first \in Q /\ next \in [1..N -> [Q -> Q]]
        BY <1>2, <1>5
    <2> HIDE DEF body, Q
    <2>2. \E f \in [0..N -> Q] : Follows(f, N, first, next)
        BY <1>1, <2>1, Recursion
    <2> QED  BY <2>2 DEF Q, Follows
<1>7. ASSUME NEW n \in 1..N
      PROVE  f[n] = IF s[n] \in S THEN Append(f[n - 1], s[n]) ELSE f[n - 1]
    <2>1. n - 1 \in 0..N /\ f[n - 1] \in Seq(X)
        BY <1>1
    <2>2. next[n] = [t \in Seq(X) |-> IF s[n] \in S THEN Append(t, s[n]) ELSE t]
        BY DEF next
    <2> QED  BY <1>6, <2>1, <2>2
<1>8. f = body(f)
    <2>1. f = [n \in 0..N |-> f[n]]
        OBVIOUS
    <2>2. \A n \in 0..N : n = 0 \/ n \in 1..N
        BY <1>1
    <2>3. \A n \in 0..N : f[n] = IF n = 0 THEN << >>
                                 ELSE IF s[n] \in S THEN Append(f[n - 1], s[n]) ELSE f[n - 1]
        BY <1>5, <1>6, <1>7, <2>2
    <2> QED  BY <2>1, <2>3
<1>9. kept = body(kept)
    <2> HIDE DEF body
    <2> QED  BY <1>3, <1>8
<1>10. kept[0] = << >>
    BY <1>1, <1>9
<1>11. ASSUME NEW n \in 1..N
       PROVE  kept[n] = IF s[n] \in S THEN Append(kept[n - 1], s[n]) ELSE kept[n - 1]
    <2>1. n \in 0..N /\ n # 0
        BY <1>1
    <2> QED  BY <1>9, <2>1
<1>12. \A n \in 0..N : kept[n] \in Seq(X)
    <2> DEFINE T == {n \in 0..N : kept[n] \in Seq(X)}
    <2>1. 0 \in T
        <3>1. kept[0] \in Seq(X)
            BY <1>5, <1>10
        <3> QED  BY <1>1, <3>1
    <2>2. ASSUME NEW n \in 0..N - 1, n \in T
          PROVE  n + 1 \in T
        <3>1. n + 1 \in 1..N /\ (n + 1) - 1 = n
            BY <1>1
        <3>2. Append(kept[n], s[n + 1]) \in Seq(X)
            BY <1>1, <2>2, <3>1
        <3>3. kept[n + 1] \in Seq(X)
            <4>1. kept[n + 1] = IF s[n + 1] \in S THEN Append(kept[n], s[n + 1]) ELSE kept[n]
                BY <1>11, <3>1
            <4> QED  BY <2>2, <3>2, <4>1
        <3> QED  BY <1>1, <3>1, <3>3
    <2> HIDE DEF T
    <2>3. 0..N \subseteq T
        BY <1>1, <2>1, <2>2, UpTo
    <2> QED  BY <2>3 DEF T
<1>13. kept \in [0..N -> Seq(X)]
    <2>1. kept = [n \in 0..N |-> kept[n]]
        BY <1>9
    <2> QED  BY <1>12, <2>1
<1> QED  BY <1>4, <1>10, <1>11, <1>13 DEF N, KeepsStepwise

(* What is kept of the first n elements grows with n.                    *)
Prefix(s, n) == SubSeq(s, 1, n)

LEMMA PrefixOf ==
    ASSUME NEW X, NEW s \in Seq(X)
    PROVE  /\ Prefix(s, 0) = << >> /\ Prefix(s, Len(s)) = s
           /\ \A n \in 0..Len(s) :
                /\ Prefix(s, n) \in Seq(X) /\ Len(Prefix(s, n)) = n
                /\ \A k \in 1..n : Prefix(s, n)[k] = s[k]
<1>1. ASSUME NEW n \in 0..Len(s)
      PROVE  /\ Prefix(s, n) \in Seq(X) /\ Len(Prefix(s, n)) = n
             /\ \A k \in 1..n : Prefix(s, n)[k] = s[k]
    BY DEF Prefix
<1>2. Len(s) \in 0..Len(s) /\ 0 \in 0..Len(s)
    OBVIOUS
<1>3. Prefix(s, Len(s)) = s
    BY <1>1, <1>2
<1>4. Prefix(s, 0) = << >>
    BY <1>1, <1>2
<1>5. \A n \in 0..Len(s) :
         /\ Prefix(s, n) \in Seq(X) /\ Len(Prefix(s, n)) = n
         /\ \A k \in 1..n : Prefix(s, n)[k] = s[k]
    BY <1>1
<1> QED  BY <1>3, <1>4, <1>5, Zenon

LEMMA PrefixGrows ==
    ASSUME NEW X, NEW s \in Seq(X), NEW n \in 0..Len(s) - 1
    PROVE  Prefix(s, n + 1) = Append(Prefix(s, n), s[n + 1])
    BY DEF Prefix

LEMMA KeptByPrefix ==
    ASSUME NEW X, NEW s \in Seq(X), NEW S, NEW f \in [0..Len(s) -> Seq(X)],
           KeepsStepwise(f, s, S), NEW n \in 0..Len(s)
    PROVE  Kept(Prefix(s, n), S) = f[n]
<1> DEFINE t == Prefix(s, n)
<1>1. t \in Seq(X) /\ Len(t) = n /\ \A k \in 1..n : t[k] = s[k]
    BY PrefixOf
<1> HIDE DEF t
<1>2. PICK g \in [0..n -> Seq(X)] : KeepsStepwise(g, t, S)
    BY <1>1, KeptStepwise
<1> DEFINE T == {k \in 0..n : g[k] = f[k]}
<1>3. 0 \in T
    BY <1>2 DEF KeepsStepwise
<1>4. ASSUME NEW k \in 0..n - 1, k \in T
      PROVE  k + 1 \in T
    <2>1. k + 1 \in 1..n /\ k + 1 \in 1..Len(s) /\ (k + 1) - 1 = k
        OBVIOUS
    <2>2. g[k + 1] = IF s[k + 1] \in S THEN Append(g[k], s[k + 1]) ELSE g[k]
        BY <1>1, <1>2, <2>1 DEF KeepsStepwise
    <2>3. f[k + 1] = IF s[k + 1] \in S THEN Append(f[k], s[k + 1]) ELSE f[k]
        BY <2>1 DEF KeepsStepwise
    <2> QED  BY <1>4, <2>1, <2>2, <2>3
<1>5. n \in T
    <2> HIDE DEF T
    <2>1. n \in Nat
        OBVIOUS
    <2>2. 0..n \subseteq T
        BY <1>3, <1>4, <2>1, UpTo
    <2> QED  BY <2>2
<1>6. Kept(t, S) = g[n]
    BY <1>1, <1>2 DEF KeepsStepwise
<1> QED  BY <1>5, <1>6 DEF t

LEMMA KeptGrows ==
    ASSUME NEW X, NEW s \in Seq(X), NEW S
    PROVE  /\ Kept(Prefix(s, 0), S) = << >> /\ Kept(Prefix(s, Len(s)), S) = Kept(s, S)
           /\ \A n \in 0..Len(s) : Kept(Prefix(s, n), S) \in Seq(X)
           /\ \A n \in 0..Len(s) - 1 :
                Kept(Prefix(s, n + 1), S) =
                    IF s[n + 1] \in S THEN Append(Kept(Prefix(s, n), S), s[n + 1])
                    ELSE Kept(Prefix(s, n), S)
<1>1. PICK f \in [0..Len(s) -> Seq(X)] : KeepsStepwise(f, s, S)
    BY KeptStepwise
<1>2. \A n \in 0..Len(s) : Kept(Prefix(s, n), S) = f[n]
    BY <1>1, KeptByPrefix
<1>3. Prefix(s, Len(s)) = s
    BY PrefixOf
<1>4. ASSUME NEW n \in 0..Len(s) - 1
      PROVE  f[n + 1] = IF s[n + 1] \in S THEN Append(f[n], s[n + 1]) ELSE f[n]
    <2>1. n + 1 \in 1..Len(s) /\ (n + 1) - 1 = n
        OBVIOUS
    <2> QED  BY <1>1, <2>1 DEF KeepsStepwise
<1>5. f[0] = << >>
    BY <1>1 DEF KeepsStepwise
<1>6. \A n \in 0..Len(s) - 1 : n \in 0..Len(s) /\ n + 1 \in 0..Len(s)
    OBVIOUS
<1>7. 0 \in 0..Len(s) /\ Len(s) \in 0..Len(s)
    OBVIOUS
<1>8. Kept(Prefix(s, 0), S) = << >> /\ Kept(Prefix(s, Len(s)), S) = Kept(s, S)
    BY <1>2, <1>3, <1>5, <1>7
<1>9. \A n \in 0..Len(s) : Kept(Prefix(s, n), S) \in Seq(X)
    BY <1>2
<1> QED  BY <1>2, <1>4, <1>6, <1>8, <1>9

LEMMA KeptNext ==
    ASSUME NEW X, NEW s \in Seq(X), NEW S, NEW n \in 0..Len(s) - 1
    PROVE  Kept(Prefix(s, n + 1), S) =
             IF s[n + 1] \in S THEN Append(Kept(Prefix(s, n), S), s[n + 1])
             ELSE Kept(Prefix(s, n), S)
    BY KeptGrows

(* Append adds one effect at the end.                                    *)
LEMMA AppendedTo ==
    ASSUME NEW X, NEW t \in Seq(X), NEW x \in X
    PROVE  /\ ToSet(Append(t, x)) = ToSet(t) \cup {x}
           /\ IsInjective(t) /\ x \notin ToSet(t) => IsInjective(Append(t, x))
<1> DEFINE a == Append(t, x)
           L == Len(t)
<1>1. L \in Nat /\ DOMAIN t = 1..L
    OBVIOUS
<1>2. DOMAIN a = 1..L + 1 /\ Len(a) = L + 1 /\ a[L + 1] = x
    OBVIOUS
<1>3. \A k \in 1..L : a[k] = t[k]
    OBVIOUS
<1> HIDE DEF a, L
<1>4. \A k \in 1..L + 1 : k \in 1..L \/ k = L + 1
    BY <1>1
<1>5. \A k \in 1..L : k \in 1..L + 1
    BY <1>1
<1>6. L + 1 \in 1..L + 1
    BY <1>1
<1>7. ToSet(t) = {t[k] : k \in 1..L} /\ ToSet(a) = {a[k] : k \in 1..L + 1}
    BY <1>1, <1>2 DEF ToSet
<1>8. ToSet(a) = ToSet(t) \cup {x}
    BY <1>2, <1>3, <1>4, <1>5, <1>6, <1>7
<1>9. IsInjective(t) /\ x \notin ToSet(t) => IsInjective(a)
    BY <1>1, <1>2, <1>3, <1>4, <1>7 DEF IsInjective
<1> QED  BY <1>8, <1>9 DEF a

(* What is kept of a list without repetition names no effect twice, and  *)
(* names those of the list that are members of the set.                  *)
LEMMA KeptMembers ==
    ASSUME NEW X, NEW s \in Seq(X), NEW S, IsInjective(s)
    PROVE  /\ Kept(s, S) \in Seq(X)
           /\ ToSet(Kept(s, S)) = ToSet(s) \cap S
           /\ IsInjective(Kept(s, S))
<1> DEFINE K(n) == Kept(Prefix(s, n), S)
           N == Len(s)
           good(n) == /\ \A x \in ToSet(K(n)) : x \in S /\ \E k \in 1..n : s[k] = x
                      /\ \A k \in 1..n : s[k] \in S => s[k] \in ToSet(K(n))
                      /\ IsInjective(K(n))
           T == {n \in 0..N : good(n)}
<1>1. N \in Nat /\ DOMAIN s = 1..N
    OBVIOUS
<1>2. /\ K(0) = << >> /\ K(N) = Kept(s, S)
      /\ \A n \in 0..N : K(n) \in Seq(X)
      /\ \A n \in 0..N - 1 : K(n + 1) = IF s[n + 1] \in S THEN Append(K(n), s[n + 1]) ELSE K(n)
    <2>1. K(0) = << >> /\ K(N) = Kept(s, S)
        BY KeptGrows
    <2>2. \A n \in 0..N : K(n) \in Seq(X)
        BY KeptGrows
    <2>3. ASSUME NEW n \in 0..N - 1
          PROVE  K(n + 1) = IF s[n + 1] \in S THEN Append(K(n), s[n + 1]) ELSE K(n)
        BY KeptNext
    <2> QED  BY <2>1, <2>2, <2>3
<1>3. 0 \in T
    <2> HIDE DEF K
    <2> QED  BY <1>1, <1>2 DEF ToSet, IsInjective
<1>4. ASSUME NEW n \in 0..N - 1, n \in T
      PROVE  n + 1 \in T
    <2> DEFINE t == K(n)
               x == s[n + 1]
    <2>1. t \in Seq(X) /\ n + 1 \in 1..N /\ x \in X /\ n + 1 \in 0..N /\ n \in 0..N
        BY <1>1, <1>2
    <2>2. good(n)
        BY <1>4
    <2>3. K(n + 1) = IF x \in S THEN Append(t, x) ELSE t
        BY <1>2
    <2>4. \A k \in 1..n + 1 : k \in 1..n \/ k = n + 1
        BY <1>1
    <2>5. \A k \in 1..n : k \in 1..n + 1 /\ s[k] # x
        BY <1>1, <2>1 DEF IsInjective
    <2>6. x \notin ToSet(t)
        BY <2>2, <2>5
    <2> DEFINE u == K(n + 1)
    <2>7. u = IF x \in S THEN Append(t, x) ELSE t
        BY <2>3
    <2> HIDE DEF x, K, t, u
    <2>8. ToSet(Append(t, x)) = ToSet(t) \cup {x}
        BY <2>1, AppendedTo
    <2>9. IsInjective(t) => IsInjective(Append(t, x))
        BY <2>1, <2>6, AppendedTo
    <2>10. good(n) <=> /\ \A y \in ToSet(t) : y \in S /\ \E k \in 1..n : s[k] = y
                       /\ \A k \in 1..n : s[k] \in S => s[k] \in ToSet(t)
                       /\ IsInjective(t)
        BY DEF t
    <2>11. good(n + 1) <=> /\ \A y \in ToSet(u) : y \in S /\ \E k \in 1..n + 1 : s[k] = y
                           /\ \A k \in 1..n + 1 : s[k] \in S => s[k] \in ToSet(u)
                           /\ IsInjective(u)
        BY DEF u
    <2>12. s[n + 1] = x /\ n + 1 \in 1..n + 1
        BY <2>1 DEF x
    <2> HIDE DEF good
    <2>13. CASE x \in S
        <3>1. u = Append(t, x)
            BY <2>7, <2>13
        <3> QED  BY <2>1, <2>2, <2>4, <2>5, <2>8, <2>9, <2>10, <2>11, <2>12, <2>13, <3>1
    <2>14. CASE x \notin S
        <3>1. u = t
            BY <2>7, <2>14
        <3> QED  BY <2>1, <2>2, <2>4, <2>5, <2>10, <2>11, <2>12, <2>14, <3>1
    <2> QED  BY <2>13, <2>14
<1>5. N \in T
    <2> HIDE DEF T
    <2>1. 0..N \subseteq T
        BY <1>1, <1>3, <1>4, UpTo
    <2> QED  BY <1>1, <2>1
<1>6. good(N) /\ N \in 0..N
    BY <1>1, <1>5
<1> DEFINE kept == Kept(s, S)
<1>7. /\ kept \in Seq(X)
      /\ \A x \in ToSet(kept) : x \in S /\ \E k \in 1..N : s[k] = x
      /\ \A k \in 1..N : s[k] \in S => s[k] \in ToSet(kept)
      /\ IsInjective(kept)
    BY <1>2, <1>6
<1>8. ToSet(s) = {s[k] : k \in 1..N}
    BY <1>1 DEF ToSet
<1> HIDE DEF kept, N, good
<1>9. ToSet(kept) = ToSet(s) \cap S
    BY <1>7, <1>8
<1> QED  BY <1>7, <1>9 DEF kept

(* A list of members is kept as it is.                                   *)
LEMMA KeptWhole ==
    ASSUME NEW X, NEW s \in Seq(X), NEW S, NEW n \in 0..Len(s), \A k \in 1..n : s[k] \in S
    PROVE  Kept(Prefix(s, n), S) = Prefix(s, n)
<1> DEFINE T == {k \in 0..n : Kept(Prefix(s, k), S) = Prefix(s, k)}
<1>1. n \in Nat /\ n <= Len(s)
    OBVIOUS
<1>2. 0 \in T
    BY KeptGrows, PrefixOf
<1>3. ASSUME NEW k \in 0..n - 1, k \in T
      PROVE  k + 1 \in T
    <2>1. k \in 0..Len(s) - 1 /\ k + 1 \in 1..n /\ k + 1 \in 0..n
        BY <1>1
    <2>2. Prefix(s, k + 1) = Append(Prefix(s, k), s[k + 1])
        BY <2>1, PrefixGrows
    <2>3. Kept(Prefix(s, k + 1), S) = Append(Kept(Prefix(s, k), S), s[k + 1])
        BY <2>1, KeptGrows
    <2> QED  BY <1>3, <2>1, <2>2, <2>3
<1> HIDE DEF T
<1>4. 0..n \subseteq T
    BY <1>1, <1>2, <1>3, UpTo
<1> QED  BY <1>1, <1>4 DEF T

(* From where no member follows, nothing more is kept.                   *)
LEMMA KeptEnds ==
    ASSUME NEW X, NEW s \in Seq(X), NEW S, NEW n \in 0..Len(s),
           \A k \in n + 1..Len(s) : s[k] \notin S
    PROVE  Kept(s, S) = Kept(Prefix(s, n), S)
<1> DEFINE M == Len(s) - n
           T == {k \in 0..M : Kept(Prefix(s, n + k), S) = Kept(Prefix(s, n), S)}
<1>1. M \in Nat /\ n + M = Len(s) /\ n + 0 = n
    OBVIOUS
<1>2. 0 \in T
    BY <1>1
<1>3. ASSUME NEW k \in 0..M - 1, k \in T
      PROVE  k + 1 \in T
    <2>1. /\ n + k \in 0..Len(s) - 1 /\ (n + k) + 1 = n + (k + 1)
          /\ n + (k + 1) \in n + 1..Len(s) /\ k + 1 \in 0..M
        BY <1>1
    <2>2. Kept(Prefix(s, n + (k + 1)), S) = Kept(Prefix(s, n + k), S)
        <3> DEFINE m == n + k
        <3>1. m \in 0..Len(s) - 1 /\ s[m + 1] \notin S
            BY <2>1
        <3> HIDE DEF m
        <3>2. Kept(Prefix(s, m + 1), S) = Kept(Prefix(s, m), S)
            BY <3>1, KeptNext
        <3> QED  BY <2>1, <3>2 DEF m
    <2> QED  BY <1>3, <2>1, <2>2
<1> HIDE DEF T
<1>4. M \in T
    <2> HIDE DEF M
    <2>1. 0..M \subseteq T
        BY <1>1, <1>2, <1>3, UpTo
    <2> QED  BY <1>1, <2>1
<1> QED  BY <1>1, <1>4, KeptGrows DEF T

(* List.Remove and Vec::retain do the same to a list without repetition. *)
LEMMA RemovedOnce ==
    ASSUME NEW X, NEW s \in Seq(X), NEW e, IsInjective(s)
    PROVE  FirstRemoved(s, e) = Without(s, {e})
<1> DEFINE S == ToSet(s) \ {e}
           N == Len(s)
<1>1. N \in Nat /\ DOMAIN s = 1..N /\ Without(s, {e}) = Kept(s, S)
    BY DEF Without
<1>2. \A k \in 1..N : s[k] \in S <=> s[k] # e
    BY <1>1 DEF ToSet
<1> HIDE DEF S
<1>3. CASE e \notin ToSet(s)
    <2>1. \A k \in 1..N : s[k] \in S
        BY <1>1, <1>2, <1>3 DEF ToSet
    <2>2. N \in 0..Len(s) /\ Prefix(s, N) = s
        BY <1>1, PrefixOf
    <2>3. Kept(Prefix(s, N), S) = Prefix(s, N)
        BY <2>1, <2>2, KeptWhole
    <2> QED  BY <1>1, <1>3, <2>2, <2>3 DEF FirstRemoved
<1>4. CASE e \in ToSet(s)
    <2> DEFINE first(i) == s[i] = e /\ \A j \in 1..i - 1 : s[j] # e
               at == CHOOSE i \in DOMAIN s : first(i)
    <2>1. PICK i \in 1..N : s[i] = e
        BY <1>1, <1>4 DEF ToSet
    <2>2. first(i)
        BY <1>1, <2>1 DEF IsInjective
    <2>3. at \in 1..N /\ s[at] = e
        BY <1>1, <2>2
    <2>4. FirstRemoved(s, e) = RemoveAt(s, at)
        BY <1>4 DEF FirstRemoved
    <2> HIDE DEF at
    <2>5. at = i
        BY <1>1, <2>1, <2>3 DEF IsInjective
    <2>6. \A k \in 1..N : s[k] # e <=> k # i
        BY <1>1, <2>1 DEF IsInjective
    <2> DEFINE before == SubSeq(s, 1, i - 1)
               rest(n) == before \o SubSeq(s, i + 1, n)
               M == N - i
               T == {k \in 0..M : Kept(Prefix(s, i + k), S) = rest(i + k)}
    <2>7. M \in Nat /\ i + M = N /\ i + 0 = i /\ i - 1 \in 0..N - 1 /\ (i - 1) + 1 = i
        BY <1>1
    <2>8. before \in Seq(X)
        BY <2>7
    <2>9. Kept(Prefix(s, i - 1), S) = before
        <3>1. i - 1 \in 0..Len(s) /\ \A k \in 1..i - 1 : s[k] \in S
            BY <1>1, <1>2, <2>6, <2>7
        <3> QED  BY <3>1, KeptWhole DEF Prefix
    <2>10. rest(i) = before
        <3>1. SubSeq(s, i + 1, i) = << >>
            BY <1>1
        <3> HIDE DEF before
        <3> QED  BY <2>8, <3>1
    <2>11. 0 \in T
        <3>1. s[i] \notin S
            BY <1>2, <2>6
        <3>2. Kept(Prefix(s, i), S) = Kept(Prefix(s, i - 1), S)
            BY <1>1, <2>7, <3>1, KeptGrows
        <3> HIDE DEF before
        <3> QED  BY <2>7, <2>9, <2>10, <3>2
    <2>12. ASSUME NEW k \in 0..M - 1, k \in T
           PROVE  k + 1 \in T
        <3> DEFINE n == i + k
        <3>1. n \in 0..N - 1 /\ n >= i /\ n + 1 = i + (k + 1) /\ n + 1 \in 1..N /\ k + 1 \in 0..M
            BY <1>1, <2>7
        <3>2. Kept(Prefix(s, n), S) = rest(n)
            BY <2>12
        <3> HIDE DEF n
        <3>3. s[n + 1] \in S
            BY <1>2, <2>6, <3>1
        <3>4. Kept(Prefix(s, n + 1), S) = Append(Kept(Prefix(s, n), S), s[n + 1])
            BY <1>1, <3>1, <3>3, KeptGrows
        <3>5. SubSeq(s, i + 1, n + 1) = Append(SubSeq(s, i + 1, n), s[n + 1])
            BY <1>1, <3>1
        <3>6. SubSeq(s, i + 1, n) \in Seq(X) /\ s[n + 1] \in X
            BY <1>1, <3>1
        <3>7. rest(n + 1) = Append(rest(n), s[n + 1])
            <4> DEFINE t == SubSeq(s, i + 1, n)
                       x == s[n + 1]
            <4> HIDE DEF before, t, x
            <4>1. t \in Seq(X) /\ x \in X /\ <<x>> \in Seq(X) /\ before \o t \in Seq(X)
                BY <2>8, <3>6 DEF t, x
            <4>2. Append(t, x) = t \o <<x>> /\ Append(before \o t, x) = (before \o t) \o <<x>>
                BY <4>1, AppendIsConcat
            <4>3. before \o Append(t, x) = Append(before \o t, x)
                BY <2>8, <4>1, <4>2, ConcatAssociative
            <4> QED  BY <3>5, <4>3 DEF t, x
        <3> HIDE DEF rest
        <3>8. Kept(Prefix(s, i + (k + 1)), S) = rest(i + (k + 1))
            BY <3>1, <3>2, <3>4, <3>7
        <3> QED  BY <3>1, <3>8
    <2>13. M \in T
        <3> HIDE DEF T, M
        <3>1. 0..M \subseteq T
            BY <2>7, <2>11, <2>12, UpTo
        <3> QED  BY <2>7, <3>1
    <2>14. Kept(s, S) = rest(N)
        <3>1. Kept(Prefix(s, N), S) = rest(N)
            BY <2>7, <2>13
        <3>2. Prefix(s, N) = s
            BY PrefixOf
        <3> QED  BY <3>1, <3>2
    <2> QED  BY <1>1, <2>4, <2>5, <2>14 DEF RemoveAt
<1> QED  BY <1>3, <1>4

---------------------------------------------------------------------------
(* The two registries after the same calls: they hold the same effects in *)
(* the same order, no effect is ordered twice, and every effect with a   *)
(* provider is ordered.                                                  *)
Mirrored(r, m) ==
    /\ r = [providers |-> r.providers, order |-> r.order]
    /\ r.order \in Seq(Effects) /\ IsInjective(r.order)
    /\ Registered(r) \subseteq ToSet(r.order)
    /\ m = [providers |-> Registered(r), render_order |-> r.order]

LEMMA EmptyMirrored == Mirrored(Empty, rust_empty)
    BY DEF Mirrored, Empty, rust_empty, Registered, IsInjective

LEMMA RegisterMirrored ==
    ASSUME NEW r, NEW m, Mirrored(r, m), NEW e \in Effects, NEW kind
    PROVE  Mirrored(Register(r, e, kind), rust_register(m, e))
<1> DEFINE s == Register(r, e, kind)
           order == r.order
<1>1. /\ order \in Seq(Effects) /\ IsInjective(order) /\ Registered(r) \subseteq ToSet(order)
      /\ m.providers = Registered(r) /\ m.render_order = order
    BY DEF Mirrored
<1>2. /\ Added(order, e) \in Seq(Effects) /\ IsInjective(Added(order, e))
      /\ ToSet(Added(order, e)) = ToSet(order) \cup {e}
    BY <1>1, AppendedTo DEF Added
<1>3. /\ s = [providers |-> s.providers, order |-> s.order] /\ s.order = Added(order, e)
      /\ Registered(s) = Registered(r) \cup {e}
    BY DEF Register, Registered
<1>4. rust_register(m, e) = [providers |-> Registered(s), render_order |-> s.order]
    BY <1>1, <1>3 DEF rust_register
<1> HIDE DEF s, order
<1> QED  BY <1>1, <1>2, <1>3, <1>4 DEF Mirrored, s

LEMMA UnregisterMirrored ==
    ASSUME NEW r, NEW m, Mirrored(r, m), NEW e \in Effects
    PROVE  Mirrored(Unregister(r, e), rust_unregister(m, e))
<1> DEFINE s == Unregister(r, e)
           order == r.order
<1>1. /\ order \in Seq(Effects) /\ IsInjective(order) /\ Registered(r) \subseteq ToSet(order)
      /\ m.providers = Registered(r) /\ m.render_order = order
    BY DEF Mirrored
<1>2. FirstRemoved(order, e) = Without(order, {e})
    BY <1>1, RemovedOnce
<1>3. /\ Without(order, {e}) \in Seq(Effects) /\ IsInjective(Without(order, {e}))
      /\ ToSet(Without(order, {e})) = ToSet(order) \cap (ToSet(order) \ {e})
    BY <1>1, KeptMembers DEF Without
<1>4. /\ s = [providers |-> s.providers, order |-> s.order] /\ s.order = Without(order, {e})
      /\ Registered(s) = Registered(r) \ {e}
    BY <1>2 DEF Unregister, Registered, Restrict
<1>5. rust_unregister(m, e) = [providers |-> Registered(s), render_order |-> s.order]
    BY <1>1, <1>4 DEF rust_unregister
<1> HIDE DEF s, order
<1> QED  BY <1>1, <1>3, <1>4, <1>5 DEF Mirrored, s

(* A list that is put in front of the effects it does not name.          *)
LEMMA OrderMirrored ==
    ASSUME NEW r, NEW m, Mirrored(r, m), NEW wanted \in RenderOrders
    PROVE  Mirrored(SetRenderOrder(r, wanted), rust_set_render_order(m, wanted))
<1> DEFINE s == SetRenderOrder(r, wanted)
           order == r.order
           rest == Without(order, ToSet(wanted))
           joined == wanted \o rest
<1>1. /\ order \in Seq(Effects) /\ IsInjective(order) /\ Registered(r) \subseteq ToSet(order)
      /\ r = [providers |-> r.providers, order |-> order]
      /\ m = [providers |-> Registered(r), render_order |-> order]
    BY DEF Mirrored
<1>2. wanted \in Seq(Effects) /\ IsInjective(wanted)
    BY RenderOrdersAssumption
<1>3. /\ rest \in Seq(Effects) /\ IsInjective(rest)
      /\ ToSet(rest) = ToSet(order) \cap (ToSet(order) \ ToSet(wanted))
    BY <1>1, KeptMembers DEF Without
<1>4. /\ s = [providers |-> s.providers, order |-> s.order] /\ s.order = joined
      /\ Registered(s) = Registered(r)
      /\ rust_set_render_order(m, wanted) = [providers |-> Registered(s), render_order |-> s.order]
    <2> HIDE DEF joined, order
    <2>1. Reordered(order, wanted) = joined
        BY DEF Reordered, joined
    <2>2. s = [providers |-> r.providers, order |-> joined]
        BY <1>1, <2>1 DEF SetRenderOrder, order
    <2>3. rust_set_render_order(m, wanted) = [providers |-> Registered(r), render_order |-> joined]
        BY <1>1, <2>1 DEF rust_set_render_order
    <2> HIDE DEF s
    <2> QED  BY <2>2, <2>3 DEF Registered
<1> HIDE DEF s, order, rest
<1>5. joined \in Seq(Effects) /\ Len(joined) = Len(wanted) + Len(rest)
    BY <1>2, <1>3
<1>6. /\ \A k \in 1..Len(wanted) : k \in 1..Len(joined) /\ joined[k] = wanted[k]
      /\ \A k \in 1..Len(rest) :
           Len(wanted) + k \in 1..Len(joined) /\ joined[Len(wanted) + k] = rest[k]
    BY <1>2, <1>3, <1>5, ConcatProperties
<1>7. \A k \in 1..Len(joined) :
        \/ k \in 1..Len(wanted) /\ joined[k] = wanted[k]
        \/ k - Len(wanted) \in 1..Len(rest) /\ joined[k] = rest[k - Len(wanted)]
    BY <1>2, <1>3, <1>5, ConcatProperties
<1> HIDE DEF joined
<1>8. /\ DOMAIN wanted = 1..Len(wanted) /\ DOMAIN rest = 1..Len(rest)
      /\ DOMAIN joined = 1..Len(joined)
      /\ Len(wanted) \in Nat /\ Len(rest) \in Nat
    BY <1>2, <1>3, <1>5
<1>9. ToSet(joined) = ToSet(wanted) \cup ToSet(rest)
    <2>1. /\ ToSet(joined) = {joined[k] : k \in 1..Len(joined)}
          /\ ToSet(wanted) = {wanted[k] : k \in 1..Len(wanted)}
          /\ ToSet(rest) = {rest[k] : k \in 1..Len(rest)}
        BY <1>8 DEF ToSet
    <2>2. ToSet(joined) \subseteq ToSet(wanted) \cup ToSet(rest)
        BY <1>7, <2>1
    <2>3. ToSet(wanted) \subseteq ToSet(joined)
        BY <1>6, <2>1
    <2>4. ToSet(rest) \subseteq ToSet(joined)
        BY <1>6, <2>1
    <2> QED  BY <2>2, <2>3, <2>4
<1>10. IsInjective(joined)
    <2>1. \A i \in 1..Len(wanted), j \in 1..Len(rest) : wanted[i] # rest[j]
        <3>1. \A i \in 1..Len(wanted) : wanted[i] \in ToSet(wanted)
            BY <1>8 DEF ToSet
        <3>2. \A j \in 1..Len(rest) : rest[j] \in ToSet(rest)
            BY <1>8 DEF ToSet
        <3> QED  BY <1>3, <3>1, <3>2
    <2>2. SUFFICES ASSUME NEW i \in 1..Len(joined), NEW j \in 1..Len(joined), joined[i] = joined[j]
                   PROVE  i = j
        BY <1>8 DEF IsInjective
    <2>3. \A a, b \in 1..Len(wanted) : wanted[a] = wanted[b] => a = b
        BY <1>2, <1>8 DEF IsInjective
    <2>4. \A a, b \in 1..Len(rest) : rest[a] = rest[b] => a = b
        BY <1>3, <1>8 DEF IsInjective
    <2>5. CASE i \in 1..Len(wanted) /\ joined[i] = wanted[i]
        BY <1>7, <2>1, <2>2, <2>3, <2>5
    <2>6. CASE i - Len(wanted) \in 1..Len(rest) /\ joined[i] = rest[i - Len(wanted)]
        <3>1. CASE j \in 1..Len(wanted) /\ joined[j] = wanted[j]
            BY <2>1, <2>2, <2>6, <3>1
        <3>2. CASE j - Len(wanted) \in 1..Len(rest) /\ joined[j] = rest[j - Len(wanted)]
            <4>1. i - Len(wanted) = j - Len(wanted)
                BY <2>2, <2>4, <2>6, <3>2
            <4> QED  BY <1>8, <4>1
        <3> QED  BY <1>7, <3>1, <3>2
    <2> QED  BY <1>7, <2>5, <2>6
<1>11. Registered(r) \subseteq ToSet(joined)
    BY <1>1, <1>3, <1>9
<1> QED  BY <1>4, <1>5, <1>10, <1>11 DEF Mirrored, s

(* PassRegistry.Init changes no effect.                                  *)
LEMMA InitMirrored ==
    ASSUME Mirrored(registry, mirror), InitPasses
    PROVE  Mirrored(registry', mirror')
<1>1. registry = [providers |-> registry.providers, order |-> registry.order]
    BY DEF Mirrored
<1>2. registry' = [providers |-> [e \in Registered(registry) |->
                       IF registry.providers[e] = "unbound" THEN "bound" ELSE registry.providers[e]],
                   order |-> registry.order]
    BY <1>1 DEF InitPasses, Registered
<1>3. Registered(registry') = Registered(registry) /\ registry'.order = registry.order
      /\ registry' = [providers |-> registry'.providers, order |-> registry'.order]
    BY <1>2 DEF Registered
<1>4. mirror' = mirror
    BY DEF InitPasses
<1> QED  BY <1>3, <1>4 DEF Mirrored

(* CreateDefault registers every built-in effect, in the canonical order. *)
LEMMA DefaultsByPrefix ==
    ASSUME NEW n \in 1..Len(Canonical)
    PROVE  /\ Added(Prefix(Canonical, n - 1), Canonical[n]) = Prefix(Canonical, n)
           /\ ToSet(Prefix(Canonical, n)) = ToSet(Prefix(Canonical, n - 1)) \cup {Canonical[n]}
<1> DEFINE t == Prefix(Canonical, n - 1)
<1>1. /\ n - 1 \in 0..Len(Canonical) - 1 /\ n - 1 \in 0..Len(Canonical) /\ (n - 1) + 1 = n
      /\ Canonical[n] \in Effects /\ Canonical \in Seq(Effects)
    BY CanonicalAssumption
<1>2. t \in Seq(Effects) /\ Len(t) = n - 1 /\ \A k \in 1..n - 1 : t[k] = Canonical[k]
    BY <1>1, PrefixOf
<1>3. Prefix(Canonical, n) = Append(t, Canonical[n])
    BY <1>1, PrefixGrows
<1> HIDE DEF t
<1>4. ToSet(t) = {t[k] : k \in 1..n - 1}
    BY <1>2 DEF ToSet
<1>5. \A k \in 1..n - 1 : Canonical[k] # Canonical[n]
    BY <1>1, CanonicalAssumption DEF IsInjective
<1>6. Canonical[n] \notin ToSet(t)
    BY <1>2, <1>4, <1>5
<1>7. ToSet(Append(t, Canonical[n])) = ToSet(t) \cup {Canonical[n]}
    BY <1>1, <1>2, AppendedTo
<1> QED  BY <1>3, <1>6, <1>7 DEF Added, t

LEMMA DefaultRegistryIs ==
    DefaultRegistry = [providers |-> [e \in Effects |-> "bound"], order |-> Canonical]
<1> DEFINE N == Len(Canonical)
           after[n \in 0..N] ==
               IF n = 0 THEN Empty ELSE Register(after[n - 1], Canonical[n], "bound")
           body(h) == [n \in 0..N |->
               IF n = 0 THEN Empty ELSE Register(h[n - 1], Canonical[n], "bound")]
           f == [n \in 0..N |->
                   [providers |-> [e \in ToSet(Prefix(Canonical, n)) |-> "bound"],
                    order |-> Prefix(Canonical, n)]]
<1>1. N \in Nat /\ Canonical \in Seq(Effects)
    BY CanonicalAssumption
<1>2. after = CHOOSE h : h = body(h)
    OBVIOUS
<1>3. DefaultRegistry = after[N]
    BY DEF DefaultRegistry
<1> HIDE DEF after
<1>4. f[0] = Empty
    <2>1. Prefix(Canonical, 0) = << >>
        BY <1>1, PrefixOf
    <2>2. ToSet(<< >>) = {}
        BY DEF ToSet
    <2>3. [e \in {} |-> "bound"] = [e \in {} |-> {}]
        OBVIOUS
    <2>4. 0 \in 0..N
        BY <1>1
    <2>5. f[0] = [providers |-> [e \in ToSet(Prefix(Canonical, 0)) |-> "bound"],
                  order |-> Prefix(Canonical, 0)]
        BY <2>4
    <2> HIDE DEF f
    <2>6. f[0] = [providers |-> [e \in {} |-> "bound"], order |-> << >>]
        BY <2>1, <2>2, <2>5, Zenon
    <2> QED  BY <2>3, <2>6 DEF Empty
<1>5. ASSUME NEW n \in 1..N
      PROVE  f[n] = Register(f[n - 1], Canonical[n], "bound")
    <2> DEFINE before == f[n - 1]
    <2>1. n - 1 \in 0..N /\ n \in 0..N
        BY <1>1
    <2>2. before = [providers |-> [e \in ToSet(Prefix(Canonical, n - 1)) |-> "bound"],
                    order |-> Prefix(Canonical, n - 1)]
        BY <2>1
    <2> HIDE DEF before
    <2>3. Registered(before) = ToSet(Prefix(Canonical, n - 1))
        BY <2>2 DEF Registered
    <2>4. [e \in ToSet(Prefix(Canonical, n - 1)) \cup {Canonical[n]} |->
               IF e = Canonical[n] THEN "bound" ELSE before.providers[e]]
            = [e \in ToSet(Prefix(Canonical, n)) |-> "bound"]
        <3>1. \A e \in ToSet(Prefix(Canonical, n - 1)) : before.providers[e] = "bound"
            BY <2>2
        <3>2. ToSet(Prefix(Canonical, n)) = ToSet(Prefix(Canonical, n - 1)) \cup {Canonical[n]}
            BY DefaultsByPrefix
        <3> QED  BY <3>1, <3>2
    <2>5. Register(before, Canonical[n], "bound")
            = [providers |-> [e \in ToSet(Prefix(Canonical, n)) |-> "bound"],
               order |-> Prefix(Canonical, n)]
        <3>1. Added(before.order, Canonical[n]) = Prefix(Canonical, n)
            BY <2>2, DefaultsByPrefix
        <3> QED  BY <2>3, <2>4, <3>1 DEF Register
    <2>6. f[n] = [providers |-> [e \in ToSet(Prefix(Canonical, n)) |-> "bound"],
                  order |-> Prefix(Canonical, n)]
        BY <2>1
    <2> QED  BY <2>5, <2>6 DEF before
<1>6. f[N] = [providers |-> [e \in Effects |-> "bound"], order |-> Canonical]
    <2>1. Prefix(Canonical, N) = Canonical /\ N \in 0..N
        BY <1>1, PrefixOf
    <2> QED  BY <2>1 DEF Effects
<1>7. DOMAIN f = 0..N
    OBVIOUS
<1>8. f = [n \in 0..N |-> f[n]]
    OBVIOUS
<1> HIDE DEF f
<1>9. f = body(f)
    <2>1. \A n \in 0..N : n = 0 \/ n \in 1..N
        BY <1>1
    <2>2. \A n \in 0..N :
            f[n] = IF n = 0 THEN Empty ELSE Register(f[n - 1], Canonical[n], "bound")
        BY <1>4, <1>5, <2>1
    <2> QED  BY <1>8, <2>2
<1>10. after = body(after)
    <2> HIDE DEF body
    <2> QED  BY <1>2, <1>9
<1> DEFINE T == {n \in 0..N : after[n] = f[n]}
<1> HIDE DEF N
<1>11. 0 \in T
    BY <1>1, <1>4, <1>10
<1>12. ASSUME NEW n \in 0..N - 1, n \in T
       PROVE  n + 1 \in T
    <2>1. n + 1 \in 1..N /\ n + 1 \in 0..N /\ n + 1 # 0 /\ (n + 1) - 1 = n
        BY <1>1
    <2>2. after[n + 1] = Register(after[n], Canonical[n + 1], "bound")
        BY <1>10, <2>1
    <2>3. f[n + 1] = Register(f[n], Canonical[n + 1], "bound")
        BY <1>5, <2>1
    <2> QED  BY <1>12, <2>1, <2>2, <2>3
<1>13. N \in T
    <2> HIDE DEF T
    <2>1. 0..N \subseteq T
        BY <1>1, <1>11, <1>12, UpTo
    <2> QED  BY <1>1, <2>1
<1> QED  BY <1>3, <1>6, <1>13

LEMMA DefaultMirrorIs ==
    DefaultMirror = [providers |-> Effects, render_order |-> Canonical]
<1> DEFINE N == Len(Canonical)
           after[n \in 0..N] ==
               IF n = 0 THEN rust_empty ELSE rust_register(after[n - 1], Canonical[n])
           body(h) == [n \in 0..N |->
               IF n = 0 THEN rust_empty ELSE rust_register(h[n - 1], Canonical[n])]
           f == [n \in 0..N |-> [providers |-> ToSet(Prefix(Canonical, n)),
                                 render_order |-> Prefix(Canonical, n)]]
<1>1. N \in Nat /\ Canonical \in Seq(Effects)
    BY CanonicalAssumption
<1>2. after = CHOOSE h : h = body(h)
    OBVIOUS
<1>3. DefaultMirror = after[N]
    BY DEF DefaultMirror
<1> HIDE DEF after
<1>4. f[0] = rust_empty
    <2>1. Prefix(Canonical, 0) = << >>
        BY <1>1, PrefixOf
    <2>2. ToSet(<< >>) = {}
        BY DEF ToSet
    <2>3. 0 \in 0..N
        BY <1>1
    <2>4. f[0] = [providers |-> ToSet(Prefix(Canonical, 0)), render_order |-> Prefix(Canonical, 0)]
        BY <2>3
    <2> HIDE DEF f
    <2> QED  BY <2>1, <2>2, <2>4, Zenon DEF rust_empty
<1>5. ASSUME NEW n \in 1..N
      PROVE  f[n] = rust_register(f[n - 1], Canonical[n])
    <2>1. n - 1 \in 0..N /\ n \in 0..N
        BY <1>1
    <2>2. /\ ToSet(Prefix(Canonical, n)) = ToSet(Prefix(Canonical, n - 1)) \cup {Canonical[n]}
          /\ Added(Prefix(Canonical, n - 1), Canonical[n]) = Prefix(Canonical, n)
        BY DefaultsByPrefix
    <2> QED  BY <2>1, <2>2 DEF rust_register
<1>6. f[N] = [providers |-> Effects, render_order |-> Canonical]
    <2>1. Prefix(Canonical, N) = Canonical /\ N \in 0..N
        BY <1>1, PrefixOf
    <2> QED  BY <2>1 DEF Effects
<1>7. f = [n \in 0..N |-> f[n]]
    OBVIOUS
<1> HIDE DEF f
<1>8. f = body(f)
    <2>1. \A n \in 0..N : n = 0 \/ n \in 1..N
        BY <1>1
    <2>2. \A n \in 0..N : f[n] = IF n = 0 THEN rust_empty ELSE rust_register(f[n - 1], Canonical[n])
        BY <1>4, <1>5, <2>1
    <2> QED  BY <1>7, <2>2
<1>9. after = body(after)
    <2> HIDE DEF body
    <2> QED  BY <1>2, <1>8
<1> DEFINE T == {n \in 0..N : after[n] = f[n]}
<1> HIDE DEF N
<1>10. 0 \in T
    BY <1>1, <1>4, <1>9
<1>11. ASSUME NEW n \in 0..N - 1, n \in T
       PROVE  n + 1 \in T
    <2>1. n + 1 \in 1..N /\ n + 1 \in 0..N /\ n + 1 # 0 /\ (n + 1) - 1 = n
        BY <1>1
    <2>2. after[n + 1] = rust_register(after[n], Canonical[n + 1])
        BY <1>9, <2>1
    <2>3. f[n + 1] = rust_register(f[n], Canonical[n + 1])
        BY <1>5, <2>1
    <2> QED  BY <1>11, <2>1, <2>2, <2>3
<1>12. N \in T
    <2> HIDE DEF T
    <2>1. 0..N \subseteq T
        BY <1>1, <1>10, <1>11, UpTo
    <2> QED  BY <1>1, <2>1
<1> QED  BY <1>3, <1>6, <1>12

LEMMA DefaultsMirrored == Mirrored(DefaultRegistry, DefaultMirror)
<1>1. Canonical \in Seq(Effects) /\ IsInjective(Canonical) /\ ToSet(Canonical) = Effects
    BY CanonicalAssumption DEF Effects
<1> QED  BY <1>1, DefaultRegistryIs, DefaultMirrorIs DEF Mirrored, Registered

---------------------------------------------------------------------------
(* What a frame has drawn.  Before pass number at, the texture that is   *)
(* read holds the passes ordered before it that are shown; the destination *)
(* holds them and the LUT from when an active LUT has had its turn.      *)
ShownNow == {e \in ToSet(registry.order) : Shown(e)}

Trailer == IF LutActive /\ Material(LUT) THEN <<LUT>> ELSE << >>

Before(n) == Kept(Prefix(registry.order, n), ShownNow)

DrawnSoFar ==
    frame.pc = "passes" =>
        /\ stage = "awake" /\ frame.at \in 1..Len(registry.order) + 1
        /\ frame.cur # frame.next
        /\ image \in [{"src", "ping", "dst"} -> Seq(Effects)]
        /\ image[frame.cur] = Before(frame.at - 1)
        /\ LutActive => \A k \in 1..frame.at - 1 :
               registry.order[k] = LUT => image["dst"] = Before(k) \o Trailer

ChainInv ==
    /\ Mirrored(registry, mirror)
    /\ DrawnSoFar
    /\ FramesShowChain

(* While a frame is drawn nothing changes that decides what is shown.    *)
SameFrame ==
    /\ UNCHANGED <<registry, mirror, setup>>
    /\ frame'.enabled = frame.enabled /\ frame'.lutTexture = frame.lutTexture

LEMMA SameShown ==
    ASSUME SameFrame
    PROVE  /\ ShownNow' = ShownNow /\ Trailer' = Trailer /\ LutActive' = LutActive
           /\ (LutClosesOrder <=> LutClosesOrder')
           /\ \A n : Before(n)' = Before(n)
<1>1. /\ registry' = registry /\ materials' = materials /\ supported' = supported
      /\ frame'.enabled = frame.enabled /\ frame'.lutTexture = frame.lutTexture
    BY DEF SameFrame, setup
<1>2. \A e : (Material(e)' <=> Material(e)) /\ (Draws(e)' <=> Draws(e))
    BY <1>1 DEF Material, Draws
<1>3. \A e : Runs(e, frame.enabled)' <=> Runs(e, frame.enabled)
    BY <1>1 DEF Runs, IsSupported
<1>4. \A e : Shown(e)' <=> Shown(e)
    BY <1>2, <1>3 DEF Shown
<1>5. LutActive' = LutActive
    BY <1>1, <1>3 DEF LutActive, Registered
<1>6. ShownNow' = ShownNow
    BY <1>1, <1>4 DEF ShownNow
<1>7. Trailer' = Trailer
    BY <1>2, <1>5 DEF Trailer
<1>8. LutClosesOrder' <=> LutClosesOrder
    BY <1>1, <1>4, <1>5 DEF LutClosesOrder
<1>9. \A n : Before(n)' = Before(n)
    BY <1>1, <1>6 DEF Before
<1> QED  BY <1>5, <1>6, <1>7, <1>8, <1>9

(* One pass more: what is shown of the order before and after it.        *)
LEMMA PassPassed ==
    ASSUME ChainInv, IInv, Drawing
    PROVE  /\ registry.order \in Seq(Effects) /\ IsInjective(registry.order)
           /\ frame.at \in 1..Len(registry.order) /\ Pass \in Effects
           /\ Before(frame.at - 1) \in Seq(Effects) /\ Before(frame.at) \in Seq(Effects)
           /\ Before(frame.at) = IF Shown(Pass) THEN Append(Before(frame.at - 1), Pass)
                                 ELSE Before(frame.at - 1)
<1> DEFINE order == registry.order
           n == frame.at - 1
<1>1. order \in Seq(Effects) /\ IsInjective(order)
    BY DEF ChainInv, Mirrored
<1>2. frame.at \in 1..Len(order) /\ n \in 0..Len(order) - 1 /\ n + 1 = frame.at
    BY <1>1 DEF Drawing, ChainInv, DrawnSoFar
<1>3. Pass = order[n + 1] /\ Pass \in Effects /\ Pass \in ToSet(order)
    BY <1>1, <1>2 DEF Pass, ToSet
<1>4. Pass \in ShownNow <=> Shown(Pass)
    BY <1>3 DEF ShownNow
<1> HIDE DEF n
<1>5. Kept(Prefix(order, n + 1), ShownNow) =
        IF order[n + 1] \in ShownNow THEN Append(Kept(Prefix(order, n), ShownNow), order[n + 1])
        ELSE Kept(Prefix(order, n), ShownNow)
    BY <1>1, <1>2, KeptNext
<1>6. Before(n + 1) = IF Shown(Pass) THEN Append(Before(n), Pass) ELSE Before(n)
    BY <1>3, <1>4, <1>5 DEF Before
<1>7. \A k \in 0..Len(order) : Before(k) \in Seq(Effects)
    BY <1>1, KeptGrows DEF Before
<1>8. n \in 0..Len(order) /\ n + 1 \in 0..Len(order)
    BY <1>1, <1>2
<1>9. n = frame.at - 1
    BY DEF n
<1> QED  BY <1>1, <1>2, <1>3, <1>6, <1>7, <1>8, <1>9

(* A pass that is not shown leaves the textures but for the destination. *)
LEMMA NothingShown ==
    ASSUME ChainInv, IInv, Drawing, SameFrame, ~ Shown(Pass), frame' = Advanced,
           image' \in [{"src", "ping", "dst"} -> Seq(Effects)],
           image'["src"] = image["src"], image'["ping"] = image["ping"],
           LutActive => IF Pass = LUT THEN image'["dst"] = image[frame.cur] \o Trailer
                        ELSE image'["dst"] = image["dst"]
    PROVE  DrawnSoFar'
<1> DEFINE order == registry.order
           at == frame.at
<1>1. /\ at \in 1..Len(order) /\ Before(at) = Before(at - 1) /\ Before(at - 1) \in Seq(Effects)
      /\ order \in Seq(Effects) /\ Pass = order[at]
    BY PassPassed DEF Pass
<1>2. /\ frame'.pc = "passes" /\ frame'.at = at + 1 /\ frame'.cur = frame.cur
      /\ frame'.next = frame.next /\ frame.cur \in {"src", "ping"}
    BY DEF IInv, Frames, Advanced, Drawing
<1>3. /\ stage = "awake" /\ frame.cur # frame.next /\ image[frame.cur] = Before(at - 1)
      /\ LutActive => \A k \in 1..at - 1 : order[k] = LUT => image["dst"] = Before(k) \o Trailer
    BY DEF ChainInv, DrawnSoFar, Drawing
<1>4. /\ LutActive' = LutActive /\ Trailer' = Trailer /\ \A n : Before(n)' = Before(n)
      /\ registry' = registry /\ stage' = stage
    BY SameShown DEF SameFrame, setup
<1>5. image'[frame.cur] = Before(at)
    BY <1>1, <1>2, <1>3
<1>6. ASSUME LutActive, NEW k \in 1..at, order[k] = LUT
      PROVE  image'["dst"] = Before(k) \o Trailer
    <2>1. CASE Pass = LUT
        <3>1. k = at
            <4>1. DOMAIN order = 1..Len(order) /\ IsInjective(order) /\ k \in 1..Len(order)
                BY <1>1, PassPassed
            <4> QED  BY <1>1, <1>6, <2>1, <4>1 DEF IsInjective
        <3> QED  BY <1>1, <1>3, <1>6, <2>1, <3>1
    <2>2. CASE Pass # LUT
        <3>1. k \in 1..at - 1
            BY <1>1, <1>6, <2>2
        <3> QED  BY <1>3, <1>6, <2>2, <3>1
    <2> QED  BY <2>1, <2>2
<1>7. (at + 1) - 1 = at /\ at + 1 \in 1..Len(order) + 1
    BY <1>1
<1> HIDE DEF at
<1>8. frame'.at - 1 = at
    BY <1>2, <1>7
<1> QED  BY <1>1, <1>2, <1>3, <1>4, <1>5, <1>6, <1>7, <1>8 DEF DrawnSoFar

(* A pass that is drawn goes to the other texture, and the two change places. *)
LEMMA PassShown ==
    ASSUME ChainInv, IInv, DrawPass, Draws(Pass)
    PROVE  DrawnSoFar' /\ SameFrame
<1> DEFINE order == registry.order
           at == frame.at
<1>1. /\ at \in 1..Len(order) /\ order \in Seq(Effects) /\ Pass = order[at] /\ Pass \in Effects
      /\ Before(at) = IF Shown(Pass) THEN Append(Before(at - 1), Pass) ELSE Before(at - 1)
      /\ Before(at) \in Seq(Effects)
    BY PassPassed DEF Pass, DrawPass
<1>2. Drawing /\ Shown(Pass) /\ Pass # LUT
    BY DEF DrawPass, Shown
<1>3. frame \in Frames
    BY DEF IInv
<1>4. /\ frame' = [Advanced EXCEPT !.cur = frame.next, !.next = frame.cur]
      /\ image' = [image EXCEPT ![frame.next] = Append(image[frame.cur], Pass)]
      /\ UNCHANGED <<registry, mirror, setup>>
    BY DEF DrawPass
<1>5. /\ frame'.pc = "passes" /\ frame'.at = at + 1 /\ frame'.cur = frame.next
      /\ frame'.next = frame.cur /\ frame'.enabled = frame.enabled
      /\ frame'.lutTexture = frame.lutTexture
    BY <1>2, <1>3, <1>4 DEF Frames, Advanced, Drawing
<1>6. SameFrame
    BY <1>4, <1>5 DEF SameFrame
<1>7. /\ stage = "awake" /\ frame.cur # frame.next /\ image[frame.cur] = Before(at - 1)
      /\ image \in [{"src", "ping", "dst"} -> Seq(Effects)]
      /\ LutActive => \A k \in 1..at - 1 : order[k] = LUT => image["dst"] = Before(k) \o Trailer
    BY <1>2 DEF ChainInv, DrawnSoFar, Drawing
<1>8. frame.cur \in {"src", "ping"} /\ frame.next \in {"src", "ping"}
    BY <1>3 DEF Frames
<1>9. /\ LutActive' = LutActive /\ Trailer' = Trailer /\ \A n : Before(n)' = Before(n)
      /\ registry' = registry /\ stage' = stage
    BY <1>6, SameShown DEF SameFrame, setup
<1>10. Append(image[frame.cur], Pass) = Before(at)
    BY <1>1, <1>2, <1>7
<1>11. /\ image' \in [{"src", "ping", "dst"} -> Seq(Effects)]
       /\ image'[frame.next] = Before(at) /\ image'["dst"] = image["dst"]
    BY <1>1, <1>4, <1>7, <1>8, <1>10
<1>12. ASSUME LutActive, NEW k \in 1..at, order[k] = LUT
       PROVE  image'["dst"] = Before(k) \o Trailer
    <2>1. k \in 1..at - 1
        BY <1>1, <1>2, <1>12
    <2> QED  BY <1>7, <1>11, <1>12, <2>1
<1>13. (at + 1) - 1 = at /\ at + 1 \in 1..Len(order) + 1
    BY <1>1
<1> HIDE DEF at
<1>14. frame'.at - 1 = at
    BY <1>5, <1>13
<1> QED  BY <1>1, <1>5, <1>6, <1>7, <1>9, <1>11, <1>12, <1>13, <1>14 DEF DrawnSoFar

(* At the end the destination holds all that is shown: the LUT has put it *)
(* there, with nothing drawn after it, or the last blit does.            *)
LEMMA FrameFinished ==
    ASSUME ChainInv, IInv, FinishFrame
    PROVE  FramesShowChain'
<1> DEFINE order == registry.order
           N == Len(order)
<1>1. order \in Seq(Effects) /\ N \in Nat /\ Registered(registry) \subseteq ToSet(order)
    BY DEF ChainInv, Mirrored
<1>2. frame \in Frames
    BY DEF IInv
<1>3. /\ frame.at = N + 1 /\ image \in [{"src", "ping", "dst"} -> Seq(Effects)]
      /\ image[frame.cur] = Before(frame.at - 1)
      /\ LutActive => \A k \in 1..frame.at - 1 : order[k] = LUT => image["dst"] = Before(k) \o Trailer
    BY <1>1, <1>2 DEF FinishFrame, ChainInv, DrawnSoFar, Frames
<1>4. SameFrame
    BY <1>2 DEF SameFrame, FinishFrame, Frames
<1>5. Before(N) = Kept(order, ShownNow) /\ Before(N) \in Seq(Effects) /\ frame.at - 1 = N
    <2>1. N \in 0..Len(order)
        BY <1>1
    <2> HIDE DEF N
    <2>2. Kept(Prefix(order, N), ShownNow) \in Seq(Effects)
        BY <1>1, <2>1, KeptGrows
    <2>3. Kept(Prefix(order, Len(order)), ShownNow) = Kept(order, ShownNow)
        BY <1>1, KeptGrows
    <2> QED  BY <1>1, <1>3, <2>2, <2>3 DEF Before, N
<1>6. LutClosesOrder => image'["dst"] = Kept(order, ShownNow) \o Trailer
    <2>1. CASE LutActive
        <3>1. LUT \in ToSet(order)
            BY <1>1, <2>1 DEF LutActive
        <3>2. PICK k \in 1..N : order[k] = LUT
            BY <1>1, <3>1 DEF ToSet
        <3>3. image["dst"] = Before(k) \o Trailer
            BY <1>3, <1>5, <2>1, <3>2
        <3>4. image' = image
            BY <2>1 DEF FinishFrame
        <3>5. ASSUME LutClosesOrder
              PROVE  Kept(order, ShownNow) = Before(k)
            <4>1. \A j \in k + 1..N : order[j] \notin ShownNow
                <5>1. \A j \in k + 1..N : j \in DOMAIN order /\ k \in DOMAIN order /\ k < j
                    BY <1>1
                <5> QED  BY <2>1, <3>2, <3>5, <5>1 DEF LutClosesOrder, ShownNow
            <4>2. k \in 0..Len(order)
                BY <1>1
            <4>3. Kept(order, ShownNow) = Kept(Prefix(order, k), ShownNow)
                BY <1>1, <4>1, <4>2, KeptEnds
            <4> QED  BY <4>3 DEF Before
        <3> QED  BY <3>3, <3>4, <3>5
    <2>2. CASE ~ LutActive
        <3>1. image'["dst"] = image[frame.cur]
            BY <1>3, <2>2 DEF FinishFrame
        <3>2. Trailer = << >>
            BY <2>2 DEF Trailer
        <3>3. Kept(order, ShownNow) \o << >> = Kept(order, ShownNow)
            BY <1>5, ConcatEmptySeq
        <3> QED  BY <1>3, <1>5, <3>1, <3>2, <3>3
    <2> QED  BY <2>1, <2>2
<1>7. Chain' = Kept(order, ShownNow) \o Trailer
    <2>1. Chain' = Kept(registry'.order, ShownNow') \o Trailer'
        BY DEF Chain, ShownNow, Trailer
    <2> QED  BY <1>4, <2>1, SameShown DEF SameFrame
<1> QED  BY <1>4, <1>6, <1>7, SameShown DEF FramesShowChain

(* A frame that is blitted through has no pass to show.                  *)
LEMMA BlitShowsNothing ==
    ASSUME NEW enabled \in SUBSET Effects, NEW lutTexture \in BOOLEAN,
           BlitThrough(enabled, lutTexture)
    PROVE  ~ Rendered'
<1>1. /\ UNCHANGED <<registry, materials, supported, stage>>
      /\ stage = "constructed" \/ ~ HasAnyActivePass(enabled)
    BY DEF BlitThrough, setup
<1>2. frame'.enabled = enabled
    BY DEF BlitThrough, Called, NoFrame
<1>3. \A e : (Material(e)' <=> Material(e)) /\ (Runs(e, enabled)' <=> Runs(e, enabled))
    BY <1>1 DEF Material, Runs, IsSupported
<1>4. HasAnyActivePass(frame.enabled)' <=> HasAnyActivePass(enabled)
    BY <1>1, <1>2, <1>3 DEF HasAnyActivePass, Registered, Runs, IsSupported, Material
<1> QED  BY <1>1, <1>4 DEF Rendered

(* A frame begins with nothing drawn.                                    *)
LEMMA FrameBegins ==
    ASSUME ChainInv, IInv, NEW enabled \in SUBSET Effects, NEW lutTexture \in BOOLEAN,
           OnRenderImage(enabled, lutTexture)
    PROVE  DrawnSoFar' /\ ~ Rendered'
<1>1. CASE Strays(registry) # {}
    <2>1. frame'.pc = "failed"
        BY <1>1 DEF OnRenderImage, Called, NoFrame
    <2> QED  BY <2>1 DEF DrawnSoFar, Rendered
<1>2. CASE Strays(registry) = {}
    <2>1. frame' = [Called("passes", enabled, lutTexture) EXCEPT !.at = 1]
        BY <1>2 DEF OnRenderImage
    <2>2. /\ frame'.pc = "passes" /\ frame'.at = 1 /\ frame'.cur = "src" /\ frame'.next = "ping"
        BY <2>1 DEF Called, NoFrame
    <2>3. image' = Blank /\ registry' = registry /\ stage' = "awake"
        BY DEF OnRenderImage, setup
    <2>4. registry.order \in Seq(Effects)
        BY DEF ChainInv, Mirrored
    <2>5. \A S : Kept(Prefix(registry.order, 0), S) = << >>
        BY <2>4, KeptGrows
    <2>6. Blank \in [{"src", "ping", "dst"} -> Seq(Effects)] /\ Blank["src"] = << >>
        BY DEF Blank
    <2>7. 1 \in 1..Len(registry.order) + 1 /\ 1 - 1 = 0 /\ 1..0 = {}
        BY <2>4
    <2>8. (image[frame.cur] = Before(frame.at - 1))'
        BY <2>2, <2>3, <2>5, <2>6, <2>7 DEF Before
    <2>9. \A k \in 1..frame'.at - 1 : FALSE
        BY <2>2
    <2> QED  BY <2>2, <2>3, <2>6, <2>7, <2>8, <2>9 DEF DrawnSoFar, Rendered
<1> QED  BY <1>1, <1>2

LEMMA ChainInit == Init => ChainInv
<1> SUFFICES ASSUME Init PROVE ChainInv
    OBVIOUS
<1>1. frame.pc = "idle"
    BY DEF Init, NoFrame
<1> QED  BY <1>1, DefaultsMirrored DEF Init, ChainInv, DrawnSoFar, FramesShowChain, Rendered

LEMMA ChainStep == ChainInv /\ IInv /\ [Next]_vars => ChainInv'
<1> SUFFICES ASSUME ChainInv, IInv, [Next]_vars PROVE ChainInv'
    OBVIOUS
<1>1. Mirrored(registry, mirror) /\ frame \in Frames
    BY DEF ChainInv, IInv
<1>2. ASSUME frame'.pc \notin {"passes", "done"}
      PROVE  DrawnSoFar' /\ FramesShowChain'
    BY <1>2 DEF DrawnSoFar, FramesShowChain, Rendered
<1>3. ASSUME UNCHANGED <<registry, mirror>>
      PROVE  Mirrored(registry, mirror)'
    BY <1>1, <1>3
<1>4. ASSUME NEW claimed \in Overrides, SetAvailabilityProvider(claimed) PROVE ChainInv'
    BY <1>2, <1>3, <1>4 DEF ChainInv, SetAvailabilityProvider, drawing
<1>5. ASSUME NEW found \in SUBSET Effects, Awake(found) PROVE ChainInv'
    BY <1>2, <1>3, <1>5 DEF ChainInv, Awake, drawing
<1>6. CASE OnDestroy
    BY <1>2, <1>6, EmptyMirrored DEF ChainInv, OnDestroy, Between
<1>7. CASE Construct
    <2>1. frame'.pc = "idle" /\ registry' = DefaultRegistry /\ mirror' = DefaultMirror
        BY <1>7 DEF Construct, NoFrame
    <2> QED  BY <1>2, <2>1, DefaultsMirrored DEF ChainInv
<1>8. ASSUME NEW e \in Effects, NEW kind \in Kinds, RegisterPass(e, kind) PROVE ChainInv'
    <2>1. Mirrored(registry', mirror')
        BY <1>1, <1>8, RegisterMirrored DEF RegisterPass
    <2> QED  BY <1>2, <1>8, <2>1 DEF ChainInv, RegisterPass, Between, drawing
<1>9. ASSUME NEW e \in Effects, UnregisterPass(e) PROVE ChainInv'
    <2>1. Mirrored(registry', mirror')
        BY <1>1, <1>9, UnregisterMirrored DEF UnregisterPass
    <2> QED  BY <1>2, <1>9, <2>1 DEF ChainInv, UnregisterPass, Between, drawing
<1>10. ASSUME NEW wanted \in RenderOrders, OrderPasses(wanted) PROVE ChainInv'
    <2>1. Mirrored(registry', mirror')
        BY <1>1, <1>10, OrderMirrored DEF OrderPasses
    <2> QED  BY <1>2, <1>10, <2>1 DEF ChainInv, OrderPasses, Between, drawing
<1>11. CASE InitPasses
    BY <1>1, <1>2, <1>11, InitMirrored DEF ChainInv, InitPasses, Between, drawing
<1>12. ASSUME NEW enabled \in SUBSET Effects, NEW lutTexture \in BOOLEAN,
              BlitThrough(enabled, lutTexture)
       PROVE  ChainInv'
    <2>1. frame'.pc = "done"
        BY <1>12, CalledIsFrame DEF BlitThrough
    <2> QED  BY <1>3, <1>12, <2>1, BlitShowsNothing
             DEF ChainInv, BlitThrough, DrawnSoFar, FramesShowChain
<1>13. ASSUME NEW enabled \in SUBSET Effects, NEW lutTexture \in BOOLEAN,
              OnRenderImage(enabled, lutTexture)
       PROVE  ChainInv'
    BY <1>3, <1>13, FrameBegins DEF ChainInv, OnRenderImage, FramesShowChain
<1>14. ASSUME frame' = Advanced, Drawing
       PROVE  ~ Rendered' /\ frame'.enabled = frame.enabled /\ frame'.lutTexture = frame.lutTexture
    BY <1>1, <1>14 DEF Advanced, Drawing, Rendered, Frames
<1>15. Drawing => image \in [{"src", "ping", "dst"} -> Seq(Effects)]
    BY DEF Drawing, ChainInv, DrawnSoFar
<1>16. CASE SkipPass
    <2>1. Drawing /\ frame' = Advanced /\ SameFrame
        BY <1>14, <1>16 DEF SkipPass, SameFrame
    <2>2. ~ Shown(Pass) /\ image' = image
        BY <1>16 DEF SkipPass, Shown
    <2>3. LutActive => Pass # LUT
        BY <1>16 DEF SkipPass, LutActive
    <2>4. DrawnSoFar'
        BY <1>15, <2>1, <2>2, <2>3, NothingShown
    <2> QED  BY <1>3, <1>14, <2>1, <2>4 DEF ChainInv, FramesShowChain, SameFrame
<1>17. CASE CompositeLut
    <2>1. Drawing /\ frame' = Advanced /\ SameFrame /\ Pass = LUT
        BY <1>14, <1>17 DEF CompositeLut, SameFrame
    <2>2. ~ Shown(Pass)
        BY <2>1 DEF Shown
    <2>3. frame.cur \in {"src", "ping"} /\ image[frame.cur] \in Seq(Effects)
        BY <1>1, <1>15, <2>1 DEF Frames
    <2> DEFINE tail == IF frame.lutTexture /\ Material(LUT) THEN <<LUT>> ELSE << >>
    <2>4. tail \in Seq(Effects)
        BY CanonicalAssumption
    <2>5. image' = [image EXCEPT !["dst"] = image[frame.cur] \o tail]
        BY <1>17 DEF CompositeLut
    <2>6. LutActive => tail = Trailer
        BY DEF LutActive, Trailer
    <2> HIDE DEF tail
    <2>7. image[frame.cur] \o tail \in Seq(Effects)
        BY <2>3, <2>4
    <2>8. /\ image' \in [{"src", "ping", "dst"} -> Seq(Effects)]
          /\ image'["src"] = image["src"] /\ image'["ping"] = image["ping"]
          /\ image'["dst"] = image[frame.cur] \o tail
        BY <1>15, <2>1, <2>5, <2>7
    <2>9. DrawnSoFar'
        BY <2>1, <2>2, <2>6, <2>8, NothingShown
    <2> QED  BY <1>3, <1>14, <2>1, <2>9 DEF ChainInv, FramesShowChain, SameFrame
<1>18. CASE DrawPass
    <2>1. CASE Draws(Pass)
        <3>1. DrawnSoFar' /\ SameFrame
            BY <1>18, <2>1, PassShown
        <3>2. frame'.pc = "passes"
            BY <1>1, <1>18, <2>1 DEF DrawPass, Drawing, Advanced, Frames
        <3> QED  BY <1>3, <3>1, <3>2 DEF ChainInv, FramesShowChain, Rendered, SameFrame
    <2>2. CASE ~ Draws(Pass)
        <3>1. Drawing /\ frame' = Advanced /\ SameFrame /\ Pass # LUT /\ image' = image
            BY <1>14, <1>18, <2>2 DEF DrawPass, SameFrame
        <3>2. ~ Shown(Pass)
            BY <2>2 DEF Shown
        <3>3. DrawnSoFar'
            BY <1>15, <3>1, <3>2, NothingShown
        <3> QED  BY <1>3, <1>14, <3>1, <3>3 DEF ChainInv, FramesShowChain, SameFrame
    <2> QED  BY <2>1, <2>2
<1>19. CASE FailPass
    <2>1. frame'.pc = "failed"
        BY <1>1, <1>19 DEF FailPass, Frames
    <2> QED  BY <1>2, <1>3, <1>19, <2>1 DEF ChainInv, FailPass
<1>20. CASE FinishFrame
    <2>1. frame'.pc = "done"
        BY <1>1, <1>20 DEF FinishFrame, Frames
    <2> QED  BY <1>3, <1>20, <2>1, FrameFinished DEF ChainInv, FinishFrame, DrawnSoFar
<1>21. CASE Present
    <2>1. frame'.pc = "idle"
        BY <1>21 DEF Present, NoFrame
    <2> QED  BY <1>2, <1>3, <1>21, <2>1 DEF ChainInv, Present
<1>22. CASE UNCHANGED vars
    <2>1. SameFrame /\ frame' = frame /\ image' = image /\ stage' = stage
        BY <1>22 DEF vars, SameFrame, setup
    <2>2. DrawnSoFar'
        BY <2>1, SameShown DEF ChainInv, DrawnSoFar, SameFrame
    <2>3. FramesShowChain'
        BY <1>22 DEF vars, ChainInv, FramesShowChain, Rendered, LutClosesOrder, Chain, LutActive,
                    Shown, Runs, Draws, IsSupported, Material, HasAnyActivePass, Registered
    <2> QED  BY <1>3, <2>1, <2>2, <2>3 DEF ChainInv, SameFrame
<1> QED  BY <1>4, <1>5, <1>6, <1>7, <1>8, <1>9, <1>10, <1>11, <1>12, <1>13, <1>16, <1>17,
            <1>18, <1>19, <1>20, <1>21, <1>22 DEF Next

LEMMA ChainAlways == Spec => []ChainInv
<1>1. ChainInv /\ IInv /\ [Next]_vars => ChainInv'
    BY ChainStep
<1> QED  BY <1>1, ChainInit, Invariance, PTL DEF Spec

(* FramesShowChain: a frame shows every pass that runs, each once and in *)
(* the order of the registry, and then the LUT, for any effects and any  *)
(* history of registrations and render orders (OnRenderImage).           *)
THEOREM FramesShowTheChain == Spec => []FramesShowChain
<1>1. ChainInv => FramesShowChain
    BY DEF ChainInv
<1> QED  BY <1>1, ChainAlways, PTL

(* RegistriesMirror: after the same calls the two registries agree, for  *)
(* lists that name no effect twice (post_fx_pass_registry.rs).           *)
THEOREM RegistriesAgree == Spec => []RegistriesMirror
<1>1. ChainInv => RegistriesMirror
    <2> SUFFICES ASSUME ChainInv PROVE RegistriesMirror
        OBVIOUS
    <2> DEFINE order == registry.order
    <2>1. /\ order \in Seq(Effects) /\ mirror.providers = Registered(registry)
          /\ mirror.render_order = order
        BY DEF ChainInv, Mirrored
    <2>2. ASSUME Strays(registry) = {}
          PROVE  rust_providers(mirror) = order
        <3>1. \A k \in 1..Len(order) : order[k] \in Registered(registry)
            BY <2>1, <2>2 DEF Strays, ToSet
        <3>2. Len(order) \in 0..Len(order) /\ Prefix(order, Len(order)) = order
            BY <2>1, PrefixOf
        <3>3. Kept(Prefix(order, Len(order)), Registered(registry)) = Prefix(order, Len(order))
            BY <2>1, <3>1, <3>2, KeptWhole
        <3> QED  BY <2>1, <3>2, <3>3 DEF rust_providers
    <2> QED  BY <2>1, <2>2 DEF RegistriesMirror
<1> QED  BY <1>1, ChainAlways, PTL

=============================================================================
