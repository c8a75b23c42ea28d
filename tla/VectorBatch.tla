---------------------------- MODULE VectorBatch ----------------------------
(***************************************************************************)
(* The batched vector operations of src/voxel/simd.rs and of the crate   *)
(* phenotype-voxel, lane by lane: what each instruction set computes of a *)
(* slice, against the scalar operations.                                 *)
(*                                                                       *)
(* A register is a sequence of lanes.  A product x * d^(k/4), d the square *)
(* of a length, is kept as <<x, d, k>>, so that a reciprocal square root *)
(* is k = -2 and no rounding is modelled.  A centre is kept doubled.     *)
(***************************************************************************)
EXTENDS Integers, Sequences, SequencesExt

Scaled(x, d, k) ==
    IF x = 0 THEN <<0, 1, 0>> ELSE IF d = 1 THEN <<x, 1, 0>> ELSE <<x, d, k>>

Zero == [axis \in 1..3 |-> <<0, 1, 0>>]

---------------------------------------------------------------------------
(* Scalar operations.  No length lies between 0 and f32::EPSILON.        *)

dot3(a, b) == a[1] * b[1] + a[2] * b[2] + a[3] * b[3]

normalize3(v) ==
    IF dot3(v, v) = 0 THEN Zero ELSE [axis \in 1..3 |-> Scaled(v[axis], dot3(v, v), -2)]

aabb_center(b) == [axis \in 1..3 |-> b[axis] + b[axis + 3]]

conditional_mix3(a, b, mask) ==
    [axis \in 1..3 |-> a[axis] * (1 - mask[axis]) + b[axis] * mask[axis]]

---------------------------------------------------------------------------
(* Instructions.                                                         *)

mul(a, b) == [i \in DOMAIN a |-> a[i] * b[i]]
add(a, b) == [i \in DOMAIN a |-> a[i] + b[i]]
sub(a, b) == [i \in DOMAIN a |-> a[i] - b[i]]
set1(x, width) == [i \in 1..width |-> x]
add_ss(a, b) == [a EXCEPT ![1] = a[1] + b[1]]
movehdup(a) == <<a[2], a[2], a[4], a[4]>>
(* Mutant: the halves are taken from the operands in the other order.    *)
movehl_swapped(a, b) == <<a[3], a[4], b[3], b[4]>>
movehl(a, b) == <<b[3], b[4], a[3], a[4]>>
rsqrt_and(v, d, k) == [i \in DOMAIN v |-> IF d[i] = 0 THEN <<0, 1, 0>> ELSE Scaled(v[i], d[i], k)]
load3(v) == <<v[1], v[2], v[3], 0>>
extract(v) == <<v[1], v[2], v[3]>>

---------------------------------------------------------------------------
(* SSE2: one vector to a register.                                       *)

hadd(m) ==
    LET shuf == movehdup(m)
        sums == add(m, shuf)
    IN  add_ss(sums, movehl(shuf, sums))

normalize4_sse2(vs) ==
    [i \in 1..4 |->
        LET v == load3(vs[i])
        IN  extract(rsqrt_and(v, set1(hadd(mul(v, v))[1], 4), -2))]

aabb_center4_sse2(bs) ==
    [i \in 1..4 |-> extract(add(load3(bs[i]), load3(SubSeq(bs[i], 4, 6))))]

dot4_sse2(as, bs) == [i \in 1..4 |-> hadd(mul(load3(as[i]), load3(bs[i])))[1]]

(* AVX2: one component of eight vectors to a register.                   *)

Lane(vs, axis) == [i \in 1..8 |-> vs[i][axis]]

dot8_avx2(as, bs) ==
    add(add(mul(Lane(as, 1), Lane(bs, 1)), mul(Lane(as, 2), Lane(bs, 2))),
        mul(Lane(as, 3), Lane(bs, 3)))

normalize8_avx2(vs) ==
    LET r == [axis \in 1..3 |-> rsqrt_and(Lane(vs, axis), dot8_avx2(vs, vs), -2)]
    IN  [i \in 1..8 |-> <<r[1][i], r[2][i], r[3][i]>>]

aabb_center8_avx2(bs) ==
    LET c == [axis \in 1..3 |-> add(Lane(bs, axis), Lane(bs, axis + 3))]
    IN  [i \in 1..8 |-> <<c[1][i], c[2][i], c[3][i]>>]

conditional_mix8_avx2(as, bs, masks) ==
    LET r == [axis \in 1..3 |->
                add(mul(Lane(as, axis), sub(set1(1, 8), Lane(masks, axis))),
                    mul(Lane(bs, axis), Lane(masks, axis)))]
    IN  [i \in 1..8 |-> <<r[1][i], r[2][i], r[3][i]>>]

(* NEON: the two halves of a register are added, then their two lanes.   *)

pairwise(m) == (m[1] + m[3]) + (m[2] + m[4])

(* rsqrt(d) is multiplied by rsqrt(d * rsqrt(d)): d^(-1/2) * d^(-1/4).   *)
normalize4_neon(vs) ==
    [i \in 1..4 |->
        LET v == load3(vs[i])
        IN  extract(rsqrt_and(v, set1(pairwise(mul(v, v)), 4), -3))]

aabb_center4_neon(bs) ==
    [i \in 1..4 |-> extract(add(load3(bs[i]), load3(SubSeq(bs[i], 4, 6))))]

dot4_neon(as, bs) == [i \in 1..4 |-> pairwise(mul(load3(as[i]), load3(bs[i])))]

---------------------------------------------------------------------------
(* Batches: as many blocks of each width as fit, then the rest one by one. *)

Block(s, at, width) == SubSeq(s, at + 1, at + width)

(* Where the blocks of each width begin.                                 *)
Starts(all, n) ==
    LET at[j \in 0..Len(all)] ==
          IF j = 0 THEN 0 ELSE at[j - 1] + all[j] * ((n - at[j - 1]) \div all[j])
    IN  at

Batch(widths, n, Kernel(_, _)) ==
    LET all == Append(widths, 1)
        at == Starts(all, n)
    IN  FlattenSeq([j \in 1..Len(all) |->
            FlattenSeq([k \in 1..(n - at[j - 1]) \div all[j] |->
                Kernel(at[j - 1] + all[j] * (k - 1), all[j])])])

x86_widths(level) == IF level = "AVX2" THEN <<8, 4>> ELSE <<4>>

x86_normals_batch(level, vs) ==
    Batch(x86_widths(level), Len(vs), LAMBDA at, width :
        CASE width = 8 -> normalize8_avx2(Block(vs, at, 8))
          [] width = 4 -> normalize4_sse2(Block(vs, at, 4))
          [] OTHER     -> <<normalize3(vs[at + 1])>>)

x86_aabb_center_batch(level, bs) ==
    Batch(x86_widths(level), Len(bs), LAMBDA at, width :
        CASE width = 8 -> aabb_center8_avx2(Block(bs, at, 8))
          [] width = 4 -> aabb_center4_sse2(Block(bs, at, 4))
          [] OTHER     -> <<aabb_center(bs[at + 1])>>)

x86_dot_batch(level, as, bs) ==
    Batch(x86_widths(level), Len(as), LAMBDA at, width :
        CASE width = 8 -> dot8_avx2(Block(as, at, 8), Block(bs, at, 8))
          [] width = 4 -> dot4_sse2(Block(as, at, 4), Block(bs, at, 4))
          [] OTHER     -> <<dot3(as[at + 1], bs[at + 1])>>)

(* No four-wide kernel.                                                  *)
x86_conditional_mix_batch(level, as, bs, masks) ==
    Batch(IF level = "AVX2" THEN <<8>> ELSE << >>, Len(as), LAMBDA at, width :
        IF width = 8 THEN conditional_mix8_avx2(Block(as, at, 8), Block(bs, at, 8), Block(masks, at, 8))
                     ELSE <<conditional_mix3(as[at + 1], bs[at + 1], masks[at + 1])>>)

neon_normals_batch(vs) ==
    Batch(<<4>>, Len(vs), LAMBDA at, width :
        IF width = 4 THEN normalize4_neon(Block(vs, at, 4)) ELSE <<normalize3(vs[at + 1])>>)

neon_aabb_center_batch(bs) ==
    Batch(<<4>>, Len(bs), LAMBDA at, width :
        IF width = 4 THEN aabb_center4_neon(Block(bs, at, 4)) ELSE <<aabb_center(bs[at + 1])>>)

neon_dot_batch(as, bs) ==
    Batch(<<4>>, Len(as), LAMBDA at, width :
        IF width = 4 THEN dot4_neon(Block(as, at, 4), Block(bs, at, 4))
                     ELSE <<dot3(as[at + 1], bs[at + 1])>>)

neon_conditional_mix_batch(as, bs, masks) ==
    [i \in DOMAIN as |-> conditional_mix3(as[i], bs[i], masks[i])]

fallback_normals_batch(vs) == [i \in DOMAIN vs |-> normalize3(vs[i])]
fallback_aabb_center_batch(bs) == [i \in DOMAIN bs |-> aabb_center(bs[i])]
fallback_dot_batch(as, bs) == [i \in DOMAIN as |-> dot3(as[i], bs[i])]
fallback_conditional_mix_batch(as, bs, masks) ==
    [i \in DOMAIN as |-> conditional_mix3(as[i], bs[i], masks[i])]

(* What get_simd_level may find.                                         *)
SimdLevel == {"Scalar", "SSE2", "AVX2", "NEON"}
OnX86(level) == level \in {"SSE2", "AVX2"}

simd_normals_batch(level, vs) ==
    CASE OnX86(level)   -> x86_normals_batch(level, vs)
      [] level = "NEON" -> neon_normals_batch(vs)
      [] OTHER          -> fallback_normals_batch(vs)

simd_aabb_center_batch(level, bs) ==
    CASE OnX86(level)   -> x86_aabb_center_batch(level, bs)
      [] level = "NEON" -> neon_aabb_center_batch(bs)
      [] OTHER          -> fallback_aabb_center_batch(bs)

simd_dot_batch(level, as, bs) ==
    CASE OnX86(level)   -> x86_dot_batch(level, as, bs)
      [] level = "NEON" -> neon_dot_batch(as, bs)
      [] OTHER          -> fallback_dot_batch(as, bs)

simd_conditional_mix_batch(level, as, bs, masks) ==
    CASE OnX86(level)   -> x86_conditional_mix_batch(level, as, bs, masks)
      [] level = "NEON" -> neon_conditional_mix_batch(as, bs, masks)
      [] OTHER          -> fallback_conditional_mix_batch(as, bs, masks)

(* MeshBuffer::compute_center before the division: blocks of four, then the *)
(* rest.                                                                 *)
plus(a, b) == [axis \in 1..3 |-> a[axis] + b[axis]]

center_sum(vs) ==
    LET taken == Batch(<<4>>, Len(vs), LAMBDA at, width : Block(vs, at, width))
        sum[k \in 0..Len(taken)] == IF k = 0 THEN <<0, 0, 0>> ELSE plus(sum[k - 1], taken[k])
    IN  sum[Len(taken)]

---------------------------------------------------------------------------
(* The crate phenotype-voxel has SSE2 alone, and leaves the sum of the   *)
(* squares in the first lane.                                            *)

standalone_normalize4_sse2(vs) ==
    [i \in 1..4 |->
        LET v == load3(vs[i])
        IN  extract(rsqrt_and(v, hadd(mul(v, v)), -2))]

standalone_aabb_center4_sse2(bs) ==
    [i \in 1..4 |-> extract(add(load3(bs[i]), load3(SubSeq(bs[i], 4, 6))))]

standalone_normals_batch(vs) ==
    Batch(<<4>>, Len(vs), LAMBDA at, width :
        IF width = 4 THEN standalone_normalize4_sse2(Block(vs, at, 4)) ELSE <<normalize3(vs[at + 1])>>)

standalone_aabb_center_batch(bs) ==
    Batch(<<4>>, Len(bs), LAMBDA at, width :
        IF width = 4 THEN standalone_aabb_center4_sse2(Block(bs, at, 4)) ELSE <<aabb_center(bs[at + 1])>>)

---------------------------------------------------------------------------
(* A slice that grows by one vector at a time.                           *)

CONSTANTS
    Vectors,     \* the vectors a slice is made of
    MaxLength    \* bound: the longest slice

ASSUME VectorAssumption == Vectors \subseteq Int \X Int \X Int /\ MaxLength \in Nat

VARIABLE slice

SliceInit == slice = << >>

SliceNext == Len(slice) < MaxLength /\ \E v \in Vectors : slice' = Append(slice, v)

SliceSpec == SliceInit /\ [][SliceNext]_slice

---------------------------------------------------------------------------
(* Second operands, boxes and masks made of the same slice.              *)
Others == Reverse(slice)
Boxes == [i \in DOMAIN slice |-> slice[i] \o Others[i]]
Masks == [i \in DOMAIN slice |-> IF i % 2 = 1 THEN <<1, 0, 2>> ELSE slice[i]]

(* The sum of one component over a slice.                                *)
Total(vs, axis) ==
    LET sum[k \in 0..Len(vs)] == IF k = 0 THEN 0 ELSE sum[k - 1] + vs[k][axis]
    IN  sum[Len(vs)]

(* Whatever the processor, a batch holds at every index what the scalar  *)
(* operation makes of the element there: through wide and narrow blocks and *)
(* the rest, and for zero vectors.  The normals of NEON are left out, see *)
(* NormalsAgree (simd_normals_batch, simd_dot_batch, compute_center and  *)
(* their like).                                                          *)
BatchesAgree ==
    /\ \A level \in SimdLevel :
         /\ level # "NEON" => simd_normals_batch(level, slice) = [i \in DOMAIN slice |-> normalize3(slice[i])]
         /\ simd_aabb_center_batch(level, Boxes) = [i \in DOMAIN slice |-> aabb_center(Boxes[i])]
         /\ simd_dot_batch(level, slice, Others) = [i \in DOMAIN slice |-> dot3(slice[i], Others[i])]
         /\ simd_conditional_mix_batch(level, slice, Others, Masks)
                = [i \in DOMAIN slice |-> conditional_mix3(slice[i], Others[i], Masks[i])]
    /\ standalone_aabb_center_batch(Boxes) = [i \in DOMAIN slice |-> aabb_center(Boxes[i])]
    /\ \A axis \in 1..3 : center_sum(slice)[axis] = Total(slice, axis)

(* What a test of the crate phenotype-voxel says: batches of normals "all *)
(* normalise correctly".  Its four-wide kernel divides y and z by the    *)
(* length of other sums, since the sum of the squares is not broadcast;  *)
(* NEON scales by the power -3/4 of the square in place of -1/2.         *)
NormalsAgree ==
    \A batch \in {standalone_normals_batch(slice), simd_normals_batch("NEON", slice)} :
        batch = [i \in DOMAIN slice |-> normalize3(slice[i])]

=============================================================================
