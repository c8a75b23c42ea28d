---------------------------- MODULE PostFxPasses ----------------------------
(***************************************************************************)
(* The Rust passes of src/postfx: the configuration and the pixel        *)
(* arithmetic of each effect, and the life of the two that own data, the *)
(* lookup table of lut_pass.rs and the sample kernel of ssao_pass.rs.    *)
(*                                                                       *)
(* Colours are whole numbers of parts, One to the unit: any table size has *)
(* a One in which the steps of the table are whole.  The other inputs are *)
(* those on which the arithmetic is exact; powf and the noise of the     *)
(* sampling patterns are left out.                                       *)
(***************************************************************************)
EXTENDS Integers, Sequences

CONSTANTS
    One,             \* bound: the parts of a unit of colour
    U32Values,       \* 2^32, how many values a u32 has
    PassConfigs,     \* bound: by effect, the configurations it is given
    Colours,         \* bound: the values of a channel
    Exposures,       \* bound: inputs of the tone curve, in fifths
    Offsets,         \* bound: distances from the centre, in tenths
    CustomLut        \* bound: a table set by the caller

NaN == -1000
Panic == <<"panic">>

VARIABLES
    effect,          \* the pass driven
    config,          \* its configuration
    overflow_checks, \* how it was compiled: debug builds check, release builds do not
    lut,             \* the lookup table of the LUT pass: triples
    lut_for,         \* history: the size an identity table was built for, or Custom
    kernel,          \* the kernel of the SSAO pass: the scale of each sample
    ready,           \* history: set up or rebuilt, and not reconfigured or disposed of since
    refused          \* pairs of shader and keyword the provider does not have

passes == <<effect, config, overflow_checks, lut, lut_for, kernel, ready, refused>>

Custom == -1
Clamp(low, x, high) == IF x < low THEN low ELSE IF x > high THEN high ELSE x

---------------------------------------------------------------------------
(* lut_pass.rs.  The number of floats of a table, three to an entry, is a *)
(* u32: where it is too large, a checked build panics and another goes on *)
(* with what is left of it.                                              *)
Overflows(n) == n * n * n * 3 >= U32Values
Wrapped(k) == k % U32Values

(* As many entries as the loops go round; a table of one has 0/0 for its *)
(* values.                                                               *)
identity_lut(n) ==
    [k \in 1..n * n * n |->
        IF n = 1 THEN <<NaN, NaN, NaN>>
        ELSE <<(((k - 1) % n) * One) \div (n - 1),
               ((((k - 1) \div n) % n) * One) \div (n - 1),
               (((k - 1) \div (n * n)) * One) \div (n - 1)>>]

(* round, halves away from zero.                                         *)
rgb_to_lut_index(n, c) ==
    LET max_idx == IF n = 0 THEN 0 ELSE n - 1
    IN  [i \in 1..3 |-> (2 * Clamp(0, c[i], One) * max_idx + One) \div (2 * One)]

(* Mutant: the first channel counts the planes.                          *)
flat_index_blue_first(n, at) == Wrapped(at[1] * n * n + at[2] * n + at[3])

flat_index(n, at) == Wrapped(at[3] * n * n + at[2] * n + at[1])

(* A blend with a NaN is a NaN, at intensity zero too.                   *)
Blend(from, to, halves) ==
    IF to = NaN THEN NaN ELSE from + ((to - from) * halves) \div 2

(* A table too short leaves the pixel alone; of a table that is too long *)
(* the wrong entries are taken; at size zero the first is taken, if any. *)
apply_lut(c, n, halves, table) ==
    LET entry == flat_index(n, rgb_to_lut_index(n, c)) + 1
    IN  IF overflow_checks /\ Overflows(n) THEN Panic
        ELSE IF Len(table) * 3 < Wrapped(n * n * n * 3) THEN c
        ELSE IF entry > Len(table) THEN Panic
        ELSE [i \in 1..3 |-> Blend(c[i], table[entry][i], halves)]

---------------------------------------------------------------------------
(* ssao_pass.rs: the scale of sample i, in parts of size.                *)
build_kernel(size) == [i \in 1..size |-> <<i, size>>]

---------------------------------------------------------------------------
(* aces_pass.rs: the curve at x fifths, as a fraction.  No input is      *)
(* clamped: a negative channel comes out bright.                         *)
aces_filmic(x) ==
    LET numerator == x * (251 * x + 3 * 5)
        denominator == 243 * x * x + 59 * 5 * x + 14 * 25
    IN  IF numerator < 0 THEN <<0, 1>>
        ELSE IF numerator > denominator THEN <<1, 1>>
        ELSE <<numerator, denominator>>

AtMost(p, q) == p[1] * q[2] <= q[1] * p[2]

(* vignette_pass.rs: the factor in 500ths, at an offset whose distance is *)
(* a whole number.                                                       *)
Root(n) == CHOOSE k \in 0..n : k * k = n

Distance(offset, roundness) ==
    Root(offset[1] * offset[1] + roundness * offset[2] * offset[2])

vignette_factor(c, offset) ==
    500 - Clamp(0, Distance(offset, c.roundness) * c.smoothness, 50) * c.intensity

(* chromatic_pass.rs: where red, green and blue are read, relative to the *)
(* pixel, in 1000ths.                                                    *)
channel_offsets(c, offset) ==
    LET amount == Distance(offset, 1) * c.intensity
    IN  << <<offset[1] * amount, offset[2] * amount>>,
           <<0, 0>>,
           <<-(offset[1] * amount), -(offset[2] * amount)>> >>

(* ssgi_pass.rs: the direction of sample i and its weight, in 1000ths; the *)
(* angle is cut to three digits.                                         *)
sample_weight(i, samples) ==
    LET x == ((2 * i + 1) * 1000) \div samples - 1000
        y == 2 * ((i * 10166) % 1000) - 1000
    IN  (1000 * 1000 * 1000) \div (1000 * 1000 + x * x + y * y)

compute_gi_contribution(c) ==
    LET total[k \in 0..c.samples] ==
            IF k = 0 THEN 0 ELSE total[k - 1] + sample_weight(k - 1, c.samples)
    IN  IF c.samples = 0 THEN NaN
        ELSE Clamp(0, ((total[c.samples] \div c.samples) * c.intensity) \div 100, 1000)

(* bloom_pass.rs.                                                        *)
quality_keyword(quality) ==
    CASE quality = "Low"   -> "BLOOM_LOW"
      [] quality = "High"  -> "BLOOM_HIGH"
      [] quality = "Ultra" -> "BLOOM_ULTRA"
      [] OTHER             -> "BLOOM_MEDIUM"

---------------------------------------------------------------------------
(* The shader and the keyword of each descriptor.                        *)
SsaoDescriptor == <<"Hidden/Phenotype/SSAOPass", "SSAOPASS">>
SsgiDescriptor == <<"Hidden/Phenotype/SSGIPass", "SSGIPASS">>
BloomDescriptor == <<"Hidden/Phenotype/BloomPass", "BLOOM_HIGH">>
AcesDescriptor == <<"Hidden/Phenotype/ACESPass", "ACES">>
VignetteDescriptor == <<"Hidden/Phenotype/VignettePass", "VIGNETTE">>
ChromaticDescriptor == <<"Hidden/Phenotype/ChromaticAberrationPass", "CHROMATIC">>
LutDescriptor == <<"Hidden/Phenotype/LutPass", "LUT">>

describe_passes ==
    << <<"Ssao", SsaoDescriptor>>, <<"Ssgi", SsgiDescriptor>>, <<"Bloom", BloomDescriptor>>,
       <<"Aces", AcesDescriptor>>, <<"Vignette", VignetteDescriptor>>,
       <<"ChromaticAberration", ChromaticDescriptor>>, <<"Lut", LutDescriptor>> >>

PassEffect == {describe_passes[k][1] : k \in DOMAIN describe_passes}

DescriptorOf(e) ==
    LET k == CHOOSE k \in DOMAIN describe_passes : describe_passes[k][1] = e
    IN  describe_passes[k][2]

(* What the stack asks the provider, which is not what the passes ask.   *)
StackAsks(e) ==
    CASE e = "Ssao"     -> <<"ScreenSpaceAO", "SSAOPASS">>
      [] e = "Ssgi"     -> <<"ScreenSpaceGI", "SSGIPASS">>
      [] e = "Bloom"    -> <<"BrpBloom", "BLOOM_HIGH">>
      [] e = "Aces"     -> <<"BrpACES", "ACES">>
      [] e = "Vignette" -> <<"Vignette", "VIGNETTE">>
      [] e = "ChromaticAberration" -> <<"ChromaticAberration", "CHROMATIC">>
      [] e = "Lut"      -> <<"ColorGradingLUT", "LUT">>

none_available == {StackAsks(e) : e \in PassEffect}

is_available(shader) == shader \notin refused

supported(e) == is_available(StackAsks(e))

validate_variants(e) ==
    IF e = "Bloom" THEN is_available(<<BloomDescriptor[1], quality_keyword("High")>>)
    ELSE is_available(DescriptorOf(e))

(* Exact arithmetic: a table whose steps are whole parts, offsets whose  *)
(* distances are whole numbers.                                          *)
ExactSizes == {n \in Nat : n <= 1 \/ One % (n - 1) = 0}

Exact(offset, roundness) ==
    LET square == offset[1] * offset[1] + roundness * offset[2] * offset[2]
    IN  \E k \in 0..square : k * k = square

(* Settings are not negative and light is not amplified; entries of a    *)
(* table are finite.                                                     *)
ASSUME PassAssumption ==
    /\ One \in Nat \ {0} /\ U32Values \in Nat \ {0}
    /\ \A c \in PassConfigs["Lut"] : c.lut_size \in ExactSizes /\ c.halves \in 0..2
    /\ \A c \in PassConfigs["Ssao"] : c.kernel_size \in Nat
    /\ \A c \in PassConfigs["Aces"] : c.exposure \in Nat
    /\ \A c \in PassConfigs["Vignette"] :
          /\ c.intensity \in Nat /\ c.smoothness \in Nat /\ c.roundness \in Nat
          /\ \A p \in Offsets : Exact(p, c.roundness)
    /\ \A c \in PassConfigs["ChromaticAberration"] :
          c.intensity \in Nat /\ \A p \in Offsets : Exact(p, 1)
    /\ \A c \in PassConfigs["Ssgi"] : c.samples \in Nat /\ c.intensity \in 0..100
    /\ Colours \subseteq Int /\ Exposures \subseteq Nat /\ Offsets \subseteq Int \X Int
    /\ CustomLut \in Seq((Int \ {NaN}) \X (Int \ {NaN}) \X (Int \ {NaN}))

---------------------------------------------------------------------------
(* LutPass::new, unless it panics, and with_lut.                         *)
NewLut ==
    /\ ~(overflow_checks /\ Overflows(config.lut_size))
    /\ lut = identity_lut(config.lut_size) /\ lut_for = config.lut_size

WithLut == lut = CustomLut /\ lut_for = Custom

PassInit ==
    /\ effect \in PassEffect
    /\ config \in PassConfigs[effect]
    /\ overflow_checks \in BOOLEAN
    /\ IF effect = "Lut" THEN NewLut \/ WithLut ELSE lut = << >> /\ lut_for = Custom
    /\ kernel = IF effect = "Ssao" THEN build_kernel(config.kernel_size) ELSE << >>
    /\ ready = FALSE
    /\ refused \in {{}, none_available}

config_mut ==
    /\ config' \in PassConfigs[effect]
    /\ ready' = FALSE
    /\ UNCHANGED <<effect, overflow_checks, lut, lut_for, kernel, refused>>

set_lut ==
    /\ effect = "Lut"
    /\ lut' = CustomLut /\ lut_for' = Custom
    /\ ready' = FALSE
    /\ UNCHANGED <<effect, config, overflow_checks, kernel, refused>>

(* The table is built again only when there is none; the call that panics *)
(* over its size has changed nothing.                                    *)
SetUpLut ==
    IF lut = << >>
    THEN /\ ~(overflow_checks /\ Overflows(config.lut_size))
         /\ lut' = identity_lut(config.lut_size) /\ lut_for' = config.lut_size
    ELSE UNCHANGED <<lut, lut_for>>

SetUpSsao ==
    kernel' = IF Len(kernel) # config.kernel_size THEN build_kernel(config.kernel_size)
              ELSE kernel

on_setup ==
    /\ IF effect = "Lut" THEN SetUpLut ELSE UNCHANGED <<lut, lut_for>>
    /\ IF effect = "Ssao" THEN SetUpSsao ELSE UNCHANGED kernel
    /\ ready' = TRUE
    /\ UNCHANGED <<effect, config, overflow_checks, refused>>

rebuild_kernel ==
    /\ effect = "Ssao"
    /\ kernel' = build_kernel(config.kernel_size)
    /\ ready' = TRUE
    /\ UNCHANGED <<effect, config, overflow_checks, lut, lut_for, refused>>

on_dispose ==
    /\ lut' = << >> /\ lut_for' = 0 /\ kernel' = << >>
    /\ ready' = FALSE
    /\ UNCHANGED <<effect, config, overflow_checks, refused>>

set_available(shader, available) ==
    /\ refused' = IF available THEN refused \ {shader} ELSE refused \cup {shader}
    /\ UNCHANGED <<effect, config, overflow_checks, lut, lut_for, kernel, ready>>

PassNext ==
    \/ config_mut \/ set_lut \/ on_setup \/ rebuild_kernel \/ on_dispose
    \/ \E shader \in {DescriptorOf(effect), StackAsks(effect)}, available \in BOOLEAN :
          set_available(shader, available)

PassSpec == PassInit /\ [][PassNext]_passes

---------------------------------------------------------------------------
Graded(c) == apply_lut(c, config.lut_size, config.halves, lut)

Lattice(n) == {(i * One) \div (n - 1) : i \in 0..n - 1}

(* Graded by the table of its own size, a colour of the lattice stays and *)
(* no other moves by more than half a step.                              *)
Neutral(c, n) ==
    /\ (\A i \in 1..3 : c[i] \in Lattice(n)) => Graded(c) = c
    /\ (\A i \in 1..3 : c[i] \in 0..One) =>
          \A i \in 1..3 : LET moved == Graded(c)[i] - c[i]
                          IN  2 * (n - 1) * (IF moved < 0 THEN -moved ELSE moved)
                                <= One + 2 * (n - 1)

(* Whatever the pass went through - a new size, a table of the caller's, a *)
(* disposal -, as long as the number of floats of the configured size is a *)
(* u32: only an empty table read at size zero panics; a stale table for a *)
(* smaller size grades nothing, and one for a larger size, though it takes *)
(* wrong entries, leaves no colour out of range; and no finite table does *)
(* anything at intensity zero.  Where the number is no u32, a checked build *)
(* panics at every pixel.  The identity table of the configured size is  *)
(* neutral also there, in the other build, up to the sizes at which the  *)
(* index itself wraps.  (new, on_setup, on_dispose, set_lut, apply_pixel.) *)
GradingNeutral ==
    effect = "Lut" =>
      \A c \in Colours \X Colours \X Colours :
        LET n == config.lut_size
        IN  /\ ~Overflows(n) =>
                 /\ Graded(c) = Panic <=> n = 0 /\ lut = << >>
                 /\ lut_for \in 0..n - 1 => Graded(c) = c
                 /\ (lut_for > 1 /\ \A i \in 1..3 : c[i] \in 0..One) =>
                      \A i \in 1..3 : Graded(c)[i] \in 0..One
                 /\ (config.halves = 0 /\ lut_for # 1 /\ lut # << >>) => Graded(c) = c
            /\ (Overflows(n) /\ overflow_checks) => Graded(c) = Panic
            /\ (/\ lut_for = n /\ n > 1
                /\ ~(Overflows(n) /\ overflow_checks) /\ n * n * n <= U32Values) => Neutral(c, n)

(* Whatever size the kernel was built for, its samples reach from near the *)
(* centre to the radius and no farther; and once it was set up or rebuilt it *)
(* has the configured size until that changes (on_setup, rebuild_kernel). *)
KernelCurrent ==
    effect = "Ssao" =>
      /\ ready => Len(kernel) = config.kernel_size
      /\ \A i \in 1..Len(kernel) :
           /\ 0 < kernel[i][1] /\ kernel[i][1] <= kernel[i][2]
           /\ i = Len(kernel) => kernel[i][1] = kernel[i][2]

(* The effects keep to their ranges: the tone curve rises from black to  *)
(* white over the positive inputs, the vignette darkens towards the edge *)
(* and never by more than its intensity, red and blue part by as much on *)
(* either side of green, and the indirect light is between a third of its *)
(* intensity and all of it.                                              *)
EffectsInRange ==
    CASE effect = "Aces" ->
           \A x, y \in Exposures :
              x <= y => AtMost(aces_filmic(x * config.exposure), aces_filmic(y * config.exposure))
      [] effect = "Vignette" ->
           \A p, q \in Offsets :
              /\ vignette_factor(config, p) \in 500 - 50 * config.intensity..500
              /\ Distance(p, config.roundness) <= Distance(q, config.roundness)
                   => vignette_factor(config, q) <= vignette_factor(config, p)
      [] effect = "ChromaticAberration" ->
           \A p \in Offsets : LET at == channel_offsets(config, p)
                              IN  at[1][1] + at[3][1] = 0 /\ at[1][2] + at[3][2] = 0
      [] effect = "Ssgi" ->
           LET light == compute_gi_contribution(config)
           IN  IF config.samples = 0 THEN light = NaN
               ELSE light \in (330 * config.intensity) \div 100..(1000 * config.intensity) \div 100
      [] OTHER -> TRUE

(* The provider that "none_available" gives has none of the variants the *)
(* stack asks for, but every pass asks it for another name and finds what *)
(* it needs (descriptor, validate_variants, none_available).             *)
VariantsAsDescribed ==
    refused = none_available => validate_variants(effect) /\ ~supported(effect)

=============================================================================
