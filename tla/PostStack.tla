------------------------------ MODULE PostStack ------------------------------
(***************************************************************************)
(* PostStack of the Unity package: a component that owns a registry of   *)
(* passes and runs them over every frame its camera renders.             *)
(*                                                                       *)
(* Unity calls Awake once, OnRenderImage for each frame and OnDestroy at *)
(* the end, all on its main thread; scripts change the registry between  *)
(* two frames.  A frame takes one action per pass, because any pass may  *)
(* throw and what has been drawn and taken by then is what is left.  What *)
(* a texture shows is the sequence of effects applied to the camera's    *)
(* image.                                                                *)
(*                                                                       *)
(* The Rust registry receives every call the registry of the component   *)
(* receives, so that the two can be compared.                            *)
(***************************************************************************)
EXTENDS Sequences, SequencesExt, Functions

(***************************************************************************)
(* The registry of post-processing passes, twice: PostFxPassRegistry of  *)
(* the Unity package (operators without a prefix) and the Rust registry of *)
(* src/postfx/post_fx_pass_registry.rs that mirrors it (prefix rust_).   *)
(*                                                                       *)
(* A registry is a record: providers, a map from the registered effects, *)
(* and order, the list of effects in the order they are rendered.  The   *)
(* Rust registry keeps the same two; of its providers the model keeps    *)
(* which effects have one.                                               *)
(***************************************************************************)

(* The members of S that a list names, in its order.                     *)
Kept(s, S) ==
    LET kept[n \in 0..Len(s)] ==
            IF n = 0 THEN << >>
            ELSE IF s[n] \in S THEN Append(kept[n - 1], s[n]) ELSE kept[n - 1]
    IN  kept[Len(s)]

Without(order, effects) == Kept(order, ToSet(order) \ effects)

Added(order, effect) ==
    IF effect \in ToSet(order) THEN order ELSE Append(order, effect)

(* SetRenderOrder keeps the effects it is not told about, at the end.  The *)
(* list it is given is not examined: it may name an effect twice, or one *)
(* that nobody registered.                                               *)
Reordered(order, wanted) == wanted \o Without(order, ToSet(wanted))

---------------------------------------------------------------------------
(* The registry of the Unity package.                                    *)

Empty == [providers |-> [e \in {} |-> {}], order |-> << >>]

Registered(r) == DOMAIN r.providers

Register(r, effect, provider) ==
    [providers |-> [e \in Registered(r) \cup {effect} |->
                        IF e = effect THEN provider ELSE r.providers[e]],
     order |-> Added(r.order, effect)]

(* List.Remove takes the first occurrence only.                          *)
FirstRemoved(order, effect) ==
    IF effect \in ToSet(order)
    THEN RemoveAt(order, CHOOSE i \in DOMAIN order :
                             order[i] = effect /\ \A j \in 1..i - 1 : order[j] # effect)
    ELSE order

Unregister(r, effect) ==
    [providers |-> Restrict(r.providers, Registered(r) \ {effect}),
     order |-> FirstRemoved(r.order, effect)]

(* Mutant: the effects omitted are forgotten.                            *)
SetRenderOrderOnly(r, wanted) == [r EXCEPT !.order = wanted]

SetRenderOrder(r, wanted) == [r EXCEPT !.order = Reordered(@, wanted)]

(* Providers looks every ordered effect up and throws when one is missing; *)
(* HasAnyActivePass skips it.                                            *)
Strays(r) == ToSet(r.order) \ Registered(r)

---------------------------------------------------------------------------
(* The registry of the Rust crate.                                       *)

rust_empty == [providers |-> {}, render_order |-> << >>]

rust_register(r, effect) ==
    [providers |-> r.providers \cup {effect},
     render_order |-> Added(r.render_order, effect)]

rust_unregister(r, effect) ==
    [providers |-> r.providers \ {effect},
     render_order |-> Without(r.render_order, {effect})]

rust_set_render_order(r, wanted) ==
    [r EXCEPT !.render_order = Reordered(@, wanted)]

(* Its providers() skips an effect that has no provider.                 *)
rust_providers(r) == Kept(r.render_order, r.providers)

---------------------------------------------------------------------------
(* The component.                                                        *)

CONSTANTS
    Canonical,        \* the built-in effects, in the order CreateDefault registers them
    RenderOrders,     \* the lists scripts hand to SetRenderOrder
    Overrides,        \* what injected availability providers claim to be available
    Default           \* DefaultShaderAvailabilityProvider

LUT == "LUT"
Bloom == "Bloom"

Effects == ToSet(Canonical)

(* The effects whose parameters are written to their material before they *)
(* are drawn.                                                            *)
Parameterised == Effects \ {LUT, Bloom}

(* A built-in provider draws with the material of its owner, and has none *)
(* until Init gives it one.  A provider written by a user may have a     *)
(* material of its own ("custom") or draw without one ("bare"); it is    *)
(* always supported, and has a toggle like the built-in one it stands for. *)
BuiltIn == {"bound", "unbound"}
Kinds == BuiltIn \cup {"custom", "bare"}

ASSUME CanonicalAssumption ==
    Canonical \in Seq(Effects) /\ IsInjective(Canonical) /\ LUT \in Effects

ASSUME RenderOrdersAssumption ==
    \A wanted \in RenderOrders : wanted \in Seq(Effects) /\ IsInjective(wanted)

ASSUME OverridesAssumption == \A o \in Overrides : o \subseteq Effects

VARIABLES
    registry,         \* PostFxPassRegistry
    mirror,           \* the Rust registry after the same calls
    stage,            \* "constructed", "awake" (_initialized) or "destroyed"
    availability,     \* _availabilityProvider: Default or the effects it claims
    materials,        \* the effects whose shader was found
    supported,        \* the effects whose _...Supported flag is set
    frame,            \* the call of OnRenderImage in progress, or the last one
    ping,             \* whether the temporary texture is held
    image             \* image[t]: the effects applied to what t shows

vars == <<registry, mirror, stage, availability, materials, supported,
          frame, ping, image>>

setup == <<stage, availability, materials, supported>>
drawing == <<frame, ping, image>>

---------------------------------------------------------------------------
(* Providers.                                                            *)

Material(e) ==
    \/ registry.providers[e] = "bound" /\ e \in materials
    \/ registry.providers[e] = "custom"

Draws(e) == Material(e) \/ registry.providers[e] = "bare"

(* Mutant: the flags of the audit are not consulted.                     *)
IsSupportedAlways(e) == e \in Effects

IsSupported(e) == registry.providers[e] \in BuiltIn => e \in supported

Runs(e, enabled) == e \in enabled /\ IsSupported(e)

HasAnyActivePass(enabled) ==
    \E e \in ToSet(registry.order) \cap Registered(registry) :
        Runs(e, enabled) /\ Material(e)

(* The owner's material is dereferenced whoever owns the provider.       *)
ApplyParamsThrows(e) ==
    registry.providers[e] \in BuiltIn /\ e \in Parameterised \ materials

---------------------------------------------------------------------------
(* Construction, start-up and end.                                       *)

DefaultRegistry ==
    LET after[n \in 0..Len(Canonical)] ==
            IF n = 0 THEN Empty ELSE Register(after[n - 1], Canonical[n], "bound")
    IN  after[Len(Canonical)]

DefaultMirror ==
    LET after[n \in 0..Len(Canonical)] ==
            IF n = 0 THEN rust_empty ELSE rust_register(after[n - 1], Canonical[n])
    IN  after[Len(Canonical)]

NoFrame == [pc |-> "idle", at |-> 0, cur |-> "src", next |-> "ping",
            enabled |-> {}, lutTexture |-> FALSE]

Blank == [t \in {"src", "ping", "dst"} |-> << >>]

Init ==
    /\ registry = DefaultRegistry /\ mirror = DefaultMirror
    /\ stage = "constructed" /\ availability = Default
    /\ materials = {} /\ supported = {}
    /\ frame = NoFrame /\ ping = FALSE /\ image = Blank

Between == frame.pc = "idle" /\ stage # "destroyed"

SetAvailabilityProvider(claimed) ==
    /\ stage = "constructed" /\ frame.pc = "idle"
    /\ availability' = claimed
    /\ UNCHANGED <<registry, mirror, stage, materials, supported, drawing>>

(* The materials first, then the audit of what is available.             *)
Awake(found) ==
    /\ stage = "constructed" /\ frame.pc = "idle"
    /\ stage' = "awake"
    /\ materials' = found
    /\ supported' = IF availability = Default THEN found ELSE availability
    /\ UNCHANGED <<registry, mirror, availability, drawing>>

OnDestroy ==
    /\ Between /\ stage = "awake"
    /\ stage' = "destroyed"
    /\ materials' = {} /\ ping' = FALSE
    /\ registry' = Empty /\ mirror' = rust_empty
    /\ UNCHANGED <<availability, supported, frame, image>>

(* A component destroyed may be followed by another one.                 *)
Construct ==
    /\ stage = "destroyed"
    /\ registry' = DefaultRegistry /\ mirror' = DefaultMirror
    /\ stage' = "constructed" /\ availability' = Default
    /\ materials' = {} /\ supported' = {}
    /\ frame' = NoFrame /\ ping' = FALSE /\ image' = Blank

---------------------------------------------------------------------------
(* Scripts change the registry between frames.                           *)

RegisterPass(e, kind) ==
    /\ Between
    /\ registry' = Register(registry, e, kind)
    /\ mirror' = rust_register(mirror, e)
    /\ UNCHANGED <<setup, drawing>>

UnregisterPass(e) ==
    /\ Between
    /\ registry' = Unregister(registry, e)
    /\ mirror' = rust_unregister(mirror, e)
    /\ UNCHANGED <<setup, drawing>>

OrderPasses(wanted) ==
    /\ Between
    /\ registry' = SetRenderOrder(registry, wanted)
    /\ mirror' = rust_set_render_order(mirror, wanted)
    /\ UNCHANGED <<setup, drawing>>

(* PostFxPassRegistry.Init: every provider learns its owner.             *)
InitPasses ==
    /\ Between
    /\ registry' = [registry EXCEPT !.providers =
                        [e \in DOMAIN @ |-> IF @[e] = "unbound" THEN "bound" ELSE @[e]]]
    /\ UNCHANGED <<mirror, setup, drawing>>

---------------------------------------------------------------------------
(* OnRenderImage.  Toggles and the LUT texture are public fields, set by *)
(* scripts before the frame; no field changes while it is drawn.         *)

Called(pc, enabled, lutTexture) ==
    [NoFrame EXCEPT !.pc = pc, !.enabled = enabled, !.lutTexture = lutTexture]

BlitThrough(enabled, lutTexture) ==
    /\ Between
    /\ stage = "constructed" \/ ~HasAnyActivePass(enabled)
    /\ frame' = Called("done", enabled, lutTexture)
    /\ image' = [Blank EXCEPT !["dst"] = Blank["src"]]
    /\ UNCHANGED <<registry, mirror, setup, ping>>

(* The temporary texture is taken, then Providers is evaluated: it throws *)
(* when the order names an effect that has no provider, and the finally  *)
(* clause gives the texture back.                                        *)
OnRenderImage(enabled, lutTexture) ==
    /\ Between /\ stage = "awake" /\ HasAnyActivePass(enabled)
    /\ IF Strays(registry) # {}
       THEN frame' = Called("failed", enabled, lutTexture) /\ ping' = FALSE
       ELSE frame' = [Called("passes", enabled, lutTexture) EXCEPT !.at = 1]
            /\ ping' = TRUE
    /\ image' = Blank
    /\ UNCHANGED <<registry, mirror, setup>>

Drawing == frame.pc = "passes" /\ frame.at <= Len(registry.order)

Pass == registry.order[frame.at]

Advanced == [frame EXCEPT !.at = @ + 1]

SkipPass ==
    /\ Drawing /\ ~Runs(Pass, frame.enabled)
    /\ frame' = Advanced
    /\ UNCHANGED <<registry, mirror, setup, ping, image>>

(* Not swapped: what is composited goes straight to the destination.     *)
CompositeLut ==
    /\ Drawing /\ Runs(Pass, frame.enabled) /\ Pass = LUT
    /\ image' = [image EXCEPT !["dst"] =
                     image[frame.cur]
                     \o IF frame.lutTexture /\ Material(LUT) THEN <<LUT>> ELSE << >>]
    /\ frame' = Advanced
    /\ UNCHANGED <<registry, mirror, setup, ping>>

(* Mutant: the textures are swapped although nothing was drawn.          *)
DrawPassSwaps ==
    /\ Drawing /\ Runs(Pass, frame.enabled) /\ Pass # LUT
    /\ ~ApplyParamsThrows(Pass)
    /\ image' = IF Draws(Pass)
                THEN [image EXCEPT ![frame.next] = Append(image[frame.cur], Pass)]
                ELSE image
    /\ frame' = [Advanced EXCEPT !.cur = frame.next, !.next = frame.cur]
    /\ UNCHANGED <<registry, mirror, setup, ping>>

DrawPass ==
    /\ Drawing /\ Runs(Pass, frame.enabled) /\ Pass # LUT
    /\ ~ApplyParamsThrows(Pass)
    /\ IF Draws(Pass)
       THEN /\ image' = [image EXCEPT ![frame.next] = Append(image[frame.cur], Pass)]
            /\ frame' = [Advanced EXCEPT !.cur = frame.next, !.next = frame.cur]
       ELSE UNCHANGED image /\ frame' = Advanced
    /\ UNCHANGED <<registry, mirror, setup, ping>>

(* Mutant: the exception leaves the temporary texture behind.            *)
FailPassHolding ==
    /\ Drawing /\ Runs(Pass, frame.enabled) /\ Pass # LUT
    /\ ApplyParamsThrows(Pass)
    /\ frame' = [frame EXCEPT !.pc = "failed"]
    /\ UNCHANGED <<registry, mirror, setup, ping, image>>

FailPass ==
    /\ Drawing /\ Runs(Pass, frame.enabled) /\ Pass # LUT
    /\ ApplyParamsThrows(Pass)
    /\ frame' = [frame EXCEPT !.pc = "failed"]
    /\ ping' = FALSE
    /\ UNCHANGED <<registry, mirror, setup, image>>

(* "If LUT was not active, blit the final result to dst".                *)
LutActive ==
    /\ LUT \in Registered(registry)
    /\ Runs(LUT, frame.enabled)
    /\ frame.lutTexture

FinishFrame ==
    /\ frame.pc = "passes" /\ frame.at > Len(registry.order)
    /\ image' = IF LutActive THEN image
                ELSE [image EXCEPT !["dst"] = image[frame.cur]]
    /\ frame' = [frame EXCEPT !.pc = "done"]
    /\ ping' = FALSE
    /\ UNCHANGED <<registry, mirror, setup>>

(* The engine takes the destination and goes on.                         *)
Present ==
    /\ frame.pc \in {"done", "failed"}
    /\ frame' = NoFrame /\ image' = Blank
    /\ UNCHANGED <<registry, mirror, setup, ping>>

Next ==
    \/ \E claimed \in Overrides : SetAvailabilityProvider(claimed)
    \/ \E found \in SUBSET Effects : Awake(found)
    \/ OnDestroy
    \/ Construct
    \/ \E e \in Effects, kind \in Kinds : RegisterPass(e, kind)
    \/ \E e \in Effects : UnregisterPass(e)
    \/ \E wanted \in RenderOrders : OrderPasses(wanted)
    \/ InitPasses
    \/ \E enabled \in SUBSET Effects, lutTexture \in BOOLEAN :
          BlitThrough(enabled, lutTexture) \/ OnRenderImage(enabled, lutTexture)
    \/ SkipPass
    \/ CompositeLut
    \/ DrawPass
    \/ FailPass
    \/ FinishFrame
    \/ Present

Spec == Init /\ [][Next]_vars

---------------------------------------------------------------------------
(* Properties.                                                           *)

Shown(e) == e # LUT /\ Runs(e, frame.enabled) /\ Draws(e)

Chain ==
    Kept(registry.order, {e \in ToSet(registry.order) : Shown(e)})
    \o IF LutActive /\ Material(LUT) THEN <<LUT>> ELSE << >>

LutClosesOrder ==
    LutActive => \A i, j \in DOMAIN registry.order :
        registry.order[i] = LUT /\ i < j => ~Shown(registry.order[j])

Rendered ==
    frame.pc = "done" /\ stage = "awake" /\ HasAnyActivePass(frame.enabled)

(* A frame shows every pass that runs, each once and in the order of the *)
(* registry, then the LUT (OnRenderImage), however passes were registered, *)
(* replaced and reordered before and whichever of them could not draw, as *)
(* long as no pass that draws is ordered after an active LUT.            *)
FramesShowChain == Rendered /\ LutClosesOrder => image["dst"] = Chain

(* The temporary texture is held while passes are drawn and at no other  *)
(* time, also after a frame that threw (the finally of OnRenderImage).   *)
TemporaryReturned == ping <=> frame.pc = "passes"

(* A frame throws for two reasons only: the order names an effect without *)
(* a provider, or an injected availability provider vouched for a shader *)
(* that was not found.                                                   *)
FailuresExplained ==
    frame.pc = "failed" =>
        \/ Strays(registry) # {}
        \/ availability # Default /\ supported \ materials # {}

(* "Mirrors the C# PostFxPassRegistry.cs", post_fx_pass_registry.rs: after *)
(* the same calls both registries hold the same effects in the same order, *)
(* and iterate over the same passes when Providers does not throw.       *)
RegistriesMirror ==
    /\ mirror.providers = Registered(registry)
    /\ mirror.render_order = registry.order
    /\ Strays(registry) = {} => rust_providers(mirror) = registry.order

=============================================================================
