--------------------------- MODULE MaterialRules ---------------------------
(***************************************************************************)
(* Properties of a terrain material, src/terrain/materials.rs, and the   *)
(* policies for physically based materials, src/voxel/material_pbr.rs:   *)
(* the manifest of overrides, the texture sources of the channels and    *)
(* missing textures.                                                     *)
(***************************************************************************)
EXTENDS Naturals, Sequences, SequencesExt

CONSTANTS
    PropertyNames,      \* bound
    PropertyValues,     \* bound: values a property is set to
    MaterialIds         \* bound: identifiers overridden and resolved

Kinds == {"float", "color", "texture", "vector"}
Zero == 0

VARIABLES
    properties,      \* TerrainMaterial.properties, by name
    given,           \* history: by name, its kind and the last value set in it
    mode,            \* MaterialSeedManifest.mode
    overrides,       \* the identifiers in per_matid_overrides
    sources,         \* the paths of the TextureChannelMap that are there
    loaded, policy, flavour      \* MissingTextureReport

terrain_material == <<properties, given>>
pbr == <<mode, overrides, sources, loaded, policy, flavour>>
materials == <<terrain_material, pbr>>

---------------------------------------------------------------------------
(* A property has a place for a value of each kind.                      *)
new_unchecked(kind) == [kind |-> kind, slots |-> [k \in Kinds |-> Zero]]

TerrainMaterialProperty(kind, v) == [new_unchecked(kind) EXCEPT !.slots[kind] = v]

value_of(name, kind) ==
    IF properties[name].kind = kind THEN <<"Ok", properties[name].slots[kind]>>
    ELSE <<"WrongType", kind>>

Setting(f, name, v) == [n \in DOMAIN f \cup {name} |-> IF n = name THEN v ELSE f[n]]

add_property(name, kind, v) ==
    properties' = IF name \in DOMAIN properties THEN properties
                  ELSE Setting(properties, name, TerrainMaterialProperty(kind, v))

Add(name, kind, v) ==
    /\ add_property(name, kind, v)
    /\ given' = IF name \in DOMAIN given THEN given ELSE Setting(given, name, <<kind, v>>)
    /\ UNCHANGED pbr

remove_property(name) ==
    /\ properties' = [n \in DOMAIN properties \ {name} |-> properties[n]]
    /\ given' = [n \in DOMAIN given \ {name} |-> given[n]]
    /\ UNCHANGED pbr

(* A setter of another kind returns an error.  A property is set before it *)
(* is added: the map hands out no reference to change it by.             *)
set_value(property, kind, v) ==
    IF property.kind = kind THEN [property EXCEPT !.slots[kind] = v] ELSE property

AddAfterSet(name, kind, setter, v) ==
    LET property == set_value(TerrainMaterialProperty(kind, Zero), setter, v)
    IN  /\ name \notin DOMAIN properties
        /\ properties' = Setting(properties, name, property)
        /\ given' = Setting(given, name, <<kind, IF setter = kind THEN v ELSE Zero>>)
        /\ UNCHANGED pbr

---------------------------------------------------------------------------
(* material_pbr.rs.  The fields of a manifest are public: an override may *)
(* be put into a canonical one, and the mode changed.                    *)
canonical == mode' = "Canonical" /\ overrides' = {}

primitive(ids) == mode' = "Primitive" /\ overrides' = ids

SetManifest ==
    /\ \/ canonical
       \/ \E ids \in SUBSET MaterialIds : primitive(ids)
       \/ mode' = mode /\ \E id \in MaterialIds : overrides' = overrides \cup {id}
       \/ mode' \in {"Canonical", "Primitive"} /\ overrides' = overrides
    /\ UNCHANGED <<terrain_material, sources, loaded, policy, flavour>>

resolve(in, id) ==
    IF in = "Canonical"
    THEN IF id \in overrides THEN "CanonicalRejectsOverrides" ELSE "Exemplar"
    ELSE IF id \in overrides THEN "Override" ELSE "NoEntryForMaterial"

PbrChannel == {"Albedo", "Normal", "Metallic", "Roughness", "AmbientOcclusion"}

minimal == {"albedo", "normal"}
standalone == {"albedo", "normal", "mr", "ao"}
orm_packed == {"albedo", "normal", "orm"}

SetSources ==
    /\ \/ sources' \in {minimal, standalone, orm_packed}
       \/ \E path \in standalone \cup orm_packed : sources' = sources \cup {path}
       \/ \E path \in standalone \cup orm_packed : sources' = sources \ {path}
    /\ UNCHANGED <<terrain_material, mode, overrides, loaded, policy, flavour>>

required_paths ==
    LET present(path) == IF path \in sources THEN <<path>> ELSE << >>
    IN  present("albedo") \o present("normal") \o present("mr") \o present("ao") \o present("orm")

is_complete ==
    /\ "albedo" \in sources /\ "normal" \in sources
    /\ "mr" \in sources \/ "orm" \in sources
    /\ "ao" \in sources \/ "orm" \in sources

(* What a path can drive, by the comments on the fields.                 *)
Drives ==
    [albedo |-> {"Albedo"}, normal |-> {"Normal"}, mr |-> {"Metallic", "Roughness"},
     ao |-> {"AmbientOcclusion"}, orm |-> {"Metallic", "Roughness", "AmbientOcclusion"}]

for_channel(channel) == IF channel = "Albedo" THEN "Srgb" ELSE "Linear"

SetReport ==
    /\ loaded' \in BOOLEAN
    /\ policy' \in {"Auto", "Loud", "FlatTint"}
    /\ flavour' \in {"Dev", "Player"}
    /\ UNCHANGED <<terrain_material, mode, overrides, sources>>

action ==
    IF loaded THEN "Keep"
    ELSE IF policy = "Loud" \/ (policy = "Auto" /\ flavour = "Dev") THEN "Panic"
    ELSE "FlatTintWithWarning"

---------------------------------------------------------------------------
RulesInit ==
    /\ properties = << >> /\ given = << >>
    /\ mode = "Canonical" /\ overrides = {}
    /\ sources = {}
    /\ loaded = FALSE /\ policy = "Auto" /\ flavour = "Dev"

RulesNext ==
    \/ \E name \in PropertyNames, kind, setter \in Kinds, v \in PropertyValues :
          Add(name, kind, v) \/ AddAfterSet(name, kind, setter, v)
    \/ \E name \in PropertyNames : remove_property(name)
    \/ SetManifest
    \/ SetSources
    \/ SetReport

RulesSpec == RulesInit /\ [][RulesNext]_materials

---------------------------------------------------------------------------
(* A value is read back by its own kind and no other, a second property of *)
(* the same name and a setter of another kind change nothing             *)
(* (add_property, the getters and the setters).                          *)
TypedReads ==
    /\ DOMAIN properties = DOMAIN given
    /\ \A name \in DOMAIN given, kind \in Kinds :
          value_of(name, kind) = IF given[name][1] = kind THEN <<"Ok", given[name][2]>>
                                 ELSE <<"WrongType", kind>>

(* With any overrides an identifier resolves in one of the two modes and *)
(* is an error in the other: changing the mode of a manifest breaks every *)
(* material it resolved.  A channel map is complete when, and only when, *)
(* every channel has a path that drives it, and every path is then loaded; *)
(* a missing texture stops a player's build only by the loud policy      *)
(* (resolve, is_complete, required_paths, action).                       *)
PoliciesAgree ==
    /\ \A id \in MaterialIds :
          (resolve("Canonical", id) = "Exemplar") # (resolve("Primitive", id) = "Override")
    /\ is_complete <=> PbrChannel \subseteq UNION {Drives[path] : path \in ToSet(required_paths)}
    /\ (action = "Panic" /\ flavour = "Player") => policy = "Loud"

=============================================================================
