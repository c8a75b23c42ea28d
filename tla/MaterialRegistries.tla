------------------------- MODULE MaterialRegistries -------------------------
(***************************************************************************)
(* The registries of materials by identifier of                          *)
(* src/postfx/ports/material_registry.rs,                                *)
(* src/terrain/ports/material_registry.rs and                            *)
(* src/water/ports/material_registry.rs: in each, an in-memory adapter and *)
(* a recording mock behind one trait, here given the same calls.         *)
(***************************************************************************)
EXTENDS Naturals, Sequences, SequencesExt

CONSTANTS
    Labels,       \* bound: names of materials, the blank one among them
    Blank,        \* the name that is empty once trimmed
    MaxMade,      \* bound: materials made
    MaxCalls      \* bound: calls in the log

VARIABLES
    domain,       \* which of the three the registries are of
    made,         \* the materials the program holds, as [id, label]
    by_id,        \* the in-memory adapter: a function from ids to materials
    mirror,       \* by_id of the recording mock
    calls,        \* the mock's log
    kept          \* history: its ids when the log was last reset

registries == <<domain, made, by_id, mirror, calls, kept>>

NoMaterials == [id \in {} |-> Blank]

Holding(contents, m) ==
    [id \in DOMAIN contents \cup {m.id} |-> IF id = m.id THEN m.label ELSE contents[id]]

Without(contents, gone) == [id \in DOMAIN contents \ {gone} |-> contents[id]]

RegistriesInit ==
    /\ domain \in {"postfx", "terrain", "water"}
    /\ made = << >>
    /\ by_id = NoMaterials /\ mirror = NoMaterials
    /\ calls = << >> /\ kept = {}

(* A post-fx material is named by its maker, who may use a name twice.   *)
PostFxMaterialInfo(id, label) ==
    /\ domain = "postfx"
    /\ made' = Append(made, [id |-> id, label |-> label])

(* A fresh Uuid; a blank name is refused, though set_name allows it later. *)
TerrainMaterial(label) ==
    /\ domain = "terrain"
    /\ label # Blank
    /\ made' = Append(made, [id |-> Len(made) + 1, label |-> label])

set_name(k, label) ==
    /\ domain = "terrain"
    /\ made' = [made EXCEPT ![k].label = label]

(* A fresh handle from a counter; any label will do.                     *)
next_handle == Len(made) + 1

WaterMaterial(label) ==
    /\ domain = "water"
    /\ made' = Append(made, [id |-> next_handle, label |-> label])

make ==
    /\ \/ /\ Len(made) < MaxMade
          /\ \E label \in Labels :
                \/ \E id \in 1..2 : PostFxMaterialInfo(id, label)
                \/ TerrainMaterial(label)
                \/ WaterMaterial(label)
       \/ \E k \in DOMAIN made, label \in Labels : set_name(k, label)
    /\ UNCHANGED <<domain, by_id, mirror, calls, kept>>

---------------------------------------------------------------------------
Logged(name, id) ==
    /\ Len(calls) < MaxCalls
    /\ calls' = Append(calls, [name |-> name, id |-> id])

Inserted(m) == by_id' = Holding(by_id, m) /\ mirror' = Holding(mirror, m)

register_postfx(m) ==
    /\ domain = "postfx"
    /\ Logged("register", m.id) /\ Inserted(m)

(* A material that is refused leaves no trace, in the log either.        *)
register_named(kind, m) ==
    /\ domain = kind
    /\ m.label # Blank
    /\ Logged("register", m.id) /\ Inserted(m)

register_terrain(m) == register_named("terrain", m)

register_water(m) == register_named("water", m)

(* Logged whether or not the material is there.                          *)
unregister(id) ==
    /\ Logged("unregister", id)
    /\ by_id' = Without(by_id, id) /\ mirror' = Without(mirror, id)

find(id) == Logged("find", id) /\ UNCHANGED <<by_id, mirror>>

list == Logged("list", 0) /\ UNCHANGED <<by_id, mirror>>

call ==
    /\ \/ \E k \in DOMAIN made :
             \/ register_postfx(made[k]) \/ register_terrain(made[k]) \/ register_water(made[k])
             \/ unregister(made[k].id) \/ find(made[k].id)
       \/ list
    /\ UNCHANGED <<domain, made, kept>>

reset_calls ==
    /\ calls' = << >> /\ kept' = DOMAIN mirror
    /\ UNCHANGED <<domain, made, by_id, mirror>>

RegistriesNext == make \/ call \/ reset_calls

RegistriesSpec == RegistriesInit /\ [][RegistriesNext]_registries

---------------------------------------------------------------------------
(* Played over ids, a log leaves an id in when the last call that puts it *)
(* in or takes it out puts it in, and as it was when there is none.      *)
Changes(told, id) ==
    {k \in DOMAIN told : told[k].id = id /\ told[k].name \in {"register", "unregister"}}

Replayed(ids, told) ==
    {id \in ids \cup {told[k].id : k \in DOMAIN told} :
        IF Changes(told, id) = {} THEN id \in ids
        ELSE \E k \in Changes(told, id) :
                 told[k].name = "register" /\ \A j \in Changes(told, id) : j <= k}

(* Over refused names, replaced materials, ids that are not there and    *)
(* resets, the log tells the whole story: played over the ids at the last *)
(* reset it gives the ids now, and the mock holds what the in-memory     *)
(* adapter holds; no terrain or water material is ever in the            *)
(* registry without a name (register, unregister, reset_calls).          *)
RegistriesReplay ==
    /\ DOMAIN mirror = Replayed(kept, calls)
    /\ mirror = by_id
    /\ domain # "postfx" => \A id \in DOMAIN by_id : by_id[id] # Blank

---------------------------------------------------------------------------
(* The two registries of voxel materials of src/voxel/ports/material.rs, *)
(* over the palette of src/voxel/material.rs: again the in-memory adapter *)
(* and the recording mock, given the same calls.                         *)
CONSTANTS
    MaterialNames,     \* bound: names, the blank one among them
    BlankName,         \* the name that is empty once trimmed
    PaletteSize,       \* identifiers there are: 2^16 in the code
    MaxLogged          \* bound: entries of the log

VARIABLES
    palette,           \* the names in the in-memory adapter, by identifier + 1
    mock,              \* the names in the mock
    log,               \* the mock's log
    before,            \* history: the mock when its log was last reset
    answers            \* what the last add returned: of the adapter, of the mock

ASSUME PaletteAssumption == PaletteSize \in Nat

palettes == <<palette, mock, log, before, answers>>

Overflow == [id |-> PaletteSize, error |-> "storage"]
Invalid == [id |-> PaletteSize, error |-> "invalid"]
Id(k) == [id |-> k, error |-> "none"]

PalettesInit ==
    /\ palette = << >> /\ mock = << >>
    /\ log = << >> /\ before = << >>
    /\ answers = <<Invalid, Invalid>>

(* MaterialPalette::add: the identifier is the length, if 16 bits hold it. *)
Added(materials, name) ==
    IF Len(materials) < PaletteSize
    THEN [materials |-> Append(materials, name), id |-> Id(Len(materials))]
    ELSE [materials |-> materials, id |-> Overflow]

get(materials, id) ==
    IF id < Len(materials) THEN materials[id + 1] ELSE "NotFound"

in_memory_add(name) ==
    IF name = BlankName THEN [materials |-> palette, id |-> Invalid]
    ELSE Added(palette, name)

(* The mock looks at nothing but the size, and logs before that.         *)
mock_add(name) ==
    /\ mock' = Added(mock, name).materials
    /\ log' = Append(log, [call |-> "add", name |-> name])

add(name) ==
    /\ Len(log) < MaxLogged
    /\ palette' = in_memory_add(name).materials
    /\ mock_add(name)
    /\ answers' = <<in_memory_add(name).id, Added(mock, name).id>>
    /\ UNCHANGED before

record_get(id) ==
    /\ Len(log) < MaxLogged
    /\ log' = Append(log, [call |-> "get", name |-> get(mock, id)])
    /\ UNCHANGED <<palette, mock, before, answers>>

reset_log ==
    /\ log' = << >> /\ before' = mock
    /\ UNCHANGED <<palette, mock, answers>>

PalettesNext ==
    \/ \E name \in MaterialNames : add(name)
    \/ \E id \in 0..PaletteSize : record_get(id)
    \/ reset_log

PalettesSpec == PalettesInit /\ [][PalettesNext]_palettes

---------------------------------------------------------------------------
Kept(s, values) ==
    LET upTo[n \in 0..Len(s)] ==
            IF n = 0 THEN << >>
            ELSE IF s[n] \in values THEN Append(upTo[n - 1], s[n]) ELSE upTo[n - 1]
    IN  upTo[Len(s)]

AddedNames ==
    LET adds == Kept(log, [call : {"add"}, name : MaterialNames])
    IN  [k \in 1..Len(adds) |-> adds[k].name]

Named(names) == Kept(names, MaterialNames \ {BlankName})

Least(a, b) == IF a < b THEN a ELSE b

(* The mock's log holds every add, the refused ones too: the mock is what *)
(* it was at the last reset and then the adds in order, as far as there  *)
(* are identifiers.  The adapter holds the mock's materials without the  *)
(* blank ones, so that after a blank name the two give one material two  *)
(* identifiers and the mock is full first; an identifier that add returned *)
(* reads back the material that was added (add, get, reset_calls).       *)
PalettesReplay ==
    LET all == before \o AddedNames
    IN  /\ mock = SubSeq(all, 1, Least(PaletteSize, Len(all)))
        /\ IsPrefix(Named(mock), palette)
        /\ Len(mock) < PaletteSize => palette = Named(mock)
        /\ \A k \in {1, 2} : answers[k].error = "none" =>
              get(<<palette, mock>>[k], answers[k].id) = Last(<<palette, mock>>[k])

=============================================================================
