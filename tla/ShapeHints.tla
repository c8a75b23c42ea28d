----------------------------- MODULE ShapeHints -----------------------------
(***************************************************************************)
(* ShapeHintRegistry of src/voxel/shape_hints.rs: which strategy inflates *)
(* a sprite, by the name of its asset.                                   *)
(*                                                                       *)
(* A name is the sequence of its parts, "_" among them; prefixes are     *)
(* sequences of parts too, so that one may begin in the middle of a word. *)
(***************************************************************************)
EXTENDS Naturals, Sequences, SequencesExt

CONSTANTS
    Lower,          \* to_lowercase, on parts
    Defaults,       \* the pairs <<prefix, hint>> of with_wsm3d_defaults
    NamePrefixes,   \* bound: the prefixes registered
    Hints,          \* ShapeHint
    AssetIds,       \* bound: the names looked up
    MaxEntries      \* bound: the entries

ASSUME HintsAssumption ==
    /\ Len(Defaults) \in Nat
    /\ \A word \in DOMAIN Lower : Lower[word] \in DOMAIN Lower /\ Lower[Lower[word]] = Lower[word]
    /\ AssetIds \subseteq Seq(DOMAIN Lower)

VARIABLE entries

AutoHint == "Auto"
Bar == <<"_">>

to_lowercase(word) == [k \in 1..Len(word) |-> Lower[word[k]]]

Entry(prefix, hint) == [prefix |-> to_lowercase(prefix), hint |-> hint]

with_wsm3d_defaults == [k \in 1..Len(Defaults) |-> Entry(Defaults[k][1], Defaults[k][2])]

HintsInit == entries \in {<< >>, with_wsm3d_defaults}

(* Mutant: the newest entry comes first.                                 *)
register_hint_first(prefix, hint) ==
    /\ Len(entries) < MaxEntries
    /\ entries' = <<Entry(prefix, hint)>> \o entries

register_hint(prefix, hint) ==
    /\ Len(entries) < MaxEntries
    /\ entries' = Append(entries, Entry(prefix, hint))

clear_hints == entries' = << >>

HintsNext ==
    \/ \E prefix \in NamePrefixes, hint \in Hints : register_hint(prefix, hint)
    \/ clear_hints

HintsSpec == HintsInit /\ [][HintsNext]_entries

---------------------------------------------------------------------------
(* The empty prefix matches every name.                                  *)
HasPart(part, word) ==
    \E k \in 0..Len(word) - Len(part) : SubSeq(word, k + 1, k + Len(part)) = part

Matches(prefix, name) ==
    \/ IsPrefix(prefix, name)
    \/ HasPart(Bar \o prefix, name)
    \/ HasPart(prefix \o Bar, name)

hint_among(list, asset_id) ==
    LET found == {k \in 1..Len(list) : Matches(list[k].prefix, to_lowercase(asset_id))}
    IN  IF asset_id = << >> \/ found = {} THEN AutoHint
        ELSE list[CHOOSE k \in found : \A l \in found : k <= l].hint

hint_of(asset_id) == hint_among(entries, asset_id)

---------------------------------------------------------------------------
(* "Later entries have lower priority than earlier ones": an asset that  *)
(* has a hint keeps it, whatever is registered afterwards and however the *)
(* new prefix overlaps the old ones, and the case of its letters makes no *)
(* difference (register, get).                                           *)
HintsLast ==
    [][\A id \in AssetIds :
         LET later == hint_among(entries', id)
         IN  /\ entries' # << >> /\ hint_of(id) # AutoHint => later = hint_of(id)
             /\ later = hint_among(entries', to_lowercase(id))]_entries

=============================================================================
