--------------------------- MODULE SnapshotFiles ---------------------------
(***************************************************************************)
(* The JSON snapshots of src/postfx/ports/serialization.rs,              *)
(* src/terrain/ports/serialization.rs and src/water/ports/serialization.rs *)
(*                                                                       *)
(* A text is the sequence of the fields a snapshot is written as, closed *)
(* by a brace.  fs::write opens and truncates the file, then writes piece *)
(* by piece; a call may fail and the process may die in between.  Loads  *)
(* take &self and may run while a save does.                             *)
(***************************************************************************)
EXTENDS Naturals, Sequences, SequencesExt, FiniteSets

CONSTANTS
    Destinations,     \* bound: file names, "" and " " among them
    PostFxSnapshots,  \* bound: the snapshots each port is given
    TerrainSnapshots,
    WaterSnapshots,
    MaxSaves          \* bound: saves begun

Ports == {"postfx", "terrain", "water"}

NoText == << <<"no", "file">> >>
NoSnapshot == [error |-> "any"]
Close == <<"end", "of text">>
NotFinite == "NotFinite"      \* a NaN or an infinity: JSON has null for it
Negative == "Negative"

(* The fields in the order they are written.  An f32 among them may be   *)
(* anything; the version of a post-fx snapshot is unsigned.              *)
PostFxStackSnapshot == <<"version", "name", "lut_path", "bloom_intensity">>
TerrainSnapshot == <<"version", "width", "elevations", "material_ids">>
WaterSnapshot == <<"version", "name", "sea_level", "material_names">>

FieldsOf(port) ==
    [postfx |-> PostFxStackSnapshot, terrain |-> TerrainSnapshot, water |-> WaterSnapshot][port]

SnapshotsOf(port) ==
    [postfx |-> PostFxSnapshots, terrain |-> TerrainSnapshots, water |-> WaterSnapshots][port]

ASSUME SnapshotAssumption ==
    /\ \A port \in Ports : \A snapshot \in SnapshotsOf(port) :
          snapshot = [f \in ToSet(FieldsOf(port)) |-> snapshot[f]]
    /\ \A snapshot \in PostFxSnapshots : snapshot.version \notin {NotFinite, Negative}

(* #[serde(default)] on every field.                                     *)
default(field) == IF field = "version" THEN "1" ELSE "0"

to_string_pretty(port, snapshot) ==
    Append([k \in 1..Len(FieldsOf(port)) |->
               <<FieldsOf(port)[k], snapshot[FieldsOf(port)[k]]>>], Close)

VARIABLES
    files,        \* by destination, the text of the file or NoText
    job,          \* the save under way, or Idle
    begun,        \* history: by destination, the <<port, snapshot>> begun
    last          \* history: by destination, the last one begun and whether it was accepted

snapshots == <<files, job, begun, last>>

Idle == [phase |-> "idle"]

SnapshotInit ==
    /\ files = [d \in Destinations |-> NoText]
    /\ job = Idle
    /\ begun = [d \in Destinations |-> {}]
    /\ last = [d \in Destinations |-> [save |-> << >>, accepted |-> FALSE]]

(* The post-fx port takes a blank for a file name.                       *)
RefusesName(port, destination) ==
    destination = "" \/ (port # "postfx" /\ destination = " ")

Saves == UNION {begun[d] : d \in Destinations}

(* create_dir_all may fail, before anything is touched.                  *)
save(port, destination, snapshot) ==
    /\ job = Idle /\ Cardinality(Saves) < MaxSaves
    /\ ~RefusesName(port, destination)
    /\ begun' = [begun EXCEPT ![destination] = @ \cup {<<port, snapshot>>}]
    /\ last' = [last EXCEPT ![destination] = [save |-> <<port, snapshot>>, accepted |-> FALSE]]
    /\ job' \in {Idle, [phase |-> "open", at |-> destination,
                        text |-> to_string_pretty(port, snapshot), done |-> 0]}
    /\ UNCHANGED files

(* Mutant: the file is opened without truncation.                        *)
truncate_not ==
    /\ job.phase = "open"
    /\ files' = [files EXCEPT ![job.at] = IF @ = NoText THEN << >> ELSE @]
    /\ job' = [job EXCEPT !.phase = "write"]
    /\ UNCHANGED <<begun, last>>

truncate ==
    /\ job.phase = "open"
    /\ files' = [files EXCEPT ![job.at] = << >>]
    /\ job' = [job EXCEPT !.phase = "write"]
    /\ UNCHANGED <<begun, last>>

(* What lies beyond the position of the write stays.                     *)
Overwritten(text, k, piece) ==
    IF k <= Len(text) THEN [text EXCEPT ![k] = piece] ELSE Append(text, piece)

write_piece ==
    /\ job.phase = "write" /\ job.done < Len(job.text)
    /\ files' = [files EXCEPT ![job.at] = Overwritten(@, job.done + 1, job.text[job.done + 1])]
    /\ job' = [job EXCEPT !.done = @ + 1]
    /\ UNCHANGED <<begun, last>>

saved ==
    /\ job.phase = "write" /\ job.done = Len(job.text)
    /\ last' = [last EXCEPT ![job.at].accepted = TRUE]
    /\ job' = Idle
    /\ UNCHANGED <<files, begun>>

(* A system call fails and the save returns its error, or the process dies *)
(* and starts again; the file stays as it is.                            *)
fail ==
    /\ job # Idle
    /\ job' = Idle
    /\ UNCHANGED <<files, begun, last>>

SnapshotNext ==
    \/ \E port \in Ports : \E snapshot \in SnapshotsOf(port), d \in Destinations :
          save(port, d, snapshot)
    \/ truncate
    \/ write_piece
    \/ saved
    \/ fail

SnapshotSpec == SnapshotInit /\ [][SnapshotNext]_snapshots

---------------------------------------------------------------------------
(* serde_json: whole up to the closing brace, a value of the right type in *)
(* every known field; unknown fields are skipped, missing ones defaulted. *)
ValueIn(text, field) ==
    LET at == {k \in 1..Len(text) : text[k][1] = field}
    IN  IF at = {} THEN default(field) ELSE text[CHOOSE k \in at : TRUE][2]

Readable(port, field, value) ==
    /\ value # NotFinite
    /\ (field = "version" /\ port = "postfx") => value # Negative

from_str(port, text) ==
    LET fields == FieldsOf(port)
    IN  IF \/ Len(text) = 0 \/ text[Len(text)] # Close
           \/ \E k \in 1..Len(text) - 1 : text[k] = Close
           \/ \E k \in 1..Len(fields) : ~Readable(port, fields[k], ValueIn(text, fields[k]))
        THEN NoSnapshot
        ELSE [f \in ToSet(fields) |-> ValueIn(text, f)]

load(port, destination) ==
    IF RefusesName(port, destination) \/ files[destination] = NoText THEN NoSnapshot
    ELSE from_str(port, files[destination])

---------------------------------------------------------------------------
(* What a port sees of a snapshot that another port wrote: nothing checks *)
(* the format, the fields both have are taken and the others defaulted.  *)
Seen(port, by) ==
    [f \in ToSet(FieldsOf(port)) |->
        IF f \in ToSet(FieldsOf(by[1])) THEN by[2][f] ELSE default(f)]

Finite(by) == \A f \in DOMAIN by[2] : by[2][f] # NotFinite

(* A load that succeeds, whenever it runs and whatever failed before,    *)
(* returns one snapshot that was saved under that name, never parts of   *)
(* two; and a save that was accepted is what its port loads, until the   *)
(* next save begins, unless it holds a number JSON cannot write, which   *)
(* save accepts and load then refuses (save, load).                      *)
SnapshotsLoad ==
    \A port \in Ports, d \in Destinations :
        /\ \/ load(port, d) = NoSnapshot
           \/ \E by \in begun[d] : load(port, d) = Seen(port, by)
        /\ last[d].accepted =>
              LET by == last[d].save
              IN  port = by[1] => load(port, d) = IF Finite(by) THEN by[2] ELSE NoSnapshot

=============================================================================
