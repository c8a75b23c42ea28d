----------------------------- MODULE VoxelWorld -----------------------------
(***************************************************************************)
(* VoxelWorld of src/voxel/world.rs: dense chunks allocated by the first *)
(* write, uniform chunks compacted into the sparse octree, and the queue *)
(* of dirty events a consumer drains to rebuild its meshes.              *)
(*                                                                       *)
(* A world position is the pair of its chunk and its voxel in the chunk, *)
(* as VoxelCoords has them: two voxels that are a multiple of the i32    *)
(* range of chunks apart on some axis have the same pair, and are one    *)
(* voxel of the world.  The consumer is external: what delta.rs says     *)
(* consumers do.                                                         *)
(***************************************************************************)
EXTENDS VoxelCoords, Sequences

CONSTANTS
    Coords,       \* chunk-grid coordinates in use
    Voxels,       \* the voxels of one chunk
    Values,       \* voxel values
    Default,      \* T::default()
    None,         \* a key a BTreeMap lacks
    SeqModulus    \* values of WriteSeq (2^64 in the code); bound: writes

ASSUME WorldAssumption ==
    /\ Coords \subseteq Int \X Int \X Int
    /\ Voxels # {}
    /\ Default \in Values /\ None \notin Values
    /\ None \notin [Voxels -> Values]
    /\ SeqModulus \in Nat \ {0}

VARIABLES
    chunks,       \* chunks[c]: the dense chunk at c, or None
    octree,       \* octree[c]: the value of the Uniform node at c, or None
    write_seq,
    dirty,        \* events not yet drained
    batch,        \* the consumer: drained events it has yet to handle
    meshed,       \* the consumer: the voxels its mesh of c was built from
    wrote,        \* history: the value last written to each voxel
    forgotten,    \* history: chunks allocated over a non-default octree node
    events        \* history: events emitted so far (bound: SeqModulus)

store == <<chunks, octree, write_seq, dirty>>
consumer == <<batch, meshed>>
history == <<wrote, forgotten, events>>
vars == <<store, consumer, history>>

Empty == [v \in Voxels |-> Default]

Event == [chunk_id : {chunk_id(c) : c \in Coords}, write_seq : 0..SeqModulus - 1]

Before(e, f) ==
    \/ IdBelow(e.chunk_id, f.chunk_id)
    \/ e.chunk_id = f.chunk_id /\ e.write_seq < f.write_seq

Queued(queue) == {queue[k] : k \in 1..Len(queue)}

(* The orders of a queue's events that sort() may return: events compare *)
(* equal only when they are equal.                                       *)
Sorted(queue) ==
    {s \in [1..Len(queue) -> Queued(queue)] :
        /\ Queued(s) = Queued(queue)
        /\ \A i, j \in 1..Len(queue) : i < j => ~ Before(s[j], s[i])}

---------------------------------------------------------------------------
(* Reading.                                                              *)

read(c, v) ==
    IF chunks[c] # None THEN chunks[c][v]
    ELSE IF octree[c] # None THEN octree[c]
    ELSE Default

Contents(c) == [v \in Voxels |-> read(c, v)]

---------------------------------------------------------------------------
(* Writing.                                                              *)

advance == (write_seq + 1) % SeqModulus

(* A chunk is allocated empty, whatever the octree holds for it.         *)
Allocated(c) == IF chunks[c] = None THEN Empty ELSE chunks[c]

(* Mutant: the first write to a chunk emits no event.                    *)
emit_later(c, v, value) ==
    IF chunks[c] # None /\ Allocated(c)[v] # value
      THEN /\ dirty' = Append(dirty, [chunk_id |-> chunk_id(c), write_seq |-> write_seq])
           /\ write_seq' = advance
           /\ events' = events + 1
      ELSE UNCHANGED <<dirty, write_seq, events>>

emit(c, v, value) ==
    IF Allocated(c)[v] # value
      THEN /\ dirty' = Append(dirty, [chunk_id |-> chunk_id(c), write_seq |-> write_seq])
           /\ write_seq' = advance
           /\ events' = events + 1
      ELSE UNCHANGED <<dirty, write_seq, events>>

Reallocates(c) == chunks[c] = None /\ octree[c] \notin {None, Default}

write(c, v, value) ==
    /\ events < SeqModulus
    /\ chunks' = [chunks EXCEPT ![c] = [Allocated(c) EXCEPT ![v] = value]]
    /\ emit(c, v, value)
    /\ wrote' = [wrote EXCEPT ![c] = [wrote[c] EXCEPT ![v] = value]]
    /\ forgotten' = IF Reallocates(c) THEN forgotten \cup {c} ELSE forgotten
    /\ UNCHANGED <<octree, consumer>>

---------------------------------------------------------------------------
(* Compaction.                                                           *)

(* Mutant: a chunk that holds one default voxel counts as empty.         *)
IsUniformLoosely(c) ==
    chunks[c] # None /\ (\/ \A v, w \in Voxels : chunks[c][v] = chunks[c][w]
                         \/ \E v \in Voxels : chunks[c][v] = Default)

IsUniform(c) == chunks[c] # None /\ \A v, w \in Voxels : chunks[c][v] = chunks[c][w]

Promoted == {c \in Coords : IsUniform(c)}

(* Mutant: a chunk the octree already has a node for is not promoted.    *)
compact_once ==
    /\ chunks' = [c \in Coords |-> IF c \in Promoted /\ octree[c] = None
                                     THEN None ELSE chunks[c]]
    /\ octree' = [c \in Coords |-> IF c \in Promoted /\ octree[c] = None
                                     THEN chunks[c][CHOOSE v \in Voxels : TRUE]
                                     ELSE octree[c]]
    /\ UNCHANGED <<write_seq, dirty, consumer, history>>

compact ==
    /\ chunks' = [c \in Coords |-> IF c \in Promoted THEN None ELSE chunks[c]]
    /\ octree' = [c \in Coords |-> IF c \in Promoted
                                     THEN chunks[c][CHOOSE v \in Voxels : TRUE]
                                     ELSE octree[c]]
    /\ UNCHANGED <<write_seq, dirty, consumer, history>>

---------------------------------------------------------------------------
(* Draining, and the consumer that rebuilds chunk meshes from the events. *)

drain_dirty ==
    /\ batch = << >>
    /\ dirty # << >>
    /\ batch' \in Sorted(dirty)
    /\ dirty' = << >>
    /\ UNCHANGED <<chunks, octree, write_seq, meshed, history>>

(* The world may have changed since the drain; the mesh is built from what *)
(* it holds now.  Events name a chunk by its identifier alone.           *)
rebuild ==
    /\ batch # << >>
    /\ meshed' = [c \in Coords |-> IF chunk_id(c) = Head(batch).chunk_id
                                     THEN Contents(c) ELSE meshed[c]]
    /\ batch' = Tail(batch)
    /\ UNCHANGED <<store, history>>

---------------------------------------------------------------------------
Init ==
    /\ chunks = [c \in Coords |-> None]
    /\ octree = [c \in Coords |-> None]
    /\ write_seq = 0
    /\ dirty = << >>
    /\ batch = << >>
    /\ meshed = [c \in Coords |-> Empty]
    /\ wrote = [c \in Coords |-> Empty]
    /\ forgotten = {}
    /\ events = 0

Next ==
    \/ \E c \in Coords, v \in Voxels, value \in Values : write(c, v, value)
    \/ compact
    \/ drain_dirty
    \/ rebuild

Spec == Init /\ [][Next]_vars

---------------------------------------------------------------------------
(* Properties.                                                           *)

WorldTypeOK ==
    /\ chunks \in [Coords -> [Voxels -> Values] \cup {None}]
    /\ octree \in [Coords -> Values \cup {None}]
    /\ write_seq \in 0..SeqModulus - 1
    /\ wrote \in [Coords -> [Voxels -> Values]]
    /\ forgotten \subseteq Coords
    /\ events \in Nat

ConsumerTypeOK ==
    /\ dirty \in Seq(Event) /\ batch \in Seq(Event)
    /\ meshed \in [Coords -> [Voxels -> Values]]

(* Type invariant.                                                       *)
TypeOK == WorldTypeOK /\ ConsumerTypeOK

(* Through any sequence of writes and compactions, a voxel reads as it was *)
(* last written, as long as its chunk was not written to after having been *)
(* compacted into a region of a value other than the default (write, read, *)
(* compact).                                                             *)
ReadsMatchWrites == \A c \in Coords \ forgotten : Contents(c) = wrote[c]

(* Under the same proviso, a mesh that shows an older state of its chunk is *)
(* going to be rebuilt: an event that names the chunk is queued in the   *)
(* world or with the consumer, even when writes and compactions fall     *)
(* between the drain and the rebuild (write, drain_dirty).               *)
StaleMeshesHaveEvent ==
    \A c \in Coords \ forgotten :
        meshed[c] # Contents(c) =>
            \E e \in Queued(dirty) \cup Queued(batch) : e.chunk_id = chunk_id(c)

(* An event is newer than every event drained before it, so that no two  *)
(* events are equal and a consumer that drops duplicates drops no write  *)
(* (write, WriteSeq::advance, drain_dirty).                              *)
EventsAreNew ==
    /\ \A i, j \in 1..Len(dirty) : i < j => dirty[i].write_seq < dirty[j].write_seq
    /\ \A i \in 1..Len(batch), j \in 1..Len(dirty) :
           batch[i].write_seq < dirty[j].write_seq

(* "re-running on a fully-compacted world must return 0": a compaction   *)
(* leaves no chunk that another one would promote, whatever nodes the    *)
(* octree already had (compact).                                         *)
CompactSettles == [][compact => Promoted' = {}]_vars

=============================================================================
