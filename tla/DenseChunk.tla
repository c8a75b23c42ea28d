----------------------------- MODULE DenseChunk -----------------------------
(***************************************************************************)
(* The dense chunk of src/voxel/chunk.rs, a function from voxel positions *)
(* (triples below CHUNK_EDGE) to materials, 0 being air, and its life: it is *)
(* written to one voxel at a time.  And the form it is stored in, the PVOX *)
(* run-length format of src/voxel/serial.rs and its port: a stream is a  *)
(* sequence of fields, and reading past its end is an I/O error.         *)
(***************************************************************************)
EXTENDS Integers, Sequences, SequencesExt

CONSTANTS
    CHUNK_EDGE,   \* CHUNK_EDGE
    Editable,     \* bound: the positions that are written to
    Materials,    \* bound: the materials written, 0 among them
    MaxRun        \* MAX_RUN, the longest run a u16 holds

Span == 0..CHUNK_EDGE - 1
Positions == Span \X Span \X Span

ASSUME ChunkAssumption ==
    /\ CHUNK_EDGE \in Nat \ {0}
    /\ Editable \subseteq Positions
    /\ Materials \subseteq Nat /\ 0 \in Materials

(* The positions in the order of their index, x first.                   *)
InLoopOrder ==
    [k \in 1..CHUNK_EDGE * CHUNK_EDGE * CHUNK_EDGE |->
        <<(k - 1) % CHUNK_EDGE, ((k - 1) \div CHUNK_EDGE) % CHUNK_EDGE, (k - 1) \div (CHUNK_EDGE * CHUNK_EDGE)>>]

VARIABLE voxels

ChunkInit == voxels = [p \in Positions |-> 0]

Write(p, material) == voxels' = [voxels EXCEPT ![p] = material]

ChunkNext == \E p \in Editable, material \in Materials : Write(p, material)

ChunkSpec == ChunkInit /\ [][ChunkNext]_voxels

---------------------------------------------------------------------------
MAGIC == "PVOX"
FORMAT_VERSION == 1
CHUNK_VOXELS == CHUNK_EDGE * CHUNK_EDGE * CHUNK_EDGE

VoxelSequence(chunk) == [k \in 1..CHUNK_VOXELS |-> chunk[InLoopOrder[k]]]

(* One value longer: the open run grows, or is pushed and another opened. *)
Extended(acc, v) ==
    IF v = acc.current /\ acc.count < MaxRun
      THEN [acc EXCEPT !.count = @ + 1]
      ELSE [runs |-> Append(acc.runs, <<acc.count, acc.current>>), current |-> v, count |-> 1]

Runs(values) ==
    LET after[k \in 0..Len(values) - 1] ==
          IF k = 0 THEN [runs |-> << >>, current |-> values[1], count |-> 1]
          ELSE Extended(after[k - 1], values[k + 1])
    IN  after[Len(values) - 1]

(* Mutant: the run that is open at the end is not pushed.                *)
rle_encode_open(values) == Runs(values).runs

rle_encode(values) == Append(Runs(values).runs, <<Runs(values).count, Runs(values).current>>)

(* The fields: magic, version, element size, number of runs, the runs.   *)
save_chunk(chunk, element) ==
    LET runs == rle_encode(VoxelSequence(chunk))
    IN  <<MAGIC, FORMAT_VERSION, element, Len(runs)>> \o runs

(* A refused stream; no chunk is empty.                                  *)
Failed == << >>

(* Bytes after the last run are never read.                              *)
Decoded(stream) ==
    LET out[n \in 0..stream[4]] ==
          IF n = 0 THEN << >> ELSE out[n - 1] \o [k \in 1..stream[4 + n][1] |-> stream[4 + n][2]]
    IN  out[stream[4]]

load_chunk(stream, element) ==
    IF \/ Len(stream) < 4 \/ stream[1] # MAGIC \/ stream[2] # FORMAT_VERSION
       \/ stream[3] # element \/ Len(stream) < 4 + stream[4]
       \/ Len(Decoded(stream)) # CHUNK_VOXELS
      THEN Failed
      ELSE Decoded(stream)

---------------------------------------------------------------------------
(* What is saved loads back, runs longer than the longest included; a    *)
(* file of another kind, version or element size, one that was cut off   *)
(* anywhere or lost a run, and one whose runs stand for fewer voxels than *)
(* a chunk has is refused, never loaded as another chunk; what follows the *)
(* last run is not read, so that chunks can be loaded one after the other *)
(* (save_chunk, load_chunk).                                             *)
SavesLoadBack ==
    LET stream == save_chunk(voxels, 1)
    IN  /\ load_chunk(stream, 1) = VoxelSequence(voxels)
        /\ load_chunk(stream \o stream, 1) = VoxelSequence(voxels)
        /\ load_chunk([stream EXCEPT ![1] = "RIFF"], 1) = Failed
        /\ \A version \in 0..255 \ {FORMAT_VERSION} :
              load_chunk([stream EXCEPT ![2] = version], 1) = Failed
        /\ load_chunk(stream, 2) = Failed
        /\ load_chunk([stream EXCEPT ![4] = @ - 1], 1) = Failed
        /\ \A k \in 0..Len(stream) - 1 : load_chunk(SubSeq(stream, 1, k), 1) = Failed
        /\ \A k \in 5..Len(stream) : load_chunk(RemoveAt(stream, k), 1) = Failed

=============================================================================
