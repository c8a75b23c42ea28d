---------------------------- MODULE Voxel_proofs ----------------------------
(***************************************************************************)
(* Theorems about VoxelWorld, for every set of chunks, voxels and values, *)
(* about the octree and the names of voxels, for every tree and every set *)
(* of positions, about saved chunks, whatever they hold, about batches of *)
(* vectors, of any length, about images of any size, and about the meshes *)
(* of a chunk, whatever it holds.                                        *)
(***************************************************************************)
EXTENDS VoxelWorld, MCVoxelData, Induction

---------------------------------------------------------------------------
(* The stores.                                                           *)

LEMMA EmptyType == Empty \in [Voxels -> Values]
BY WorldAssumption DEF Empty

(* The chunk a write starts from is a dense chunk.                       *)
LEMMA AllocatedType ==
    ASSUME WorldTypeOK, NEW c \in Coords
    PROVE  Allocated(c) \in [Voxels -> Values]
BY EmptyType DEF WorldTypeOK, Allocated

(* A new world is well typed.                                            *)
LEMMA WorldTypeInit == Init => WorldTypeOK
BY EmptyType, WorldAssumption DEF Init, WorldTypeOK

(* Every operation keeps the types of the world.                         *)
LEMMA WorldTypeStep ==
    ASSUME WorldTypeOK, [Next]_vars
    PROVE  WorldTypeOK'
<1> USE DEF WorldTypeOK
<1>1. ASSUME NEW c \in Coords, NEW v \in Voxels, NEW value \in Values,
             write(c, v, value)
      PROVE  WorldTypeOK'
  <2>1. [Allocated(c) EXCEPT ![v] = value] \in [Voxels -> Values]
    BY AllocatedType
  <2>2. chunks' \in [Coords -> [Voxels -> Values] \cup {None}]
    BY <1>1, <2>1 DEF write
  <2>3. write_seq' \in 0..SeqModulus - 1 /\ events' \in Nat
    BY <1>1, WorldAssumption DEF write, emit, advance
  <2>4. [wrote[c] EXCEPT ![v] = value] \in [Voxels -> Values]
    OBVIOUS
  <2>5. wrote' \in [Coords -> [Voxels -> Values]]
    BY <1>1, <2>4 DEF write
  <2>6. forgotten' \subseteq Coords /\ octree' = octree
    BY <1>1 DEF write
  <2> QED
    BY <2>2, <2>3, <2>5, <2>6
<1>2. CASE compact
  <2> DEFINE some == CHOOSE v \in Voxels : TRUE
  <2>1. some \in Voxels
    BY WorldAssumption
  <2>2. \A c \in Promoted : c \in Coords /\ chunks[c] \in [Voxels -> Values]
    BY DEF Promoted, IsUniform
  <2>3. octree' = [c \in Coords |-> IF c \in Promoted THEN chunks[c][some] ELSE octree[c]]
    BY <1>2 DEF compact
  <2> HIDE DEF some
  <2>4. octree' \in [Coords -> Values \cup {None}]
    BY <2>1, <2>2, <2>3
  <2>5. chunks' \in [Coords -> [Voxels -> Values] \cup {None}]
    BY <1>2 DEF compact
  <2> QED
    BY <1>2, <2>4, <2>5 DEF compact, history
<1>3. CASE drain_dirty \/ rebuild
  BY <1>3 DEF drain_dirty, rebuild, store, history
<1>4. CASE UNCHANGED vars
  BY <1>4 DEF vars, store, history
<1> QED
  BY <1>1, <1>2, <1>3, <1>4 DEF Next

(* The dense chunks, the octree and the histories keep their types.      *)
THEOREM WorldTypeCorrect == Spec => []WorldTypeOK
BY WorldTypeInit, WorldTypeStep, PTL DEF Spec

---------------------------------------------------------------------------
(* What reads return.                                                    *)

(* Writing one voxel of a chunk that is not allocated over a foreign value. *)
LEMMA WriteContents ==
    ASSUME WorldTypeOK, NEW c \in Coords, NEW v \in Voxels, NEW value \in Values,
           write(c, v, value)
    PROVE  /\ Contents(c)' = [Allocated(c) EXCEPT ![v] = value]
           /\ \A d \in Coords \ {c} : Contents(d)' = Contents(d)
           /\ ~ Reallocates(c) => Contents(c) = Allocated(c)
<1> USE DEF WorldTypeOK
<1>1. /\ chunks' = [chunks EXCEPT ![c] = [Allocated(c) EXCEPT ![v] = value]]
      /\ octree' = octree
  BY DEF write
<1>2. Allocated(c) \in [Voxels -> Values]
  BY AllocatedType
<1>3. [Allocated(c) EXCEPT ![v] = value] \in [Voxels -> Values]
  BY <1>2
<1>4. [Allocated(c) EXCEPT ![v] = value] # None
  BY <1>3, WorldAssumption
<1>5. Contents(c)' = [Allocated(c) EXCEPT ![v] = value]
  BY <1>1, <1>3, <1>4 DEF Contents, read
<1>6. \A d \in Coords \ {c} : Contents(d)' = Contents(d)
  BY <1>1 DEF Contents, read
<1>7. ASSUME ~ Reallocates(c)
      PROVE  Contents(c) = Allocated(c)
  BY <1>7 DEF Reallocates, Contents, read, Allocated, Empty
<1> QED
  BY <1>5, <1>6, <1>7

(* Compaction changes where a chunk is kept, not what it reads as.       *)
LEMMA CompactContents ==
    ASSUME WorldTypeOK, compact, NEW c \in Coords
    PROVE  Contents(c)' = Contents(c)
<1> USE DEF WorldTypeOK
<1> DEFINE some == CHOOSE v \in Voxels : TRUE
<1>1. some \in Voxels
  BY WorldAssumption
<1>2. /\ chunks' = [d \in Coords |-> IF d \in Promoted THEN None ELSE chunks[d]]
      /\ octree' = [d \in Coords |-> IF d \in Promoted THEN chunks[d][some] ELSE octree[d]]
  BY DEF compact
<1> HIDE DEF some
<1>3. CASE c \in Promoted
  <2>1. /\ chunks[c] # None /\ chunks[c] \in [Voxels -> Values]
        /\ \A v \in Voxels : chunks[c][v] = chunks[c][some]
    BY <1>1, <1>3 DEF Promoted, IsUniform
  <2>2. chunks'[c] = None /\ octree'[c] = chunks[c][some] /\ octree'[c] # None
    BY <1>1, <1>2, <1>3, <2>1, WorldAssumption
  <2> QED
    BY <2>1, <2>2 DEF Contents, read
<1>4. CASE c \notin Promoted
  BY <1>2, <1>4 DEF Contents, read
<1> QED
  BY <1>3, <1>4

(* A new world reads as the default everywhere.                          *)
LEMMA ReadsInit == Init => ReadsMatchWrites
BY DEF Init, ReadsMatchWrites, Contents, read, Empty

(* Every operation keeps the voxels of unforgotten chunks as they were   *)
(* last written.                                                         *)
LEMMA ReadsStep ==
    ASSUME WorldTypeOK, ReadsMatchWrites, [Next]_vars
    PROVE  ReadsMatchWrites'
<1> USE DEF ReadsMatchWrites
<1>1. ASSUME NEW c \in Coords, NEW v \in Voxels, NEW value \in Values,
             write(c, v, value)
      PROVE  ReadsMatchWrites'
  <2>1. /\ wrote' = [wrote EXCEPT ![c] = [wrote[c] EXCEPT ![v] = value]]
        /\ forgotten' = IF Reallocates(c) THEN forgotten \cup {c} ELSE forgotten
    BY <1>1 DEF write
  <2>2. ASSUME NEW d \in Coords \ forgotten' PROVE Contents(d)' = wrote'[d]
    <3>1. CASE d = c
      <4>1. ~ Reallocates(c) /\ c \notin forgotten
        BY <2>1, <2>2, <3>1
      <4>2. Contents(c)' = [wrote[c] EXCEPT ![v] = value]
        BY <1>1, <4>1, WriteContents
      <4> QED
        BY <2>1, <3>1, <4>2 DEF WorldTypeOK
    <3>2. CASE d # c
      <4>1. d \notin forgotten
        BY <2>1, <2>2
      <4>2. Contents(d)' = Contents(d)
        BY <1>1, <3>2, WriteContents
      <4> QED
        BY <2>1, <3>2, <4>1, <4>2 DEF WorldTypeOK
    <3> QED
      BY <3>1, <3>2
  <2> QED
    BY <2>2
<1>2. CASE compact
  <2>1. wrote' = wrote /\ forgotten' = forgotten
    BY <1>2 DEF compact, history
  <2> QED
    BY <1>2, <2>1, CompactContents
<1>3. CASE drain_dirty \/ rebuild \/ UNCHANGED vars
  <2>1. UNCHANGED <<chunks, octree, wrote, forgotten>>
    BY <1>3 DEF drain_dirty, rebuild, vars, store, history
  <2> QED
    BY <2>1 DEF Contents, read
<1> QED
  BY <1>1, <1>2, <1>3 DEF Next

(* Any history of writes, compactions and drains reads back as written,  *)
(* outside the chunks a write has reallocated over a compacted region.   *)
THEOREM ReadsCorrect == Spec => []ReadsMatchWrites
BY WorldTypeInit, WorldTypeStep, ReadsInit, ReadsStep, PTL DEF Spec

(* A second compaction in a row finds nothing to promote.                *)
THEOREM CompactionSettles == Spec => CompactSettles
<1>1. ASSUME WorldTypeOK, compact
      PROVE  Promoted' = {}
  BY <1>1 DEF compact, Promoted, IsUniform
<1>2. ASSUME WorldTypeOK, [Next]_vars
      PROVE  [compact => Promoted' = {}]_vars
  BY <1>1, <1>2
<1> QED
  BY <1>2, WorldTypeInit, WorldTypeStep, PTL DEF Spec, CompactSettles

---------------------------------------------------------------------------
(* The queues.                                                           *)

(* Appending to a queue adds its event to those queued.                  *)
LEMMA AppendQueued ==
    ASSUME NEW S, NEW q \in Seq(S), NEW e \in S
    PROVE  Queued(Append(q, e)) = Queued(q) \cup {e}
<1>1. /\ Len(Append(q, e)) = Len(q) + 1 /\ Len(q) \in Nat
      /\ Append(q, e)[Len(q) + 1] = e
      /\ \A k \in 1..Len(q) : Append(q, e)[k] = q[k]
  OBVIOUS
<1>2. 1..Len(q) + 1 = (1..Len(q)) \cup {Len(q) + 1}
  BY <1>1
<1> QED
  BY <1>1, <1>2 DEF Queued

(* Taking the head of a queue leaves the others queued.                  *)
LEMMA TailQueued ==
    ASSUME NEW S, NEW q \in Seq(S), q # << >>
    PROVE  /\ Tail(q) \in Seq(S) /\ Head(q) \in S
           /\ Queued(q) = {Head(q)} \cup Queued(Tail(q))
<1>1. /\ Tail(q) \in Seq(S) /\ Head(q) \in S /\ Head(q) = q[1]
      /\ Len(q) \in Nat \ {0} /\ Len(Tail(q)) = Len(q) - 1
      /\ \A k \in 1..Len(q) - 1 : Tail(q)[k] = q[k + 1]
  OBVIOUS
<1>2. Queued(q) \subseteq {Head(q)} \cup Queued(Tail(q))
  <2> SUFFICES ASSUME NEW k \in 1..Len(q) PROVE q[k] \in {Head(q)} \cup Queued(Tail(q))
    BY DEF Queued
  <2>1. CASE k = 1
    BY <1>1, <2>1
  <2>2. CASE k # 1
    <3>1. k - 1 \in 1..Len(Tail(q)) /\ Tail(q)[k - 1] = q[k]
      BY <1>1, <2>2
    <3> QED
      BY <3>1 DEF Queued
  <2> QED
    BY <2>1, <2>2
<1>3. {Head(q)} \cup Queued(Tail(q)) \subseteq Queued(q)
  <2>1. Head(q) \in Queued(q)
    BY <1>1 DEF Queued
  <2>2. ASSUME NEW k \in 1..Len(Tail(q)) PROVE Tail(q)[k] \in Queued(q)
    <3>1. k + 1 \in 1..Len(q) /\ Tail(q)[k] = q[k + 1]
      BY <1>1
    <3> QED
      BY <3>1 DEF Queued
  <2> QED
    BY <2>1, <2>2 DEF Queued
<1> QED
  BY <1>1, <1>2, <1>3

(* Nothing is queued in an empty queue.                                  *)
LEMMA EmptyQueued == Queued(<< >>) = {}
BY DEF Queued

(* Sorting a queue keeps its events.                                     *)
LEMMA SortedQueued ==
    ASSUME NEW S, NEW q \in Seq(S), NEW s \in Sorted(q)
    PROVE  s \in Seq(S) /\ Queued(s) = Queued(q)
<1>1. Queued(q) \subseteq S /\ Len(q) \in Nat
  BY DEF Queued
<1>2. s \in [1..Len(q) -> S]
  BY <1>1 DEF Sorted
<1> QED
  BY <1>1, <1>2 DEF Sorted

---------------------------------------------------------------------------
(* The consumer's state.                                                 *)

(* What a chunk reads as is a dense chunk.                               *)
LEMMA ContentsType ==
    ASSUME WorldTypeOK, NEW c \in Coords
    PROVE  Contents(c) \in [Voxels -> Values]
BY WorldAssumption DEF WorldTypeOK, Contents, read

(* The consumer starts with empty meshes and no events.                  *)
LEMMA ConsumerTypeInit == Init => ConsumerTypeOK
BY EmptyType DEF Init, ConsumerTypeOK

(* Every operation keeps the types of the queues and the meshes.         *)
LEMMA ConsumerTypeStep ==
    ASSUME WorldTypeOK, ConsumerTypeOK, [Next]_vars
    PROVE  ConsumerTypeOK'
<1> USE DEF ConsumerTypeOK
<1>1. ASSUME NEW c \in Coords, NEW v \in Voxels, NEW value \in Values,
             write(c, v, value)
      PROVE  ConsumerTypeOK'
  <2> DEFINE e == [chunk_id |-> chunk_id(c), write_seq |-> write_seq]
  <2>1. e \in Event
    BY DEF Event, WorldTypeOK
  <2>2. dirty' \in Seq(Event)
    <3>1. dirty' = Append(dirty, e) \/ dirty' = dirty
      BY <1>1 DEF write, emit
    <3> HIDE DEF e
    <3> QED
      BY <2>1, <3>1
  <2> QED
    BY <1>1, <2>2 DEF write, consumer
<1>2. CASE compact
  BY <1>2 DEF compact, consumer
<1>3. CASE drain_dirty
  BY <1>3, SortedQueued DEF drain_dirty
<1>4. CASE rebuild
  <2>1. batch' \in Seq(Event) /\ dirty' = dirty
    BY <1>4, TailQueued DEF rebuild, store
  <2>2. meshed' = [c \in Coords |-> IF chunk_id(c) = Head(batch).chunk_id
                                      THEN Contents(c) ELSE meshed[c]]
    BY <1>4 DEF rebuild
  <2>3. meshed' \in [Coords -> [Voxels -> Values]]
    BY <2>2, ContentsType
  <2> QED
    BY <2>1, <2>3
<1>5. CASE UNCHANGED vars
  BY <1>5 DEF vars, store, consumer
<1> QED
  BY <1>1, <1>2, <1>3, <1>4, <1>5 DEF Next

(* The world and its consumer keep their types.                          *)
THEOREM TypeCorrect == Spec => []TypeOK
BY WorldTypeInit, WorldTypeStep, ConsumerTypeInit, ConsumerTypeStep, PTL
DEF Spec, TypeOK

---------------------------------------------------------------------------
(* Stale meshes.                                                         *)

(* An event that names c is yet to be handled.                           *)
Announced(c) ==
    \E e \in Queued(dirty) \cup Queued(batch) : e.chunk_id = chunk_id(c)

(* The first meshes show the empty world.                                *)
LEMMA StaleInit == Init => StaleMeshesHaveEvent
BY DEF Init, StaleMeshesHaveEvent, Contents, read, Empty

(* A write that changes what an unforgotten chunk reads as emits an event. *)
LEMMA StaleWrite ==
    ASSUME WorldTypeOK, ConsumerTypeOK, StaleMeshesHaveEvent,
           NEW c \in Coords, NEW v \in Voxels, NEW value \in Values,
           write(c, v, value)
    PROVE  StaleMeshesHaveEvent'
<1> DEFINE e == [chunk_id |-> chunk_id(c), write_seq |-> write_seq]
<1>1. batch' = batch /\ meshed' = meshed
  BY DEF write, consumer
<1>2. Queued(dirty) \subseteq Queued(dirty')
      /\ (Allocated(c)[v] # value => e \in Queued(dirty'))
  <2>1. CASE Allocated(c)[v] # value
    <3>1. dirty' = Append(dirty, e)
      BY <2>1 DEF write, emit
    <3>2. e \in Event /\ dirty \in Seq(Event)
      BY DEF Event, WorldTypeOK, ConsumerTypeOK
    <3> HIDE DEF e
    <3> QED
      BY <3>1, <3>2, AppendQueued
  <2>2. CASE Allocated(c)[v] = value
    BY <2>2 DEF write, emit
  <2> QED
    BY <2>1, <2>2
<1>3. \A d \in Coords : Announced(d) => Announced(d)'
  <2>1. Queued(dirty)' = Queued(dirty') /\ Queued(batch)' = Queued(batch)
    BY <1>1 DEF Queued
  <2> QED
    BY <1>2, <2>1 DEF Announced
<1>4. ASSUME NEW d \in Coords \ forgotten', meshed'[d] # Contents(d)'
      PROVE  Announced(d)'
  <2>1. d \notin forgotten
    BY <1>4 DEF write
  <2>2. CASE Contents(d)' = Contents(d)
    BY <1>1, <1>3, <1>4, <2>1, <2>2 DEF StaleMeshesHaveEvent, Announced
  <2>3. CASE Contents(d)' # Contents(d)
    <3>1. d = c
      BY <2>3, WriteContents
    <3>2. ~ Reallocates(c)
      BY <1>4, <3>1 DEF write
    <3>3. Contents(c) = Allocated(c) /\ Contents(c)' = [Allocated(c) EXCEPT ![v] = value]
      BY <3>2, WriteContents
    <3>4. Allocated(c)[v] # value
      BY <2>3, <3>1, <3>3, AllocatedType
    <3>5. e \in Queued(dirty)' /\ e.chunk_id = chunk_id(c)
      BY <1>2, <3>4 DEF Queued
    <3> QED
      BY <3>1, <3>5 DEF Announced
  <2> QED
    BY <2>2, <2>3
<1> QED
  BY <1>4 DEF StaleMeshesHaveEvent, Announced

(* Every operation keeps each stale mesh announced: draining moves the   *)
(* events, a rebuild takes away only the one it has acted on.            *)
LEMMA StaleStep ==
    ASSUME WorldTypeOK, ConsumerTypeOK, StaleMeshesHaveEvent, [Next]_vars
    PROVE  StaleMeshesHaveEvent'
<1>1. ASSUME NEW c \in Coords, NEW v \in Voxels, NEW value \in Values,
             write(c, v, value)
      PROVE  StaleMeshesHaveEvent'
  BY <1>1, StaleWrite
<1>2. CASE compact
  <2>1. \A c \in Coords : Contents(c)' = Contents(c)
    BY <1>2, CompactContents
  <2>2. UNCHANGED <<dirty, batch, meshed, forgotten>>
    BY <1>2 DEF compact, consumer, history
  <2> QED
    BY <2>1, <2>2 DEF StaleMeshesHaveEvent, Queued
<1>3. CASE drain_dirty
  <2>1. Queued(batch)' = Queued(dirty) /\ Queued(batch) = {}
    <3>1. Queued(batch') = Queued(dirty) /\ Queued(batch) = {}
      BY <1>3, SortedQueued, EmptyQueued DEF drain_dirty, ConsumerTypeOK
    <3>2. Queued(batch)' = Queued(batch')
      BY DEF Queued
    <3> QED
      BY <3>1, <3>2
  <2>2. UNCHANGED <<chunks, octree, meshed, forgotten>>
    BY <1>3 DEF drain_dirty, history
  <2> QED
    BY <2>1, <2>2 DEF StaleMeshesHaveEvent, Contents, read
<1>4. CASE rebuild
  <2>1. UNCHANGED <<chunks, octree, dirty, forgotten>>
    BY <1>4 DEF rebuild, store, history
  <2>2. \A c \in Coords : Contents(c)' = Contents(c)
    BY <2>1 DEF Contents, read
  <2>3. /\ batch' = Tail(batch)
        /\ meshed' = [c \in Coords |-> IF chunk_id(c) = Head(batch).chunk_id
                                         THEN Contents(c) ELSE meshed[c]]
    BY <1>4 DEF rebuild
  <2>4. Queued(batch) = {Head(batch)} \cup Queued(Tail(batch))
    BY <1>4, TailQueued DEF rebuild, ConsumerTypeOK
  <2>5. ASSUME NEW c \in Coords \ forgotten', meshed'[c] # Contents(c)'
        PROVE  Announced(c)'
    <3>1. chunk_id(c) # Head(batch).chunk_id /\ meshed'[c] = meshed[c]
      BY <2>2, <2>3, <2>5
    <3>2. \E e \in Queued(dirty) \cup Queued(batch) : e.chunk_id = chunk_id(c)
      BY <2>1, <2>2, <2>5, <3>1 DEF StaleMeshesHaveEvent
    <3>3. Queued(dirty)' = Queued(dirty) /\ Queued(batch)' = Queued(Tail(batch))
      BY <2>1, <2>3 DEF Queued
    <3> QED
      BY <2>4, <3>1, <3>2, <3>3 DEF Announced
  <2> QED
    BY <2>5 DEF StaleMeshesHaveEvent, Announced
<1>5. CASE UNCHANGED vars
  BY <1>5 DEF vars, store, consumer, history, StaleMeshesHaveEvent, Queued,
              Contents, read
<1> QED
  BY <1>1, <1>2, <1>3, <1>4, <1>5 DEF Next

(* No mesh goes stale for good: until it is rebuilt, an event names it.  *)
THEOREM StaleMeshesAnnounced == Spec => []StaleMeshesHaveEvent
BY WorldTypeInit, WorldTypeStep, ConsumerTypeInit, ConsumerTypeStep,
   StaleInit, StaleStep, PTL DEF Spec

---------------------------------------------------------------------------
(* The sequence numbers.                                                 *)

(* The strengthening: until the sequence wraps, the next number is the   *)
(* count of events, which no queued event has reached.                   *)
SeqInv ==
    /\ events <= SeqModulus
    /\ events < SeqModulus => write_seq = events
    /\ \A i \in 1..Len(dirty) : dirty[i].write_seq < events
    /\ \A e \in Queued(batch) : e.write_seq < events
    /\ \A e \in Queued(batch), i \in 1..Len(dirty) : e.write_seq < dirty[i].write_seq
    /\ \A i, j \in 1..Len(dirty) : i < j => dirty[i].write_seq < dirty[j].write_seq

(* No event is queued at first.                                          *)
LEMMA SeqInit == Init => SeqInv
BY WorldAssumption, EmptyQueued DEF Init, SeqInv

(* Every operation keeps the numbers rising along the two queues.        *)
LEMMA SeqStep ==
    ASSUME WorldTypeOK, ConsumerTypeOK, SeqInv, [Next]_vars
    PROVE  SeqInv'
<1>1. ASSUME NEW c \in Coords, NEW v \in Voxels, NEW value \in Values,
             write(c, v, value), Allocated(c)[v] # value
      PROVE  SeqInv'
  <2> DEFINE e == [chunk_id |-> chunk_id(c), write_seq |-> write_seq]
  <2>1. /\ dirty' = Append(dirty, e) /\ events' = events + 1
        /\ write_seq' = (write_seq + 1) % SeqModulus
        /\ events < SeqModulus /\ batch' = batch
    BY <1>1 DEF write, emit, advance, consumer
  <2>2. write_seq = events /\ events \in Nat /\ SeqModulus \in Nat \ {0}
    BY <2>1, WorldAssumption DEF SeqInv, WorldTypeOK
  <2>3. events' <= SeqModulus /\ (events' < SeqModulus => write_seq' = events')
    BY <2>1, <2>2
  <2>4. e \in Event /\ e.write_seq = events
    BY <2>2 DEF Event, WorldTypeOK
  <2> HIDE DEF e
  <2>5. /\ Len(dirty') = Len(dirty) + 1 /\ Len(dirty) \in Nat
        /\ dirty'[Len(dirty) + 1] = e
        /\ \A i \in 1..Len(dirty) : dirty'[i] = dirty[i]
    BY <2>1, <2>4 DEF ConsumerTypeOK
  <2>6. \A i \in 1..Len(dirty) : dirty[i].write_seq \in Nat
    <3>1. \A i \in 1..Len(dirty) : dirty[i] \in Event
      BY DEF ConsumerTypeOK
    <3>2. \A f \in Event : f.write_seq \in Nat
      BY DEF Event
    <3> QED
      BY <3>1, <3>2
  <2>7. \A f \in Queued(batch) : f.write_seq \in Nat
    <3>1. Queued(batch) \subseteq Event
      BY DEF ConsumerTypeOK, Queued
    <3>2. \A f \in Event : f.write_seq \in Nat
      BY DEF Event
    <3> QED
      BY <3>1, <3>2
  <2>8. /\ \A i \in 1..Len(dirty) : dirty[i].write_seq < events
        /\ \A f \in Queued(batch) : f.write_seq < events
        /\ \A f \in Queued(batch), i \in 1..Len(dirty) : f.write_seq < dirty[i].write_seq
        /\ \A i, j \in 1..Len(dirty) : i < j => dirty[i].write_seq < dirty[j].write_seq
    BY DEF SeqInv
  <2>9. \A i \in 1..Len(dirty') : i \in 1..Len(dirty) \/ i = Len(dirty) + 1
    BY <2>5
  <2>10. \A i \in 1..Len(dirty') : dirty'[i].write_seq < events'
    BY <2>1, <2>2, <2>4, <2>5, <2>6, <2>8, <2>9
  <2>11. Queued(batch)' = Queued(batch)
    BY <2>1 DEF Queued
  <2>12. \A f \in Queued(batch)' : f.write_seq < events'
    BY <2>1, <2>2, <2>7, <2>8, <2>11
  <2>13. \A f \in Queued(batch)', i \in 1..Len(dirty') : f.write_seq < dirty'[i].write_seq
    BY <2>4, <2>5, <2>8, <2>9, <2>11
  <2>14. \A i, j \in 1..Len(dirty') : i < j => dirty'[i].write_seq < dirty'[j].write_seq
    <3> TAKE i, j \in 1..Len(dirty')
    <3> HAVE i < j
    <3>1. i \in 1..Len(dirty)
      BY <2>5
    <3> QED
      BY <2>4, <2>5, <2>8, <2>9, <3>1
  <2> QED
    BY <2>3, <2>10, <2>12, <2>13, <2>14 DEF SeqInv
<1>2. ASSUME UNCHANGED <<dirty, batch, write_seq, events>>
      PROVE  SeqInv'
  BY <1>2 DEF SeqInv, Queued
<1>3. ASSUME NEW c \in Coords, NEW v \in Voxels, NEW value \in Values,
             write(c, v, value)
      PROVE  SeqInv'
  BY <1>1, <1>2, <1>3 DEF write, emit, consumer
<1>4. CASE compact
  BY <1>2, <1>4 DEF compact, consumer, history
<1>5. CASE drain_dirty
  <2>1. dirty' = << >> /\ Queued(batch)' = Queued(dirty)
        /\ UNCHANGED <<write_seq, events>>
    <3>1. Queued(batch') = Queued(dirty)
      BY <1>5, SortedQueued DEF drain_dirty, ConsumerTypeOK
    <3>2. Queued(batch)' = Queued(batch')
      BY DEF Queued
    <3> QED
      BY <1>5, <3>1, <3>2 DEF drain_dirty, history
  <2>2. Len(dirty') = 0
    BY <2>1
  <2>3. \A f \in Queued(dirty) : \E i \in 1..Len(dirty) : f = dirty[i]
    BY DEF Queued
  <2> QED
    BY <2>1, <2>2, <2>3 DEF SeqInv
<1>6. CASE rebuild
  <2>1. Queued(batch)' \subseteq Queued(batch)
    BY <1>6, TailQueued DEF rebuild, ConsumerTypeOK, Queued
  <2>2. UNCHANGED <<dirty, write_seq, events>>
    BY <1>6 DEF rebuild, store, history
  <2> QED
    BY <2>1, <2>2 DEF SeqInv
<1>7. CASE UNCHANGED vars
  BY <1>2, <1>7 DEF vars, store, consumer, history
<1> QED
  BY <1>3, <1>4, <1>5, <1>6, <1>7 DEF Next

(* The strengthening implies the property.                               *)
LEMMA SeqEnough == SeqInv => EventsAreNew
BY DEF SeqInv, EventsAreNew, Queued

(* Until the sequence wraps, every event is newer than those drained     *)
(* before it.                                                            *)
THEOREM EventsNew == Spec => []EventsAreNew
BY WorldTypeInit, WorldTypeStep, ConsumerTypeInit, ConsumerTypeStep,
   SeqInit, SeqStep, SeqEnough, PTL DEF Spec

---------------------------------------------------------------------------
(* The octree.  A coordinate is the parent of the eight at twice its own. *)
LEMMA ParentOfChildren ==
    ASSUME NEW p \in ChunkCoords, NEW c \in Children(p)
    PROVE  Parent(c) = p
<1>1. PICK x, y, z \in Int : p = <<x, y, z>>
    BY DEF ChunkCoords
<1>2. PICK d \in (0..1) \X (0..1) \X (0..1) : c = <<2 * x + d[1], 2 * y + d[2], 2 * z + d[3]>>
    BY <1>1 DEF Children
<1>3. \A a \in Int, b \in 0..1 : (2 * a + b) \div 2 = a
    OBVIOUS
<1>4. d[1] \in 0..1 /\ d[2] \in 0..1 /\ d[3] \in 0..1
    OBVIOUS
<1>5. /\ (2 * x + d[1]) \div 2 = x
      /\ (2 * y + d[2]) \div 2 = y
      /\ (2 * z + d[3]) \div 2 = z
    BY <1>1, <1>3, <1>4
<1>6. c[1] = 2 * x + d[1] /\ c[2] = 2 * y + d[2] /\ c[3] = 2 * z + d[3]
    BY <1>2
<1> QED  BY <1>1, <1>5, <1>6 DEF Parent

(* A coordinate has a parent and children.                               *)
LEMMA Kin ==
    ASSUME NEW c \in ChunkCoords
    PROVE  Parent(c) \in ChunkCoords /\ Children(c) # {}
<1>1. \A n \in Int : n \div 2 \in Int
    OBVIOUS
<1>2. Parent(c) \in ChunkCoords
    BY <1>1 DEF ChunkCoords, Parent
<1>3. <<0, 0, 0>> \in (0..1) \X (0..1) \X (0..1)
    OBVIOUS
<1> QED  BY <1>2, <1>3 DEF Children

(* All eight chunks around c were once of one value that is not dense.   *)
OfOneValue(c, pairs) ==
    \E pair \in pairs : pair[2] # Dense /\ \A d \in Children(Parent(c)) : <<d, pair[2]>> \in pairs

(* What the nodes say is at coordinates, and was said or has followed; and *)
(* the nodes that are gone went together with their siblings.            *)
HeldSaid == \A c \in DOMAIN nodes : <<c, nodes[c]>> \in said
LostOfOneValue == \A c \in DOMAIN former \ DOMAIN nodes : OfOneValue(c, said)
TreeInv == DOMAIN nodes \subseteq ChunkCoords /\ HeldSaid /\ LostOfOneValue

(* The parts imply the property.                                         *)
LEMMA TreeEnough == TreeInv => CompactionExplained
BY DEF TreeInv, HeldSaid, LostOfOneValue, OfOneValue, CompactionExplained, Held

(* More said keeps what was together together.                           *)
LEMMA OneValueGrows ==
    ASSUME NEW S, NEW T, S \subseteq T, NEW c, OfOneValue(c, S)
    PROVE  OfOneValue(c, T)
BY DEF OfOneValue

(* An insertion says what it inserts.                                    *)
LEMMA InsertExplained ==
    ASSUME TreeInv, NEW i \in Inserts, Insert(i[1], i[2])
    PROVE  TreeInv'
<1>1. i[1] \in ChunkCoords
    BY OctreeAssumption
<1>2. /\ nodes' = [x \in DOMAIN nodes \cup {i[1]} |-> IF x = i[1] THEN i[2] ELSE nodes[x]]
      /\ said' = said \cup {<<i[1], i[2]>>}
    BY DEF Insert, With
<1>3. \A c \in DOMAIN nodes : <<c, nodes[c]>> \in said
    BY DEF TreeInv, HeldSaid
<1>4. \A c \in DOMAIN nodes' : <<c, nodes'[c]>> \in said'
    BY <1>2, <1>3
<1>5. DOMAIN nodes' \subseteq ChunkCoords
    BY <1>1, <1>2 DEF TreeInv
<1>6. DOMAIN former' = DOMAIN former \cup {i[1]} /\ DOMAIN nodes' = DOMAIN nodes \cup {i[1]}
    BY DEF Insert, With
<1>7. \A c \in DOMAIN former' \ DOMAIN nodes' : OfOneValue(c, said')
    <2> TAKE c \in DOMAIN former' \ DOMAIN nodes'
    <2>1. OfOneValue(c, said)
        BY <1>6 DEF TreeInv, LostOfOneValue
    <2>2. said \subseteq said'
        BY <1>2
    <2> QED  BY <2>1, <2>2, OneValueGrows
<1> QED  BY <1>4, <1>5, <1>7 DEF TreeInv, HeldSaid, LostOfOneValue

(* A pass keeps a node, or puts it where all eight children said the same. *)
LEMMA PassExplained ==
    ASSUME TreeInv, compact_one_pass
    PROVE  TreeInv'
<1> DEFINE gone == UNION {Children(p) : p \in Collapsible}
           parents == {p \in Collapsible :
                          ~ \E q \in Collapsible : KeyBefore(p, q) /\ p \in Children(q)}
           known == {pair \in said : pair[2] # Dense}
<1>1. nodes' = [c \in (DOMAIN nodes \ gone) \cup parents |->
                   IF c \in parents THEN nodes[CHOOSE d \in Children(c) : TRUE] ELSE nodes[c]]
    BY DEF compact_one_pass, Collapsed
<1>2. said' = said \cup Raised(said)
    BY DEF compact_one_pass
<1>3. \A c \in DOMAIN nodes : <<c, nodes[c]>> \in said
    BY DEF TreeInv, HeldSaid
<1>4. Uniform \subseteq ChunkCoords
    BY DEF TreeInv, Uniform
<1>5. Collapsible \subseteq ChunkCoords
    BY <1>4, Kin DEF Collapsible
<1>6. parents \subseteq Collapsible
    OBVIOUS
<1>10. \A c \in gone : \E p \in Collapsible : c \in Children(p)
    OBVIOUS
<1> HIDE DEF gone, parents
<1>7. DOMAIN nodes' \subseteq ChunkCoords
    BY <1>1, <1>5, <1>6 DEF TreeInv
<1>8. ASSUME NEW c \in parents
      PROVE  <<c, nodes'[c]>> \in Raised(said)
    <2> DEFINE d == CHOOSE d \in Children(c) : TRUE
               v == nodes[d]
    <2>1. c \in ChunkCoords
        BY <1>5, <1>6
    <2>2. d \in Children(c)
        BY <2>1, Kin
    <2>3. nodes'[c] = v
        BY <1>1
    <2> HIDE DEF d
    <2>4. /\ Children(c) \subseteq Uniform
          /\ \A x \in Children(c) : nodes[x] = v
        BY <1>6, <2>2 DEF Collapsible
    <2>5. \A x \in Children(c) : <<x, v>> \in known
        <3> TAKE x \in Children(c)
        <3>1. x \in DOMAIN nodes /\ nodes[x] # Dense /\ nodes[x] = v
            BY <2>4 DEF Uniform
        <3>2. <<x, v>> \in said
            BY <1>3, <3>1
        <3> QED  BY <3>1, <3>2
    <2>6. Parent(d) = c
        BY <2>1, <2>2, ParentOfChildren
    <2> HIDE DEF v, known
    <2>7. <<c, v>> \in {<<Parent(old[1]), old[2]>> : old \in known}
        <3>1. <<d, v>> \in known
            BY <2>2, <2>5
        <3>2. <<d, v>>[1] = d /\ <<d, v>>[2] = v
            OBVIOUS
        <3> QED  BY <2>6, <3>1, <3>2
    <2>8. <<c, v>>[1] = c /\ <<c, v>>[2] = v
        OBVIOUS
    <2> QED  BY <2>3, <2>5, <2>7, <2>8 DEF Raised, known
<1>9. ASSUME NEW c \in DOMAIN nodes'
      PROVE  <<c, nodes'[c]>> \in said'
    <2>1. CASE c \in parents
        BY <1>2, <1>8, <2>1
    <2>2. CASE c \notin parents
        <3>1. c \in DOMAIN nodes /\ nodes'[c] = nodes[c]
            BY <1>1, <2>2
        <3> QED  BY <1>2, <1>3, <3>1
    <2> QED  BY <2>1, <2>2
<1>11. ASSUME NEW c \in DOMAIN nodes, c \notin DOMAIN nodes'
       PROVE  OfOneValue(c, said)
    <2>1. c \in gone
        BY <1>1, <1>11
    <2>2. PICK p \in Collapsible : c \in Children(p)
        BY <1>10, <2>1
    <2>3. Parent(c) = p
        BY <1>5, <2>2, ParentOfChildren
    <2>4. \A d \in Children(p) : d \in DOMAIN nodes /\ nodes[d] # Dense /\ nodes[d] = nodes[c]
        BY <2>2 DEF Collapsible, Uniform
    <2>5. \A d \in Children(p) : <<d, nodes[c]>> \in said
        BY <1>3, <2>4
    <2>6. <<c, nodes[c]>> \in said /\ <<c, nodes[c]>>[2] = nodes[c] /\ nodes[c] # Dense
        BY <2>2, <2>4, <2>5
    <2> QED  BY <2>3, <2>5, <2>6 DEF OfOneValue
<1>12. \A c \in DOMAIN former' \ DOMAIN nodes' : OfOneValue(c, said')
    <2> TAKE c \in DOMAIN former' \ DOMAIN nodes'
    <2>1. former' = former
        BY DEF compact_one_pass
    <2>2. OfOneValue(c, said)
        BY <1>11, <2>1 DEF TreeInv, LostOfOneValue
    <2>3. said \subseteq said'
        BY <1>2
    <2> QED  BY <2>2, <2>3, OneValueGrows
<1> QED  BY <1>7, <1>9, <1>12 DEF TreeInv, HeldSaid, LostOfOneValue

(* The other steps change no node.                                       *)
LEMMA TreeStep == TreeInv /\ [OctreeNext]_tree => TreeInv'
<1> SUFFICES ASSUME TreeInv, [OctreeNext]_tree
             PROVE  TreeInv'
    OBVIOUS
<1>1. CASE begin_compact
    BY <1>1 DEF begin_compact, TreeInv, HeldSaid, LostOfOneValue, Held
<1>2. CASE UNCHANGED tree
    BY <1>2 DEF tree, TreeInv, HeldSaid, LostOfOneValue
<1> QED  BY <1>1, <1>2, InsertExplained, PassExplained DEF OctreeNext

(* No node of a compacted octree holds a value that was not inserted at  *)
(* its coordinate or held by all eight chunks below it, and no node is   *)
(* gone unless it and its seven siblings were of one value, for any octree *)
(* and any number of passes (compact, compact_one_pass).                 *)
THEOREM CompactionsAreExplained == DataSpec => []CompactionExplained
<1>1. DataInit => TreeInv
    BY OctreeAssumption DEF DataInit, OctreeInit, TreeInv, HeldSaid, LostOfOneValue, Held
<1>2. TreeInv /\ [DataNext]_data => TreeInv'
    <2> SUFFICES ASSUME TreeInv, [DataNext]_data
                 PROVE  TreeInv'
        OBVIOUS
    <2>1. [OctreeNext]_tree
        BY DEF DataNext, data
    <2> QED  BY <2>1, TreeStep
<1> QED  BY <1>1, <1>2, TreeEnough, PTL DEF DataSpec

---------------------------------------------------------------------------
(* Coordinates and identifiers.  To divide by a product is to divide twice. *)
LEMMA DividedTwice ==
    ASSUME NEW a \in Int, NEW s \in Nat \ {0}, NEW e \in Nat \ {0}
    PROVE  /\ a \div (s * e) = (a \div s) \div e
           /\ (a % (s * e)) \div s = (a \div s) % e
<1> DEFINE q == a \div s
           r == a % s
           c == q \div e
           l == q % e
<1>1. q \in Int /\ r \in 0..s - 1 /\ a = s * q + r
    BY Divided
<1> HIDE DEF q, r
<1>2. c \in Int /\ l \in 0..e - 1 /\ q = e * c + l
    BY <1>1, Divided
<1> HIDE DEF c, l
<1>3. s * e \in Nat \ {0}
    OBVIOUS
<1>4. s * l + r \in 0..s * e - 1
    <2>1. s * l + s <= s * e
        <3>1. l + 1 <= e /\ l + 1 \in Nat
            BY <1>2
        <3>2. s * (l + 1) <= s * e
            BY <3>1
        <3>3. s * (l + 1) = s * l + s
            BY <1>2
        <3> QED  BY <3>2, <3>3
    <2>2. s * l \in Nat
        BY <1>2
    <2> QED  BY <1>1, <1>3, <2>1, <2>2
<1>5. a = s * e * c + (s * l + r)
    <2>1. s * q = s * (e * c + l)
        BY <1>2
    <2>2. s * (e * c + l) = s * e * c + s * l
        BY <1>2
    <2>3. s * q \in Int /\ s * e * c \in Int /\ s * l \in Int
        BY <1>1, <1>2
    <2> QED  BY <1>1, <2>1, <2>2, <2>3
<1>6. a \div (s * e) = c /\ a % (s * e) = s * l + r
    <2> DEFINE m == s * e
               t == s * l + r
    <2>1. m \in Nat \ {0} /\ t \in 0..m - 1 /\ a = m * c + t
        BY <1>3, <1>4, <1>5
    <2> HIDE DEF m, t
    <2>2. a \div m = c /\ a % m = t
        BY <1>2, <2>1, DividedOnce
    <2> QED  BY <2>2 DEF m, t
<1>7. (s * l + r) \div s = l
    <2> DEFINE t == s * l + r
    <2>1. t \in Int /\ t = s * l + r
        BY <1>1, <1>2
    <2> HIDE DEF t
    <2>2. t \div s = l
        BY <1>1, <1>2, <2>1, DividedOnce
    <2> QED  BY <2>2 DEF t
<1> QED  BY <1>6, <1>7 DEF q, c, l

(* Two numbers leave the same remainder when their difference leaves none. *)
LEMMA SameRemainder ==
    ASSUME NEW w \in Nat \ {0}, NEW a \in Int, NEW b \in Int
    PROVE  a % w = b % w <=> (a - b) % w = 0
<1> DEFINE p == a \div w
           r == a % w
           q == b \div w
           s == b % w
<1>1. p \in Int /\ r \in 0..w - 1 /\ a = w * p + r
    BY Divided
<1>2. q \in Int /\ s \in 0..w - 1 /\ b = w * q + s
    BY Divided
<1> HIDE DEF p, q, r, s
<1>3. ASSUME r = s
      PROVE  (a - b) % w = 0
    <2> DEFINE d == a - b
               k == p - q
    <2>1. w * (p - q) = w * p - w * q
        BY <1>1, <1>2
    <2>2. w * p \in Int /\ w * q \in Int /\ r \in Int /\ s \in Int
        BY <1>1, <1>2
    <2>3. d = w * k + 0 /\ d \in Int /\ k \in Int
        BY <1>1, <1>2, <1>3, <2>1, <2>2
    <2> HIDE DEF d, k
    <2>4. d % w = 0
        <3>1. 0 \in 0..w - 1
            OBVIOUS
        <3> QED  BY <2>3, <3>1, DividedOnce
    <2> QED  BY <2>4 DEF d
<1>4. ASSUME (a - b) % w = 0
      PROVE  r = s
    <2> DEFINE k == (a - b) \div w
    <2>1. k \in Int /\ a - b = w * k
        <3>1. a - b \in Int
            OBVIOUS
        <3>2. k \in Int /\ a - b = w * k + ((a - b) % w)
            BY <3>1, Divided
        <3> QED  BY <1>4, <3>1, <3>2
    <2> HIDE DEF k
    <2>2. w * (k + q) = w * k + w * q
        BY <1>2, <2>1
    <2>3. w * k \in Int /\ w * q \in Int /\ s \in Int
        BY <1>2, <2>1
    <2>4. a = w * (k + q) + s /\ k + q \in Int
        BY <1>2, <2>1, <2>2, <2>3
    <2>5. a % w = s
        BY <1>2, <2>4, DividedOnce
    <2> QED  BY <2>5 DEF r
<1> QED  BY <1>3, <1>4 DEF r, s

(* An i32 holds a number up to a multiple of its values.                 *)
LEMMA CastNames ==
    ASSUME NEW a \in Int, NEW b \in Int
    PROVE  /\ AsI32(a) \in Int
           /\ AsI32(a) = AsI32(b) <=> (a - b) % (2 * I32Half) = 0
<1> DEFINE w == 2 * I32Half
           x == a + I32Half
           y == b + I32Half
<1>1. I32Half \in Int /\ w \in Nat \ {0} /\ x \in Int /\ y \in Int /\ x - y = a - b
    BY GridAssumption
<1>2. AsI32(a) = (x % w) - I32Half /\ AsI32(b) = (y % w) - I32Half
    BY DEF AsI32
<1> HIDE DEF w, x, y
<1>3. x % w \in Int /\ y % w \in Int
    BY <1>1, Divided
<1>4. x % w = y % w <=> (a - b) % w = 0
    <2>1. x % w = y % w <=> (x - y) % w = 0
        BY <1>1, SameRemainder
    <2> QED  BY <1>1, <2>1
<1> DEFINE u == x % w
           v == y % w
<1>5. u \in Int /\ v \in Int /\ AsI32(a) = u - I32Half /\ AsI32(b) = v - I32Half
    BY <1>2, <1>3
<1> HIDE DEF u, v
<1>6. AsI32(a) = AsI32(b) <=> u = v
    BY <1>1, <1>5
<1>7. AsI32(a) \in Int
    BY <1>1, <1>5
<1> QED  BY <1>4, <1>6, <1>7 DEF u, v, w

(* Numbers a whole number of w * e apart have one remainder by e, and    *)
(* quotients a whole number of w apart.                                  *)
Whole(d, w) == d % w = 0

LEMMA TurnsApart ==
    ASSUME NEW w \in Nat \ {0}, NEW e \in Nat \ {0}, NEW m \in Int, NEW n \in Int
    PROVE  Whole(m - n, w * e) <=> m % e = n % e /\ Whole((m \div e) - (n \div e), w)
<1> DEFINE p == m \div e
           r == m % e
           q == n \div e
           s == n % e
<1>1. p \in Int /\ r \in 0..e - 1 /\ m = e * p + r
    BY Divided
<1>2. q \in Int /\ s \in 0..e - 1 /\ n = e * q + s
    BY Divided
<1>3. w * e \in Nat \ {0}
    OBVIOUS
<1> HIDE DEF p, q, r, s
<1>4. ASSUME (m - n) % (w * e) = 0
      PROVE  r = s /\ (p - q) % w = 0
    <2> DEFINE we == w * e
               d == m - n
               k == d \div we
    <2>1. we \in Nat \ {0} /\ d \in Int
        BY <1>3
    <2>2. k \in Int /\ d = we * k
        <3> HIDE DEF we, d
        <3>1. k \in Int /\ d = we * k + (d % we)
            BY <2>1, Divided
        <3>2. d % we = 0
            BY <1>4 DEF d, we
        <3>3. we * k \in Int
            BY <2>1, <3>1
        <3> QED  BY <3>1, <3>2, <3>3
    <2> HIDE DEF k
    <2>3. m - n = w * e * k
        BY <2>2
    <2>4. w * e * k = e * (w * k) /\ w * k \in Int
        BY <2>2
    <2>5. e * (w * k + q) = e * (w * k) + e * q
        BY <1>2, <2>4
    <2>6. e * (w * k) \in Int /\ e * q \in Int /\ s \in Int
        BY <1>2, <2>4
    <2>7. m = e * (w * k + q) + s /\ w * k + q \in Int
        BY <1>2, <2>3, <2>4, <2>5, <2>6
    <2>8. m \div e = w * k + q /\ m % e = s
        BY <1>2, <2>7, DividedOnce
    <2>9. p = w * k + q /\ r = s
        BY <2>8 DEF p, r
    <2>10. p - q = w * k + 0 /\ p - q \in Int
        BY <1>1, <1>2, <2>4, <2>9
    <2>11. (p - q) % w = 0
        <3>1. 0 \in 0..w - 1
            OBVIOUS
        <3> QED  BY <2>2, <2>10, <3>1, DividedOnce
    <2> QED  BY <2>9, <2>11
<1>5. ASSUME r = s, (p - q) % w = 0
      PROVE  (m - n) % (w * e) = 0
    <2> DEFINE k == (p - q) \div w
    <2>1. k \in Int /\ p - q = w * k
        <3>1. p - q \in Int
            BY <1>1, <1>2
        <3>2. k \in Int /\ p - q = w * k + ((p - q) % w)
            BY <3>1, Divided
        <3> QED  BY <1>5, <3>1, <3>2
    <2> HIDE DEF k
    <2>2. e * (p - q) = e * p - e * q
        BY <1>1, <1>2
    <2>3. e * p \in Int /\ e * q \in Int /\ r \in Int /\ s \in Int
        BY <1>1, <1>2
    <2>4. m - n = e * (p - q)
        BY <1>1, <1>2, <1>5, <2>2, <2>3
    <2>5. e * (w * k) = w * e * k
        BY <2>1
    <2> DEFINE we == w * e
               d == m - n
    <2>6. d = we * k + 0 /\ d \in Int /\ we \in Nat \ {0}
        <3>1. w * e * k \in Int
            BY <2>1
        <3> QED  BY <1>3, <2>1, <2>4, <2>5, <3>1
    <2> HIDE DEF we, d
    <2>7. d % we = 0
        <3>1. 0 \in 0..we - 1
            BY <2>6
        <3> QED  BY <2>1, <2>6, <3>1, DividedOnce
    <2> QED  BY <2>7 DEF d, we
<1> QED  BY <1>4, <1>5 DEF p, q, r, s, Whole

(* A chunk and a place in it are the quotient, as an i32 has it, and the *)
(* remainder of the voxel.                                               *)
LEMMA ChunkOfVoxel ==
    ASSUME NEW pos \in Int \X Int \X Int, NEW axis \in 1..3
    PROVE  /\ to_chunk_coord(pos)[axis] = AsI32(Voxel(pos)[axis] \div edge)
           /\ to_chunk_coord(pos)[axis] \in Int
           /\ local(pos)[axis] = Voxel(pos)[axis] % edge
           /\ Voxel(pos)[axis] \in Int /\ local(pos)[axis] \in 0..edge - 1
<1>1. pos[axis] \in Int
    OBVIOUS
<1>2. voxel_span \in Nat \ {0} /\ edge \in Nat \ {0}
    BY GridAssumption
<1>3. /\ pos[axis] \div (voxel_span * edge) = (pos[axis] \div voxel_span) \div edge
      /\ (pos[axis] % (voxel_span * edge)) \div voxel_span = (pos[axis] \div voxel_span) % edge
    BY <1>1, <1>2, DividedTwice
<1>4. Voxel(pos)[axis] = pos[axis] \div voxel_span /\ Voxel(pos)[axis] \in Int
    BY <1>1, <1>2, Divided DEF Voxel
<1>5. Voxel(pos)[axis] % edge \in 0..edge - 1 /\ Voxel(pos)[axis] \div edge \in Int
    BY <1>2, <1>4, Divided
<1>6. to_chunk_coord(pos)[axis] = AsI32(pos[axis] \div (voxel_span * edge))
    BY DEF to_chunk_coord, world_edge
<1>7. to_chunk_coord(pos)[axis] = AsI32(Voxel(pos)[axis] \div edge)
    BY <1>3, <1>4, <1>6
<1>8. to_chunk_coord(pos)[axis] \in Int
    BY <1>5, <1>7, CastNames
<1>9. local(pos)[axis] = Voxel(pos)[axis] % edge
    BY <1>3, <1>4 DEF local, world_edge
<1> QED  BY <1>4, <1>5, <1>7, <1>8, <1>9

(* The index of a voxel names its place in the chunk.                    *)
LEMMA IndexNames ==
    ASSUME NEW e \in Nat \ {0}, NEW a \in 0..e - 1, NEW b \in 0..e - 1, NEW c \in 0..e - 1,
           NEW x \in 0..e - 1, NEW y \in 0..e - 1, NEW z \in 0..e - 1,
           a + b * e + c * e * e = x + y * e + z * e * e
    PROVE  a = x /\ b = y /\ c = z
<1> DEFINE m == b + c * e
           n == y + z * e
<1>1. m \in Int /\ n \in Int
    OBVIOUS
<1>2. e * m + a = a + b * e + c * e * e /\ e * n + x = x + y * e + z * e * e
    <2>1. e * (b + c * e) = b * e + c * e * e
        OBVIOUS
    <2>2. e * (y + z * e) = y * e + z * e * e
        OBVIOUS
    <2>3. b * e \in Int /\ c * e * e \in Int /\ y * e \in Int /\ z * e * e \in Int
        OBVIOUS
    <2> QED  BY <2>1, <2>2, <2>3
<1> DEFINE t == e * m + a
<1>3. t \in Int /\ t = e * m + a /\ t = e * n + x
    BY <1>1, <1>2
<1> HIDE DEF m, n, t
<1>4. m = n /\ a = x
    BY <1>1, <1>3, DividedOnce
<1>5. m = e * c + b /\ n = e * z + y
    BY DEF m, n
<1>6. c = z /\ b = y
    BY <1>1, <1>4, <1>5, DividedOnce
<1> QED  BY <1>4, <1>6

(* Chunk and index name a voxel up to a whole number of axes.            *)
LEMMA NamesOfVoxels ==
    ASSUME NEW p \in Int \X Int \X Int, NEW q \in Int \X Int \X Int
    PROVE  (\A axis \in 1..3 : (Voxel(p)[axis] - Voxel(q)[axis]) % AxisVoxels = 0)
               <=> to_chunk_coord(p) = to_chunk_coord(q) /\ voxel_index(p) = voxel_index(q)
<1>1. edge \in Nat \ {0}
    BY GridAssumption
<1>2. ASSUME NEW axis \in 1..3
      PROVE  (Voxel(p)[axis] - Voxel(q)[axis]) % AxisVoxels = 0
                 <=> /\ to_chunk_coord(p)[axis] = to_chunk_coord(q)[axis]
                     /\ local(p)[axis] = local(q)[axis]
    <2> DEFINE m == Voxel(p)[axis]
               n == Voxel(q)[axis]
               w == 2 * I32Half
               c == m \div edge
               d == n \div edge
    <2>1. m \in Int /\ n \in Int /\ w \in Nat \ {0}
        BY GridAssumption, ChunkOfVoxel
    <2>2. c \in Int /\ d \in Int
        BY <1>1, <2>1, Divided
    <2>3. AsI32(c) = AsI32(d) <=> (c - d) % w = 0
        BY <2>2, CastNames
    <2>4. AxisVoxels = w * edge
        BY DEF AxisVoxels
    <2>5. /\ to_chunk_coord(p)[axis] = AsI32(c) /\ to_chunk_coord(q)[axis] = AsI32(d)
          /\ local(p)[axis] = m % edge /\ local(q)[axis] = n % edge
        BY ChunkOfVoxel
    <2> HIDE DEF m, n, w
    <2>6. Whole(m - n, w * edge)
              <=> m % edge = n % edge /\ Whole((m \div edge) - (n \div edge), w)
        BY <1>1, <2>1, TurnsApart
    <2> HIDE DEF c, d
    <2>7. (m - n) % AxisVoxels = 0 <=> AsI32(c) = AsI32(d) /\ m % edge = n % edge
        <3>1. (m - n) % AxisVoxels = 0 <=> (m - n) % (w * edge) = 0
            BY <2>4
        <3>2. c = m \div edge /\ d = n \div edge
            BY DEF c, d
        <3>3. (m - n) % (w * edge) = 0 <=> m % edge = n % edge /\ (c - d) % w = 0
            BY <2>6, <3>2, Zenon DEF Whole
        <3> QED  BY <2>3, <3>1, <3>3, Zenon
    <2>8. (m - n) % AxisVoxels = 0
              <=> /\ to_chunk_coord(p)[axis] = to_chunk_coord(q)[axis]
                  /\ local(p)[axis] = local(q)[axis]
        BY <2>5, <2>7
    <2> QED  BY <2>8 DEF m, n
<1>3. ASSUME \A axis \in 1..3 : (Voxel(p)[axis] - Voxel(q)[axis]) % AxisVoxels = 0
      PROVE  to_chunk_coord(p) = to_chunk_coord(q) /\ voxel_index(p) = voxel_index(q)
    <2>1. \A axis \in 1..3 :
              to_chunk_coord(p)[axis] = to_chunk_coord(q)[axis] /\ local(p)[axis] = local(q)[axis]
        BY <1>2, <1>3
    <2>2. to_chunk_coord(p) = to_chunk_coord(q)
        BY <2>1 DEF to_chunk_coord
    <2> QED  BY <2>1, <2>2 DEF voxel_index
<1>4. ASSUME to_chunk_coord(p) = to_chunk_coord(q), voxel_index(p) = voxel_index(q)
      PROVE  \A axis \in 1..3 : (Voxel(p)[axis] - Voxel(q)[axis]) % AxisVoxels = 0
    <2>1. \A axis \in 1..3 : local(p)[axis] \in 0..edge - 1 /\ local(q)[axis] \in 0..edge - 1
        BY ChunkOfVoxel
    <2>2. /\ local(p)[1] = local(q)[1] /\ local(p)[2] = local(q)[2] /\ local(p)[3] = local(q)[3]
        <3> DEFINE a == local(p)[1]
                   b == local(p)[2]
                   c == local(p)[3]
                   x == local(q)[1]
                   y == local(q)[2]
                   z == local(q)[3]
        <3>1. a + b * edge + c * edge * edge = x + y * edge + z * edge * edge
            BY <1>4 DEF voxel_index
        <3>2. /\ a \in 0..edge - 1 /\ b \in 0..edge - 1 /\ c \in 0..edge - 1
              /\ x \in 0..edge - 1 /\ y \in 0..edge - 1 /\ z \in 0..edge - 1
            BY <2>1
        <3> HIDE DEF a, b, c, x, y, z
        <3>3. a = x /\ b = y /\ c = z
            BY <1>1, <3>1, <3>2, IndexNames
        <3> QED  BY <3>3 DEF a, b, c, x, y, z
    <2>3. \A axis \in 1..3 : local(p)[axis] = local(q)[axis]
        <3>1. \A axis \in 1..3 : axis = 1 \/ axis = 2 \/ axis = 3
            OBVIOUS
        <3> QED  BY <2>2, <3>1
    <2> QED  BY <1>2, <1>4, <2>3
<1> QED  BY <1>3, <1>4

(* The powers of two that a 32-bit coordinate has bits for.              *)
LEMMA Powers ==
    /\ 2^0 = 1
    /\ \A k \in 0..30 : 2^k \in Nat \ {0} /\ 2^(k + 1) = 2 * 2^k
    /\ 2^31 \in Nat
    /\ \A k \in 16..30 : 2^k >= 2^16
    /\ \A k \in 24..30 : 2^k >= 2^24
<1> DEFINE pw == [k \in 0..31 |-> 2^k]
<1>1. /\ pw[0] = 1 /\ pw[1] = 2 /\ pw[2] = 4 /\ pw[3] = 8 /\ pw[4] = 16
      /\ pw[5] = 32 /\ pw[6] = 64 /\ pw[7] = 128 /\ pw[8] = 256 /\ pw[9] = 512
      /\ pw[10] = 1024 /\ pw[11] = 2048 /\ pw[12] = 4096 /\ pw[13] = 8192 /\ pw[14] = 16384
      /\ pw[15] = 32768 /\ pw[16] = 65536 /\ pw[17] = 131072 /\ pw[18] = 262144 /\ pw[19] = 524288
      /\ pw[20] = 1048576 /\ pw[21] = 2097152 /\ pw[22] = 4194304 /\ pw[23] = 8388608 /\ pw[24] = 16777216
      /\ pw[25] = 33554432 /\ pw[26] = 67108864 /\ pw[27] = 134217728 /\ pw[28] = 268435456 /\ pw[29] = 536870912
      /\ pw[30] = 1073741824 /\ pw[31] = 2147483648
    OBVIOUS
<1>2. \A k \in 0..31 : pw[k] = 2^k
    OBVIOUS
<1> HIDE DEF pw
<1>3. \A k \in 0..30 : pw[k] \in Nat \ {0} /\ pw[k + 1] = 2 * pw[k]
    BY <1>1
<1>4. /\ \A k \in 16..30 : pw[k] >= 65536
      /\ \A k \in 24..30 : pw[k] >= 16777216
    BY <1>1
<1>5. 2^16 = 65536 /\ 2^24 = 16777216 /\ 2^31 \in Nat /\ 2^0 = 1
    OBVIOUS
<1>6. ASSUME NEW k \in 0..30
      PROVE  2^k \in Nat \ {0} /\ 2^(k + 1) = 2 * 2^k
    <2>1. k \in 0..31 /\ k + 1 \in 0..31
        OBVIOUS
    <2>2. pw[k] = 2^k /\ pw[k + 1] = 2^(k + 1)
        BY <1>2, <2>1
    <2> QED  BY <1>3, <2>2
<1>7. ASSUME NEW k \in 16..30
      PROVE  2^k >= 2^16
    <2>1. k \in 0..31
        OBVIOUS
    <2>2. pw[k] = 2^k
        BY <1>2, <2>1
    <2> QED  BY <1>4, <1>5, <2>2
<1>8. ASSUME NEW k \in 24..30
      PROVE  2^k >= 2^24
    <2>1. k \in 0..31
        OBVIOUS
    <2>2. pw[k] = 2^k
        BY <1>2, <2>1
    <2> QED  BY <1>4, <1>5, <2>2
<1> QED  BY <1>5, <1>6, <1>7, <1>8

(* A binary digit.                                                       *)
Bit(n, k) == (n \div 2^k) % 2

(* A bit above the lowest is a bit of the half.                          *)
LEMMA BitOfHalf ==
    ASSUME NEW n \in Nat, NEW k \in 0..29
    PROVE  Bit(n, k + 1) = Bit(n \div 2, k)
<1> DEFINE p == 2^k
<1>1. k \in 0..30
    OBVIOUS
<1>2. p \in Nat \ {0} /\ 2^(k + 1) = 2 * p
    BY <1>1, Powers
<1> HIDE DEF p
<1>3. n \in Int /\ 2 \in Nat \ {0}
    OBVIOUS
<1>4. n \div (2 * p) = (n \div 2) \div p
    BY <1>2, <1>3, DividedTwice
<1> QED  BY <1>2, <1>4 DEF Bit, p

(* The lowest bit and the half make up the number.                       *)
LEMMA LowestBit ==
    ASSUME NEW n \in Nat
    PROVE  Bit(n, 0) = n % 2
<1>1. 2^0 = 1 /\ n \div 1 = n
    BY Powers
<1> QED  BY <1>1 DEF Bit

(* m is the greater of two numbers, and the highest bit in which they    *)
(* differ is one of m's.                                                 *)
Decides(n, m, k) ==
    /\ Bit(m, k) = 1 /\ Bit(n, k) = 0
    /\ \A j \in k + 1..30 : Bit(n, j) = Bit(m, j)

LEMMA HighestBit ==
    ASSUME NEW n \in 0..2^31 - 1, NEW m \in 0..2^31 - 1, n < m
    PROVE  \E k \in 0..30 : Decides(n, m, k)
<1> DEFINE Agrees(w) == \A a, b \in 0..2^w - 1 :
               a < b => \E k \in 0..w - 1 :
                   /\ Bit(b, k) = 1 /\ Bit(a, k) = 0
                   /\ \A j \in k + 1..w - 1 : Bit(a, j) = Bit(b, j)
           S == {w \in 0..31 : Agrees(w)}
<1>1. 0 \in S
    BY Powers
<1>2. ASSUME NEW w \in 0..30, w \in S
      PROVE  w + 1 \in S
    <2> SUFFICES ASSUME NEW a \in 0..2^(w + 1) - 1, NEW b \in 0..2^(w + 1) - 1, a < b
                 PROVE  \E k \in 0..w :
                            /\ Bit(b, k) = 1 /\ Bit(a, k) = 0
                            /\ \A j \in k + 1..w : Bit(a, j) = Bit(b, j)
        OBVIOUS
    <2> DEFINE p == 2^w
               x == a \div 2
               y == b \div 2
    <2>1. p \in Nat \ {0} /\ 2^(w + 1) = 2 * p
        BY Powers
    <2>2. a \in Nat /\ b \in Nat /\ a < 2 * p /\ b < 2 * p
        BY <2>1
    <2> HIDE DEF p
    <2>3. x \in 0..p - 1 /\ y \in 0..p - 1 /\ x <= y
        BY <2>1, <2>2
    <2>4. a = 2 * x + (a % 2) /\ b = 2 * y + (b % 2) /\ a % 2 \in 0..1 /\ b % 2 \in 0..1
        BY <2>2
    <2>5. ASSUME NEW j \in 1..w
          PROVE  Bit(a, j) = Bit(x, j - 1) /\ Bit(b, j) = Bit(y, j - 1)
        <3>1. j - 1 \in 0..29 /\ (j - 1) + 1 = j
            OBVIOUS
        <3> QED  BY <2>2, <3>1, BitOfHalf
    <2> HIDE DEF x, y
    <2>6. CASE x < y
        <3>1. PICK k \in 0..w - 1 :
                  /\ Bit(y, k) = 1 /\ Bit(x, k) = 0
                  /\ \A j \in k + 1..w - 1 : Bit(x, j) = Bit(y, j)
            BY <1>2, <2>3, <2>6 DEF p
        <3>2. k + 1 \in 1..w /\ (k + 1) - 1 = k
            OBVIOUS
        <3>3. Bit(b, k + 1) = 1 /\ Bit(a, k + 1) = 0
            BY <2>5, <3>1, <3>2
        <3>4. ASSUME NEW j \in k + 2..w
              PROVE  Bit(a, j) = Bit(b, j)
            <4>1. j \in 1..w /\ j - 1 \in k + 1..w - 1
                OBVIOUS
            <4> QED  BY <2>5, <3>1, <4>1
        <3> QED  BY <3>2, <3>3, <3>4
    <2>7. CASE x = y
        <3>1. a % 2 = 0 /\ b % 2 = 1
            BY <2>2, <2>3, <2>4, <2>7
        <3>2. Bit(a, 0) = 0 /\ Bit(b, 0) = 1
            BY <2>2, <3>1, LowestBit
        <3>3. \A j \in 0 + 1..w : Bit(a, j) = Bit(b, j)
            BY <2>5, <2>7
        <3> QED  BY <3>2, <3>3
    <2> QED  BY <2>3, <2>6, <2>7
<1> HIDE DEF S
<1>3. 0..31 \subseteq S
    <2>1. 31 \in Nat /\ \A w \in 0..31 - 1 : w \in S => w + 1 \in S
        BY <1>2
    <2> QED  BY <1>1, <2>1, UpTo
<1>4. Agrees(31)
    <2>1. 31 \in S
        BY <1>3
    <2> QED  BY <2>1 DEF S
<1>5. n \in 0..2^31 - 1 /\ m \in 0..2^31 - 1
    OBVIOUS
<1> HIDE DEF Agrees
<1>6. PICK k \in 0..31 - 1 :
          /\ Bit(m, k) = 1 /\ Bit(n, k) = 0
          /\ \A j \in k + 1..31 - 1 : Bit(n, j) = Bit(m, j)
    BY <1>4, <1>5 DEF Agrees
<1>7. k \in 0..30 /\ 31 - 1 = 30
    OBVIOUS
<1> QED  BY <1>6, <1>7 DEF Decides

(* The bits of a coordinate that is not negative.                        *)
LEMMA BitsAre ==
    ASSUME NEW n \in Nat, NEW k \in 0..30
    PROVE  (k \in Bits(n) <=> Bit(n, k) = 1) /\ Bits(n) \subseteq 0..30
<1>1. ~ n < 0
    OBVIOUS
<1> QED  BY <1>1 DEF Bits, Bit

(* A number below a power of two has no bit there or above.              *)
LEMMA SmallBits ==
    /\ \A n \in 0..2^24 - 1 : Bits(n) \subseteq 0..23
    /\ \A n \in 0..2^16 - 1 : Bits(n) \subseteq 0..15
<1>1. \A n, p \in Nat : n < p => (n \div p) % 2 = 0
    <2> SUFFICES ASSUME NEW n \in Nat, NEW p \in Nat, n < p
                 PROVE  (n \div p) % 2 = 0
        OBVIOUS
    <2>1. n = p * 0 + n /\ n \in 0..p - 1 /\ p \in Nat \ {0}
        OBVIOUS
    <2>2. n \div p = 0
        BY <2>1, DividedOnce
    <2> QED  BY <2>2
<1>2. ASSUME NEW n \in 0..2^24 - 1
      PROVE  Bits(n) \subseteq 0..23
    <2>1. n \in Nat /\ n < 2^24 /\ 2^24 \in Nat
        OBVIOUS
    <2>2. ASSUME NEW k \in 24..30
          PROVE  k \notin Bits(n)
        <3>1. k \in 0..30
            OBVIOUS
        <3>2. 2^k \in Nat
            BY <3>1, Powers
        <3>3. 2^k >= 2^24
            BY Powers
        <3>4. n < 2^k
            BY <2>1, <3>2, <3>3
        <3>5. Bit(n, k) = 0
            BY <1>1, <2>1, <3>2, <3>4 DEF Bit
        <3> QED  BY <2>1, <3>1, <3>5, BitsAre
    <2> QED  BY <2>1, <2>2, BitsAre
<1>3. ASSUME NEW n \in 0..2^16 - 1
      PROVE  Bits(n) \subseteq 0..15
    <2>1. n \in Nat /\ n < 2^16 /\ 2^16 \in Nat
        OBVIOUS
    <2>2. ASSUME NEW k \in 16..30
          PROVE  k \notin Bits(n)
        <3>1. k \in 0..30
            OBVIOUS
        <3>2. 2^k \in Nat
            BY <3>1, Powers
        <3>3. 2^k >= 2^16
            BY Powers
        <3>4. n < 2^k
            BY <2>1, <3>2, <3>3
        <3>5. Bit(n, k) = 0
            BY <1>1, <2>1, <3>2, <3>4 DEF Bit
        <3> QED  BY <2>1, <3>1, <3>5, BitsAre
    <2> QED  BY <2>1, <2>2, BitsAre
<1> QED  BY <1>2, <1>3

(* An identifier is made of the bits of the three coordinates, each in its *)
(* own range.                                                            *)
LEMMA IdBits ==
    ASSUME NEW c, Packable(c)
    PROVE  /\ chunk_id(c) \subseteq 0..63
           /\ \A k \in 40..63 : k \in chunk_id(c) <=> k - 40 \in Bits(c[1])
           /\ \A k \in 16..39 : k \in chunk_id(c) <=> k - 16 \in Bits(c[2])
           /\ \A k \in 0..15 : k \in chunk_id(c) <=> k \in Bits(c[3])
<1>1. Bits(c[1]) \subseteq 0..23 /\ Bits(c[2]) \subseteq 0..23 /\ Bits(c[3]) \subseteq 0..15
    BY SmallBits DEF Packable
<1>2. ASSUME NEW k \in 0..63
      PROVE  k \in chunk_id(c) <=> \/ k - 40 \in Bits(c[1])
                                   \/ k - 16 \in Bits(c[2])
                                   \/ k \in Bits(c[3])
    <2> DEFINE A == Bits(c[1])
               B == Bits(c[2])
               C == Bits(c[3])
    <2>1. A \subseteq 0..23 /\ B \subseteq 0..23 /\ C \subseteq 0..15
        BY <1>1
    <2>2. chunk_id(c) = ({j + 40 : j \in A} \cap (0..63)) \cup ({j + 16 : j \in B} \cap (0..63))
                          \cup (C \cap (0..15))
        BY DEF chunk_id, ShiftedLeft
    <2> HIDE DEF A, B, C
    <2>3. k \in {j + 40 : j \in A} <=> k - 40 \in A
        BY <2>1
    <2>4. k \in {j + 16 : j \in B} <=> k - 16 \in B
        BY <2>1
    <2>5. k \in C \cap (0..15) <=> k \in C
        BY <2>1
    <2>6. k \in chunk_id(c) <=> k - 40 \in A \/ k - 16 \in B \/ k \in C
        BY <2>2, <2>3, <2>4, <2>5
    <2> QED  BY <2>6 DEF A, B, C
<1>3. chunk_id(c) \subseteq 0..63
    BY <1>1 DEF chunk_id, ShiftedLeft
<1>4. ASSUME NEW k \in 40..63
      PROVE  k \in chunk_id(c) <=> k - 40 \in Bits(c[1])
    BY <1>1, <1>2
<1>5. ASSUME NEW k \in 16..39
      PROVE  k \in chunk_id(c) <=> k - 16 \in Bits(c[2])
    BY <1>1, <1>2
<1>6. ASSUME NEW k \in 0..15
      PROVE  k \in chunk_id(c) <=> k \in Bits(c[3])
    BY <1>1, <1>2
<1> QED  BY <1>3, <1>4, <1>5, <1>6

(* One number below another: the bits of a range of the identifiers, from *)
(* low up, differ last where the greater number has a bit.               *)
LEMMA RangeDecides ==
    ASSUME NEW n \in Nat, NEW m \in Nat, n < 2^24, m < 2^24, n < m
    PROVE  \E k \in 0..30 :
               /\ k \in Bits(m) /\ k \notin Bits(n)
               /\ \A j \in k + 1..30 : j \in Bits(n) <=> j \in Bits(m)
<1>1. n \in 0..2^31 - 1 /\ m \in 0..2^31 - 1
    OBVIOUS
<1>2. PICK k \in 0..30 : Decides(n, m, k)
    BY <1>1, HighestBit
<1>3. k \in Bits(m) /\ k \notin Bits(n)
    BY <1>2, BitsAre DEF Decides
<1>4. ASSUME NEW j \in k + 1..30
      PROVE  j \in Bits(n) <=> j \in Bits(m)
    <2>1. j \in 0..30 /\ Bit(n, j) = Bit(m, j)
        BY <1>2 DEF Decides
    <2> QED  BY <2>1, BitsAre
<1> QED  BY <1>3, <1>4

(* The chunk that sorts first has the lower identifier.                  *)
LEMMA IdsAscend ==
    ASSUME NEW c, NEW d, Packable(c), Packable(d), Lexicographic(c, d)
    PROVE  IdBelow(chunk_id(c), chunk_id(d))
<1> DEFINE a == chunk_id(c)
           b == chunk_id(d)
<1>1. /\ a \subseteq 0..63
      /\ \A k \in 40..63 : k \in a <=> k - 40 \in Bits(c[1])
      /\ \A k \in 16..39 : k \in a <=> k - 16 \in Bits(c[2])
      /\ \A k \in 0..15 : k \in a <=> k \in Bits(c[3])
    BY IdBits
<1>2. /\ b \subseteq 0..63
      /\ \A k \in 40..63 : k \in b <=> k - 40 \in Bits(d[1])
      /\ \A k \in 16..39 : k \in b <=> k - 16 \in Bits(d[2])
      /\ \A k \in 0..15 : k \in b <=> k \in Bits(d[3])
    BY IdBits
<1>3. /\ Bits(c[1]) \subseteq 0..23 /\ Bits(c[2]) \subseteq 0..23 /\ Bits(c[3]) \subseteq 0..15
      /\ Bits(d[1]) \subseteq 0..23 /\ Bits(d[2]) \subseteq 0..23 /\ Bits(d[3]) \subseteq 0..15
    BY SmallBits DEF Packable
<1>4. \A axis \in 1..3 : c[axis] \in Nat /\ d[axis] \in Nat /\ c[axis] < 2^24 /\ d[axis] < 2^24
    BY DEF Packable
<1> HIDE DEF a, b
<1>5. SUFFICES \E k \in b \ a : \A j \in (a \ b) \cup (b \ a) : j <= k
    BY DEF IdBelow, a, b
<1>6. CASE c[1] < d[1]
    <2>1. PICK k \in 0..30 :
              /\ k \in Bits(d[1]) /\ k \notin Bits(c[1])
              /\ \A j \in k + 1..30 : j \in Bits(c[1]) <=> j \in Bits(d[1])
        BY <1>4, <1>6, RangeDecides
    <2>2. k + 40 \in 40..63 /\ (k + 40) - 40 = k
        BY <1>3, <2>1
    <2>3. k + 40 \in b \ a
        BY <1>1, <1>2, <2>1, <2>2
    <2>4. ASSUME NEW j \in k + 41..63
          PROVE  j \in a <=> j \in b
        <3>1. j \in 40..63 /\ j - 40 \in k + 1..30
            BY <2>2
        <3> QED  BY <1>1, <1>2, <2>1, <3>1
    <2>5. \A j \in (a \ b) \cup (b \ a) : j <= k + 40
        BY <1>1, <1>2, <2>4
    <2> QED  BY <2>3, <2>5
<1>7. CASE c[1] = d[1] /\ c[2] < d[2]
    <2>1. PICK k \in 0..30 :
              /\ k \in Bits(d[2]) /\ k \notin Bits(c[2])
              /\ \A j \in k + 1..30 : j \in Bits(c[2]) <=> j \in Bits(d[2])
        BY <1>4, <1>7, RangeDecides
    <2>2. k + 16 \in 16..39 /\ (k + 16) - 16 = k
        BY <1>3, <2>1
    <2>3. k + 16 \in b \ a
        BY <1>1, <1>2, <2>1, <2>2
    <2>4. ASSUME NEW j \in k + 17..63
          PROVE  j \in a <=> j \in b
        <3>1. CASE j \in 40..63
            BY <1>1, <1>2, <1>7, <3>1
        <3>2. CASE j \notin 40..63
            <4>1. j \in 16..39 /\ j - 16 \in k + 1..30
                BY <3>2
            <4> QED  BY <1>1, <1>2, <2>1, <4>1
        <3> QED  BY <3>1, <3>2
    <2>5. \A j \in (a \ b) \cup (b \ a) : j <= k + 16
        BY <1>1, <1>2, <2>4
    <2> QED  BY <2>3, <2>5
<1>8. CASE c[1] = d[1] /\ c[2] = d[2] /\ c[3] < d[3]
    <2>1. PICK k \in 0..30 :
              /\ k \in Bits(d[3]) /\ k \notin Bits(c[3])
              /\ \A j \in k + 1..30 : j \in Bits(c[3]) <=> j \in Bits(d[3])
        BY <1>4, <1>8, RangeDecides
    <2>2. k \in 0..15
        BY <1>3, <2>1
    <2>3. k \in b \ a
        BY <1>1, <1>2, <2>1, <2>2
    <2>4. ASSUME NEW j \in k + 1..63
          PROVE  j \in a <=> j \in b
        <3>1. CASE j \in 40..63
            BY <1>1, <1>2, <1>8, <3>1
        <3>2. CASE j \in 16..39
            BY <1>1, <1>2, <1>8, <3>2
        <3>3. CASE j \in 0..15
            <4>1. j \in k + 1..30
                BY <3>3
            <4> QED  BY <1>1, <1>2, <2>1, <3>3, <4>1
        <3> QED  BY <2>2, <3>1, <3>2, <3>3
    <2>5. \A j \in (a \ b) \cup (b \ a) : j <= k
        BY <1>1, <1>2, <2>4
    <2> QED  BY <2>3, <2>5
<1> QED  BY <1>6, <1>7, <1>8 DEF Lexicographic

(* Of two identifiers at most one is below the other.                    *)
LEMMA IdsCompare ==
    ASSUME NEW a \in SUBSET (0..63), NEW b \in SUBSET (0..63), IdBelow(a, b)
    PROVE  a # b /\ ~ IdBelow(b, a)
<1>1. PICK k \in b \ a : \A j \in (a \ b) \cup (b \ a) : j <= k
    BY DEF IdBelow
<1>2. ASSUME NEW i \in a \ b, \A j \in (b \ a) \cup (a \ b) : j <= i
      PROVE  FALSE
    <2>1. i <= k /\ k <= i /\ i \in 0..63 /\ k \in 0..63
        BY <1>1, <1>2
    <2> QED  BY <1>1, <1>2, <2>1
<1> QED  BY <1>1, <1>2 DEF IdBelow

(* Packable chunks have identifiers of their own, in the chunks' order.  *)
LEMMA IdsFollow ==
    ASSUME NEW c \in [1..3 -> Int], NEW d \in [1..3 -> Int], Packable(c), Packable(d)
    PROVE  /\ chunk_id(c) = chunk_id(d) <=> c = d
           /\ IdBelow(chunk_id(c), chunk_id(d)) <=> Lexicographic(c, d)
<1>1. Lexicographic(c, d) \/ Lexicographic(d, c) \/ c = d
    <2>1. (\A axis \in 1..3 : c[axis] = d[axis]) => c = d
        OBVIOUS
    <2>2. /\ c[1] \in Int /\ c[2] \in Int /\ c[3] \in Int
          /\ d[1] \in Int /\ d[2] \in Int /\ d[3] \in Int
        OBVIOUS
    <2> QED  BY <2>1, <2>2 DEF Lexicographic
<1>2. chunk_id(c) \in SUBSET (0..63) /\ chunk_id(d) \in SUBSET (0..63)
    BY IdBits
<1>3. CASE Lexicographic(c, d)
    <2>1. IdBelow(chunk_id(c), chunk_id(d))
        BY <1>3, IdsAscend
    <2> QED  BY <1>2, <1>3, <2>1, IdsCompare
<1>4. CASE Lexicographic(d, c)
    <2>1. IdBelow(chunk_id(d), chunk_id(c))
        BY <1>4, IdsAscend
    <2>2. chunk_id(d) # chunk_id(c) /\ ~ IdBelow(chunk_id(c), chunk_id(d))
        BY <1>2, <2>1, IdsCompare
    <2>3. ~ Lexicographic(c, d)
        <3>1. /\ c[1] \in Int /\ c[2] \in Int /\ c[3] \in Int
              /\ d[1] \in Int /\ d[2] \in Int /\ d[3] \in Int
            OBVIOUS
        <3> QED  BY <1>4, <3>1 DEF Lexicographic
    <2> QED  BY <2>2, <2>3
<1>5. CASE c = d
    <2>1. ~ IdBelow(chunk_id(c), chunk_id(d))
        BY <1>5 DEF IdBelow
    <2>2. ~ Lexicographic(c, d)
        <3>1. /\ c[1] \in Int /\ c[2] \in Int /\ c[3] \in Int
            OBVIOUS
        <3> QED  BY <1>5, <3>1 DEF Lexicographic
    <2> QED  BY <1>5, <2>1, <2>2
<1> QED  BY <1>1, <1>3, <1>4, <1>5

(* The chunks and the places in them of any two positions are the same   *)
(* exactly when the voxels are a whole number of axes apart, an axis being *)
(* as many chunks as an i32 has values, and packable chunks have         *)
(* identifiers of their own that sort as the chunks do, for every size of *)
(* voxel and chunk (to_chunk_coord, chunk_id, drain_dirty).              *)
THEOREM LatticeIsNamed == DataSpec => []LatticeNames
<1> DEFINE Placed == subject = "lattice" => here \in Int \X Int \X Int /\ there \in Int \X Int \X Int
<1>1. DataInit => Placed
    BY PositionAssumption DEF DataInit, LatticeInit
<1>2. Placed /\ [DataNext]_data => Placed'
    BY PositionAssumption DEF DataNext, data, cursors, LatticeNext
<1>3. Placed => LatticeNames
    <2> SUFFICES ASSUME Placed, subject = "lattice"
                 PROVE  NamesAreVoxels /\ IdsFollowChunks
        BY DEF LatticeNames
    <2>1. NamesAreVoxels
        BY NamesOfVoxels DEF NamesAreVoxels
    <2>2. \A p \in Int \X Int \X Int : to_chunk_coord(p) \in [1..3 -> Int]
        <3> SUFFICES ASSUME NEW p \in Int \X Int \X Int
                     PROVE  to_chunk_coord(p) \in [1..3 -> Int]
            OBVIOUS
        <3>1. \A axis \in 1..3 : to_chunk_coord(p)[axis] \in Int
            BY ChunkOfVoxel
        <3> QED  BY <3>1 DEF to_chunk_coord
    <2>3. IdsFollowChunks
        BY <2>2, IdsFollow DEF IdsFollowChunks
    <2> QED  BY <2>1, <2>3
<1> QED  BY <1>1, <1>2, <1>3, PTL DEF DataSpec

---------------------------------------------------------------------------
---------------------------------------------------------------------------
(* A chunk that is saved and loaded.                                     *)

(* The runs r stand for the first m values of s: one run ends where the  *)
(* next begins, the last at m, and each holds the value of its part of s. *)
EndsOf(ends, r, s, m, X) ==
    /\ ends \in [0..Len(r) -> Nat]
    /\ ends[0] = 0 /\ ends[Len(r)] = m
    /\ \A n \in 1..Len(r) :
          /\ r[n] \in Nat \X X
          /\ ends[n] = ends[n - 1] + r[n][1]
          /\ \A k \in ends[n - 1] + 1..ends[n] : s[k] = r[n][2]

Spelled(r, s, m, X) == \E ends : EndsOf(ends, r, s, m, X)

(* Ends do not decrease, so that every part lies in the values.          *)
LEMMA EndsBelow ==
    ASSUME NEW N \in Nat, NEW ends \in [0..N -> Nat], \A n \in 1..N : ends[n - 1] <= ends[n]
    PROVE  \A n \in 0..N : ends[n] <= ends[N]
<1> DEFINE S == {n \in 0..N : ends[N - n] <= ends[N]}
<1>1. 0 \in S
    OBVIOUS
<1>2. ASSUME NEW n \in 0..N - 1, n \in S
      PROVE  n + 1 \in S
    <2>1. N - n \in 1..N /\ N - (n + 1) = (N - n) - 1 /\ N - (n + 1) \in 0..N /\ N - n \in 0..N
        OBVIOUS
    <2>2. ends[N - (n + 1)] <= ends[N - n]
        BY <2>1
    <2>3. ends[N - (n + 1)] \in Nat /\ ends[N - n] \in Nat /\ ends[N] \in Nat
        BY <2>1
    <2> QED  BY <1>2, <2>1, <2>2, <2>3
<1>3. 0..N \subseteq S
    <2> HIDE DEF S
    <2> QED  BY <1>1, <1>2, UpTo
<1>4. ASSUME NEW n \in 0..N
      PROVE  ends[n] <= ends[N]
    <2>1. N - n \in 0..N /\ N - (N - n) = n
        OBVIOUS
    <2>2. N - n \in S
        <3> HIDE DEF S
        <3> QED  BY <1>3, <2>1
    <2>3. ends[N - (N - n)] <= ends[N]
        BY <2>2
    <2> QED  BY <2>1, <2>3
<1> QED  BY <1>4

(* The values read so far are a beginning of the values spelled.         *)
LEMMA OneRunMore ==
    ASSUME NEW X, NEW s \in Seq(X), NEW a \in Nat, NEW c \in Nat, a + c <= Len(s), NEW v,
           \A k \in a + 1..a + c : s[k] = v
    PROVE  SubSeq(s, 1, a) \o [k \in 1..c |-> v] = SubSeq(s, 1, a + c)
<1> DEFINE more == [k \in 1..c |-> v]
<1>1. more \in Seq({v}) /\ Len(more) = c
    OBVIOUS
<1>2. ASSUME c > 0
      PROVE  v \in X
    <2>1. a + 1 \in 1..Len(s) /\ a + 1 \in a + 1..a + c
        BY <1>2
    <2> QED  BY <2>1
<1>3. more \in Seq(X)
    BY <1>2
<1>4. SubSeq(s, 1, a) \in Seq(X) /\ Len(SubSeq(s, 1, a)) = a
    OBVIOUS
<1>5. \A k \in 1..a : SubSeq(s, 1, a)[k] = s[k]
    OBVIOUS
<1>6. SubSeq(s, 1, a + c) \in Seq(X) /\ Len(SubSeq(s, 1, a + c)) = a + c
      /\ \A k \in 1..a + c : SubSeq(s, 1, a + c)[k] = s[k]
    OBVIOUS
<1> DEFINE both == SubSeq(s, 1, a) \o more
<1>7. both \in Seq(X) /\ Len(both) = a + c
    <2> HIDE DEF more
    <2> QED  BY <1>1, <1>3, <1>4
<1>8. ASSUME NEW k \in 1..a + c
      PROVE  both[k] = s[k]
    <2>1. CASE k <= a
        <3> HIDE DEF more
        <3> QED  BY <1>3, <1>4, <1>5, <2>1
    <2>2. CASE k > a
        <3>1. k - a \in 1..c /\ k \in a + 1..a + c
            BY <2>2
        <3>2. more[k - a] = v
            BY <3>1
        <3>3. both[k] = more[k - a]
            <4> HIDE DEF more
            <4> QED  BY <1>1, <1>3, <1>4, <2>2
        <3> QED  BY <3>1, <3>2, <3>3
    <2> QED  BY <2>1, <2>2
<1> HIDE DEF both
<1>9. \A k \in 1..a + c : both[k] = SubSeq(s, 1, a + c)[k]
    BY <1>6, <1>8
<1>10. both = SubSeq(s, 1, a + c)
    BY <1>6, <1>7, <1>9
<1> QED  BY <1>10 DEF both

(* A run pushed at the end stands for the values after those before it.  *)
LEMMA RunPushed ==
    ASSUME NEW X, NEW s, NEW m \in Nat, NEW r \in Seq(Nat \X X), Spelled(r, s, m, X),
           NEW c \in Nat, NEW v \in X, \A k \in m + 1..m + c : s[k] = v
    PROVE  Spelled(Append(r, <<c, v>>), s, m + c, X)
<1> DEFINE N == Len(r)
           q == Append(r, <<c, v>>)
<1>0. PICK ends : EndsOf(ends, r, s, m, X)
    BY DEF Spelled
<1>1. /\ ends \in [0..N -> Nat]
      /\ ends[0] = 0 /\ ends[N] = m
      /\ \A n \in 1..N :
            /\ r[n] \in Nat \X X
            /\ ends[n] = ends[n - 1] + r[n][1]
            /\ \A k \in ends[n - 1] + 1..ends[n] : s[k] = r[n][2]
    BY <1>0 DEF EndsOf
<1>2. N \in Nat /\ Len(q) = N + 1 /\ q[N + 1] = <<c, v>> /\ \A n \in 1..N : q[n] = r[n]
    OBVIOUS
<1> DEFINE after == [n \in 0..N + 1 |-> IF n = N + 1 THEN m + c ELSE ends[n]]
<1>3. after \in [0..N + 1 -> Nat] /\ after[N + 1] = m + c /\ \A n \in 0..N : after[n] = ends[n]
    BY <1>1, <1>2
<1> HIDE DEF after, q, N
<1>4. ASSUME NEW n \in 1..N
      PROVE  /\ q[n] \in Nat \X X
             /\ after[n] = after[n - 1] + q[n][1]
             /\ \A k \in after[n - 1] + 1..after[n] : s[k] = q[n][2]
    <2>1. n \in 0..N /\ n - 1 \in 0..N
        BY <1>2
    <2>2. after[n] = ends[n] /\ after[n - 1] = ends[n - 1] /\ q[n] = r[n]
        BY <1>2, <1>3, <2>1
    <2> QED  BY <1>1, <2>2
<1>5. /\ q[N + 1] \in Nat \X X
      /\ after[N + 1] = after[N] + q[N + 1][1]
      /\ \A k \in after[N] + 1..after[N + 1] : s[k] = q[N + 1][2]
    <2>1. after[N] = m
        BY <1>1, <1>2, <1>3
    <2> QED  BY <1>2, <1>3, <2>1
<1>6. after[0] = 0 /\ after[N + 1] = m + c
    BY <1>1, <1>2, <1>3
<1>7. \A n \in 1..N + 1 : n \in 1..N \/ (n = N + 1 /\ n - 1 = N)
    BY <1>2
<1>8. \A n \in 1..N + 1 :
         /\ q[n] \in Nat \X X
         /\ after[n] = after[n - 1] + q[n][1]
         /\ \A k \in after[n - 1] + 1..after[n] : s[k] = q[n][2]
    BY <1>4, <1>5, <1>7
<1>9. EndsOf(after, q, s, m + c, X)
    BY <1>2, <1>3, <1>6, <1>8 DEF EndsOf
<1>10. Spelled(q, s, m + c, X)
    BY <1>9 DEF Spelled
<1> QED  BY <1>10 DEF q

(* The state of rle_encode after k values of s: the runs pushed stand for *)
(* all but the last ones, which are equal and counted.                   *)
Encoding(acc, s, k, X) ==
    /\ acc \in [runs : Seq(Nat \X X), current : X, count : Nat]
    /\ acc.count \in 1..k
    /\ Spelled(acc.runs, s, k - acc.count, X)
    /\ \A j \in k - acc.count + 1..k : s[j] = acc.current

LEMMA ExtendedEncoding ==
    ASSUME NEW X, NEW s \in Seq(X), NEW k \in 1..Len(s), k + 1 <= Len(s),
           NEW acc, Encoding(acc, s, k, X)
    PROVE  Encoding(Extended(acc, s[k + 1]), s, k + 1, X)
<1> DEFINE v == s[k + 1]
           new == Extended(acc, v)
<1>1. v \in X
    OBVIOUS
<1>2. /\ acc \in [runs : Seq(Nat \X X), current : X, count : Nat]
      /\ acc.count \in 1..k
      /\ Spelled(acc.runs, s, k - acc.count, X)
      /\ \A j \in k - acc.count + 1..k : s[j] = acc.current
    BY DEF Encoding
<1>3. CASE v = acc.current /\ acc.count < MaxRun
    <2>1. new = [acc EXCEPT !.count = acc.count + 1]
        BY <1>3 DEF Extended
    <2> HIDE DEF new
    <2>2. /\ new \in [runs : Seq(Nat \X X), current : X, count : Nat]
          /\ new.count = acc.count + 1 /\ new.runs = acc.runs /\ new.current = acc.current
        <3> DEFINE Q == Seq(Nat \X X)
        <3> HIDE DEF Q
        <3>1. acc \in [runs : Q, current : X, count : Nat]
            BY <1>2 DEF Q
        <3>2. /\ new \in [runs : Q, current : X, count : Nat]
              /\ new.count = acc.count + 1 /\ new.runs = acc.runs /\ new.current = acc.current
            BY <2>1, <3>1
        <3> QED  BY <3>2 DEF Q
    <2>3. k + 1 - new.count = k - acc.count /\ new.count \in 1..k + 1
        BY <1>2, <2>2
    <2>4. \A j \in k - acc.count + 1..k + 1 : s[j] = acc.current
        BY <1>2, <1>3
    <2>5. Encoding(new, s, k + 1, X)
        BY <1>2, <2>2, <2>3, <2>4 DEF Encoding
    <2> QED  BY <2>5 DEF new
<1>4. CASE ~(v = acc.current /\ acc.count < MaxRun)
    <2>1. new = [runs |-> Append(acc.runs, <<acc.count, acc.current>>), current |-> v, count |-> 1]
        BY <1>4 DEF Extended
    <2>2. Spelled(Append(acc.runs, <<acc.count, acc.current>>), s, k, X)
        <3>1. k - acc.count \in Nat /\ (k - acc.count) + acc.count = k /\ acc.count \in Nat
            BY <1>2
        <3>2. \A j \in (k - acc.count) + 1..(k - acc.count) + acc.count : s[j] = acc.current
            BY <1>2, <3>1
        <3>3. acc.current \in X /\ acc.runs \in Seq(Nat \X X)
            BY <1>2
        <3>4. Spelled(Append(acc.runs, <<acc.count, acc.current>>), s, (k - acc.count) + acc.count, X)
            BY <1>2, <3>1, <3>2, <3>3, RunPushed
        <3> QED  BY <3>1, <3>4
    <2>3. Append(acc.runs, <<acc.count, acc.current>>) \in Seq(Nat \X X)
        <3>1. <<acc.count, acc.current>> \in Nat \X X /\ acc.runs \in Seq(Nat \X X)
            BY <1>2
        <3> DEFINE P == Nat \X X
        <3> HIDE DEF P
        <3>2. ASSUME NEW t \in Seq(P), NEW p \in P
              PROVE  Append(t, p) \in Seq(P)
            OBVIOUS
        <3> QED  BY <3>1, <3>2 DEF P
    <2> HIDE DEF new
    <2>4. new \in [runs : Seq(Nat \X X), current : X, count : Nat]
        BY <1>1, <2>1, <2>3
    <2>5. new.count = 1 /\ new.current = v /\ new.runs = Append(acc.runs, <<acc.count, acc.current>>)
        BY <2>1
    <2>6. k + 1 - new.count = k /\ new.count \in 1..k + 1
        BY <2>5
    <2>7. \A j \in k + 1..k + 1 : s[j] = new.current
        BY <2>5
    <2>8. Encoding(new, s, k + 1, X)
        BY <2>2, <2>4, <2>5, <2>6, <2>7 DEF Encoding
    <2> QED  BY <2>8 DEF new
<1> QED  BY <1>3, <1>4

(* The runs r without the last stand for fewer values.                   *)
LastRunCounts(r, s, X) ==
    \E q \in Seq(Nat \X X), c \in 1..Len(s), v \in X :
        r = Append(q, <<c, v>>) /\ Spelled(q, s, Len(s) - c, X)

(* The runs of rle_encode stand for all the values, and the last for one *)
(* value at least.                                                       *)
LEMMA RunsSpell ==
    ASSUME NEW X, NEW s \in Seq(X), s # << >>
    PROVE  /\ rle_encode(s) \in Seq(Nat \X X) /\ Spelled(rle_encode(s), s, Len(s), X)
           /\ LastRunCounts(rle_encode(s), s, X)
<1> DEFINE N == Len(s) - 1
           St == [runs : Seq(Nat \X X), current : X, count : Nat]
           first == [runs |-> << >>, current |-> s[1], count |-> 1]
           next == [k \in 1..N |-> [acc \in St |-> Extended(acc, s[k + 1])]]
           after[k \in 0..N] == IF k = 0 THEN first ELSE Extended(after[k - 1], s[k + 1])
           body(f) == [k \in 0..N |-> IF k = 0 THEN first ELSE Extended(f[k - 1], s[k + 1])]
<1>1. N \in Nat /\ s[1] \in X /\ \A k \in 1..N : s[k + 1] \in X
    OBVIOUS
<1>2. first \in St
    BY <1>1
<1>3. ASSUME NEW acc \in St, NEW v \in X
      PROVE  Extended(acc, v) \in St
    <2>1. <<acc.count, acc.current>> \in Nat \X X /\ acc.runs \in Seq(Nat \X X)
        OBVIOUS
    <2>2. Append(acc.runs, <<acc.count, acc.current>>) \in Seq(Nat \X X)
        <3> DEFINE P == Nat \X X
        <3> HIDE DEF P
        <3>2. ASSUME NEW t \in Seq(P), NEW p \in P
              PROVE  Append(t, p) \in Seq(P)
            OBVIOUS
        <3> QED  BY <2>1, <3>2 DEF P
    <2>3. [acc EXCEPT !.count = @ + 1] \in St
        OBVIOUS
    <2>4. [runs |-> Append(acc.runs, <<acc.count, acc.current>>), current |-> v, count |-> 1] \in St
        BY <2>2
    <2> HIDE DEF St
    <2> QED  BY <2>3, <2>4 DEF Extended
<1>4. next \in [1..N -> [St -> St]]
    <2> HIDE DEF St, N
    <2> QED  BY <1>1, <1>3
<1>5. after = CHOOSE f : f = body(f)
    OBVIOUS
<1>6. Runs(s) = after[N]
    BY DEF Runs
<1> HIDE DEF after, next, N, first, St
<1>7. PICK f \in [0..N -> St] : f[0] = first /\ \A k \in 1..N : f[k] = next[k][f[k - 1]]
    <2> HIDE DEF body
    <2>1. \E f \in [0..N -> St] : Follows(f, N, first, next)
        BY <1>1, <1>2, <1>4, Recursion
    <2> QED  BY <2>1 DEF Follows
<1>8. ASSUME NEW k \in 1..N
      PROVE  f[k] = Extended(f[k - 1], s[k + 1])
    <2>1. k - 1 \in 0..N /\ f[k - 1] \in St
        BY <1>1
    <2>2. next[k] = [acc \in St |-> Extended(acc, s[k + 1])]
        BY DEF next
    <2> QED  BY <1>7, <2>1, <2>2
<1>9. f = body(f)
    <2>1. f = [k \in 0..N |-> f[k]]
        OBVIOUS
    <2>2. \A k \in 0..N : k = 0 \/ k \in 1..N
        BY <1>1
    <2>3. \A k \in 0..N : f[k] = IF k = 0 THEN first ELSE Extended(f[k - 1], s[k + 1])
        BY <1>7, <1>8, <2>2
    <2> QED  BY <2>1, <2>3
<1>10. after = body(after)
    <2> HIDE DEF body
    <2> QED  BY <1>5, <1>9
<1>11. after[0] = first /\ \A k \in 1..N : after[k] = Extended(after[k - 1], s[k + 1])
    BY <1>1, <1>10
<1> HIDE DEF body
<1> DEFINE S == {k \in 0..N : Encoding(after[k], s, k + 1, X)}
<1>12. 0 \in S
    <2>1. Spelled(<< >>, s, 0, X)
        <3> DEFINE ends == [n \in 0..0 |-> 0]
                   none == << >>
        <3>1. Len(none) = 0
            OBVIOUS
        <3> HIDE DEF none
        <3>2. EndsOf(ends, none, s, 0, X)
            BY <3>1 DEF EndsOf
        <3> HIDE DEF ends
        <3>3. Spelled(none, s, 0, X)
            BY <3>2 DEF Spelled
        <3> QED  BY <3>3 DEF none
    <2>2. first.count = 1 /\ first.runs = << >> /\ first.current = s[1]
        BY DEF first
    <2>3. Encoding(first, s, 1, X)
        BY <1>2, <2>1, <2>2 DEF Encoding, St
    <2> QED  BY <1>1, <1>11, <2>3
<1>13. ASSUME NEW k \in 0..N - 1, k \in S
       PROVE  k + 1 \in S
    <2>1. k + 1 \in 1..N /\ k + 1 \in 0..N /\ (k + 1) - 1 = k /\ k + 1 \in 1..Len(s) /\ (k + 1) + 1 <= Len(s)
        BY <1>1 DEF N
    <2>2. after[k + 1] = Extended(after[k], s[(k + 1) + 1])
        BY <1>11, <2>1
    <2>3. Encoding(Extended(after[k], s[(k + 1) + 1]), s, (k + 1) + 1, X)
        BY <1>13, <2>1, ExtendedEncoding
    <2> QED  BY <2>1, <2>2, <2>3
<1>14. Encoding(after[N], s, Len(s), X)
    <2>1. N \in S
        <3> HIDE DEF S
        <3>1. 0..N \subseteq S
            BY <1>1, <1>12, <1>13, UpTo
        <3> QED  BY <1>1, <3>1
    <2>2. N + 1 = Len(s)
        BY DEF N
    <2> QED  BY <2>1, <2>2
<1> DEFINE last == after[N]
<1> HIDE DEF last
<1>15. /\ last \in [runs : Seq(Nat \X X), current : X, count : Nat]
       /\ last.count \in 1..Len(s)
       /\ Spelled(last.runs, s, Len(s) - last.count, X)
       /\ \A j \in Len(s) - last.count + 1..Len(s) : s[j] = last.current
    BY <1>14 DEF Encoding, last
<1>16. rle_encode(s) = Append(last.runs, <<last.count, last.current>>)
    BY <1>6 DEF rle_encode, last
<1>17. /\ Len(s) - last.count \in Nat /\ (Len(s) - last.count) + last.count = Len(s)
       /\ last.count \in Nat /\ last.current \in X /\ last.runs \in Seq(Nat \X X)
       /\ <<last.count, last.current>> \in Nat \X X
    BY <1>15
<1>18. Append(last.runs, <<last.count, last.current>>) \in Seq(Nat \X X)
    <2> DEFINE P == Nat \X X
    <2> HIDE DEF P
    <2>2. ASSUME NEW t \in Seq(P), NEW p \in P
          PROVE  Append(t, p) \in Seq(P)
        OBVIOUS
    <2> QED  BY <1>17, <2>2 DEF P
<1>19. \A j \in (Len(s) - last.count) + 1..(Len(s) - last.count) + last.count : s[j] = last.current
    BY <1>15, <1>17
<1>20. Spelled(Append(last.runs, <<last.count, last.current>>), s, (Len(s) - last.count) + last.count, X)
    BY <1>15, <1>17, <1>19, RunPushed
<1>21. LastRunCounts(rle_encode(s), s, X)
    BY <1>15, <1>16, <1>17 DEF LastRunCounts
<1> QED  BY <1>16, <1>17, <1>18, <1>20, <1>21

(* The parts of load_chunk.                                              *)
Refused(stream, element) ==
    \/ Len(stream) < 4 \/ stream[1] # MAGIC \/ stream[2] # FORMAT_VERSION
    \/ stream[3] # element \/ Len(stream) < 4 + stream[4]

LEMMA RefusedFails ==
    ASSUME NEW stream, NEW element, Refused(stream, element)
    PROVE  load_chunk(stream, element) = Failed
BY DEF Refused, load_chunk

(* The runs of a stream are r.                                           *)
Carries(stream, r) == stream[4] = Len(r) /\ \A n \in 1..Len(r) : stream[4 + n] = r[n]

(* Runs that stand for the first m values decode as these values,        *)
(* whatever follows them.                                                *)
LEMMA RunsDecode ==
    ASSUME NEW X, NEW s \in Seq(X), NEW m \in 0..Len(s),
           NEW r \in Seq(Nat \X X), Spelled(r, s, m, X),
           NEW stream, Carries(stream, r)
    PROVE  Decoded(stream) = SubSeq(s, 1, m)
<1> DEFINE R == Len(r)
           run(n) == [k \in 1..stream[4 + n][1] |-> stream[4 + n][2]]
           out[n \in 0..stream[4]] ==
               IF n = 0 THEN << >> ELSE out[n - 1] \o [k \in 1..stream[4 + n][1] |-> stream[4 + n][2]]
           body(f) == [n \in 0..stream[4] |-> IF n = 0 THEN << >> ELSE f[n - 1] \o run(n)]
<1>0. stream[4] = Len(r) /\ \A n \in 1..Len(r) : stream[4 + n] = r[n]
    BY DEF Carries
<1>1. PICK ends : EndsOf(ends, r, s, m, X)
    BY DEF Spelled
<1>2. /\ ends \in [0..R -> Nat]
      /\ ends[0] = 0 /\ ends[R] = m
      /\ \A n \in 1..R :
            /\ r[n] \in Nat \X X
            /\ ends[n] = ends[n - 1] + r[n][1]
            /\ \A k \in ends[n - 1] + 1..ends[n] : s[k] = r[n][2]
    BY <1>1 DEF EndsOf
<1>3. R \in Nat
    OBVIOUS
<1>4. \A n \in 0..R : ends[n] <= Len(s)
    <2>1. \A n \in 1..R : ends[n - 1] <= ends[n]
        <3> SUFFICES ASSUME NEW n \in 1..R
                     PROVE  ends[n - 1] <= ends[n]
            OBVIOUS
        <3>0. n - 1 \in 0..R
            <4> HIDE DEF R
            <4> QED  BY <1>3
        <3>1. ends[n - 1] \in Nat
            <4> HIDE DEF R
            <4> QED  BY <1>2, <3>0
        <3>2. r[n] \in Nat \X X /\ ends[n] = ends[n - 1] + r[n][1]
            BY <1>2
        <3>3. r[n][1] \in Nat
            BY <3>2
        <3> QED  BY <3>1, <3>2, <3>3
    <2> HIDE DEF R
    <2>2. \A n \in 0..R : ends[n] <= ends[R]
        BY <1>2, <1>3, <2>1, EndsBelow
    <2>3. ends[R] <= Len(s) /\ ends[R] \in Nat
        BY <1>2
    <2>4. \A n \in 0..R : ends[n] \in Nat
        BY <1>2
    <2> QED  BY <2>2, <2>3, <2>4
<1> DEFINE g == [n \in 0..R |-> SubSeq(s, 1, ends[n])]
<1>5. ASSUME NEW n \in 1..R
      PROVE  g[n] = g[n - 1] \o run(n)
    <2> DEFINE a == ends[n - 1]
               c == r[n][1]
               v == r[n][2]
    <2>1. n - 1 \in 0..R /\ n \in 0..R
        BY <1>3
    <2>2. a \in Nat /\ c \in Nat /\ ends[n] = a + c /\ a + c <= Len(s)
        BY <1>2, <1>4, <2>1
    <2>3. \A k \in a + 1..a + c : s[k] = v
        BY <1>2, <2>2
    <2>4. SubSeq(s, 1, a) \o [k \in 1..c |-> v] = SubSeq(s, 1, a + c)
        <3> HIDE DEF a, c, v
        <3> QED  BY <2>2, <2>3, OneRunMore
    <2>5. run(n) = [k \in 1..c |-> v]
        BY <1>0
    <2>6. g[n] = SubSeq(s, 1, a + c) /\ g[n - 1] = SubSeq(s, 1, a)
        BY <2>1, <2>2
    <2> QED  BY <2>4, <2>5, <2>6
<1>6. g[0] = << >> /\ g[R] = SubSeq(s, 1, m)
    <2>1. SubSeq(s, 1, 0) = << >>
        OBVIOUS
    <2> QED  BY <1>2, <1>3, <2>1
<1>7. out = CHOOSE f : f = body(f)
    OBVIOUS
<1>8. Decoded(stream) = out[stream[4]]
    BY DEF Decoded
<1> HIDE DEF out, run, R
<1>9. g = body(g)
    <2>1. \A n \in 0..R : n = 0 \/ n \in 1..R
        BY <1>3
    <2>2. \A n \in 0..R : g[n] = IF n = 0 THEN << >> ELSE g[n - 1] \o run(n)
        BY <1>5, <1>6, <2>1
    <2>3. stream[4] = R
        BY <1>0 DEF R
    <2>4. g = [n \in 0..R |-> g[n]]
        OBVIOUS
    <2> HIDE DEF g
    <2> QED  BY <2>2, <2>3, <2>4
<1>10. out = body(out)
    <2> HIDE DEF body, g
    <2> QED  BY <1>7, <1>9
<1>11. out[0] = << >> /\ \A n \in 1..R : out[n] = out[n - 1] \o run(n)
    <2>1. stream[4] = R
        BY <1>0 DEF R
    <2>2. out = [n \in 0..R |-> IF n = 0 THEN << >> ELSE out[n - 1] \o run(n)]
        BY <1>10, <2>1
    <2>3. \A n \in 0..R : out[n] = IF n = 0 THEN << >> ELSE out[n - 1] \o run(n)
        <3> DEFINE value(n) == IF n = 0 THEN << >> ELSE out[n - 1] \o run(n)
        <3>1. out = [n \in 0..R |-> value(n)]
            BY <2>2
        <3> HIDE DEF value
        <3>2. \A n \in 0..R : out[n] = value(n)
            BY <3>1
        <3> QED  BY <3>2 DEF value
    <2>4. 0 \in 0..R /\ \A n \in 1..R : n \in 0..R /\ n # 0
        BY <1>3
    <2> QED  BY <2>3, <2>4
<1> HIDE DEF body, g
<1> DEFINE S == {n \in 0..R : out[n] = g[n]}
<1>12. 0 \in S
    BY <1>3, <1>6, <1>11
<1>13. ASSUME NEW n \in 0..R - 1, n \in S
       PROVE  n + 1 \in S
    <2>1. n + 1 \in 1..R /\ n + 1 \in 0..R /\ (n + 1) - 1 = n
        BY <1>3
    <2>2. out[n + 1] = out[(n + 1) - 1] \o run(n + 1)
        BY <1>11, <2>1
    <2>3. g[n + 1] = g[(n + 1) - 1] \o run(n + 1)
        BY <1>5, <2>1
    <2> QED  BY <1>13, <2>1, <2>2, <2>3
<1>14. out[R] = SubSeq(s, 1, m)
    <2>1. R \in S
        <3> HIDE DEF S
        <3>1. 0..R \subseteq S
            BY <1>3, <1>12, <1>13, UpTo
        <3> QED  BY <1>3, <3>1
    <2> QED  BY <1>6, <2>1
<1> QED  BY <1>0, <1>8, <1>14 DEF R

(* A stream that begins with a header and the runs that stand for the    *)
(* values of a chunk loads as these values, whatever follows.            *)
LEMMA RunsLoad ==
    ASSUME NEW X, NEW s \in Seq(X), Len(s) = CHUNK_VOXELS,
           NEW r \in Seq(Nat \X X), Spelled(r, s, Len(s), X),
           NEW stream, NEW element, ~Refused(stream, element), Carries(stream, r)
    PROVE  load_chunk(stream, element) = s
<1>1. Len(s) \in 0..Len(s) /\ SubSeq(s, 1, Len(s)) = s
    OBVIOUS
<1>2. Decoded(stream) = SubSeq(s, 1, Len(s))
    BY <1>1, RunsDecode
<1>3. Decoded(stream) = s
    BY <1>1, <1>2
<1> QED  BY <1>3 DEF load_chunk, Refused

(* Runs that stand for fewer values than a chunk has are refused.        *)
LEMMA ShortRunsFail ==
    ASSUME NEW X, NEW s \in Seq(X), Len(s) = CHUNK_VOXELS, NEW m \in 0..Len(s), m # Len(s),
           NEW r \in Seq(Nat \X X), Spelled(r, s, m, X),
           NEW stream, NEW element, Carries(stream, r)
    PROVE  load_chunk(stream, element) = Failed
<1>2. Decoded(stream) = SubSeq(s, 1, m)
    BY RunsDecode
<1>3. Len(SubSeq(s, 1, m)) = m /\ m # Len(s)
    OBVIOUS
<1> QED  BY <1>2, <1>3 DEF load_chunk

(* The fields of a saved chunk are a header of four and its runs.        *)
LEMMA HeaderAndRuns ==
    ASSUME NEW Y, NEW a \in Y, NEW b \in Y, NEW c \in Y, NEW d \in Y, NEW r \in Seq(Y),
           NEW stream, stream = <<a, b, c, d>> \o r
    PROVE  /\ stream \in Seq(Y) /\ Len(stream) = 4 + Len(r)
           /\ stream[1] = a /\ stream[2] = b /\ stream[3] = c /\ stream[4] = d
           /\ \A n \in 1..Len(r) : stream[4 + n] = r[n]
<1> DEFINE head == <<a, b, c, d>>
<1>1. head \in Seq(Y) /\ Len(head) = 4 /\ head[1] = a /\ head[2] = b /\ head[3] = c /\ head[4] = d
    OBVIOUS
<1>2. stream = head \o r
    OBVIOUS
<1> HIDE DEF head
<1>3. stream \in Seq(Y) /\ Len(stream) = 4 + Len(r)
    BY <1>1, <1>2
<1>4. \A n \in 1..4 : stream[n] = head[n]
    BY <1>1, <1>2
<1>5. \A n \in 1..Len(r) : stream[4 + n] = r[n]
    BY <1>1, <1>2
<1> QED  BY <1>1, <1>3, <1>4, <1>5

(* What is cut off or left out of a stream makes it shorter; what is     *)
(* appended leaves its fields where they were.                           *)
LEMMA OtherStreams ==
    ASSUME NEW Y, NEW stream \in Seq(Y)
    PROVE  /\ \A k \in 0..Len(stream) - 1 :
                 /\ Len(SubSeq(stream, 1, k)) = k
                 /\ \A n \in 1..k : SubSeq(stream, 1, k)[n] = stream[n]
           /\ \A k \in 5..Len(stream) :
                 /\ Len(RemoveAt(stream, k)) = Len(stream) - 1
                 /\ \A n \in 1..4 : RemoveAt(stream, k)[n] = stream[n]
           /\ Len(stream \o stream) = Len(stream) + Len(stream)
           /\ \A n \in 1..Len(stream) : (stream \o stream)[n] = stream[n]
<1>1. ASSUME NEW k \in 0..Len(stream) - 1
      PROVE  /\ Len(SubSeq(stream, 1, k)) = k
             /\ \A n \in 1..k : SubSeq(stream, 1, k)[n] = stream[n]
    OBVIOUS
<1>2. ASSUME NEW k \in 5..Len(stream)
      PROVE  /\ Len(RemoveAt(stream, k)) = Len(stream) - 1
             /\ \A n \in 1..4 : RemoveAt(stream, k)[n] = stream[n]
    <2> DEFINE before == SubSeq(stream, 1, k - 1)
               after == SubSeq(stream, k + 1, Len(stream))
    <2>1. before \in Seq(Y) /\ Len(before) = k - 1 /\ \A n \in 1..4 : before[n] = stream[n]
        OBVIOUS
    <2>2. after \in Seq(Y) /\ Len(after) = Len(stream) - k
        OBVIOUS
    <2>3. RemoveAt(stream, k) = before \o after
        BY DEF RemoveAt
    <2> HIDE DEF before, after
    <2>4. ASSUME NEW p \in Seq(Y), NEW q \in Seq(Y)
          PROVE  /\ Len(p \o q) = Len(p) + Len(q)
                 /\ \A n \in 1..Len(p) : (p \o q)[n] = p[n]
        OBVIOUS
    <2>5. \A n \in 1..4 : n \in 1..k - 1
        OBVIOUS
    <2>6. (k - 1) + (Len(stream) - k) = Len(stream) - 1
        OBVIOUS
    <2>7. /\ Len(before \o after) = Len(before) + Len(after)
          /\ \A n \in 1..Len(before) : (before \o after)[n] = before[n]
        BY <2>1, <2>2, <2>4
    <2> QED  BY <2>1, <2>2, <2>3, <2>5, <2>6, <2>7
<1>3. /\ Len(stream \o stream) = Len(stream) + Len(stream)
      /\ \A n \in 1..Len(stream) : (stream \o stream)[n] = stream[n]
    OBVIOUS
<1> QED  BY <1>1, <1>2, <1>3

(* A chunk holds a voxel at least.                                       *)
LEMMA SomeVoxels == CHUNK_VOXELS \in Nat /\ CHUNK_VOXELS # 0
<1>1. ASSUME NEW m \in Nat, NEW n \in Nat, m # 0, n # 0
      PROVE  m * n \in Nat /\ m * n # 0
    <2>1. m * n \in Nat
        OBVIOUS
    <2>2. 1 * 1 <= m * n
        BY <1>1, SMT
    <2> QED  BY <2>1, <2>2
<1> DEFINE square == CHUNK_EDGE * CHUNK_EDGE
<1>2. square \in Nat /\ square # 0
    BY <1>1, ChunkAssumption
<1>3. square * CHUNK_EDGE \in Nat /\ square * CHUNK_EDGE # 0
    <2> HIDE DEF square
    <2> QED  BY <1>1, <1>2, ChunkAssumption
<1> QED  BY <1>3 DEF CHUNK_VOXELS

LEMMA ChunkLoadsBack == SavesLoadBack
<1> DEFINE s == VoxelSequence(voxels)
           X == {s[k] : k \in 1..CHUNK_VOXELS}
           r == rle_encode(s)
           stream == save_chunk(voxels, 1)
           Y == {MAGIC, FORMAT_VERSION, 1, Len(r)} \cup (Nat \X X)
<1>1. s \in Seq(X) /\ Len(s) = CHUNK_VOXELS /\ s # << >>
    <2>1. s = [k \in 1..CHUNK_VOXELS |-> voxels[InLoopOrder[k]]]
        BY DEF VoxelSequence
    <2>2. \A k \in 1..CHUNK_VOXELS : s[k] \in X
        OBVIOUS
    <2>3. s = [k \in 1..CHUNK_VOXELS |-> s[k]]
        BY <2>1
    <2> HIDE DEF s, X
    <2>4. s \in [1..CHUNK_VOXELS -> X]
        BY <2>2, <2>3
    <2> QED  BY <2>4, SomeVoxels
<1> HIDE DEF s, X
<1>2. r \in Seq(Nat \X X) /\ Spelled(r, s, Len(s), X) /\ LastRunCounts(r, s, X)
    BY <1>1, RunsSpell
<1> HIDE DEF r
<1>3. r \in Seq(Y)
    BY <1>2
<1>4. stream = <<MAGIC, FORMAT_VERSION, 1, Len(r)>> \o r
    BY DEF save_chunk, s, r
<1>5. MAGIC \in Y /\ FORMAT_VERSION \in Y /\ 1 \in Y /\ Len(r) \in Y /\ Len(r) \in Nat
    BY <1>2
<1> HIDE DEF stream, Y
<1>6. /\ stream \in Seq(Y) /\ Len(stream) = 4 + Len(r)
      /\ stream[1] = MAGIC /\ stream[2] = FORMAT_VERSION /\ stream[3] = 1 /\ stream[4] = Len(r)
      /\ \A n \in 1..Len(r) : stream[4 + n] = r[n]
    BY <1>3, <1>4, <1>5, HeaderAndRuns
<1>13. DOMAIN stream = 1..Len(stream) /\ 1 \in DOMAIN stream /\ 2 \in DOMAIN stream
           /\ 4 \in DOMAIN stream
    BY <1>5, <1>6
<1>7. load_chunk(stream, 1) = s
    <2>1. ~Refused(stream, 1)
        BY <1>5, <1>6 DEF Refused
    <2>2. Carries(stream, r)
        BY <1>6 DEF Carries
    <2> QED  BY <1>1, <1>2, <2>1, <2>2, RunsLoad
<1>8. load_chunk(stream \o stream, 1) = s
    <2> DEFINE twice == stream \o stream
    <2>1. Len(twice) = Len(stream) + Len(stream) /\ \A n \in 1..Len(stream) : twice[n] = stream[n]
        BY <1>6, OtherStreams
    <2> HIDE DEF twice
    <2>2. /\ twice[1] = MAGIC /\ twice[2] = FORMAT_VERSION /\ twice[3] = 1 /\ twice[4] = Len(r)
          /\ \A n \in 1..Len(r) : twice[4 + n] = r[n]
        BY <1>5, <1>6, <2>1
    <2>3. ~Refused(twice, 1)
        BY <1>5, <1>6, <2>1, <2>2 DEF Refused
    <2>4. Carries(twice, r)
        BY <2>2 DEF Carries
    <2>5. load_chunk(twice, 1) = s
        BY <1>1, <1>2, <2>3, <2>4, RunsLoad
    <2> QED  BY <2>5 DEF twice
<1>9. load_chunk(stream, 2) = Failed
    BY <1>6, RefusedFails DEF Refused
<1>10. ASSUME NEW k \in 0..Len(stream) - 1
       PROVE  load_chunk(SubSeq(stream, 1, k), 1) = Failed
    <2> DEFINE short == SubSeq(stream, 1, k)
    <2>1. Len(short) = k /\ \A n \in 1..k : short[n] = stream[n]
        BY <1>6, OtherStreams
    <2> HIDE DEF short
    <2>2. Len(short) < 4 \/ (short[4] = Len(r) /\ Len(short) < 4 + Len(r))
        BY <1>5, <1>6, <2>1
    <2>3. Refused(short, 1)
        BY <2>2 DEF Refused
    <2>4. load_chunk(short, 1) = Failed
        BY <2>3, RefusedFails
    <2> QED  BY <2>4 DEF short
<1>11. ASSUME NEW k \in 5..Len(stream)
       PROVE  load_chunk(RemoveAt(stream, k), 1) = Failed
    <2> DEFINE short == RemoveAt(stream, k)
    <2>1. Len(short) = Len(stream) - 1 /\ short[4] = stream[4]
        BY <1>6, OtherStreams
    <2> HIDE DEF short
    <2>2. Len(short) < 4 + short[4]
        BY <1>5, <1>6, <2>1
    <2>3. load_chunk(short, 1) = Failed
        BY <2>2, RefusedFails DEF Refused
    <2> QED  BY <2>3 DEF short
<1>12. load_chunk([stream EXCEPT ![1] = "RIFF"], 1) = Failed
    <2> DEFINE bad == [stream EXCEPT ![1] = "RIFF"]
    <2>1. bad[1] = "RIFF"
        BY <1>6, <1>13
    <2> HIDE DEF bad
    <2>2. bad[1] # MAGIC
        BY <2>1 DEF MAGIC
    <2>3. load_chunk(bad, 1) = Failed
        BY <2>2, RefusedFails DEF Refused
    <2> QED  BY <2>3 DEF bad
<1>14. ASSUME NEW version \in 0..255 \ {FORMAT_VERSION}
       PROVE  load_chunk([stream EXCEPT ![2] = version], 1) = Failed
    <2> DEFINE bad == [stream EXCEPT ![2] = version]
    <2>1. bad[2] = version
        BY <1>6, <1>13
    <2> HIDE DEF bad
    <2>2. load_chunk(bad, 1) = Failed
        BY <2>1, RefusedFails DEF Refused
    <2> QED  BY <2>2 DEF bad
<1>15. load_chunk([stream EXCEPT ![4] = @ - 1], 1) = Failed
    <2> DEFINE short == [stream EXCEPT ![4] = @ - 1]
    <2>1. PICK q \in Seq(Nat \X X), c \in 1..Len(s), v \in X :
              r = Append(q, <<c, v>>) /\ Spelled(q, s, Len(s) - c, X)
        BY <1>2 DEF LastRunCounts
    <2>2. Len(q) \in Nat /\ Len(r) = Len(q) + 1 /\ \A n \in 1..Len(q) : r[n] = q[n]
        <3> DEFINE P == Nat \X X
                   p == <<c, v>>
        <3>1. q \in Seq(P) /\ p \in P /\ r = Append(q, p)
            BY <2>1
        <3> HIDE DEF P, p
        <3> QED  BY <3>1
    <2>3. short[4] = stream[4] - 1 /\ \A n \in 5..Len(stream) : short[n] = stream[n]
        BY <1>6, <1>13
    <2> HIDE DEF short
    <2>4. short[4] = Len(q)
        BY <1>6, <2>2, <2>3
    <2>5. \A n \in 1..Len(q) : short[4 + n] = q[n]
        <3> TAKE n \in 1..Len(q)
        <3>1. n \in 1..Len(r) /\ 4 + n \in 5..Len(stream)
            BY <1>6, <2>2
        <3>2. short[4 + n] = stream[4 + n] /\ stream[4 + n] = r[n] /\ r[n] = q[n]
            BY <1>6, <2>2, <2>3, <3>1
        <3> QED  BY <3>2
    <2>6. Len(s) - c \in 0..Len(s) /\ Len(s) - c # Len(s)
        BY <1>1, SomeVoxels
    <2>7. Carries(short, q)
        BY <2>4, <2>5 DEF Carries
    <2> DEFINE m == Len(s) - c
    <2>8. m \in 0..Len(s) /\ m # Len(s) /\ Spelled(q, s, m, X)
        BY <2>1, <2>6
    <2> HIDE DEF m
    <2>9. load_chunk(short, 1) = Failed
        BY <1>1, <2>7, <2>8, ShortRunsFail
    <2> QED  BY <2>9 DEF short
<1> QED  BY <1>7, <1>8, <1>9, <1>10, <1>11, <1>12, <1>14, <1>15 DEF SavesLoadBack, stream, s

(* Whatever a chunk holds, it loads back as it was saved, before other   *)
(* chunks of the same file too, and a file that is cut off, that lost a  *)
(* run, whose runs are too short for a chunk, that is of another kind or *)
(* version or holds elements of another size is refused (save_chunk,     *)
(* load_chunk).                                                          *)
THEOREM SavedChunksLoadBack == DataSpec => []ChunksLoadBack
<1>1. ChunksLoadBack
    BY ChunkLoadsBack DEF ChunksLoadBack
<1> QED  BY <1>1, PTL

---------------------------------------------------------------------------
(* Batches of vectors.                                                   *)

(* A sequence is the function of its elements.                           *)
LEMMA OfElements ==
    ASSUME NEW X, NEW p \in Seq(X)
    PROVE  p = [k \in 1..Len(p) |-> p[k]] /\ Len(p) \in Nat
OBVIOUS

(* The elements of two sequences put together.                           *)
Joint(p, q) ==
    /\ Len(p \o q) = Len(p) + Len(q)
    /\ \A k \in 1..Len(p) : (p \o q)[k] = p[k]
    /\ \A k \in 1..Len(q) : (p \o q)[Len(p) + k] = q[k]

LEMMA Together ==
    ASSUME NEW X, NEW p \in Seq(X), NEW q \in Seq(X)
    PROVE  p \o q \in Seq(X) /\ Joint(p, q)
<1>1. p \o q \in Seq(X) /\ Len(p \o q) = Len(p) + Len(q)
    OBVIOUS
<1>2. ASSUME NEW k \in 1..Len(p)
      PROVE  (p \o q)[k] = p[k]
    OBVIOUS
<1>3. ASSUME NEW k \in 1..Len(q)
      PROVE  (p \o q)[Len(p) + k] = q[k]
    OBVIOUS
<1> QED  BY <1>1, <1>2, <1>3 DEF Joint

(* Two parts of a sequence that follow each other are one part.          *)
LEMMA PartsMeet ==
    ASSUME NEW X, NEW s \in Seq(X), NEW a \in Nat, NEW b \in Nat, NEW c \in Nat,
           a <= b, b <= c, c <= Len(s)
    PROVE  /\ SubSeq(s, a + 1, b) \in Seq(X)
           /\ SubSeq(s, a + 1, b) \o SubSeq(s, b + 1, c) = SubSeq(s, a + 1, c)
<1> DEFINE p == SubSeq(s, a + 1, b)
           q == SubSeq(s, b + 1, c)
           w == SubSeq(s, a + 1, c)
<1>1. p \in Seq(X) /\ Len(p) = b - a /\ \A k \in 1..b - a : p[k] = s[a + k]
    OBVIOUS
<1>2. q \in Seq(X) /\ Len(q) = c - b /\ \A k \in 1..c - b : q[k] = s[b + k]
    OBVIOUS
<1>3. w \in Seq(X) /\ Len(w) = c - a /\ \A k \in 1..c - a : w[k] = s[a + k]
    OBVIOUS
<1> HIDE DEF p, q, w
<1>0. (b - a) + (c - b) = c - a /\ b - a \in Nat /\ c - b \in Nat
    OBVIOUS
<1>4. /\ p \o q \in Seq(X) /\ Len(p \o q) = c - a
      /\ \A k \in 1..b - a : (p \o q)[k] = p[k]
      /\ \A k \in 1..c - b : (p \o q)[(b - a) + k] = q[k]
    <2>1. p \in Seq(X) /\ q \in Seq(X)
        BY <1>1, <1>2
    <2>2. p \o q \in Seq(X) /\ Joint(p, q)
        BY <2>1, Together
    <2> QED  BY <1>0, <1>1, <1>2, <2>2 DEF Joint
<1>5. ASSUME NEW k \in 1..c - a
      PROVE  (p \o q)[k] = s[a + k]
    <2>1. CASE k <= b - a
        <3>1. (p \o q)[k] = p[k] /\ k \in 1..b - a
            BY <1>4, <2>1
        <3> QED  BY <1>1, <3>1
    <2>2. CASE k > b - a
        <3> DEFINE i == k - (b - a)
        <3>1. i \in 1..c - b /\ b + i = a + k /\ (b - a) + i = k
            BY <2>2
        <3> HIDE DEF i
        <3>2. (p \o q)[k] = q[i]
            BY <1>4, <3>1
        <3>3. q[i] = s[b + i]
            BY <1>2, <3>1
        <3> QED  BY <3>1, <3>2, <3>3
    <2>3. k <= b - a \/ k > b - a
        BY <1>0
    <2> QED  BY <2>1, <2>2, <2>3
<1>6. \A k \in 1..c - a : (p \o q)[k] = w[k]
    BY <1>3, <1>5
<1>7. p \o q = w
    <2>1. p \o q = [k \in 1..c - a |-> (p \o q)[k]] /\ w = [k \in 1..c - a |-> w[k]]
        BY <1>3, <1>4, OfElements
    <2> QED  BY <1>6, <2>1
<1> QED  BY <1>1, <1>7 DEF p, q, w

(* Parts that follow each other, joined, are all that lies between the   *)
(* first and the last end.                                               *)
LEMMA PartsJoined ==
    ASSUME NEW X, NEW s \in Seq(X), NEW N \in Nat, NEW ends \in [0..N -> 0..Len(s)],
           \A n \in 1..N : ends[n - 1] <= ends[n],
           NEW parts, parts = [n \in 1..N |-> SubSeq(s, ends[n - 1] + 1, ends[n])]
    PROVE  FlattenSeq(parts) = SubSeq(s, ends[0] + 1, ends[N])
<1>1. \A n \in 1..N : n \in 0..N /\ n - 1 \in 0..N /\ ends[n - 1] \in Nat /\ ends[n] \in Nat
                      /\ ends[n - 1] <= ends[n] /\ ends[n] <= Len(s)
    OBVIOUS
<1>2. parts \in Seq(Seq(X)) /\ Len(parts) = N
    <2>1. \A n \in 1..N : SubSeq(s, ends[n - 1] + 1, ends[n]) \in Seq(X)
        BY <1>1, PartsMeet
    <2> DEFINE Q == Seq(X)
    <2> HIDE DEF Q
    <2>2. parts \in [1..N -> Q]
        BY <2>1 DEF Q
    <2>3. parts \in Seq(Q) /\ Len(parts) = N
        BY <2>2
    <2> QED  BY <2>3 DEF Q
<1>3. CASE N = 0
    <2>1. FlattenSeq(parts) = parts /\ parts = << >>
        BY <1>2, <1>3 DEF FlattenSeq
    <2>2. SubSeq(s, ends[0] + 1, ends[0]) = << >>
        <3>1. ends[0] \in Nat
            OBVIOUS
        <3> QED  BY <3>1
    <2> QED  BY <1>3, <2>1, <2>2
<1>4. CASE N # 0
    <2> DEFINE body(f) == [i \in 1..N |-> IF i = 1 THEN parts[i] ELSE f[i - 1] \o parts[i]]
               flatten[i \in 1..Len(parts)] == IF i = 1 THEN parts[i] ELSE flatten[i - 1] \o parts[i]
               g == [i \in 1..N |-> SubSeq(s, ends[0] + 1, ends[i])]
    <2>1. FlattenSeq(parts) = flatten[N]
        BY <1>2, <1>4 DEF FlattenSeq
    <2>2. flatten = CHOOSE f : f = [i \in 1..Len(parts) |-> IF i = 1 THEN parts[i] ELSE f[i - 1] \o parts[i]]
        OBVIOUS
    <2>3. flatten = CHOOSE f : f = body(f)
        <3> HIDE DEF flatten
        <3> QED  BY <1>2, <2>2
    <2> HIDE DEF flatten
    <2>4. \A i \in 1..N : ends[0] <= ends[i] /\ ends[0] \in Nat
        <3> DEFINE S == {i \in 0..N : ends[0] <= ends[i]}
        <3>1. 0 \in S
            <4>1. ends[0] \in Nat /\ 0 \in 0..N
                OBVIOUS
            <4> QED  BY <4>1
        <3>2. ASSUME NEW i \in 0..N - 1, i \in S
              PROVE  i + 1 \in S
            <4>1. i + 1 \in 1..N /\ (i + 1) - 1 = i /\ ends[0] \in Nat
                OBVIOUS
            <4>2. ends[i] \in Nat /\ ends[i + 1] \in Nat /\ ends[i] <= ends[i + 1]
                BY <1>1, <4>1
            <4> QED  BY <3>2, <4>1, <4>2
        <3> HIDE DEF S
        <3>3. 0..N \subseteq S
            BY <3>1, <3>2, UpTo
        <3> QED  BY <3>3 DEF S
    <2>5. ASSUME NEW i \in 2..N
          PROVE  g[i] = g[i - 1] \o parts[i]
        <3>1. i \in 1..N /\ i - 1 \in 1..N
            OBVIOUS
        <3>2. ends[0] <= ends[i - 1] /\ ends[i - 1] <= ends[i] /\ ends[i] <= Len(s)
              /\ ends[0] \in Nat /\ ends[i - 1] \in Nat /\ ends[i] \in Nat
            BY <1>1, <2>4, <3>1
        <3>3. SubSeq(s, ends[0] + 1, ends[i - 1]) \o SubSeq(s, ends[i - 1] + 1, ends[i])
                = SubSeq(s, ends[0] + 1, ends[i])
            <4> DEFINE a == ends[0]
                       b == ends[i - 1]
                       c == ends[i]
            <4>1. a \in Nat /\ b \in Nat /\ c \in Nat /\ a <= b /\ b <= c /\ c <= Len(s)
                BY <3>2
            <4> HIDE DEF a, b, c
            <4>2. SubSeq(s, a + 1, b) \o SubSeq(s, b + 1, c) = SubSeq(s, a + 1, c)
                BY <4>1, PartsMeet
            <4> QED  BY <4>2 DEF a, b, c
        <3>4. parts[i] = SubSeq(s, ends[i - 1] + 1, ends[i])
            BY <3>1
        <3> QED  BY <3>1, <3>3, <3>4
    <2>6. g[1] = parts[1]
        <3>1. 1 \in 1..N /\ 1 - 1 = 0
            BY <1>4
        <3> QED  BY <3>1
    <2> HIDE DEF g
    <2>7. \A i \in 1..N : i = 1 \/ i \in 2..N
        OBVIOUS
    <2>8. g = body(g)
        <3>1. g = [i \in 1..N |-> g[i]]
            BY DEF g
        <3>2. \A i \in 1..N : g[i] = IF i = 1 THEN parts[i] ELSE g[i - 1] \o parts[i]
            BY <2>5, <2>6, <2>7
        <3> QED  BY <3>1, <3>2
    <2>9. flatten = body(flatten)
        <3> HIDE DEF body
        <3> QED  BY <2>3, <2>8
    <2>10. \A i \in 1..N : flatten[i] = IF i = 1 THEN parts[i] ELSE flatten[i - 1] \o parts[i]
        <3> DEFINE value(i) == IF i = 1 THEN parts[i] ELSE flatten[i - 1] \o parts[i]
        <3>1. flatten = [i \in 1..N |-> value(i)]
            BY <2>9
        <3> HIDE DEF value
        <3>2. \A i \in 1..N : flatten[i] = value(i)
            BY <3>1
        <3> QED  BY <3>2 DEF value
    <2> HIDE DEF body
    <2> DEFINE S == {i \in 0..N - 1 : flatten[i + 1] = g[i + 1]}
    <2>11. 0 \in S
        <3>1. 1 \in 1..N /\ 0 \in 0..N - 1 /\ 0 + 1 = 1
            BY <1>4
        <3> QED  BY <2>6, <2>10, <3>1
    <2>12. ASSUME NEW i \in 0..(N - 1) - 1, i \in S
           PROVE  i + 1 \in S
        <3>1. /\ (i + 1) + 1 \in 2..N /\ (i + 1) + 1 \in 1..N /\ (i + 1) + 1 # 1
              /\ ((i + 1) + 1) - 1 = i + 1 /\ i + 1 \in 0..N - 1
            OBVIOUS
        <3>2. flatten[(i + 1) + 1] = flatten[i + 1] \o parts[(i + 1) + 1]
            BY <2>10, <3>1
        <3>3. g[(i + 1) + 1] = g[i + 1] \o parts[(i + 1) + 1]
            BY <2>5, <3>1
        <3> QED  BY <2>12, <3>1, <3>2, <3>3
    <2>13. flatten[N] = g[N]
        <3>1. N - 1 \in Nat /\ (N - 1) + 1 = N /\ N - 1 \in 0..N - 1
            BY <1>4
        <3> HIDE DEF S
        <3>2. 0..N - 1 \subseteq S
            BY <2>11, <2>12, <3>1, UpTo
        <3>3. N - 1 \in S
            BY <3>1, <3>2
        <3> QED  BY <3>1, <3>3 DEF S
    <2>14. N \in 1..N
        BY <1>4
    <2> QED  BY <2>1, <2>13, <2>14 DEF g
<1> QED  BY <1>3, <1>4

(* The blocks of each width, which begin where the wider ones end, lie in *)
(* a slice of n.                                                         *)
LEMMA StartsOf ==
    ASSUME NEW all \in Seq(Nat \ {0}), NEW n \in Nat
    PROVE  LET at == Starts(all, n)
           IN  /\ at \in [0..Len(all) -> 0..n] /\ at[0] = 0
               /\ \A j \in 1..Len(all) :
                     at[j] = at[j - 1] + all[j] * ((n - at[j - 1]) \div all[j])
<1> DEFINE N == Len(all)
           I == 0..n
           step(a, j) == a + all[j] * ((n - a) \div all[j])
           next == [j \in 1..N |-> [a \in I |-> step(a, j)]]
           at[j \in 0..Len(all)] ==
               IF j = 0 THEN 0 ELSE at[j - 1] + all[j] * ((n - at[j - 1]) \div all[j])
           body(f) == [j \in 0..N |-> IF j = 0 THEN 0 ELSE step(f[j - 1], j)]
<1>1. N \in Nat /\ 0 \in I /\ \A j \in 1..N : all[j] \in Nat \ {0}
    OBVIOUS
<1>2. ASSUME NEW j \in 1..N, NEW a \in I
      PROVE  step(a, j) \in I
    <2> DEFINE w == all[j]
               q == (n - a) \div w
               p == w * q
    <2>1. w \in Nat \ {0} /\ a \in Nat /\ n - a \in Nat
        BY <1>1
    <2>2. q \in Int /\ (n - a) % w \in 0..w - 1 /\ n - a = w * q + ((n - a) % w)
        <3> DEFINE d == n - a
        <3>1. d \in Int
            BY <2>1
        <3> HIDE DEF w, d
        <3>2. d \div w \in Int /\ d % w \in 0..w - 1 /\ d = w * (d \div w) + (d % w)
            BY <2>1, <3>1, Divided
        <3> QED  BY <3>2 DEF d
    <2>3. q \in Nat
        <3> DEFINE r == (n - a) % w
        <3>1. ASSUME q < 0
              PROVE  FALSE
            <4>1. w * q <= w * (-1)
                <5> HIDE DEF q, w
                <5> QED  BY <2>1, <2>2, <3>1
            <4>2. w * (-1) = -w
                <5> HIDE DEF w
                <5> QED  BY <2>1
            <4> HIDE DEF w, q, r
            <4> DEFINE e == w * q
            <4>3. e \in Int /\ n - a = e + r /\ r \in 0..w - 1 /\ e <= -w
                BY <2>1, <2>2, <4>1, <4>2 DEF r
            <4> HIDE DEF e
            <4> QED  BY <2>1, <4>3
        <3> HIDE DEF q
        <3> QED  BY <2>2, <3>1
    <2>4. p \in Nat
        <3> HIDE DEF w, q
        <3> QED  BY <2>1, <2>3
    <2>5. p <= n - a
        <3> DEFINE r == (n - a) % w
        <3>1. n - a = p + r /\ r \in Nat
            BY <2>2
        <3> HIDE DEF p, r
        <3> QED  BY <2>1, <2>4, <3>1
    <2>6. a + p \in I
        <3> HIDE DEF p
        <3> QED  BY <2>1, <2>4, <2>5
    <2> QED  BY <2>6
<1>3. next \in [1..N -> [I -> I]]
    <2> HIDE DEF step, I, N
    <2> QED  BY <1>2
<1>4. at = CHOOSE f : f = body(f)
    OBVIOUS
<1>5. Starts(all, n) = at
    BY DEF Starts
<1> HIDE DEF at, next, N, I, step
<1>6. PICK f \in [0..N -> I] : f[0] = 0 /\ \A j \in 1..N : f[j] = next[j][f[j - 1]]
    <2> HIDE DEF body
    <2> DEFINE zero == 0
    <2>0. zero = 0 /\ zero \in I
        BY <1>1
    <2> HIDE DEF zero
    <2>1. \E f \in [0..N -> I] : Follows(f, N, zero, next)
        BY <1>1, <1>3, <2>0, Recursion
    <2> QED  BY <2>0, <2>1 DEF Follows
<1>7. ASSUME NEW j \in 1..N
      PROVE  f[j] = step(f[j - 1], j)
    <2>1. j - 1 \in 0..N /\ f[j - 1] \in I
        BY <1>1
    <2>2. next[j] = [a \in I |-> step(a, j)]
        BY DEF next
    <2> QED  BY <1>6, <2>1, <2>2
<1>8. f = body(f)
    <2>1. f = [j \in 0..N |-> f[j]]
        OBVIOUS
    <2>2. \A j \in 0..N : j = 0 \/ j \in 1..N
        BY <1>1
    <2>3. \A j \in 0..N : f[j] = IF j = 0 THEN 0 ELSE step(f[j - 1], j)
        BY <1>6, <1>7, <2>2
    <2> QED  BY <2>1, <2>3
<1>9. at = body(at)
    <2> HIDE DEF body
    <2> QED  BY <1>4, <1>8
<1>10. \A j \in 0..N : at[j] = IF j = 0 THEN 0 ELSE step(at[j - 1], j)
    <2> DEFINE value(j) == IF j = 0 THEN 0 ELSE step(at[j - 1], j)
    <2>1. at = [j \in 0..N |-> value(j)]
        BY <1>9
    <2> HIDE DEF value
    <2>2. \A j \in 0..N : at[j] = value(j)
        BY <2>1
    <2> QED  BY <2>2 DEF value
<1> DEFINE S == {j \in 0..N : at[j] = f[j]}
<1>11. 0 \in S
    BY <1>1, <1>6, <1>10
<1>12. ASSUME NEW j \in 0..N - 1, j \in S
       PROVE  j + 1 \in S
    <2>1. j + 1 \in 1..N /\ j + 1 \in 0..N /\ (j + 1) - 1 = j /\ j + 1 # 0
        BY <1>1
    <2>2. at[j + 1] = step(at[j], j + 1)
        BY <1>10, <2>1
    <2>3. f[j + 1] = step(f[j], j + 1)
        BY <1>7, <2>1
    <2> QED  BY <1>12, <2>1, <2>2, <2>3
<1>13. \A j \in 0..N : at[j] = f[j]
    <2> HIDE DEF S
    <2>1. 0..N \subseteq S
        BY <1>1, <1>11, <1>12, UpTo
    <2> QED  BY <2>1 DEF S
<1>14. at \in [0..N -> I]
    <2>1. at = [j \in 0..N |-> at[j]]
        BY <1>9
    <2>2. \A j \in 0..N : at[j] \in I
        BY <1>6, <1>13
    <2> QED  BY <2>1, <2>2
<1>15. at[0] = 0 /\ \A j \in 1..N : at[j] = step(at[j - 1], j)
    <2>1. 0 \in 0..N /\ \A j \in 1..N : j \in 0..N /\ j # 0
        BY <1>1
    <2> QED  BY <1>10, <2>1
<1> QED  BY <1>5, <1>14, <1>15 DEF N, I, step

(* The blocks of one width, cut from a sequence.                         *)
Strip(s, all, j) ==
    LET at == Starts(all, Len(s))
    IN  [k \in 1..(Len(s) - at[j - 1]) \div all[j] |->
            SubSeq(s, at[j - 1] + all[j] * (k - 1) + 1, at[j - 1] + all[j] * (k - 1) + all[j])]

(* Where a block begins and that it ends in the slice.                   *)
LEMMA BlockWithin ==
    ASSUME NEW all \in Seq(Nat \ {0}), NEW n \in Nat, NEW j \in 1..Len(all),
           NEW k \in 1..(n - Starts(all, n)[j - 1]) \div all[j]
    PROVE  LET b == Starts(all, n)[j - 1] + all[j] * (k - 1)
           IN  b \in Nat /\ b + all[j] <= n
<1> DEFINE a == Starts(all, n)[j - 1]
           w == all[j]
           c == (n - a) \div w
           e == w * (k - 1)
           d == n - a
<1>1. a \in 0..n /\ w \in Nat \ {0}
    <2>1. Starts(all, n) \in [0..Len(all) -> 0..n]
        BY StartsOf
    <2>2. j - 1 \in 0..Len(all)
        OBVIOUS
    <2> HIDE DEF w
    <2>3. w \in Nat \ {0}
        BY DEF w
    <2> QED  BY <2>1, <2>2, <2>3
<1>2. d \in Int /\ d \in Nat
    <2> HIDE DEF a
    <2> QED  BY <1>1
<1> HIDE DEF w, d, a
<1>3. c \in Int /\ d % w \in 0..w - 1 /\ d = w * c + (d % w)
    <2>1. d \div w \in Int /\ d % w \in 0..w - 1 /\ d = w * (d \div w) + (d % w)
        BY <1>1, <1>2, Divided
    <2> QED  BY <2>1 DEF d
<1>4. k \in 1..c
    BY DEF a, w
<1> HIDE DEF c
<1>5. k \in Int /\ k - 1 \in Nat /\ k <= c
    BY <1>3, <1>4
<1>6. w * k <= w * c
    BY <1>1, <1>3, <1>5
<1>7. w * k = e + w
    BY <1>1, <1>5
<1>8. e \in Nat
    BY <1>1, <1>5
<1> DEFINE p == w * c
           r == d % w
<1>9. p \in Int /\ d = p + r /\ r \in Nat /\ e + w <= p
    <2>1. w \in Int /\ c \in Int
        BY <1>1, <1>3
    <2>2. p \in Int
        BY <2>1
    <2>3. r \in Nat
        BY <1>3, <2>1
    <2> QED  BY <1>3, <1>6, <1>7, <2>2, <2>3
<1> HIDE DEF e, p, r
<1>10. e + w <= d
    BY <1>1, <1>2, <1>8, <1>9
<1>11. a + e \in Nat /\ (a + e) + w <= n
    BY <1>1, <1>8, <1>10 DEF d
<1> QED  BY <1>11 DEF a, e, w

(* The blocks of a slice, put together, are the slice.                   *)
LEMMA StripsJoined ==
    ASSUME NEW X, NEW s \in Seq(X), NEW all \in Seq(Nat \ {0}), NEW N \in Nat \ {0},
           Len(all) = N, all[N] = 1
    PROVE  FlattenSeq([j \in 1..N |-> FlattenSeq(Strip(s, all, j))]) = s
<1> DEFINE n == Len(s)
           at == Starts(all, n)
<1>1. n \in Nat /\ N \in 1..N
    OBVIOUS
<1>2. /\ at \in [0..N -> 0..n] /\ at[0] = 0
      /\ \A j \in 1..N : at[j] = at[j - 1] + all[j] * ((n - at[j - 1]) \div all[j])
    <2> HIDE DEF n
    <2> QED  BY <1>1, StartsOf
<1> HIDE DEF at
<1>3. ASSUME NEW j \in 1..N
      PROVE  /\ at[j - 1] <= at[j]
             /\ FlattenSeq(Strip(s, all, j)) = SubSeq(s, at[j - 1] + 1, at[j])
    <2> DEFINE a == at[j - 1]
               w == all[j]
               c == (n - a) \div w
               ends == [k \in 0..c |-> a + w * k]
               parts == Strip(s, all, j)
    <2>1. j - 1 \in 0..N /\ j \in 0..N
        OBVIOUS
    <2>2. a \in 0..n /\ at[j] \in 0..n /\ w \in Nat \ {0} /\ at[j] = a + w * c
        <3>1. a \in 0..n /\ at[j] \in 0..n
            <4> HIDE DEF n
            <4> QED  BY <1>2, <2>1
        <3>2. w \in Nat \ {0}
            OBVIOUS
        <3>3. at[j] = a + w * c
            BY <1>2
        <3> QED  BY <3>1, <3>2, <3>3
    <2>3. c \in Int
        <3> DEFINE d == n - a
        <3>1. d \in Int
            <4> HIDE DEF a
            <4> QED  BY <1>1, <2>2
        <3> HIDE DEF d, w
        <3>2. d \div w \in Int
            BY <2>2, <3>1, Divided
        <3> QED  BY <3>2 DEF d
    <2> HIDE DEF a, w, c, n
    <2>4. c \in Nat
        <3>1. ASSUME c < 0
              PROVE  FALSE
            <4>1. c + 1 \in Int /\ c + 1 <= 0 /\ n - a \in Nat
                BY <1>1, <2>2, <2>3, <3>1
            <4> DEFINE d == n - a
                       r == d % w
            <4>2. d \in Int /\ d = w * c + r /\ r \in 0..w - 1
                <5>1. d \in Int
                    BY <1>1, <2>2
                <5> HIDE DEF d
                <5>2. d \div w \in Int /\ d % w \in 0..w - 1 /\ d = w * (d \div w) + (d % w)
                    BY <2>2, <5>1, Divided
                <5> QED  BY <5>1, <5>2 DEF c, d
            <4>3. w * (c + 1) <= w * 0
                BY <2>2, <4>1
            <4>4. w * (c + 1) = w * c + w /\ w * 0 = 0
                BY <2>2, <2>3
            <4> DEFINE p == w * c
            <4>5. p \in Int
                BY <2>2, <2>3
            <4>6. d = p + r /\ p + w <= 0 /\ d >= 0
                BY <1>1, <2>2, <4>2, <4>3, <4>4
            <4> HIDE DEF p, d, r
            <4> QED  BY <2>2, <4>2, <4>5, <4>6
        <3> QED  BY <2>3, <3>1
    <2>5. \A k \in 0..c : a + w * k \in 0..n
        <3> SUFFICES ASSUME NEW k \in 0..c
                     PROVE  a + w * k \in 0..n
            OBVIOUS
        <3> DEFINE e == w * k
                   p == w * c
        <3>1. e \in Nat /\ e <= p /\ p \in Nat
            BY <2>2, <2>4
        <3>2. a + p \in 0..n
            BY <2>2
        <3> HIDE DEF e, p
        <3>3. a + e \in 0..n
            BY <1>1, <2>2, <3>1, <3>2
        <3> QED  BY <3>3 DEF e
    <2>6. ends \in [0..c -> 0..n] /\ ends[0] = a /\ ends[c] = at[j]
        <3>1. a + w * 0 = a /\ 0 \in 0..c /\ c \in 0..c
            BY <2>2, <2>4
        <3> QED  BY <2>2, <2>5, <3>1
    <2>7. \A k \in 1..c : k - 1 \in 0..c /\ k \in 0..c /\ ends[k - 1] = a + w * (k - 1)
                          /\ ends[k] = a + w * (k - 1) + w /\ ends[k - 1] <= ends[k]
        <3> SUFFICES ASSUME NEW k \in 1..c
                     PROVE  k - 1 \in 0..c /\ k \in 0..c /\ ends[k - 1] = a + w * (k - 1)
                            /\ ends[k] = a + w * (k - 1) + w /\ ends[k - 1] <= ends[k]
            OBVIOUS
        <3>1. k - 1 \in 0..c /\ k \in 0..c
            BY <2>4
        <3>2. w * k = w * (k - 1) + w
            BY <2>2, <2>4
        <3> DEFINE e == w * (k - 1)
        <3>3. e \in Nat
            BY <2>2, <2>4, <3>1
        <3>4. ends[k - 1] = a + e /\ ends[k] = a + (e + w)
            BY <3>1, <3>2
        <3> HIDE DEF e, ends
        <3>5. a + (e + w) = a + e + w /\ a + e <= a + e + w
            BY <2>2, <3>3
        <3> QED  BY <3>1, <3>4, <3>5 DEF e
    <2>8. parts = [k \in 1..c |-> SubSeq(s, ends[k - 1] + 1, ends[k])]
        <3>1. parts = [k \in 1..c |-> SubSeq(s, a + w * (k - 1) + 1, a + w * (k - 1) + w)]
            BY DEF Strip, a, w, c, at, n
        <3> HIDE DEF parts, ends
        <3>2. \A k \in 1..c : SubSeq(s, ends[k - 1] + 1, ends[k])
                              = SubSeq(s, a + w * (k - 1) + 1, a + w * (k - 1) + w)
            BY <2>7
        <3> QED  BY <3>1, <3>2
    <2> HIDE DEF parts, ends
    <2>9. FlattenSeq(parts) = SubSeq(s, ends[0] + 1, ends[c])
        <3>1. \A k \in 1..c : ends[k - 1] <= ends[k]
            BY <2>7
        <3> QED  BY <2>4, <2>6, <2>8, <3>1, PartsJoined DEF n
    <2>10. FlattenSeq(parts) = SubSeq(s, a + 1, at[j])
        BY <2>6, <2>9
    <2>11. a <= at[j]
        <3> DEFINE p == w * c
        <3>1. p \in Nat
            BY <2>2, <2>4
        <3> HIDE DEF p
        <3>2. at[j] = a + p
            BY <2>2 DEF p
        <3> QED  BY <2>2, <3>1, <3>2
    <2> QED  BY <2>10, <2>11 DEF parts, a
<1>4. at[N] = n
    <2> DEFINE a == at[N - 1]
    <2>1. N - 1 \in 0..N
        BY <1>1
    <2>2. a \in 0..n /\ at[N] = a + 1 * ((n - a) \div 1)
        BY <1>1, <1>2, <2>1
    <2> HIDE DEF a, n
    <2>3. \A d \in Nat : d \div 1 = d /\ 1 * d = d
        OBVIOUS
    <2>4. n - a \in Nat
        BY <1>1, <2>2
    <2>5. 1 * ((n - a) \div 1) = n - a
        BY <2>3, <2>4
    <2> QED  BY <1>1, <2>2, <2>4, <2>5
<1> DEFINE made == [j \in 1..N |-> FlattenSeq(Strip(s, all, j))]
<1>5. made = [j \in 1..N |-> SubSeq(s, at[j - 1] + 1, at[j])]
    BY <1>3
<1>6. \A j \in 1..N : at[j - 1] <= at[j]
    BY <1>3
<1> HIDE DEF made
<1>7. FlattenSeq(made) = SubSeq(s, at[0] + 1, at[N])
    <2>1. at \in [0..N -> 0..Len(s)] /\ N \in Nat
        BY <1>2
    <2> QED  BY <1>5, <1>6, <2>1, PartsJoined
<1>8. SubSeq(s, 1, Len(s)) = s
    OBVIOUS
<1>9. at[0] + 1 = 1 /\ at[N] = Len(s)
    BY <1>2, <1>4 DEF n
<1>10. FlattenSeq(made) = s
    BY <1>7, <1>8, <1>9
<1> QED  BY <1>10 DEF made

Triples3 == Int \X Int \X Int

(* The product of two vectors, one number.                               *)
LEMMA DotInt ==
    ASSUME NEW a \in Triples3, NEW b \in Triples3
    PROVE  /\ a[1] \in Int /\ a[2] \in Int /\ a[3] \in Int /\ dot3(a, b) \in Int
           /\ a[1] * b[1] \in Int /\ a[2] * b[2] \in Int /\ a[3] * b[3] \in Int
<1>1. a[1] \in Int /\ a[2] \in Int /\ a[3] \in Int /\ b[1] \in Int /\ b[2] \in Int /\ b[3] \in Int
    BY DEF Triples3
<1>2. a[1] * b[1] \in Int /\ a[2] * b[2] \in Int /\ a[3] * b[3] \in Int
    BY <1>1
<1> DEFINE x == a[1] * b[1]
           y == a[2] * b[2]
           z == a[3] * b[3]
<1>3. x + y + z \in Int
    <2>1. x \in Int /\ y \in Int /\ z \in Int
        BY <1>2
    <2> HIDE DEF x, y, z
    <2> QED  BY <2>1
<1> QED  BY <1>1, <1>2, <1>3 DEF dot3

(* A triple by its parts.                                                *)
LEMMA TripleIs ==
    ASSUME NEW f, f = [axis \in 1..3 |-> f[axis]]
    PROVE  f = <<f[1], f[2], f[3]>>
<1>1. \A axis \in 1..3 : <<f[1], f[2], f[3]>>[axis] = f[axis]
    <2>1. \A axis \in 1..3 : axis = 1 \/ axis = 2 \/ axis = 3
        OBVIOUS
    <2> QED  BY <2>1
<1>2. <<f[1], f[2], f[3]>> = [axis \in 1..3 |-> <<f[1], f[2], f[3]>>[axis]]
    OBVIOUS
<1> QED  BY <1>1, <1>2

(* The first lane of a register that is added up: by pairs, shuffled     *)
(* (hadd), or by halves (pairwise).                                      *)
LEMMA LanesAdded ==
    ASSUME NEW x \in Int, NEW y \in Int, NEW z \in Int, NEW m, m = <<x, y, z, 0>>
    PROVE  hadd(m)[1] = x + y + z /\ pairwise(m) = x + y + z
<1> DEFINE shuf == movehdup(m)
           sums == add(m, shuf)
           high == movehl(shuf, sums)
<1>1. m[1] = x /\ m[2] = y /\ m[3] = z /\ m[4] = 0 /\ DOMAIN m = 1..4
    OBVIOUS
<1>2. shuf = <<y, y, 0, 0>>
    BY <1>1 DEF movehdup
<1>3. sums = [i \in 1..4 |-> m[i] + shuf[i]]
    BY <1>1 DEF add
<1>4. sums[1] = x + y /\ sums[3] = z + 0 /\ DOMAIN sums = 1..4
    <2>1. shuf[1] = y /\ shuf[3] = 0
        BY <1>2
    <2> QED  BY <1>1, <1>3, <2>1
<1> HIDE DEF sums, shuf
<1>5. high[1] = sums[3]
    BY DEF movehl
<1>6. hadd(m) = add_ss(sums, high)
    BY DEF hadd, sums, shuf
<1> HIDE DEF high
<1>7. add_ss(sums, high)[1] = sums[1] + high[1]
    BY <1>4 DEF add_ss
<1>8. hadd(m)[1] = (x + y) + (z + 0)
    BY <1>4, <1>5, <1>6, <1>7
<1>9. pairwise(m) = (x + z) + (y + 0)
    BY <1>1 DEF pairwise
<1> QED  BY <1>8, <1>9

LEMMA DotOfLanes ==
    ASSUME NEW a \in Triples3, NEW b \in Triples3
    PROVE  /\ hadd(mul(load3(a), load3(b)))[1] = dot3(a, b)
           /\ pairwise(mul(load3(a), load3(b))) = dot3(a, b)
<1> DEFINE m == mul(load3(a), load3(b))
           x == a[1] * b[1]
           y == a[2] * b[2]
           z == a[3] * b[3]
<1>1. x \in Int /\ y \in Int /\ z \in Int
    BY DotInt
<1>2. m = <<x, y, z, 0>>
    <2> DEFINE p == load3(a)
               q == load3(b)
    <2>1. /\ p[1] = a[1] /\ p[2] = a[2] /\ p[3] = a[3] /\ p[4] = 0 /\ DOMAIN p = 1..4
          /\ q[1] = b[1] /\ q[2] = b[2] /\ q[3] = b[3] /\ q[4] = 0
        BY DEF load3
    <2> HIDE DEF p, q
    <2>2. m = [i \in 1..4 |-> p[i] * q[i]]
        BY <2>1 DEF mul, p, q
    <2>3. m[1] = x /\ m[2] = y /\ m[3] = z /\ m[4] = 0
        <3>1. 1 \in 1..4 /\ 2 \in 1..4 /\ 3 \in 1..4 /\ 4 \in 1..4 /\ 0 * 0 = 0
            OBVIOUS
        <3> HIDE DEF m
        <3> QED  BY <2>1, <2>2, <3>1
    <2> DEFINE t == <<x, y, z, 0>>
    <2>4. t = [i \in 1..4 |-> t[i]] /\ t[1] = x /\ t[2] = y /\ t[3] = z /\ t[4] = 0
        OBVIOUS
    <2> HIDE DEF m, t, x, y, z
    <2>5. \A i \in 1..4 : i = 1 \/ i = 2 \/ i = 3 \/ i = 4
        OBVIOUS
    <2>6. \A i \in 1..4 : m[i] = t[i]
        BY <2>3, <2>4, <2>5
    <2>7. m = [i \in 1..4 |-> m[i]]
        BY <2>2
    <2>8. m = t
        BY <2>4, <2>6, <2>7
    <2> QED  BY <2>8 DEF t
<1> HIDE DEF m
<1>3. hadd(m)[1] = x + y + z /\ pairwise(m) = x + y + z
    <2> HIDE DEF x, y, z
    <2> QED  BY <1>1, <1>2, LanesAdded
<1>4. dot3(a, b) = x + y + z
    BY DEF dot3
<1> QED  BY <1>3, <1>4 DEF m

(* One vector, normalised in a register.                                 *)
LEMMA NormalOfLanes ==
    ASSUME NEW v \in Triples3
    PROVE  extract(rsqrt_and(load3(v), set1(hadd(mul(load3(v), load3(v)))[1], 4), -2)) = normalize3(v)
<1> DEFINE d == hadd(mul(load3(v), load3(v)))[1]
           p == load3(v)
           w == set1(d, 4)
           r == rsqrt_and(p, w, -2)
<1>1. d = dot3(v, v)
    BY DotOfLanes
<1> HIDE DEF d
<1>2. p[1] = v[1] /\ p[2] = v[2] /\ p[3] = v[3] /\ DOMAIN p = 1..4
    BY DEF load3
<1>3. \A i \in 1..4 : w[i] = d
    BY DEF set1
<1> HIDE DEF p, w
<1>4. r = [i \in 1..4 |-> IF w[i] = 0 THEN <<0, 1, 0>> ELSE Scaled(p[i], w[i], -2)]
    BY <1>2 DEF rsqrt_and
<1> DEFINE unit(x) == IF d = 0 THEN <<0, 1, 0>> ELSE Scaled(x, d, -2)
<1>5. \A i \in 1..4 : r[i] = unit(p[i])
    <2> HIDE DEF r
    <2> QED  BY <1>3, <1>4
<1>6. extract(r) = <<unit(v[1]), unit(v[2]), unit(v[3])>>
    <2>1. extract(r) = <<r[1], r[2], r[3]>>
        BY DEF extract
    <2>2. 1 \in 1..4 /\ 2 \in 1..4 /\ 3 \in 1..4
        OBVIOUS
    <2> HIDE DEF r, unit
    <2> QED  BY <1>2, <1>5, <2>1, <2>2
<1>7. normalize3(v) = [axis \in 1..3 |-> unit(v[axis])]
    BY <1>1 DEF normalize3, Zero
<1>8. normalize3(v) = <<unit(v[1]), unit(v[2]), unit(v[3])>>
    <2> DEFINE f == normalize3(v)
    <2> HIDE DEF unit
    <2>1. f = [axis \in 1..3 |-> f[axis]] /\ f[1] = unit(v[1]) /\ f[2] = unit(v[2]) /\ f[3] = unit(v[3])
        BY <1>7
    <2> HIDE DEF f
    <2>2. f = <<f[1], f[2], f[3]>>
        BY <2>1, TripleIs
    <2> QED  BY <2>1, <2>2 DEF f
<1> QED  BY <1>6, <1>8 DEF r, w, p, d

(* The centre of one box, doubled, in a register.                        *)
LEMMA CenterOfLanes ==
    ASSUME NEW b \in Seq(Int), Len(b) = 6
    PROVE  extract(add(load3(b), load3(SubSeq(b, 4, 6)))) = aabb_center(b)
<1> DEFINE c == SubSeq(b, 4, 6)
           p == load3(b)
           q == load3(c)
           r == add(p, q)
<1>1. c[1] = b[4] /\ c[2] = b[5] /\ c[3] = b[6]
    <2>1. \A k \in 1..3 : c[k] = b[3 + k]
        OBVIOUS
    <2>2. c[1] = b[3 + 1] /\ c[2] = b[3 + 2] /\ c[3] = b[3 + 3]
        <3> HIDE DEF c
        <3> QED  BY <2>1
    <2> QED  BY <2>2
<1> HIDE DEF c
<1>2. /\ p[1] = b[1] /\ p[2] = b[2] /\ p[3] = b[3] /\ DOMAIN p = 1..4
      /\ q[1] = b[4] /\ q[2] = b[5] /\ q[3] = b[6]
    BY <1>1 DEF load3
<1> HIDE DEF p, q
<1>3. r[1] = b[1] + b[4] /\ r[2] = b[2] + b[5] /\ r[3] = b[3] + b[6]
    <2>1. r = [i \in 1..4 |-> p[i] + q[i]]
        BY <1>2 DEF add
    <2>2. 1 \in 1..4 /\ 2 \in 1..4 /\ 3 \in 1..4
        OBVIOUS
    <2> HIDE DEF r
    <2> QED  BY <1>2, <2>1, <2>2
<1>4. extract(r) = <<r[1], r[2], r[3]>>
    BY DEF extract
<1>5. aabb_center(b) = <<b[1] + b[4], b[2] + b[5], b[3] + b[6]>>
    <2> DEFINE f == aabb_center(b)
    <2>1. f = [axis \in 1..3 |-> b[axis] + b[axis + 3]]
        BY DEF aabb_center
    <2> HIDE DEF f
    <2>2. f[1] = b[1] + b[1 + 3] /\ f[2] = b[2] + b[2 + 3] /\ f[3] = b[3] + b[3 + 3]
        BY <2>1
    <2>3. f = [axis \in 1..3 |-> f[axis]]
        BY <2>1
    <2>4. f = <<f[1], f[2], f[3]>>
        BY <2>3, TripleIs
    <2> QED  BY <2>2, <2>4 DEF f
<1> QED  BY <1>3, <1>4, <1>5 DEF r, p, q, c

(* The wide kernels, lane by lane: four vectors, one to a register.      *)
LEMMA FourWide ==
    ASSUME NEW as, NEW bs, \A i \in 1..4 : as[i] \in Triples3 /\ bs[i] \in Triples3
    PROVE  /\ dot4_sse2(as, bs) = [i \in 1..4 |-> dot3(as[i], bs[i])]
           /\ dot4_neon(as, bs) = [i \in 1..4 |-> dot3(as[i], bs[i])]
           /\ normalize4_sse2(as) = [i \in 1..4 |-> normalize3(as[i])]
<1>1. \A i \in 1..4 : hadd(mul(load3(as[i]), load3(bs[i])))[1] = dot3(as[i], bs[i])
                      /\ pairwise(mul(load3(as[i]), load3(bs[i]))) = dot3(as[i], bs[i])
    BY DotOfLanes
<1>2. \A i \in 1..4 :
        extract(rsqrt_and(load3(as[i]), set1(hadd(mul(load3(as[i]), load3(as[i])))[1], 4), -2))
            = normalize3(as[i])
    BY NormalOfLanes
<1>3. dot4_sse2(as, bs) = [i \in 1..4 |-> dot3(as[i], bs[i])]
    BY <1>1 DEF dot4_sse2
<1>4. dot4_neon(as, bs) = [i \in 1..4 |-> dot3(as[i], bs[i])]
    BY <1>1 DEF dot4_neon
<1>5. normalize4_sse2(as) = [i \in 1..4 |-> normalize3(as[i])]
    BY <1>2 DEF normalize4_sse2
<1> QED  BY <1>3, <1>4, <1>5

LEMMA FourCenters ==
    ASSUME NEW bs, \A i \in 1..4 : bs[i] \in Seq(Int) /\ Len(bs[i]) = 6
    PROVE  /\ aabb_center4_sse2(bs) = [i \in 1..4 |-> aabb_center(bs[i])]
           /\ aabb_center4_neon(bs) = [i \in 1..4 |-> aabb_center(bs[i])]
           /\ standalone_aabb_center4_sse2(bs) = [i \in 1..4 |-> aabb_center(bs[i])]
<1>1. \A i \in 1..4 : extract(add(load3(bs[i]), load3(SubSeq(bs[i], 4, 6)))) = aabb_center(bs[i])
    BY CenterOfLanes
<1> QED  BY <1>1 DEF aabb_center4_sse2, aabb_center4_neon, standalone_aabb_center4_sse2

(* Eight vectors, a component to a register.                             *)
LEMMA EightDots ==
    ASSUME NEW as, NEW bs
    PROVE  dot8_avx2(as, bs) = [i \in 1..8 |-> dot3(as[i], bs[i])]
<1> DEFINE x == mul(Lane(as, 1), Lane(bs, 1))
           y == mul(Lane(as, 2), Lane(bs, 2))
           z == mul(Lane(as, 3), Lane(bs, 3))
<1>1. ASSUME NEW axis \in 1..3
      PROVE  mul(Lane(as, axis), Lane(bs, axis)) = [i \in 1..8 |-> as[i][axis] * bs[i][axis]]
    BY DEF mul, Lane
<1>2. /\ x = [i \in 1..8 |-> as[i][1] * bs[i][1]]
      /\ y = [i \in 1..8 |-> as[i][2] * bs[i][2]]
      /\ z = [i \in 1..8 |-> as[i][3] * bs[i][3]]
    <2>1. 1 \in 1..3 /\ 2 \in 1..3 /\ 3 \in 1..3
        OBVIOUS
    <2> QED  BY <1>1, <2>1
<1>3. dot8_avx2(as, bs) = add(add(x, y), z)
    BY DEF dot8_avx2
<1> HIDE DEF x, y, z
<1>4. add(x, y) = [i \in 1..8 |-> x[i] + y[i]]
    BY <1>2 DEF add
<1>5. add(add(x, y), z) = [i \in 1..8 |-> add(x, y)[i] + z[i]]
    BY <1>4 DEF add
<1>6. \A i \in 1..8 : add(x, y)[i] + z[i] = dot3(as[i], bs[i])
    BY <1>2, <1>4 DEF dot3
<1> QED  BY <1>3, <1>5, <1>6

LEMMA EightNormals ==
    ASSUME NEW vs
    PROVE  normalize8_avx2(vs) = [i \in 1..8 |-> normalize3(vs[i])]
<1> DEFINE d == dot8_avx2(vs, vs)
           r == [axis \in 1..3 |-> rsqrt_and(Lane(vs, axis), d, -2)]
           unit(i, x) == IF dot3(vs[i], vs[i]) = 0 THEN <<0, 1, 0>> ELSE Scaled(x, dot3(vs[i], vs[i]), -2)
<1>1. d = [i \in 1..8 |-> dot3(vs[i], vs[i])]
    BY EightDots
<1>2. normalize8_avx2(vs) = [i \in 1..8 |-> <<r[1][i], r[2][i], r[3][i]>>]
    BY DEF normalize8_avx2
<1> HIDE DEF d
<1>3. \A axis \in 1..3 : r[axis] = [i \in 1..8 |-> unit(i, vs[i][axis])]
    <2> SUFFICES ASSUME NEW axis \in 1..3
                 PROVE  r[axis] = [i \in 1..8 |-> unit(i, vs[i][axis])]
        OBVIOUS
    <2> DEFINE l == Lane(vs, axis)
    <2>1. l = [i \in 1..8 |-> vs[i][axis]]
        BY DEF Lane
    <2>2. r[axis] = rsqrt_and(l, d, -2)
        OBVIOUS
    <2> HIDE DEF l, r
    <2>3. rsqrt_and(l, d, -2) = [i \in 1..8 |-> IF d[i] = 0 THEN <<0, 1, 0>> ELSE Scaled(l[i], d[i], -2)]
        BY <2>1 DEF rsqrt_and
    <2>4. \A i \in 1..8 : (IF d[i] = 0 THEN <<0, 1, 0>> ELSE Scaled(l[i], d[i], -2)) = unit(i, vs[i][axis])
        BY <1>1, <2>1
    <2> QED  BY <2>2, <2>3, <2>4
<1> HIDE DEF r
<1>4. ASSUME NEW i \in 1..8
      PROVE  <<r[1][i], r[2][i], r[3][i]>> = normalize3(vs[i])
    <2> DEFINE f == normalize3(vs[i])
    <2>1. f = [axis \in 1..3 |-> unit(i, vs[i][axis])]
        BY DEF normalize3, Zero
    <2> HIDE DEF unit, f
    <2>2. f[1] = unit(i, vs[i][1]) /\ f[2] = unit(i, vs[i][2]) /\ f[3] = unit(i, vs[i][3])
          /\ f = [axis \in 1..3 |-> f[axis]]
        BY <2>1
    <2>3. f = <<f[1], f[2], f[3]>>
        BY <2>2, TripleIs
    <2>4. r[1][i] = unit(i, vs[i][1]) /\ r[2][i] = unit(i, vs[i][2]) /\ r[3][i] = unit(i, vs[i][3])
        BY <1>3
    <2> QED  BY <2>2, <2>3, <2>4 DEF f
<1> QED  BY <1>2, <1>4

LEMMA EightCenters ==
    ASSUME NEW bs
    PROVE  aabb_center8_avx2(bs) = [i \in 1..8 |-> aabb_center(bs[i])]
<1> DEFINE c == [axis \in 1..3 |-> add(Lane(bs, axis), Lane(bs, axis + 3))]
<1>1. aabb_center8_avx2(bs) = [i \in 1..8 |-> <<c[1][i], c[2][i], c[3][i]>>]
    BY DEF aabb_center8_avx2
<1>2. \A axis \in 1..3 : c[axis] = [i \in 1..8 |-> bs[i][axis] + bs[i][axis + 3]]
    <2> SUFFICES ASSUME NEW axis \in 1..3
                 PROVE  c[axis] = [i \in 1..8 |-> bs[i][axis] + bs[i][axis + 3]]
        OBVIOUS
    <2> DEFINE p == Lane(bs, axis)
               q == Lane(bs, axis + 3)
    <2>1. p = [i \in 1..8 |-> bs[i][axis]] /\ q = [i \in 1..8 |-> bs[i][axis + 3]]
        BY DEF Lane
    <2>2. c[axis] = add(p, q)
        OBVIOUS
    <2> HIDE DEF p, q, c
    <2>3. add(p, q) = [i \in 1..8 |-> p[i] + q[i]]
        BY <2>1 DEF add
    <2> QED  BY <2>1, <2>2, <2>3
<1> HIDE DEF c
<1>3. ASSUME NEW i \in 1..8
      PROVE  <<c[1][i], c[2][i], c[3][i]>> = aabb_center(bs[i])
    <2> DEFINE f == aabb_center(bs[i])
    <2>1. f = [axis \in 1..3 |-> bs[i][axis] + bs[i][axis + 3]]
        BY DEF aabb_center
    <2> HIDE DEF f
    <2>2. \A axis \in 1..3 : c[axis][i] = f[axis]
        BY <1>2, <2>1
    <2>3. f = [axis \in 1..3 |-> f[axis]]
        BY <2>1
    <2>4. f = <<f[1], f[2], f[3]>>
        BY <2>3, TripleIs
    <2>5. c[1][i] = f[1] /\ c[2][i] = f[2] /\ c[3][i] = f[3]
        BY <2>2
    <2> QED  BY <2>4, <2>5 DEF f
<1> QED  BY <1>1, <1>3

LEMMA EightMixes ==
    ASSUME NEW as, NEW bs, NEW masks
    PROVE  conditional_mix8_avx2(as, bs, masks)
             = [i \in 1..8 |-> conditional_mix3(as[i], bs[i], masks[i])]
<1> DEFINE r == [axis \in 1..3 |->
                   add(mul(Lane(as, axis), sub(set1(1, 8), Lane(masks, axis))),
                       mul(Lane(bs, axis), Lane(masks, axis)))]
           mix(i, axis) == as[i][axis] * (1 - masks[i][axis]) + bs[i][axis] * masks[i][axis]
<1>1. conditional_mix8_avx2(as, bs, masks) = [i \in 1..8 |-> <<r[1][i], r[2][i], r[3][i]>>]
    BY DEF conditional_mix8_avx2
<1>2. \A axis \in 1..3 : r[axis] = [i \in 1..8 |-> mix(i, axis)]
    <2> SUFFICES ASSUME NEW axis \in 1..3
                 PROVE  r[axis] = [i \in 1..8 |-> mix(i, axis)]
        OBVIOUS
    <2> DEFINE a == Lane(as, axis)
               b == Lane(bs, axis)
               k == Lane(masks, axis)
               one == set1(1, 8)
               left == mul(a, sub(one, k))
               right == mul(b, k)
    <2>1. /\ a = [i \in 1..8 |-> as[i][axis]] /\ b = [i \in 1..8 |-> bs[i][axis]]
          /\ k = [i \in 1..8 |-> masks[i][axis]] /\ one = [i \in 1..8 |-> 1]
        BY DEF Lane, set1
    <2>2. r[axis] = add(left, right)
        OBVIOUS
    <2> HIDE DEF a, b, k, one, r
    <2>3. sub(one, k) = [i \in 1..8 |-> 1 - masks[i][axis]]
        BY <2>1 DEF sub
    <2>4. left = [i \in 1..8 |-> as[i][axis] * (1 - masks[i][axis])]
        <3> DEFINE rest == sub(one, k)
        <3> HIDE DEF rest
        <3>1. mul(a, rest) = [i \in 1..8 |-> a[i] * rest[i]]
            BY <2>1 DEF mul
        <3> QED  BY <2>1, <2>3, <3>1 DEF rest
    <2>5. right = [i \in 1..8 |-> bs[i][axis] * masks[i][axis]]
        BY <2>1 DEF mul
    <2> HIDE DEF left, right
    <2>6. add(left, right) = [i \in 1..8 |-> left[i] + right[i]]
        BY <2>4 DEF add
    <2> QED  BY <2>2, <2>4, <2>5, <2>6
<1> HIDE DEF r
<1>3. ASSUME NEW i \in 1..8
      PROVE  <<r[1][i], r[2][i], r[3][i]>> = conditional_mix3(as[i], bs[i], masks[i])
    <2> DEFINE f == conditional_mix3(as[i], bs[i], masks[i])
    <2>1. f = [axis \in 1..3 |-> mix(i, axis)]
        BY DEF conditional_mix3
    <2> HIDE DEF f, mix
    <2>2. \A axis \in 1..3 : r[axis][i] = f[axis]
        BY <1>2, <2>1
    <2>3. f = [axis \in 1..3 |-> f[axis]]
        BY <2>1
    <2>4. f = <<f[1], f[2], f[3]>>
        BY <2>3, TripleIs
    <2>5. r[1][i] = f[1] /\ r[2][i] = f[2] /\ r[3][i] = f[3]
        BY <2>2
    <2> QED  BY <2>4, <2>5 DEF f
<1> QED  BY <1>1, <1>3

(* The widths of the blocks of a batch.                                  *)
Widths(widths, W) ==
    LET all == Append(widths, 1)
    IN  /\ all \in Seq(Nat \ {0}) /\ Len(all) \in Nat \ {0} /\ all[Len(all)] = 1
        /\ \A j \in 1..Len(all) : all[j] \in W

LEMMA OneMore ==
    ASSUME NEW X, NEW p \in Seq(X), NEW x \in X, NEW m \in Nat, Len(p) = m
    PROVE  /\ Append(p, x) \in Seq(X) /\ Len(Append(p, x)) = m + 1 /\ Append(p, x)[m + 1] = x
           /\ \A k \in 1..m : Append(p, x)[k] = p[k]
OBVIOUS

LEMMA WidthsUsed ==
    /\ Widths(<<8, 4>>, {8, 4, 1}) /\ Widths(<<4>>, {8, 4, 1})
    /\ Widths(<<4>>, {4, 1}) /\ Widths(<<8>>, {8, 1}) /\ Widths(<< >>, {8, 1})
<1>1. Widths(<<8, 4>>, {8, 4, 1})
    <2> DEFINE all == Append(<<8, 4>>, 1)
    <2> DEFINE two == <<8, 4>>
    <2>1. two \in Seq(Nat \ {0}) /\ Len(two) = 2 /\ two[1] = 8 /\ two[2] = 4
        OBVIOUS
    <2> HIDE DEF two
    <2>2. all \in Seq(Nat \ {0}) /\ Len(all) = 3 /\ all[1] = 8 /\ all[2] = 4 /\ all[3] = 1
        <3>1. all = Append(two, 1)
            BY DEF two
        <3> DEFINE P == Nat \ {0}
        <3>2. two \in Seq(P) /\ 1 \in P
            BY <2>1
        <3> HIDE DEF all, P
        <3>3. all \in Seq(P) /\ Len(all) = 2 + 1 /\ all[2 + 1] = 1 /\ \A k \in 1..2 : all[k] = two[k]
            BY <2>1, <3>1, <3>2, OneMore
        <3> QED  BY <2>1, <3>3 DEF P
    <2> HIDE DEF all
    <2>3. \A j \in 1..3 : j = 1 \/ j = 2 \/ j = 3
        OBVIOUS
    <2> QED  BY <2>2, <2>3 DEF Widths, all
<1>2. ASSUME NEW w \in {4, 8}
      PROVE  LET all == Append(<<w>>, 1)
             IN  all \in Seq(Nat \ {0}) /\ Len(all) = 2 /\ all[1] = w /\ all[2] = 1
    <2> DEFINE all == Append(<<w>>, 1)
    <2> DEFINE one == <<w>>
    <2>1. one \in Seq(Nat \ {0}) /\ Len(one) = 1 /\ one[1] = w
        OBVIOUS
    <2> HIDE DEF one
    <2>2. all \in Seq(Nat \ {0}) /\ Len(all) = 2 /\ all[1] = w /\ all[2] = 1
        <3>1. all = Append(one, 1)
            BY DEF one
        <3> DEFINE P == Nat \ {0}
        <3>2. one \in Seq(P) /\ 1 \in P
            BY <2>1
        <3> HIDE DEF all, P
        <3>3. all \in Seq(P) /\ Len(all) = 1 + 1 /\ all[1 + 1] = 1 /\ \A k \in 1..1 : all[k] = one[k]
            BY <2>1, <3>1, <3>2, OneMore
        <3> QED  BY <2>1, <3>3 DEF P
    <2> HIDE DEF all
    <2> QED  BY <2>2 DEF all
<1>3. ASSUME NEW w \in {4, 8}, NEW W, w \in W, 1 \in W
      PROVE  Widths(<<w>>, W)
    <2> DEFINE all == Append(<<w>>, 1)
    <2>1. all \in Seq(Nat \ {0}) /\ Len(all) = 2 /\ all[1] = w /\ all[2] = 1
        BY <1>2
    <2> HIDE DEF all
    <2>2. \A j \in 1..2 : j = 1 \/ j = 2
        OBVIOUS
    <2> QED  BY <1>3, <2>1, <2>2 DEF Widths, all
<1>4. Widths(<< >>, {8, 1})
    <2> DEFINE all == Append(<< >>, 1)
    <2>1. all = <<1>>
        OBVIOUS
    <2> HIDE DEF all
    <2>2. all \in Seq(Nat \ {0}) /\ Len(all) = 1 /\ all[1] = 1
        BY <2>1
    <2> QED  BY <2>2 DEF Widths, all
<1> QED  BY <1>1, <1>3, <1>4

(* A batch of which every block of its slice is the part of s it should  *)
(* be: blocks[j] are the blocks of one width.                            *)
BlocksRight(blocks, widths, W, s) ==
    LET all == Append(widths, 1)
        at == Starts(all, Len(s))
    IN  \A j \in 1..Len(all) :
            /\ blocks[j] = [k \in 1..(Len(s) - at[j - 1]) \div all[j] |-> blocks[j][k]]
            /\ \A k \in 1..(Len(s) - at[j - 1]) \div all[j] :
                  LET b == at[j - 1] + all[j] * (k - 1)
                  IN  b \in Nat /\ all[j] \in W /\ b + all[j] <= Len(s)
                         => blocks[j][k] = SubSeq(s, b + 1, b + all[j])

LEMMA BlocksMakeBatch ==
    ASSUME NEW X, NEW s \in Seq(X), NEW widths, NEW W, Widths(widths, W), NEW blocks,
           BlocksRight(blocks, widths, W, s)
    PROVE  FlattenSeq([j \in 1..Len(Append(widths, 1)) |-> FlattenSeq(blocks[j])]) = s
<1> DEFINE all == Append(widths, 1)
           N == Len(all)
           at == Starts(all, Len(s))
           from(j, k) == at[j - 1] + all[j] * (k - 1)
<1>1. all \in Seq(Nat \ {0}) /\ N \in Nat \ {0} /\ all[N] = 1 /\ \A j \in 1..N : all[j] \in W
    BY DEF Widths
<1>2. \A j \in 1..N :
            /\ blocks[j] = [k \in 1..(Len(s) - at[j - 1]) \div all[j] |-> blocks[j][k]]
            /\ \A k \in 1..(Len(s) - at[j - 1]) \div all[j] :
                  from(j, k) \in Nat /\ all[j] \in W /\ from(j, k) + all[j] <= Len(s)
                     => blocks[j][k] = SubSeq(s, from(j, k) + 1, from(j, k) + all[j])
    BY DEF BlocksRight
<1>3. ASSUME NEW j \in 1..N
      PROVE  blocks[j] = Strip(s, all, j)
    <2> DEFINE c == (Len(s) - at[j - 1]) \div all[j]
               piece(k) == SubSeq(s, from(j, k) + 1, from(j, k) + all[j])
    <2>1. Strip(s, all, j) = [k \in 1..c |-> piece(k)]
        BY DEF Strip
    <2>2. ASSUME NEW k \in 1..c
          PROVE  from(j, k) \in Nat /\ from(j, k) + all[j] <= Len(s)
        <3> DEFINE m == Len(s)
        <3>1. m \in Nat /\ k \in 1..(m - Starts(all, m)[j - 1]) \div all[j]
            OBVIOUS
        <3> HIDE DEF m, all
        <3>2. LET b == Starts(all, m)[j - 1] + all[j] * (k - 1)
              IN  b \in Nat /\ b + all[j] <= m
            BY <1>1, <3>1, BlockWithin
        <3> QED  BY <3>2 DEF m
    <2>3. blocks[j] = [k \in 1..c |-> blocks[j][k]] /\ \A k \in 1..c : blocks[j][k] = piece(k)
        <3>1. all[j] \in W
            BY <1>1
        <3> HIDE DEF from, at, all, N
        <3> QED  BY <1>2, <2>2, <3>1
    <2> HIDE DEF c, piece, at, all, N
    <2> QED  BY <2>1, <2>3
<1>4. FlattenSeq([j \in 1..N |-> FlattenSeq(Strip(s, all, j))]) = s
    <2> HIDE DEF all, at
    <2> DEFINE M == N
    <2>1. M \in Nat \ {0} /\ Len(all) = M /\ all[M] = 1
        BY <1>1
    <2> HIDE DEF M
    <2>2. FlattenSeq([j \in 1..M |-> FlattenSeq(Strip(s, all, j))]) = s
        BY <1>1, <2>1, StripsJoined
    <2> QED  BY <2>2 DEF M
<1>5. [j \in 1..N |-> FlattenSeq(blocks[j])] = [j \in 1..N |-> FlattenSeq(Strip(s, all, j))]
    <2> HIDE DEF all, N
    <2> QED  BY <1>3
<1> QED  BY <1>4, <1>5

(* Parts of a sequence by their elements.                                *)
LEMMA PartIs ==
    ASSUME NEW X, NEW s \in Seq(X), NEW b \in Nat, NEW w \in Nat, b + w <= Len(s)
    PROVE  /\ SubSeq(s, b + 1, b + w) = [i \in 1..w |-> s[b + i]]
           /\ \A i \in 1..w : b + i \in 1..Len(s)
<1> DEFINE p == SubSeq(s, b + 1, b + w)
<1>1. p \in Seq(X) /\ Len(p) = w /\ \A i \in 1..w : p[i] = s[b + i]
    OBVIOUS
<1> HIDE DEF p
<1>2. p = [i \in 1..w |-> p[i]]
    BY <1>1, OfElements
<1>3. p = [i \in 1..w |-> s[b + i]]
    BY <1>1, <1>2
<1> QED  BY <1>3 DEF p

LEMMA OneElement ==
    ASSUME NEW x
    PROVE  <<x>> = [i \in 1..1 |-> x]
OBVIOUS

LEMMA ElementsOf ==
    ASSUME NEW n \in Nat, NEW s, s = [i \in 1..n |-> s[i]]
    PROVE  s \in Seq({s[i] : i \in 1..n}) /\ Len(s) = n
<1> DEFINE X == {s[i] : i \in 1..n}
<1>1. \A i \in 1..n : s[i] \in X
    OBVIOUS
<1> HIDE DEF X
<1>2. s \in [1..n -> X]
    BY <1>1
<1>3. s \in Seq(X) /\ Len(s) = n
    BY <1>2
<1> QED  BY <1>3 DEF X

(* A box is six numbers.                                                 *)
Boxes6 == {b \in Seq(Int) : Len(b) = 6}

(* Each batch is the scalar operation of every element: the blocks are   *)
(* made of their kernels, and put together by BlocksMakeBatch.           *)
LEMMA X86Dots ==
    ASSUME NEW level, NEW us \in Seq(Triples3), NEW vs \in Seq(Triples3), Len(vs) = Len(us)
    PROVE  x86_dot_batch(level, us, vs) = [i \in 1..Len(us) |-> dot3(us[i], vs[i])]
<1> DEFINE n == Len(us)
           s == [i \in 1..n |-> dot3(us[i], vs[i])]
           X == {s[i] : i \in 1..n}
           W == {8, 4, 1}
           widths == x86_widths(level)
           all == Append(widths, 1)
           at == Starts(all, n)
           kernel(b, w) ==
               CASE w = 8 -> dot8_avx2(Block(us, b, 8), Block(vs, b, 8))
                 [] w = 4 -> dot4_sse2(Block(us, b, 4), Block(vs, b, 4))
                 [] OTHER -> <<dot3(us[b + 1], vs[b + 1])>>
           blocks == [j \in 1..Len(all) |-> [k \in 1..(n - at[j - 1]) \div all[j] |->
                        kernel(at[j - 1] + all[j] * (k - 1), all[j])]]
<1>1. n \in Nat /\ s \in Seq(X) /\ Len(s) = n
    <2>1. n \in Nat
        OBVIOUS
    <2> HIDE DEF n
    <2>2. s = [i \in 1..n |-> s[i]]
        OBVIOUS
    <2> HIDE DEF s
    <2> QED  BY <2>1, <2>2, ElementsOf
<1>2. Widths(widths, W)
    BY WidthsUsed DEF x86_widths
<1>3. ASSUME NEW b \in Nat, NEW w \in W, b + w <= n
      PROVE  kernel(b, w) = SubSeq(s, b + 1, b + w)
    <2> DEFINE p == Block(us, b, w)
               q == Block(vs, b, w)
    <2>1. /\ w \in Nat /\ \A i \in 1..w : b + i \in 1..n
          /\ SubSeq(s, b + 1, b + w) = [i \in 1..w |-> s[b + i]]
        <3>1. w \in Nat /\ b + w <= Len(s)
            BY <1>1, <1>3
        <3> HIDE DEF s, X, W, n
        <3> QED  BY <1>1, <3>1, PartIs
    <2>2. p = [i \in 1..w |-> us[b + i]] /\ q = [i \in 1..w |-> vs[b + i]]
        <3>1. b + w <= Len(us) /\ b + w <= Len(vs)
            BY <1>3
        <3> QED  BY <2>1, <3>1, PartIs DEF Block
    <2> HIDE DEF p, q
    <2>3. ASSUME NEW i \in 1..w
          PROVE  p[i] \in Triples3 /\ q[i] \in Triples3 /\ s[b + i] = dot3(p[i], q[i])
        <3>1. b + i \in 1..n /\ p[i] = us[b + i] /\ q[i] = vs[b + i]
            BY <2>1, <2>2
        <3>2. us[b + i] \in Triples3 /\ vs[b + i] \in Triples3
            BY <3>1
        <3>3. s[b + i] = dot3(us[b + i], vs[b + i])
            BY <3>1
        <3> QED  BY <3>1, <3>2, <3>3
    <2> HIDE DEF s
    <2>4. SubSeq(s, b + 1, b + w) = [i \in 1..w |-> dot3(p[i], q[i])]
        BY <2>1, <2>3
    <2>5. CASE w = 8
        <3>1. kernel(b, w) = dot8_avx2(p, q)
            BY <2>5 DEF p, q
        <3>2. \A i \in 1..8 : p[i] \in Triples3 /\ q[i] \in Triples3
            BY <2>3, <2>5
        <3> HIDE DEF kernel
        <3>3. dot8_avx2(p, q) = [i \in 1..8 |-> dot3(p[i], q[i])]
            BY <3>2, EightDots
        <3> QED  BY <2>4, <2>5, <3>1, <3>3
    <2>6. CASE w = 4
        <3>1. kernel(b, w) = dot4_sse2(p, q)
            BY <2>6 DEF p, q
        <3>2. \A i \in 1..4 : p[i] \in Triples3 /\ q[i] \in Triples3
            BY <2>3, <2>6
        <3> HIDE DEF kernel
        <3>3. dot4_sse2(p, q) = [i \in 1..4 |-> dot3(p[i], q[i])]
            BY <3>2, FourWide
        <3> QED  BY <2>4, <2>6, <3>1, <3>3
    <2>7. CASE w = 1
        <3>1. w # 8 /\ w # 4 /\ 1 \in 1..w
            BY <2>7
        <3>2. kernel(b, w) = <<dot3(us[b + 1], vs[b + 1])>>
            BY <3>1
        <3>3. kernel(b, w) = <<dot3(p[1], q[1])>>
            <4> HIDE DEF kernel
            <4> QED  BY <2>2, <3>1, <3>2
        <3>4. SubSeq(s, b + 1, b + w) = [i \in 1..1 |-> dot3(p[1], q[1])]
            BY <2>4, <2>7
        <3> HIDE DEF kernel
        <3> QED  BY <3>3, <3>4, OneElement
    <2> QED  BY <2>5, <2>6, <2>7
<1>4. BlocksRight(blocks, widths, W, s)
    <2> HIDE DEF s, kernel, W, widths
    <2> QED  BY <1>1, <1>3 DEF BlocksRight
<1>5. x86_dot_batch(level, us, vs) = FlattenSeq([j \in 1..Len(all) |-> FlattenSeq(blocks[j])])
    BY DEF x86_dot_batch, Batch
<1> HIDE DEF s, X, W, widths, blocks
<1>6. FlattenSeq([j \in 1..Len(Append(widths, 1)) |-> FlattenSeq(blocks[j])]) = s
    BY <1>1, <1>2, <1>4, BlocksMakeBatch
<1> QED  BY <1>5, <1>6 DEF s

LEMMA X86Normals ==
    ASSUME NEW level, NEW vs \in Seq(Triples3)
    PROVE  x86_normals_batch(level, vs) = [i \in 1..Len(vs) |-> normalize3(vs[i])]
<1> DEFINE n == Len(vs)
           s == [i \in 1..n |-> normalize3(vs[i])]
           X == {s[i] : i \in 1..n}
           W == {8, 4, 1}
           widths == x86_widths(level)
           all == Append(widths, 1)
           at == Starts(all, n)
           kernel(b, w) ==
               CASE w = 8 -> normalize8_avx2(Block(vs, b, 8))
                 [] w = 4 -> normalize4_sse2(Block(vs, b, 4))
                 [] OTHER -> <<normalize3(vs[b + 1])>>
           blocks == [j \in 1..Len(all) |-> [k \in 1..(n - at[j - 1]) \div all[j] |->
                        kernel(at[j - 1] + all[j] * (k - 1), all[j])]]
<1>1. n \in Nat /\ s \in Seq(X) /\ Len(s) = n
    <2>1. n \in Nat
        OBVIOUS
    <2> HIDE DEF n
    <2>2. s = [i \in 1..n |-> s[i]]
        OBVIOUS
    <2> HIDE DEF s
    <2> QED  BY <2>1, <2>2, ElementsOf
<1>2. Widths(widths, W)
    BY WidthsUsed DEF x86_widths
<1>3. ASSUME NEW b \in Nat, NEW w \in W, b + w <= n
      PROVE  kernel(b, w) = SubSeq(s, b + 1, b + w)
    <2> DEFINE p == Block(vs, b, w)
    <2>1. /\ w \in Nat /\ \A i \in 1..w : b + i \in 1..n
          /\ SubSeq(s, b + 1, b + w) = [i \in 1..w |-> s[b + i]]
        <3>1. w \in Nat /\ b + w <= Len(s)
            BY <1>1, <1>3
        <3> HIDE DEF s, X, W, n
        <3> QED  BY <1>1, <3>1, PartIs
    <2>2. p = [i \in 1..w |-> vs[b + i]]
        <3>1. b + w <= Len(vs)
            BY <1>3
        <3> QED  BY <2>1, <3>1, PartIs DEF Block
    <2> HIDE DEF p
    <2>3. ASSUME NEW i \in 1..w
          PROVE  p[i] \in Triples3 /\ s[b + i] = normalize3(p[i])
        <3>1. b + i \in 1..n /\ p[i] = vs[b + i]
            BY <2>1, <2>2
        <3>2. vs[b + i] \in Triples3
            BY <3>1
        <3>3. s[b + i] = normalize3(vs[b + i])
            BY <3>1
        <3> QED  BY <3>1, <3>2, <3>3
    <2> HIDE DEF s
    <2>4. SubSeq(s, b + 1, b + w) = [i \in 1..w |-> normalize3(p[i])]
        BY <2>1, <2>3
    <2>5. CASE w = 8
        <3>1. kernel(b, w) = normalize8_avx2(p)
            BY <2>5 DEF p
        <3>2. \A i \in 1..8 : p[i] \in Triples3
            BY <2>3, <2>5
        <3> HIDE DEF kernel
        <3>3. normalize8_avx2(p) = [i \in 1..8 |-> normalize3(p[i])]
            BY <3>2, EightNormals
        <3> QED  BY <2>4, <2>5, <3>1, <3>3
    <2>6. CASE w = 4
        <3>1. kernel(b, w) = normalize4_sse2(p)
            BY <2>6 DEF p
        <3>2. \A i \in 1..4 : p[i] \in Triples3
            BY <2>3, <2>6
        <3> HIDE DEF kernel
        <3>3. normalize4_sse2(p) = [i \in 1..4 |-> normalize3(p[i])]
            BY <3>2, FourWide
        <3> QED  BY <2>4, <2>6, <3>1, <3>3
    <2>7. CASE w = 1
        <3>1. w # 8 /\ w # 4 /\ 1 \in 1..w
            BY <2>7
        <3>2. kernel(b, w) = <<normalize3(vs[b + 1])>>
            BY <3>1
        <3>3. kernel(b, w) = <<normalize3(p[1])>>
            <4> HIDE DEF kernel
            <4> QED  BY <2>2, <3>1, <3>2
        <3>4. SubSeq(s, b + 1, b + w) = [i \in 1..1 |-> normalize3(p[1])]
            BY <2>4, <2>7
        <3> HIDE DEF kernel
        <3> QED  BY <3>3, <3>4, OneElement
    <2> QED  BY <2>5, <2>6, <2>7
<1>4. BlocksRight(blocks, widths, W, s)
    <2> HIDE DEF s, kernel, W, widths
    <2> QED  BY <1>1, <1>3 DEF BlocksRight
<1>5. x86_normals_batch(level, vs) = FlattenSeq([j \in 1..Len(all) |-> FlattenSeq(blocks[j])])
    BY DEF x86_normals_batch, Batch
<1> HIDE DEF s, X, W, widths, blocks
<1>6. FlattenSeq([j \in 1..Len(Append(widths, 1)) |-> FlattenSeq(blocks[j])]) = s
    BY <1>1, <1>2, <1>4, BlocksMakeBatch
<1> QED  BY <1>5, <1>6 DEF s

LEMMA X86Centers ==
    ASSUME NEW level, NEW bs \in Seq(Boxes6)
    PROVE  x86_aabb_center_batch(level, bs) = [i \in 1..Len(bs) |-> aabb_center(bs[i])]
<1> DEFINE n == Len(bs)
           s == [i \in 1..n |-> aabb_center(bs[i])]
           X == {s[i] : i \in 1..n}
           W == {8, 4, 1}
           widths == x86_widths(level)
           all == Append(widths, 1)
           at == Starts(all, n)
           kernel(b, w) ==
               CASE w = 8 -> aabb_center8_avx2(Block(bs, b, 8))
                 [] w = 4 -> aabb_center4_sse2(Block(bs, b, 4))
                 [] OTHER -> <<aabb_center(bs[b + 1])>>
           blocks == [j \in 1..Len(all) |-> [k \in 1..(n - at[j - 1]) \div all[j] |->
                        kernel(at[j - 1] + all[j] * (k - 1), all[j])]]
<1>1. n \in Nat /\ s \in Seq(X) /\ Len(s) = n
    <2>1. n \in Nat
        OBVIOUS
    <2> HIDE DEF n
    <2>2. s = [i \in 1..n |-> s[i]]
        OBVIOUS
    <2> HIDE DEF s
    <2> QED  BY <2>1, <2>2, ElementsOf
<1>2. Widths(widths, W)
    BY WidthsUsed DEF x86_widths
<1>3. ASSUME NEW b \in Nat, NEW w \in W, b + w <= n
      PROVE  kernel(b, w) = SubSeq(s, b + 1, b + w)
    <2> DEFINE p == Block(bs, b, w)
    <2>1. /\ w \in Nat /\ \A i \in 1..w : b + i \in 1..n
          /\ SubSeq(s, b + 1, b + w) = [i \in 1..w |-> s[b + i]]
        <3>1. w \in Nat /\ b + w <= Len(s)
            BY <1>1, <1>3
        <3> HIDE DEF s, X, W, n
        <3> QED  BY <1>1, <3>1, PartIs
    <2>2. p = [i \in 1..w |-> bs[b + i]]
        <3>1. b + w <= Len(bs)
            BY <1>3
        <3> QED  BY <2>1, <3>1, PartIs DEF Block
    <2> HIDE DEF p
    <2>3. ASSUME NEW i \in 1..w
          PROVE  p[i] \in Boxes6 /\ s[b + i] = aabb_center(p[i])
        <3>1. b + i \in 1..n /\ p[i] = bs[b + i]
            BY <2>1, <2>2
        <3>2. bs[b + i] \in Boxes6
            BY <3>1
        <3>3. s[b + i] = aabb_center(bs[b + i])
            BY <3>1
        <3> QED  BY <3>1, <3>2, <3>3
    <2> HIDE DEF s
    <2>4. SubSeq(s, b + 1, b + w) = [i \in 1..w |-> aabb_center(p[i])]
        BY <2>1, <2>3
    <2>5. CASE w = 8
        <3>1. kernel(b, w) = aabb_center8_avx2(p)
            BY <2>5 DEF p
        <3>2. \A i \in 1..8 : p[i] \in Boxes6
            BY <2>3, <2>5
        <3> HIDE DEF kernel
        <3>3. aabb_center8_avx2(p) = [i \in 1..8 |-> aabb_center(p[i])]
            BY <3>2, EightCenters
        <3> QED  BY <2>4, <2>5, <3>1, <3>3
    <2>6. CASE w = 4
        <3>1. kernel(b, w) = aabb_center4_sse2(p)
            BY <2>6 DEF p
        <3>2. \A i \in 1..4 : p[i] \in Boxes6
            BY <2>3, <2>6
        <3> HIDE DEF kernel
        <3>3. aabb_center4_sse2(p) = [i \in 1..4 |-> aabb_center(p[i])]
            BY <3>2, FourCenters DEF Boxes6
        <3> QED  BY <2>4, <2>6, <3>1, <3>3
    <2>7. CASE w = 1
        <3>1. w # 8 /\ w # 4 /\ 1 \in 1..w
            BY <2>7
        <3>2. kernel(b, w) = <<aabb_center(bs[b + 1])>>
            BY <3>1
        <3>3. kernel(b, w) = <<aabb_center(p[1])>>
            <4> HIDE DEF kernel
            <4> QED  BY <2>2, <3>1, <3>2
        <3>4. SubSeq(s, b + 1, b + w) = [i \in 1..1 |-> aabb_center(p[1])]
            BY <2>4, <2>7
        <3> HIDE DEF kernel
        <3> QED  BY <3>3, <3>4, OneElement
    <2> QED  BY <2>5, <2>6, <2>7
<1>4. BlocksRight(blocks, widths, W, s)
    <2> HIDE DEF s, kernel, W, widths
    <2> QED  BY <1>1, <1>3 DEF BlocksRight
<1>5. x86_aabb_center_batch(level, bs) = FlattenSeq([j \in 1..Len(all) |-> FlattenSeq(blocks[j])])
    BY DEF x86_aabb_center_batch, Batch
<1> HIDE DEF s, X, W, widths, blocks
<1>6. FlattenSeq([j \in 1..Len(Append(widths, 1)) |-> FlattenSeq(blocks[j])]) = s
    BY <1>1, <1>2, <1>4, BlocksMakeBatch
<1> QED  BY <1>5, <1>6 DEF s

LEMMA X86Mixes ==
    ASSUME NEW level, NEW us \in Seq(Triples3), NEW vs \in Seq(Triples3), NEW masks \in Seq(Triples3), Len(vs) = Len(us), Len(masks) = Len(us)
    PROVE  x86_conditional_mix_batch(level, us, vs, masks) = [i \in 1..Len(us) |-> conditional_mix3(us[i], vs[i], masks[i])]
<1> DEFINE n == Len(us)
           s == [i \in 1..n |-> conditional_mix3(us[i], vs[i], masks[i])]
           X == {s[i] : i \in 1..n}
           W == {8, 1}
           widths == IF level = "AVX2" THEN <<8>> ELSE << >>
           all == Append(widths, 1)
           at == Starts(all, n)
           kernel(b, w) ==
               IF w = 8 THEN conditional_mix8_avx2(Block(us, b, 8), Block(vs, b, 8), Block(masks, b, 8)) ELSE <<conditional_mix3(us[b + 1], vs[b + 1], masks[b + 1])>>
           blocks == [j \in 1..Len(all) |-> [k \in 1..(n - at[j - 1]) \div all[j] |->
                        kernel(at[j - 1] + all[j] * (k - 1), all[j])]]
<1>1. n \in Nat /\ s \in Seq(X) /\ Len(s) = n
    <2>1. n \in Nat
        OBVIOUS
    <2> HIDE DEF n
    <2>2. s = [i \in 1..n |-> s[i]]
        OBVIOUS
    <2> HIDE DEF s
    <2> QED  BY <2>1, <2>2, ElementsOf
<1>2. Widths(widths, W)
    BY WidthsUsed
<1>3. ASSUME NEW b \in Nat, NEW w \in W, b + w <= n
      PROVE  kernel(b, w) = SubSeq(s, b + 1, b + w)
    <2> DEFINE p == Block(us, b, w)
               q == Block(vs, b, w)
               r == Block(masks, b, w)
    <2>1. /\ w \in Nat /\ \A i \in 1..w : b + i \in 1..n
          /\ SubSeq(s, b + 1, b + w) = [i \in 1..w |-> s[b + i]]
        <3>1. w \in Nat /\ b + w <= Len(s)
            BY <1>1, <1>3
        <3> HIDE DEF s, X, W, n
        <3> QED  BY <1>1, <3>1, PartIs
    <2>2. p = [i \in 1..w |-> us[b + i]] /\ q = [i \in 1..w |-> vs[b + i]] /\ r = [i \in 1..w |-> masks[b + i]]
        <3>1. b + w <= Len(us) /\ b + w <= Len(vs) /\ b + w <= Len(masks)
            BY <1>3
        <3> QED  BY <2>1, <3>1, PartIs DEF Block
    <2> HIDE DEF p, q, r
    <2>3. ASSUME NEW i \in 1..w
          PROVE  p[i] \in Triples3 /\ q[i] \in Triples3 /\ r[i] \in Triples3 /\ s[b + i] = conditional_mix3(p[i], q[i], r[i])
        <3>1. b + i \in 1..n /\ p[i] = us[b + i] /\ q[i] = vs[b + i] /\ r[i] = masks[b + i]
            BY <2>1, <2>2
        <3>2. us[b + i] \in Triples3 /\ vs[b + i] \in Triples3 /\ masks[b + i] \in Triples3
            BY <3>1
        <3>3. s[b + i] = conditional_mix3(us[b + i], vs[b + i], masks[b + i])
            BY <3>1
        <3> QED  BY <3>1, <3>2, <3>3
    <2> HIDE DEF s
    <2>4. SubSeq(s, b + 1, b + w) = [i \in 1..w |-> conditional_mix3(p[i], q[i], r[i])]
        BY <2>1, <2>3
    <2>5. CASE w = 8
        <3>1. kernel(b, w) = conditional_mix8_avx2(p, q, r)
            BY <2>5 DEF p, q, r
        <3>2. \A i \in 1..8 : p[i] \in Triples3 /\ q[i] \in Triples3 /\ r[i] \in Triples3
            BY <2>3, <2>5
        <3> HIDE DEF kernel
        <3>3. conditional_mix8_avx2(p, q, r) = [i \in 1..8 |-> conditional_mix3(p[i], q[i], r[i])]
            BY <3>2, EightMixes
        <3> QED  BY <2>4, <2>5, <3>1, <3>3
    <2>6. CASE w = 1
        <3>1. w # 8 /\ 1 \in 1..w
            BY <2>6
        <3>2. kernel(b, w) = <<conditional_mix3(us[b + 1], vs[b + 1], masks[b + 1])>>
            BY <3>1
        <3>3. kernel(b, w) = <<conditional_mix3(p[1], q[1], r[1])>>
            <4> HIDE DEF kernel
            <4> QED  BY <2>2, <3>1, <3>2
        <3>4. SubSeq(s, b + 1, b + w) = [i \in 1..1 |-> conditional_mix3(p[1], q[1], r[1])]
            BY <2>4, <2>6
        <3> HIDE DEF kernel
        <3> QED  BY <3>3, <3>4, OneElement
    <2> QED  BY <2>5, <2>6
<1>4. BlocksRight(blocks, widths, W, s)
    <2> HIDE DEF s, kernel, W, widths
    <2> QED  BY <1>1, <1>3 DEF BlocksRight
<1>5. x86_conditional_mix_batch(level, us, vs, masks) = FlattenSeq([j \in 1..Len(all) |-> FlattenSeq(blocks[j])])
    BY DEF x86_conditional_mix_batch, Batch
<1> HIDE DEF s, X, W, widths, blocks
<1>6. FlattenSeq([j \in 1..Len(Append(widths, 1)) |-> FlattenSeq(blocks[j])]) = s
    BY <1>1, <1>2, <1>4, BlocksMakeBatch
<1> QED  BY <1>5, <1>6 DEF s

LEMMA NeonDots ==
    ASSUME NEW us \in Seq(Triples3), NEW vs \in Seq(Triples3), Len(vs) = Len(us)
    PROVE  neon_dot_batch(us, vs) = [i \in 1..Len(us) |-> dot3(us[i], vs[i])]
<1> DEFINE n == Len(us)
           s == [i \in 1..n |-> dot3(us[i], vs[i])]
           X == {s[i] : i \in 1..n}
           W == {4, 1}
           widths == <<4>>
           all == Append(widths, 1)
           at == Starts(all, n)
           kernel(b, w) ==
               IF w = 4 THEN dot4_neon(Block(us, b, 4), Block(vs, b, 4)) ELSE <<dot3(us[b + 1], vs[b + 1])>>
           blocks == [j \in 1..Len(all) |-> [k \in 1..(n - at[j - 1]) \div all[j] |->
                        kernel(at[j - 1] + all[j] * (k - 1), all[j])]]
<1>1. n \in Nat /\ s \in Seq(X) /\ Len(s) = n
    <2>1. n \in Nat
        OBVIOUS
    <2> HIDE DEF n
    <2>2. s = [i \in 1..n |-> s[i]]
        OBVIOUS
    <2> HIDE DEF s
    <2> QED  BY <2>1, <2>2, ElementsOf
<1>2. Widths(widths, W)
    BY WidthsUsed
<1>3. ASSUME NEW b \in Nat, NEW w \in W, b + w <= n
      PROVE  kernel(b, w) = SubSeq(s, b + 1, b + w)
    <2> DEFINE p == Block(us, b, w)
               q == Block(vs, b, w)
    <2>1. /\ w \in Nat /\ \A i \in 1..w : b + i \in 1..n
          /\ SubSeq(s, b + 1, b + w) = [i \in 1..w |-> s[b + i]]
        <3>1. w \in Nat /\ b + w <= Len(s)
            BY <1>1, <1>3
        <3> HIDE DEF s, X, W, n
        <3> QED  BY <1>1, <3>1, PartIs
    <2>2. p = [i \in 1..w |-> us[b + i]] /\ q = [i \in 1..w |-> vs[b + i]]
        <3>1. b + w <= Len(us) /\ b + w <= Len(vs)
            BY <1>3
        <3> QED  BY <2>1, <3>1, PartIs DEF Block
    <2> HIDE DEF p, q
    <2>3. ASSUME NEW i \in 1..w
          PROVE  p[i] \in Triples3 /\ q[i] \in Triples3 /\ s[b + i] = dot3(p[i], q[i])
        <3>1. b + i \in 1..n /\ p[i] = us[b + i] /\ q[i] = vs[b + i]
            BY <2>1, <2>2
        <3>2. us[b + i] \in Triples3 /\ vs[b + i] \in Triples3
            BY <3>1
        <3>3. s[b + i] = dot3(us[b + i], vs[b + i])
            BY <3>1
        <3> QED  BY <3>1, <3>2, <3>3
    <2> HIDE DEF s
    <2>4. SubSeq(s, b + 1, b + w) = [i \in 1..w |-> dot3(p[i], q[i])]
        BY <2>1, <2>3
    <2>5. CASE w = 4
        <3>1. kernel(b, w) = dot4_neon(p, q)
            BY <2>5 DEF p, q
        <3>2. \A i \in 1..4 : p[i] \in Triples3 /\ q[i] \in Triples3
            BY <2>3, <2>5
        <3> HIDE DEF kernel
        <3>3. dot4_neon(p, q) = [i \in 1..4 |-> dot3(p[i], q[i])]
            BY <3>2, FourWide
        <3> QED  BY <2>4, <2>5, <3>1, <3>3
    <2>6. CASE w = 1
        <3>1. w # 4 /\ 1 \in 1..w
            BY <2>6
        <3>2. kernel(b, w) = <<dot3(us[b + 1], vs[b + 1])>>
            BY <3>1
        <3>3. kernel(b, w) = <<dot3(p[1], q[1])>>
            <4> HIDE DEF kernel
            <4> QED  BY <2>2, <3>1, <3>2
        <3>4. SubSeq(s, b + 1, b + w) = [i \in 1..1 |-> dot3(p[1], q[1])]
            BY <2>4, <2>6
        <3> HIDE DEF kernel
        <3> QED  BY <3>3, <3>4, OneElement
    <2> QED  BY <2>5, <2>6
<1>4. BlocksRight(blocks, widths, W, s)
    <2> HIDE DEF s, kernel, W, widths
    <2> QED  BY <1>1, <1>3 DEF BlocksRight
<1>5. neon_dot_batch(us, vs) = FlattenSeq([j \in 1..Len(all) |-> FlattenSeq(blocks[j])])
    BY DEF neon_dot_batch, Batch
<1> HIDE DEF s, X, W, widths, blocks
<1>6. FlattenSeq([j \in 1..Len(Append(widths, 1)) |-> FlattenSeq(blocks[j])]) = s
    BY <1>1, <1>2, <1>4, BlocksMakeBatch
<1> QED  BY <1>5, <1>6 DEF s

LEMMA NeonCenters ==
    ASSUME NEW bs \in Seq(Boxes6)
    PROVE  neon_aabb_center_batch(bs) = [i \in 1..Len(bs) |-> aabb_center(bs[i])]
<1> DEFINE n == Len(bs)
           s == [i \in 1..n |-> aabb_center(bs[i])]
           X == {s[i] : i \in 1..n}
           W == {4, 1}
           widths == <<4>>
           all == Append(widths, 1)
           at == Starts(all, n)
           kernel(b, w) ==
               IF w = 4 THEN aabb_center4_neon(Block(bs, b, 4)) ELSE <<aabb_center(bs[b + 1])>>
           blocks == [j \in 1..Len(all) |-> [k \in 1..(n - at[j - 1]) \div all[j] |->
                        kernel(at[j - 1] + all[j] * (k - 1), all[j])]]
<1>1. n \in Nat /\ s \in Seq(X) /\ Len(s) = n
    <2>1. n \in Nat
        OBVIOUS
    <2> HIDE DEF n
    <2>2. s = [i \in 1..n |-> s[i]]
        OBVIOUS
    <2> HIDE DEF s
    <2> QED  BY <2>1, <2>2, ElementsOf
<1>2. Widths(widths, W)
    BY WidthsUsed
<1>3. ASSUME NEW b \in Nat, NEW w \in W, b + w <= n
      PROVE  kernel(b, w) = SubSeq(s, b + 1, b + w)
    <2> DEFINE p == Block(bs, b, w)
    <2>1. /\ w \in Nat /\ \A i \in 1..w : b + i \in 1..n
          /\ SubSeq(s, b + 1, b + w) = [i \in 1..w |-> s[b + i]]
        <3>1. w \in Nat /\ b + w <= Len(s)
            BY <1>1, <1>3
        <3> HIDE DEF s, X, W, n
        <3> QED  BY <1>1, <3>1, PartIs
    <2>2. p = [i \in 1..w |-> bs[b + i]]
        <3>1. b + w <= Len(bs)
            BY <1>3
        <3> QED  BY <2>1, <3>1, PartIs DEF Block
    <2> HIDE DEF p
    <2>3. ASSUME NEW i \in 1..w
          PROVE  p[i] \in Boxes6 /\ s[b + i] = aabb_center(p[i])
        <3>1. b + i \in 1..n /\ p[i] = bs[b + i]
            BY <2>1, <2>2
        <3>2. bs[b + i] \in Boxes6
            BY <3>1
        <3>3. s[b + i] = aabb_center(bs[b + i])
            BY <3>1
        <3> QED  BY <3>1, <3>2, <3>3
    <2> HIDE DEF s
    <2>4. SubSeq(s, b + 1, b + w) = [i \in 1..w |-> aabb_center(p[i])]
        BY <2>1, <2>3
    <2>5. CASE w = 4
        <3>1. kernel(b, w) = aabb_center4_neon(p)
            BY <2>5 DEF p
        <3>2. \A i \in 1..4 : p[i] \in Boxes6
            BY <2>3, <2>5
        <3> HIDE DEF kernel
        <3>3. aabb_center4_neon(p) = [i \in 1..4 |-> aabb_center(p[i])]
            BY <3>2, FourCenters DEF Boxes6
        <3> QED  BY <2>4, <2>5, <3>1, <3>3
    <2>6. CASE w = 1
        <3>1. w # 4 /\ 1 \in 1..w
            BY <2>6
        <3>2. kernel(b, w) = <<aabb_center(bs[b + 1])>>
            BY <3>1
        <3>3. kernel(b, w) = <<aabb_center(p[1])>>
            <4> HIDE DEF kernel
            <4> QED  BY <2>2, <3>1, <3>2
        <3>4. SubSeq(s, b + 1, b + w) = [i \in 1..1 |-> aabb_center(p[1])]
            BY <2>4, <2>6
        <3> HIDE DEF kernel
        <3> QED  BY <3>3, <3>4, OneElement
    <2> QED  BY <2>5, <2>6
<1>4. BlocksRight(blocks, widths, W, s)
    <2> HIDE DEF s, kernel, W, widths
    <2> QED  BY <1>1, <1>3 DEF BlocksRight
<1>5. neon_aabb_center_batch(bs) = FlattenSeq([j \in 1..Len(all) |-> FlattenSeq(blocks[j])])
    BY DEF neon_aabb_center_batch, Batch
<1> HIDE DEF s, X, W, widths, blocks
<1>6. FlattenSeq([j \in 1..Len(Append(widths, 1)) |-> FlattenSeq(blocks[j])]) = s
    BY <1>1, <1>2, <1>4, BlocksMakeBatch
<1> QED  BY <1>5, <1>6 DEF s

LEMMA StandaloneCenters ==
    ASSUME NEW bs \in Seq(Boxes6)
    PROVE  standalone_aabb_center_batch(bs) = [i \in 1..Len(bs) |-> aabb_center(bs[i])]
<1> DEFINE n == Len(bs)
           s == [i \in 1..n |-> aabb_center(bs[i])]
           X == {s[i] : i \in 1..n}
           W == {4, 1}
           widths == <<4>>
           all == Append(widths, 1)
           at == Starts(all, n)
           kernel(b, w) ==
               IF w = 4 THEN standalone_aabb_center4_sse2(Block(bs, b, 4)) ELSE <<aabb_center(bs[b + 1])>>
           blocks == [j \in 1..Len(all) |-> [k \in 1..(n - at[j - 1]) \div all[j] |->
                        kernel(at[j - 1] + all[j] * (k - 1), all[j])]]
<1>1. n \in Nat /\ s \in Seq(X) /\ Len(s) = n
    <2>1. n \in Nat
        OBVIOUS
    <2> HIDE DEF n
    <2>2. s = [i \in 1..n |-> s[i]]
        OBVIOUS
    <2> HIDE DEF s
    <2> QED  BY <2>1, <2>2, ElementsOf
<1>2. Widths(widths, W)
    BY WidthsUsed
<1>3. ASSUME NEW b \in Nat, NEW w \in W, b + w <= n
      PROVE  kernel(b, w) = SubSeq(s, b + 1, b + w)
    <2> DEFINE p == Block(bs, b, w)
    <2>1. /\ w \in Nat /\ \A i \in 1..w : b + i \in 1..n
          /\ SubSeq(s, b + 1, b + w) = [i \in 1..w |-> s[b + i]]
        <3>1. w \in Nat /\ b + w <= Len(s)
            BY <1>1, <1>3
        <3> HIDE DEF s, X, W, n
        <3> QED  BY <1>1, <3>1, PartIs
    <2>2. p = [i \in 1..w |-> bs[b + i]]
        <3>1. b + w <= Len(bs)
            BY <1>3
        <3> QED  BY <2>1, <3>1, PartIs DEF Block
    <2> HIDE DEF p
    <2>3. ASSUME NEW i \in 1..w
          PROVE  p[i] \in Boxes6 /\ s[b + i] = aabb_center(p[i])
        <3>1. b + i \in 1..n /\ p[i] = bs[b + i]
            BY <2>1, <2>2
        <3>2. bs[b + i] \in Boxes6
            BY <3>1
        <3>3. s[b + i] = aabb_center(bs[b + i])
            BY <3>1
        <3> QED  BY <3>1, <3>2, <3>3
    <2> HIDE DEF s
    <2>4. SubSeq(s, b + 1, b + w) = [i \in 1..w |-> aabb_center(p[i])]
        BY <2>1, <2>3
    <2>5. CASE w = 4
        <3>1. kernel(b, w) = standalone_aabb_center4_sse2(p)
            BY <2>5 DEF p
        <3>2. \A i \in 1..4 : p[i] \in Boxes6
            BY <2>3, <2>5
        <3> HIDE DEF kernel
        <3>3. standalone_aabb_center4_sse2(p) = [i \in 1..4 |-> aabb_center(p[i])]
            BY <3>2, FourCenters DEF Boxes6
        <3> QED  BY <2>4, <2>5, <3>1, <3>3
    <2>6. CASE w = 1
        <3>1. w # 4 /\ 1 \in 1..w
            BY <2>6
        <3>2. kernel(b, w) = <<aabb_center(bs[b + 1])>>
            BY <3>1
        <3>3. kernel(b, w) = <<aabb_center(p[1])>>
            <4> HIDE DEF kernel
            <4> QED  BY <2>2, <3>1, <3>2
        <3>4. SubSeq(s, b + 1, b + w) = [i \in 1..1 |-> aabb_center(p[1])]
            BY <2>4, <2>6
        <3> HIDE DEF kernel
        <3> QED  BY <3>3, <3>4, OneElement
    <2> QED  BY <2>5, <2>6
<1>4. BlocksRight(blocks, widths, W, s)
    <2> HIDE DEF s, kernel, W, widths
    <2> QED  BY <1>1, <1>3 DEF BlocksRight
<1>5. standalone_aabb_center_batch(bs) = FlattenSeq([j \in 1..Len(all) |-> FlattenSeq(blocks[j])])
    BY DEF standalone_aabb_center_batch, Batch
<1> HIDE DEF s, X, W, widths, blocks
<1>6. FlattenSeq([j \in 1..Len(Append(widths, 1)) |-> FlattenSeq(blocks[j])]) = s
    BY <1>1, <1>2, <1>4, BlocksMakeBatch
<1> QED  BY <1>5, <1>6 DEF s

(* The blocks of compute_center are its positions, in order.             *)
LEMMA PositionsTaken ==
    ASSUME NEW X, NEW vs \in Seq(X)
    PROVE  Batch(<<4>>, Len(vs), LAMBDA at, w : Block(vs, at, w)) = vs
<1> DEFINE n == Len(vs)
           W == {4, 1}
           widths == <<4>>
           all == Append(widths, 1)
           at == Starts(all, n)
           blocks == [j \in 1..Len(all) |-> [k \in 1..(n - at[j - 1]) \div all[j] |->
                        Block(vs, at[j - 1] + all[j] * (k - 1), all[j])]]
<1>1. Widths(widths, W)
    BY WidthsUsed
<1>2. BlocksRight(blocks, widths, W, vs)
    BY DEF BlocksRight, Block
<1>3. Batch(<<4>>, n, LAMBDA b, w : Block(vs, b, w)) = FlattenSeq([j \in 1..Len(all) |-> FlattenSeq(blocks[j])])
    BY DEF Batch
<1> HIDE DEF W, widths, blocks
<1>4. FlattenSeq([j \in 1..Len(Append(widths, 1)) |-> FlattenSeq(blocks[j])]) = vs
    BY <1>1, <1>2, BlocksMakeBatch
<1> QED  BY <1>3, <1>4

(* A sum of vectors is a vector, component by component.                 *)
LEMMA PlusType ==
    ASSUME NEW t \in Triples3, NEW u \in Triples3, NEW axis \in 1..3
    PROVE  plus(t, u) \in Triples3 /\ plus(t, u)[axis] = t[axis] + u[axis]
<1> DEFINE f == plus(t, u)
<1>1. /\ t[1] \in Int /\ t[2] \in Int /\ t[3] \in Int
      /\ u[1] \in Int /\ u[2] \in Int /\ u[3] \in Int
    BY DEF Triples3
<1>2. f = [i \in 1..3 |-> t[i] + u[i]]
    BY DEF plus
<1> HIDE DEF f
<1>3. f[1] = t[1] + u[1] /\ f[2] = t[2] + u[2] /\ f[3] = t[3] + u[3]
    BY <1>2
<1>4. f = <<f[1], f[2], f[3]>>
    BY <1>2, TripleIs
<1>5. f[1] \in Int /\ f[2] \in Int /\ f[3] \in Int
    BY <1>1, <1>3
<1>6. f \in Triples3
    BY <1>4, <1>5 DEF Triples3
<1> QED  BY <1>2, <1>6 DEF f

(* A sum taken component by component is the sum of every component.     *)
LEMMA CenterIsTotal ==
    ASSUME NEW vs \in Seq(Triples3), NEW axis \in 1..3
    PROVE  center_sum(vs)[axis] = Total(vs, axis)
<1> DEFINE N == Len(vs)
           sum[k \in 0..Len(vs)] == IF k = 0 THEN <<0, 0, 0>> ELSE plus(sum[k - 1], vs[k])
           body(f) == [k \in 0..N |-> IF k = 0 THEN <<0, 0, 0>> ELSE plus(f[k - 1], vs[k])]
           part[k \in 0..Len(vs)] == IF k = 0 THEN 0 ELSE part[k - 1] + vs[k][axis]
           partBody(f) == [k \in 0..N |-> IF k = 0 THEN 0 ELSE f[k - 1] + vs[k][axis]]
           next == [k \in 1..N |-> [t \in Triples3 |-> plus(t, vs[k])]]
           first == <<0, 0, 0>>
<1>1. N \in Nat /\ \A k \in 1..N : vs[k] \in Triples3
    OBVIOUS
<1>2. center_sum(vs) = sum[N]
    BY PositionsTaken DEF center_sum
<1>3. Total(vs, axis) = part[N]
    BY DEF Total
<1>4. sum = CHOOSE f : f = body(f)
    OBVIOUS
<1>5. part = CHOOSE f : f = partBody(f)
    OBVIOUS
<1> HIDE DEF sum, part, N
<1>6. \A t, u \in Triples3 : plus(t, u) \in Triples3 /\ plus(t, u)[axis] = t[axis] + u[axis]
    BY PlusType
<1>7. first \in Triples3 /\ first[axis] = 0
    BY DEF Triples3
<1>8. next \in [1..N -> [Triples3 -> Triples3]]
    BY <1>1, <1>6
<1> HIDE DEF next, first
<1>9. PICK f \in [0..N -> Triples3] : f[0] = first /\ \A k \in 1..N : f[k] = next[k][f[k - 1]]
    <2> HIDE DEF body, partBody
    <2>1. \E f \in [0..N -> Triples3] : Follows(f, N, first, next)
        BY <1>1, <1>7, <1>8, Recursion
    <2> QED  BY <2>1 DEF Follows
<1>10. ASSUME NEW k \in 1..N
       PROVE  f[k] = plus(f[k - 1], vs[k]) /\ f[k - 1] \in Triples3
    <2>1. k - 1 \in 0..N /\ f[k - 1] \in Triples3
        BY <1>1
    <2>2. next[k] = [t \in Triples3 |-> plus(t, vs[k])]
        BY DEF next
    <2> QED  BY <1>9, <2>1, <2>2
<1>11. \A k \in 0..N : k = 0 \/ (k \in 1..N /\ k # 0)
    BY <1>1
<1>12. f = body(f)
    <2>1. f = [k \in 0..N |-> f[k]]
        OBVIOUS
    <2>2. \A k \in 0..N : f[k] = IF k = 0 THEN <<0, 0, 0>> ELSE plus(f[k - 1], vs[k])
        BY <1>9, <1>10, <1>11 DEF first
    <2> QED  BY <2>1, <2>2
<1>13. sum = body(sum)
    <2> HIDE DEF body
    <2> QED  BY <1>4, <1>12
<1> DEFINE g == [k \in 0..N |-> f[k][axis]]
<1>14. g = partBody(g)
    <2>1. \A k \in 1..N : g[k] = g[k - 1] + vs[k][axis]
        <3> SUFFICES ASSUME NEW k \in 1..N
                     PROVE  g[k] = g[k - 1] + vs[k][axis]
            OBVIOUS
        <3>1. k - 1 \in 0..N /\ k \in 0..N /\ vs[k] \in Triples3
            BY <1>1
        <3>2. f[k][axis] = f[k - 1][axis] + vs[k][axis]
            BY <1>6, <1>10, <3>1
        <3> QED  BY <3>1, <3>2
    <2>2. g[0] = 0 /\ g = [k \in 0..N |-> g[k]]
        <3>1. 0 \in 0..N
            BY <1>1
        <3> QED  BY <1>7, <1>9, <3>1
    <2> HIDE DEF g
    <2>3. \A k \in 0..N : g[k] = IF k = 0 THEN 0 ELSE g[k - 1] + vs[k][axis]
        BY <1>11, <2>1, <2>2
    <2> QED  BY <2>2, <2>3
<1>15. part = partBody(part)
    <2> HIDE DEF partBody, g
    <2> QED  BY <1>5, <1>14
<1>16. \A k \in 0..N : sum[k] = IF k = 0 THEN <<0, 0, 0>> ELSE plus(sum[k - 1], vs[k])
    <2> DEFINE value(k) == IF k = 0 THEN <<0, 0, 0>> ELSE plus(sum[k - 1], vs[k])
    <2>1. sum = [k \in 0..N |-> value(k)]
        BY <1>13
    <2> HIDE DEF value
    <2>2. \A k \in 0..N : sum[k] = value(k)
        BY <2>1
    <2> QED  BY <2>2 DEF value
<1>17. \A k \in 0..N : part[k] = IF k = 0 THEN 0 ELSE part[k - 1] + vs[k][axis]
    <2> DEFINE value(k) == IF k = 0 THEN 0 ELSE part[k - 1] + vs[k][axis]
    <2>1. part = [k \in 0..N |-> value(k)]
        BY <1>15
    <2> HIDE DEF value
    <2>2. \A k \in 0..N : part[k] = value(k)
        BY <2>1
    <2> QED  BY <2>2 DEF value
<1> HIDE DEF body, partBody
<1> DEFINE S == {k \in 0..N : sum[k] = f[k] /\ part[k] = f[k][axis]}
<1>18. 0 \in S
    <2>1. 0 \in 0..N
        BY <1>1
    <2>2. sum[0] = first /\ part[0] = 0
        BY <1>16, <1>17, <2>1 DEF first
    <2> QED  BY <1>7, <1>9, <2>1, <2>2
<1>19. ASSUME NEW k \in 0..N - 1, k \in S
       PROVE  k + 1 \in S
    <2>1. k + 1 \in 1..N /\ k + 1 \in 0..N /\ (k + 1) - 1 = k /\ k + 1 # 0
        BY <1>1
    <2>2. sum[k + 1] = plus(sum[k], vs[k + 1]) /\ part[k + 1] = part[k] + vs[k + 1][axis]
        BY <1>16, <1>17, <2>1
    <2>3. f[k + 1] = plus(f[k], vs[k + 1]) /\ f[k] \in Triples3 /\ vs[k + 1] \in Triples3
        BY <1>1, <1>10, <2>1
    <2>4. f[k + 1][axis] = f[k][axis] + vs[k + 1][axis]
        BY <1>6, <2>3
    <2> QED  BY <1>19, <2>1, <2>2, <2>3, <2>4
<1>20. N \in S
    <2> HIDE DEF S, g
    <2>1. 0..N \subseteq S
        BY <1>1, <1>18, <1>19, UpTo
    <2> QED  BY <1>1, <2>1
<1> QED  BY <1>2, <1>3, <1>20

(* The operands made of a slice.                                         *)
LEMMA Operands ==
    ASSUME slice \in Seq(Triples3)
    PROVE  /\ Others \in Seq(Triples3) /\ Len(Others) = Len(slice)
           /\ Masks \in Seq(Triples3) /\ Len(Masks) = Len(slice)
           /\ Boxes \in Seq(Boxes6) /\ Len(Boxes) = Len(slice)
           /\ DOMAIN slice = 1..Len(slice)
<1> DEFINE n == Len(slice)
<1>1. n \in Nat /\ DOMAIN slice = 1..n /\ \A i \in 1..n : slice[i] \in Triples3
    OBVIOUS
<1> HIDE DEF n
<1>2. Others = [i \in 1..n |-> slice[(n - i) + 1]]
    BY DEF Others, Reverse, n
<1>3. \A i \in 1..n : (n - i) + 1 \in 1..n
    BY <1>1
<1>4. Others \in [1..n -> Triples3]
    BY <1>1, <1>2, <1>3
<1>5. Others \in Seq(Triples3) /\ Len(Others) = n
    BY <1>1, <1>4
<1>6. Masks \in [1..n -> Triples3]
    <2>1. <<1, 0, 2>> \in Triples3
        BY DEF Triples3
    <2>2. \A i \in 1..n : (IF i % 2 = 1 THEN <<1, 0, 2>> ELSE slice[i]) \in Triples3
        BY <1>1, <2>1
    <2>3. Masks = [i \in 1..n |-> IF i % 2 = 1 THEN <<1, 0, 2>> ELSE slice[i]]
        BY <1>1 DEF Masks
    <2> QED  BY <2>2, <2>3
<1>7. Masks \in Seq(Triples3) /\ Len(Masks) = n
    BY <1>1, <1>6
<1>8. ASSUME NEW v \in Triples3
      PROVE  v \in Seq(Int) /\ Len(v) = 3
    <2>1. v = <<v[1], v[2], v[3]>> /\ v[1] \in Int /\ v[2] \in Int /\ v[3] \in Int
        BY DEF Triples3
    <2> DEFINE x == v[1]
               y == v[2]
               z == v[3]
    <2> HIDE DEF x, y, z
    <2>2. x \in Int /\ y \in Int /\ z \in Int /\ v = <<x, y, z>>
        BY <2>1 DEF x, y, z
    <2> QED  BY <2>2
<1>9. ASSUME NEW i \in 1..n
      PROVE  slice[i] \o Others[i] \in Boxes6
    <2> DEFINE p == slice[i]
               q == Others[i]
    <2>1. p \in Seq(Int) /\ q \in Seq(Int) /\ Len(p) = 3 /\ Len(q) = 3
        BY <1>1, <1>4, <1>8
    <2> HIDE DEF p, q
    <2>2. p \o q \in Seq(Int) /\ Joint(p, q)
        BY <2>1, Together
    <2>3. Len(p \o q) = 6
        BY <2>1, <2>2 DEF Joint
    <2> QED  BY <2>2, <2>3 DEF Boxes6, p, q
<1>10. Boxes \in [1..n -> Boxes6]
    <2>1. Boxes = [i \in 1..n |-> slice[i] \o Others[i]]
        BY <1>1 DEF Boxes
    <2> QED  BY <1>9, <2>1
<1>11. Boxes \in Seq(Boxes6) /\ Len(Boxes) = n
    BY <1>1, <1>10
<1> QED  BY <1>1, <1>5, <1>7, <1>11 DEF n

LEMMA BatchesDoAgree ==
    ASSUME slice \in Seq(Triples3)
    PROVE  BatchesAgree
<1> DEFINE n == Len(slice)
           normals == [i \in 1..n |-> normalize3(slice[i])]
           centers == [i \in 1..n |-> aabb_center(Boxes[i])]
           dots == [i \in 1..n |-> dot3(slice[i], Others[i])]
           mixes == [i \in 1..n |-> conditional_mix3(slice[i], Others[i], Masks[i])]
<1>1. /\ Others \in Seq(Triples3) /\ Len(Others) = n
      /\ Masks \in Seq(Triples3) /\ Len(Masks) = n
      /\ Boxes \in Seq(Boxes6) /\ Len(Boxes) = n
      /\ DOMAIN slice = 1..n /\ DOMAIN Boxes = 1..n
    <2>1. /\ Others \in Seq(Triples3) /\ Len(Others) = n
          /\ Masks \in Seq(Triples3) /\ Len(Masks) = n
          /\ Boxes \in Seq(Boxes6) /\ Len(Boxes) = n
          /\ DOMAIN slice = 1..n
        BY Operands
    <2>2. DOMAIN Boxes = 1..Len(Boxes)
        BY <2>1
    <2> QED  BY <2>1, <2>2
<1> HIDE DEF n
<1>2. ASSUME NEW level \in SimdLevel
      PROVE  /\ level # "NEON" => simd_normals_batch(level, slice) = normals
             /\ simd_aabb_center_batch(level, Boxes) = centers
             /\ simd_dot_batch(level, slice, Others) = dots
             /\ simd_conditional_mix_batch(level, slice, Others, Masks) = mixes
    <2>1. CASE OnX86(level)
        <3>1. x86_normals_batch(level, slice) = normals
            BY X86Normals DEF n
        <3>2. x86_aabb_center_batch(level, Boxes) = centers
            BY <1>1, X86Centers
        <3>3. x86_dot_batch(level, slice, Others) = dots
            BY <1>1, X86Dots DEF n
        <3>4. x86_conditional_mix_batch(level, slice, Others, Masks) = mixes
            BY <1>1, X86Mixes DEF n
        <3> HIDE DEF normals, centers, dots, mixes
        <3>0. OnX86(level) /\ level # "NEON"
            BY <2>1 DEF OnX86
        <3>5. simd_normals_batch(level, slice) = normals
            BY <3>0, <3>1 DEF simd_normals_batch
        <3>6. simd_aabb_center_batch(level, Boxes) = centers
            BY <3>0, <3>2 DEF simd_aabb_center_batch
        <3>7. simd_dot_batch(level, slice, Others) = dots
            BY <3>0, <3>3 DEF simd_dot_batch
        <3>8. simd_conditional_mix_batch(level, slice, Others, Masks) = mixes
            BY <3>0, <3>4 DEF simd_conditional_mix_batch
        <3> QED  BY <3>5, <3>6, <3>7, <3>8
    <2>2. CASE ~OnX86(level) /\ level = "NEON"
        <3>1. neon_aabb_center_batch(Boxes) = centers
            BY <1>1, NeonCenters
        <3>2. neon_dot_batch(slice, Others) = dots
            BY <1>1, NeonDots DEF n
        <3>3. neon_conditional_mix_batch(slice, Others, Masks) = mixes
            BY <1>1 DEF neon_conditional_mix_batch
        <3> HIDE DEF normals, centers, dots, mixes
        <3> QED  BY <2>2, <3>1, <3>2, <3>3
                 DEF simd_aabb_center_batch, simd_dot_batch, simd_conditional_mix_batch
    <2>3. CASE ~OnX86(level) /\ level # "NEON"
        <3>1. fallback_normals_batch(slice) = normals
            BY <1>1 DEF fallback_normals_batch
        <3>2. fallback_aabb_center_batch(Boxes) = centers
            BY <1>1 DEF fallback_aabb_center_batch
        <3>3. fallback_dot_batch(slice, Others) = dots
            BY <1>1 DEF fallback_dot_batch
        <3>4. fallback_conditional_mix_batch(slice, Others, Masks) = mixes
            BY <1>1 DEF fallback_conditional_mix_batch
        <3> HIDE DEF normals, centers, dots, mixes
        <3> QED  BY <2>3, <3>1, <3>2, <3>3, <3>4
                 DEF simd_normals_batch, simd_aabb_center_batch, simd_dot_batch, simd_conditional_mix_batch
    <2> QED  BY <2>1, <2>2, <2>3
<1>3. standalone_aabb_center_batch(Boxes) = centers
    BY <1>1, StandaloneCenters
<1>4. \A axis \in 1..3 : center_sum(slice)[axis] = Total(slice, axis)
    BY CenterIsTotal
<1> QED  BY <1>1, <1>2, <1>3, <1>4 DEF BatchesAgree

(* On every processor, for slices of any length, a batch of dot products, *)
(* centres, mixes or x86 normals is the scalar operation of each element, *)
(* and the centre of a mesh is the sum of its positions                  *)
(* (simd_normals_batch and its like, compute_center).                    *)
THEOREM BatchesAlwaysAgree == DataSpec => []BatchesAgree
<1> DEFINE SliceOK == slice \in Seq(Triples3)
<1>1. DataInit => SliceOK
    BY DEF DataInit, SliceInit
<1>2. SliceOK /\ [DataNext]_data => SliceOK'
    <2> SUFFICES ASSUME SliceOK, [DataNext]_data
                 PROVE  SliceOK'
        OBVIOUS
    <2>1. CASE SliceNext
        <3>1. PICK v \in Vectors : slice' = Append(slice, v)
            BY <2>1 DEF SliceNext
        <3>2. v \in Triples3
            BY VectorAssumption DEF Triples3
        <3> QED  BY <3>1, <3>2
    <2>2. CASE slice' = slice
        BY <2>2
    <2> QED  BY <2>1, <2>2 DEF DataNext, data
<1>3. SliceOK => BatchesAgree
    BY BatchesDoAgree
<1> HIDE DEF SliceOK
<1> QED  BY <1>1, <1>2, <1>3, PTL DEF DataSpec

---------------------------------------------------------------------------
(* Sprites.                                                              *)

(* What a sequence holds.                                                *)
HeldBy(s) == {s[k] : k \in 1..Len(s)}

LEMMA BothHeld ==
    ASSUME NEW X, NEW p \in Seq(X), NEW q \in Seq(X)
    PROVE  HeldBy(p \o q) = HeldBy(p) \cup HeldBy(q)
<1>1. Joint(p, q) /\ Len(p) \in Nat /\ Len(q) \in Nat
    BY Together
<1>2. ASSUME NEW k \in 1..Len(p \o q)
      PROVE  (p \o q)[k] \in HeldBy(p) \cup HeldBy(q)
    <2>1. CASE k <= Len(p)
        BY <1>1, <2>1 DEF Joint, HeldBy
    <2>2. CASE k > Len(p)
        <3>1. k - Len(p) \in 1..Len(q) /\ Len(p) + (k - Len(p)) = k
            BY <1>1, <2>2 DEF Joint
        <3>2. (p \o q)[k] = q[k - Len(p)]
            BY <1>1, <3>1 DEF Joint
        <3> QED  BY <3>1, <3>2 DEF HeldBy
    <2>3. k \in Int /\ Len(p) \in Int
        BY <1>1
    <2> QED  BY <2>1, <2>2, <2>3
<1>3. ASSUME NEW k \in 1..Len(p)
      PROVE  p[k] \in HeldBy(p \o q)
    <2>1. k \in 1..Len(p \o q) /\ (p \o q)[k] = p[k]
        BY <1>1 DEF Joint
    <2> QED  BY <2>1 DEF HeldBy
<1>4. ASSUME NEW k \in 1..Len(q)
      PROVE  q[k] \in HeldBy(p \o q)
    <2>1. Len(p) + k \in 1..Len(p \o q) /\ (p \o q)[Len(p) + k] = q[k]
        BY <1>1 DEF Joint
    <2> QED  BY <2>1 DEF HeldBy
<1>5. HeldBy(p \o q) \subseteq HeldBy(p) \cup HeldBy(q)
    BY <1>2 DEF HeldBy
<1>6. HeldBy(p) \subseteq HeldBy(p \o q)
    <2> DEFINE H == HeldBy(p \o q)
    <2>1. \A k \in 1..Len(p) : p[k] \in H
        BY <1>3
    <2> HIDE DEF H
    <2>2. HeldBy(p) \subseteq H
        BY <2>1 DEF HeldBy
    <2> QED  BY <2>2 DEF H
<1>7. HeldBy(q) \subseteq HeldBy(p \o q)
    <2> DEFINE H == HeldBy(p \o q)
    <2>1. \A k \in 1..Len(q) : q[k] \in H
        BY <1>4
    <2> HIDE DEF H
    <2>2. HeldBy(q) \subseteq H
        BY <2>1 DEF HeldBy
    <2> QED  BY <2>2 DEF H
<1> QED  BY <1>5, <1>6, <1>7

(* The pixels of a sequence that are in a set are those in both.         *)
LEMMA AmongHolds ==
    ASSUME NEW X, NEW s \in Seq(X), NEW chosen
    PROVE  Among(s, chosen) \in Seq(X) /\ HeldBy(Among(s, chosen)) = HeldBy(s) \cap chosen
<1> DEFINE N == Len(s)
           parts == [k \in DOMAIN s |-> IF s[k] \in chosen THEN <<s[k]>> ELSE << >>]
<1>1. N \in Nat /\ DOMAIN s = 1..N /\ \A k \in 1..N : s[k] \in X
    OBVIOUS
<1>2. /\ parts = [k \in 1..N |-> parts[k]] /\ parts \in Seq(Seq(X)) /\ Len(parts) = N
      /\ \A k \in 1..N : parts[k] \in Seq(X) /\ HeldBy(parts[k]) = {s[k]} \cap chosen
    <2> DEFINE Q == Seq(X)
    <2>1. ASSUME NEW k \in 1..N
          PROVE  parts[k] \in Q /\ HeldBy(parts[k]) = {s[k]} \cap chosen
        <3>1. CASE s[k] \in chosen
            <4>1. parts[k] = <<s[k]>> /\ s[k] \in X
                BY <1>1, <3>1
            <4>2. <<s[k]>> \in Q /\ Len(<<s[k]>>) = 1 /\ <<s[k]>>[1] = s[k]
                BY <4>1
            <4> HIDE DEF parts, Q
            <4>3. HeldBy(<<s[k]>>) = {s[k]}
                BY <4>2 DEF HeldBy
            <4> QED  BY <3>1, <4>1, <4>2, <4>3
        <3>2. CASE s[k] \notin chosen
            <4>1. parts[k] = << >>
                BY <1>1, <3>2
            <4>2. << >> \in Q /\ Len(<< >>) = 0
                OBVIOUS
            <4> HIDE DEF parts, Q
            <4>3. HeldBy(<< >>) = {}
                BY <4>2 DEF HeldBy
            <4> QED  BY <3>2, <4>1, <4>2, <4>3
        <3> QED  BY <3>1, <3>2
    <2>2. parts = [k \in 1..N |-> parts[k]]
        BY <1>1
    <2> HIDE DEF Q, parts
    <2>3. parts \in [1..N -> Q]
        BY <2>1, <2>2
    <2>4. parts \in Seq(Q) /\ Len(parts) = N
        BY <1>1, <2>3
    <2> QED  BY <2>1, <2>2, <2>4 DEF Q
<1>3. Among(s, chosen) = FlattenSeq(parts)
    BY DEF Among
<1>4. HeldBy(s) \cap chosen = UNION {HeldBy(parts[k]) : k \in 1..N}
    <2> HIDE DEF parts
    <2>1. \A x : x \in UNION {HeldBy(parts[k]) : k \in 1..N} <=> \E k \in 1..N : x \in {s[k]} \cap chosen
        BY <1>2
    <2> QED  BY <2>1 DEF HeldBy
<1> HIDE DEF parts
<1>5. CASE N = 0
    <2>1. FlattenSeq(parts) = parts /\ parts = << >>
        BY <1>2, <1>5 DEF FlattenSeq
    <2>2. << >> \in Seq(X) /\ HeldBy(<< >>) = {}
        BY DEF HeldBy
    <2>3. 1..N = {}
        BY <1>5
    <2>4. UNION {HeldBy(parts[k]) : k \in 1..N} = {}
        BY <2>3
    <2> QED  BY <1>3, <1>4, <2>1, <2>2, <2>4
<1>6. CASE N # 0
    <2> DEFINE body(f) == [i \in 1..N |-> IF i = 1 THEN parts[i] ELSE f[i - 1] \o parts[i]]
               flatten[i \in 1..Len(parts)] == IF i = 1 THEN parts[i] ELSE flatten[i - 1] \o parts[i]
    <2>1. FlattenSeq(parts) = flatten[N]
        BY <1>2, <1>6 DEF FlattenSeq
    <2>2. flatten = CHOOSE f : f = [i \in 1..Len(parts) |-> IF i = 1 THEN parts[i] ELSE f[i - 1] \o parts[i]]
        OBVIOUS
    <2>3. flatten = CHOOSE f : f = body(f)
        <3> HIDE DEF flatten
        <3> QED  BY <1>2, <2>2
    <2> HIDE DEF flatten
    <2>4. PICK g : g = body(g)
        <3> DEFINE next == [i \in 1..N |-> [x \in Seq(X) |-> x \o parts[i]]]
        <3>1. next \in [1..N -> [Seq(X) -> Seq(X)]]
            <4>1. \A i \in 1..N : \A x \in Seq(X) : x \o parts[i] \in Seq(X)
                BY <1>2
            <4> DEFINE Q == Seq(X)
            <4>2. \A i \in 1..N : \A x \in Q : x \o parts[i] \in Q
                BY <4>1
            <4> HIDE DEF Q
            <4>3. [i \in 1..N |-> [x \in Q |-> x \o parts[i]]] \in [1..N -> [Q -> Q]]
                BY <4>2
            <4> QED  BY <4>3 DEF Q
        <3>2. << >> \in Seq(X)
            OBVIOUS
        <3>3. PICK f \in [0..N -> Seq(X)] : Follows(f, N, << >>, next)
            <4> HIDE DEF next
            <4> QED  BY <1>1, <3>1, <3>2, Recursion
        <3> DEFINE g == [i \in 1..N |-> f[i]]
        <3>4. ASSUME NEW i \in 1..N
              PROVE  g[i] = IF i = 1 THEN parts[i] ELSE g[i - 1] \o parts[i]
            <4>1. f[i] = f[i - 1] \o parts[i]
                <5>1. i - 1 \in 0..N /\ f[i - 1] \in Seq(X)
                    <6>1. i - 1 \in 0..N
                        BY <1>1
                    <6> HIDE DEF next
                    <6> QED  BY <3>3, <6>1
                <5>2. f[i] = next[i][f[i - 1]]
                    <6> HIDE DEF next
                    <6> QED  BY <3>3 DEF Follows
                <5> QED  BY <5>1, <5>2
            <4>2. CASE i = 1
                <5>1. f[i - 1] = << >>
                    <6>1. i - 1 = 0
                        BY <4>2
                    <6> HIDE DEF next
                    <6> QED  BY <3>3, <6>1 DEF Follows
                <5>2. << >> \o parts[i] = parts[i]
                    BY <1>2
                <5> QED  BY <4>1, <4>2, <5>1, <5>2
            <4>3. CASE i # 1
                <5>1. i - 1 \in 1..N
                    BY <4>3
                <5> QED  BY <4>1, <4>3, <5>1
            <4> QED  BY <4>2, <4>3
        <3>5. g = [i \in 1..N |-> g[i]]
            OBVIOUS
        <3> HIDE DEF g
        <3>6. g = body(g)
            BY <3>4, <3>5
        <3> HIDE DEF body
        <3> QED  BY <3>6
    <2>5. flatten = body(flatten)
        <3> HIDE DEF body
        <3> QED  BY <2>3, <2>4
    <2> DEFINE upto(i) == UNION {HeldBy(parts[k]) : k \in 1..i}
               S == {i \in 0..N : i = 0 \/ (flatten[i] \in Seq(X) /\ HeldBy(flatten[i]) = upto(i))}
    <2>6. 0 \in S
        BY <1>1
    <2>7. ASSUME NEW i \in 0..N - 1, i \in S
          PROVE  i + 1 \in S
        <3> DEFINE j == i + 1
        <3>1. j \in 1..N /\ j - 1 = i /\ i \in Nat
            BY <1>1
        <3>2. flatten[j] = IF j = 1 THEN parts[j] ELSE flatten[j - 1] \o parts[j]
            <4> HIDE DEF j
            <4> QED  BY <2>5, <3>1
        <3>3. CASE i = 0
            <4>1. j = 1 /\ flatten[j] = parts[j]
                BY <3>2, <3>3
            <4>2. 1..j = {j}
                BY <4>1
            <4> HIDE DEF j
            <4>3. upto(j) = HeldBy(parts[j])
                BY <4>2
            <4>4. j \in S
                <5> HIDE DEF upto
                <5> QED  BY <1>2, <3>1, <4>1, <4>3
            <4> QED  BY <4>4 DEF j
        <3>4. CASE i # 0
            <4>1. flatten[j] = flatten[i] \o parts[j] /\ flatten[i] \in Seq(X) /\ HeldBy(flatten[i]) = upto(i)
                <5>1. j # 1
                    BY <3>1, <3>4
                <5>2. flatten[j] = flatten[i] \o parts[j]
                    <6> HIDE DEF j
                    <6> QED  BY <3>1, <3>2, <5>1
                <5> HIDE DEF upto, j
                <5>3. flatten[i] \in Seq(X) /\ HeldBy(flatten[i]) = upto(i)
                    BY <2>7, <3>4
                <5> QED  BY <5>2, <5>3
            <4>2. \A k : k \in 1..j <=> k \in 1..i \/ k = j
                BY <3>1
            <4> HIDE DEF j
            <4>3. upto(j) = upto(i) \cup HeldBy(parts[j])
                BY <4>2
            <4> HIDE DEF upto
            <4>4. flatten[i] \o parts[j] \in Seq(X)
                BY <1>2, <3>1, <4>1, Together
            <4>5. HeldBy(flatten[i] \o parts[j]) = HeldBy(flatten[i]) \cup HeldBy(parts[j])
                BY <1>2, <3>1, <4>1, BothHeld
            <4>6. j \in 0..N /\ flatten[j] \in Seq(X) /\ HeldBy(flatten[j]) = upto(j)
                <5>1. j \in 0..N
                    BY <1>1, <3>1
                <5>2. flatten[j] \in Seq(X)
                    BY <4>1, <4>4
                <5>3. HeldBy(flatten[j]) = upto(j)
                    BY <4>1, <4>3, <4>5
                <5> QED  BY <5>1, <5>2, <5>3
            <4>7. j \in S
                BY <4>6
            <4> QED  BY <4>7 DEF j
        <3> QED  BY <3>3, <3>4
    <2>8. N \in S
        <3> HIDE DEF S
        <3>1. 0..N \subseteq S
            BY <1>1, <2>6, <2>7, UpTo
        <3> QED  BY <1>1, <3>1
    <2> QED  BY <1>3, <1>4, <1>6, <2>1, <2>8
<1> QED  BY <1>5, <1>6

(* A function over the numbers up to n is a sequence.                    *)
LEMMA FunctionIsSeq ==
    ASSUME NEW X, NEW n \in Nat, NEW f \in [1..n -> X]
    PROVE  f \in Seq(X) /\ Len(f) = n
OBVIOUS

(* The rows of a rectangle, one after the other, hold every pixel.       *)
LEMMA RowsHold ==
    ASSUME NEW w \in Nat \ {0}, NEW h \in Nat \ {0},
           NEW rows, rows = [k \in 1..w * h |-> <<(k - 1) % w, (k - 1) \div w>>]
    PROVE  /\ rows \in Seq((0..w - 1) \X (0..h - 1))
           /\ HeldBy(rows) = (0..w - 1) \X (0..h - 1)
<1> DEFINE P == (0..w - 1) \X (0..h - 1)
<1>1. ASSUME NEW k \in 1..w * h
      PROVE  rows[k] \in P
    <2> DEFINE a == k - 1
               q == a \div w
               r == a % w
    <2>1. a \in Int /\ a >= 0 /\ a < w * h /\ w * h \in Nat
        OBVIOUS
    <2> HIDE DEF a
    <2>2. q \in Int /\ r \in 0..w - 1 /\ a = w * q + r
        BY <2>1, Divided
    <2> HIDE DEF q, r
    <2> DEFINE m == w * q
               n == w * h
    <2>3. m \in Int /\ n \in Int /\ a = m + r /\ a < n
        BY <2>1, <2>2
    <2>4. ~ q < 0 /\ ~ q >= h
        <3>1. q < 0 => m <= -w
            <4>1. q < 0 => w * q <= w * (-1)
                BY <2>2
            <4>2. w * (-1) = -w
                OBVIOUS
            <4> QED  BY <4>1, <4>2
        <3>2. q >= h => m >= n
            BY <2>2
        <3> HIDE DEF m, n
        <3>3. r >= 0 /\ r < w /\ r \in Int
            BY <2>2
        <3> QED  BY <2>1, <2>3, <3>1, <3>2, <3>3
    <2>5. q \in 0..h - 1
        BY <2>2, <2>4
    <2>6. rows[k] = <<r, q>>
        BY DEF q, r, a
    <2> QED  BY <2>2, <2>5, <2>6
<1>2. w * h \in Nat
    OBVIOUS
<1>3. rows \in Seq(P) /\ Len(rows) = w * h
    <2> DEFINE n == w * h
    <2> HIDE DEF P, n
    <2>1. rows = [k \in 1..n |-> rows[k]]
        BY DEF n
    <2>2. rows \in [1..n -> P] /\ n \in Nat
        BY <1>1, <1>2, <2>1 DEF n
    <2>3. rows \in Seq(P) /\ Len(rows) = n
        BY <2>2, FunctionIsSeq
    <2> QED  BY <2>3 DEF n
<1>4. ASSUME NEW x \in 0..w - 1, NEW y \in 0..h - 1
      PROVE  <<x, y>> \in HeldBy(rows)
    <2> DEFINE a == w * y + x
               k == a + 1
    <2>1. a \in Nat /\ a < w * h
        <3> DEFINE m == w * y
                   n == w * h
        <3>1. m <= n - w
            <4>1. w * y <= w * (h - 1)
                OBVIOUS
            <4>2. w * (h - 1) = w * h - w
                OBVIOUS
            <4> QED  BY <4>1, <4>2
        <3>2. m \in Nat /\ n \in Nat
            OBVIOUS
        <3> HIDE DEF m, n
        <3>3. m + x \in Nat /\ m + x < n
            BY <3>1, <3>2
        <3> QED  BY <3>3 DEF m, n
    <2>2. a \div w = y /\ a % w = x
        <3>1. a = w * y + x /\ a \in Int /\ y \in Int
            BY <2>1
        <3> HIDE DEF a
        <3> QED  BY <3>1, DividedOnce
    <2> HIDE DEF a
    <2>3. k \in 1..w * h /\ k - 1 = a
        BY <1>2, <2>1
    <2> HIDE DEF k
    <2>4. rows[k] = <<x, y>>
        BY <2>2, <2>3
    <2>5. k \in 1..Len(rows)
        BY <1>3, <2>3
    <2> QED  BY <2>4, <2>5 DEF HeldBy
<1>5. HeldBy(rows) = P
    <2>1. HeldBy(rows) \subseteq P
        <3>1. \A k \in 1..Len(rows) : rows[k] \in P
            BY <1>1, <1>3
        <3> HIDE DEF P
        <3> QED  BY <3>1 DEF HeldBy
    <2>2. ASSUME NEW p \in P
          PROVE  p \in HeldBy(rows)
        <3>1. PICK x \in 0..w - 1, y \in 0..h - 1 : p = <<x, y>>
            OBVIOUS
        <3>2. <<x, y>> \in HeldBy(rows)
            BY <1>4
        <3> QED  BY <3>1, <3>2
    <2> HIDE DEF P
    <2> QED  BY <2>1, <2>2
<1> QED  BY <1>3, <1>5

(* The search starts from pixels of the image, from some, and from every *)
(* transparent one.                                                      *)
LEMMA SeedsAre ==
    ASSUME NEW picture
    PROVE  /\ SeedOrder(picture) \in Seq(Pixels)
           /\ Seeds(picture) = HeldBy(SeedOrder(picture))
           /\ Seeds(picture) \subseteq Pixels /\ Seeds(picture) # {}
           /\ \A p \in Pixels : ~ Opaque(picture, p) => p \in Seeds(picture)
<1> DEFINE inRows == [k \in 1..width * height |-> <<(k - 1) % width, (k - 1) \div width>>]
           columns == [k \in 1..2 * height |-> <<IF k % 2 = 1 THEN 0 ELSE width - 1, (k - 1) \div 2>>]
           lines == IF height = 1 THEN 1 ELSE 2
           rows == [k \in 1..lines * width |-> <<(k - 1) \div lines, ((k - 1) % lines) * (height - 1)>>]
           clear == {p \in Pixels : ~ Opaque(picture, p)}
           air == Among(inRows, clear)
           edges == columns \o Among(rows, (1..width - 2) \X (0..height - 1))
<1>1. SeedOrder(picture) = IF air # << >> THEN air ELSE edges
    BY DEF SeedOrder
<1>2. width \in Nat \ {0} /\ height \in Nat \ {0}
    BY SpriteAssumption
<1>3. inRows \in Seq(Pixels) /\ HeldBy(inRows) = Pixels
    BY <1>2, RowsHold DEF Pixels
<1>4. columns \in Seq(Pixels) /\ columns # << >>
    <2> DEFINE n == 2 * height
    <2>1. n \in Nat /\ n # 0
        BY <1>2
    <2>2. ASSUME NEW k \in 1..n
          PROVE  columns[k] \in Pixels
        <3>1. (k - 1) \div 2 \in 0..height - 1
            BY <1>2
        <3>2. (IF k % 2 = 1 THEN 0 ELSE width - 1) \in 0..width - 1
            BY <1>2
        <3>3. columns[k] = <<IF k % 2 = 1 THEN 0 ELSE width - 1, (k - 1) \div 2>>
            OBVIOUS
        <3> QED  BY <3>1, <3>2, <3>3 DEF Pixels
    <2>3. columns = [k \in 1..n |-> columns[k]]
        OBVIOUS
    <2> HIDE DEF columns, n
    <2>4. columns \in [1..n -> Pixels]
        BY <2>2, <2>3
    <2>5. columns \in Seq(Pixels) /\ Len(columns) = n
        BY <2>1, <2>4
    <2> QED  BY <2>1, <2>5
<1>5. rows \in Seq(Pixels)
    <2> DEFINE n == lines * width
    <2>1. n \in Nat
        BY <1>2
    <2>2. ASSUME NEW k \in 1..n
          PROVE  rows[k] \in Pixels
        <3>1. (k - 1) \div lines \in 0..width - 1
            <4>1. CASE height = 1
                <5>1. (k - 1) \div 1 = k - 1 /\ n = width
                    BY <1>2, <4>1
                <5> QED  BY <1>2, <4>1, <5>1
            <4>2. CASE height # 1
                <5>1. k \in 1..2 * width /\ lines = 2
                    BY <4>2
                <5>2. (k - 1) \div 2 \in 0..width - 1
                    BY <1>2, <5>1
                <5> QED  BY <5>1, <5>2
            <4> QED  BY <4>1, <4>2
        <3>2. ((k - 1) % lines) * (height - 1) \in 0..height - 1
            <4>1. CASE height = 1
                <5>1. (k - 1) % lines \in Int /\ height - 1 = 0
                    BY <4>1
                <5>2. ((k - 1) % lines) * 0 = 0
                    BY <5>1
                <5> QED  BY <4>1, <5>1, <5>2
            <4>2. CASE height # 1
                <5>1. (k - 1) % 2 = 0 \/ (k - 1) % 2 = 1
                    OBVIOUS
                <5>2. lines = 2
                    BY <4>2
                <5>3. 0 * (height - 1) = 0 /\ 1 * (height - 1) = height - 1
                    BY <1>2
                <5> QED  BY <1>2, <5>1, <5>2, <5>3
            <4> QED  BY <4>1, <4>2
        <3>3. rows[k] = <<(k - 1) \div lines, ((k - 1) % lines) * (height - 1)>>
            OBVIOUS
        <3> QED  BY <3>1, <3>2, <3>3 DEF Pixels
    <2>3. rows = [k \in 1..n |-> rows[k]]
        OBVIOUS
    <2> HIDE DEF rows, n
    <2>4. rows \in [1..n -> Pixels]
        BY <2>2, <2>3
    <2> QED  BY <2>1, <2>4
<1> HIDE DEF inRows, columns, rows, lines
<1>6. air \in Seq(Pixels) /\ HeldBy(air) = clear
    <2>1. clear \subseteq Pixels
        OBVIOUS
    <2> HIDE DEF clear
    <2>2. air \in Seq(Pixels) /\ HeldBy(air) = HeldBy(inRows) \cap clear
        BY <1>3, AmongHolds
    <2> QED  BY <1>3, <2>1, <2>2
<1>7. edges \in Seq(Pixels) /\ edges # << >>
    <2> DEFINE more == Among(rows, (1..width - 2) \X (0..height - 1))
    <2>1. more \in Seq(Pixels)
        BY <1>5, AmongHolds
    <2> HIDE DEF more
    <2>2. columns \o more \in Seq(Pixels) /\ columns \o more # << >>
        BY <1>4, <2>1
    <2> QED  BY <2>2 DEF more
<1> HIDE DEF edges, air
<1>8. SeedOrder(picture) \in Seq(Pixels) /\ SeedOrder(picture) # << >>
    BY <1>1, <1>6, <1>7
<1> DEFINE s == SeedOrder(picture)
<1>9. Seeds(picture) = HeldBy(s)
    <2>1. DOMAIN s = 1..Len(s)
        BY <1>8
    <2> QED  BY <2>1 DEF Seeds, HeldBy
<1>10. HeldBy(s) \subseteq Pixels /\ HeldBy(s) # {}
    <2> HIDE DEF s
    <2>1. s \in Seq(Pixels) /\ s # << >>
        BY <1>8 DEF s
    <2>2. 1 \in 1..Len(s) /\ \A k \in 1..Len(s) : s[k] \in Pixels
        BY <2>1
    <2> QED  BY <2>2 DEF HeldBy
<1>11. ASSUME NEW p \in Pixels, ~ Opaque(picture, p)
       PROVE  p \in HeldBy(s)
    <2>1. p \in HeldBy(air)
        BY <1>6, <1>11
    <2>2. air # << >>
        <3>1. HeldBy(<< >>) = {}
            BY DEF HeldBy
        <3> QED  BY <2>1, <3>1
    <2> QED  BY <1>1, <2>1, <2>2
<1> HIDE DEF s
<1>12. Seeds(picture) \subseteq Pixels /\ Seeds(picture) # {}
    BY <1>9, <1>10
<1>13. SeedOrder(picture) = s
    BY DEF s
<1> QED  BY <1>8, <1>9, <1>11, <1>12, <1>13

(* The four pixels that the search looks at are those a unit away.       *)
Beside(p, q) == (q[1] - p[1]) * (q[1] - p[1]) + (q[2] - p[2]) * (q[2] - p[2]) = 1

Around(p) == <<<<p[1] - 1, p[2]>>, <<p[1] + 1, p[2]>>, <<p[1], p[2] - 1>>, <<p[1], p[2] + 1>>>>

(* The sum of two squares is one if one of them is.                      *)
LEMMA OneApart ==
    ASSUME NEW d \in Int, NEW e \in Int
    PROVE  d * d + e * e = 1
             <=> \/ (d = 1 \/ d = -1) /\ e = 0
                 \/ (e = 1 \/ e = -1) /\ d = 0
<1>1. \A n \in Int : /\ n * n \in Int /\ n * n >= 0
                     /\ n >= 2 \/ n <= -2 => n * n >= 4
                     /\ n * n = 0 <=> n = 0
    <2> SUFFICES ASSUME NEW n \in Int
                 PROVE  /\ n * n \in Int /\ n * n >= 0
                        /\ n >= 2 \/ n <= -2 => n * n >= 4
                        /\ n * n = 0 <=> n = 0
        OBVIOUS
    <2>1. n >= 2 => n * n >= 2 * n
        OBVIOUS
    <2>2. n <= -2 => n * n >= (-2) * n
        <3>1. n <= -2 => (-n) * (-n) >= 2 * (-n)
            OBVIOUS
        <3>2. (-n) * (-n) = n * n /\ 2 * (-n) = (-2) * n
            OBVIOUS
        <3> QED  BY <3>1, <3>2
    <2>3. n = 0 => n * n = 0
        OBVIOUS
    <2>4. n = 1 => n * n = 1
        OBVIOUS
    <2>5. n = -1 => n * n = 1
        OBVIOUS
    <2> DEFINE m == n * n
    <2>6. m \in Int
        OBVIOUS
    <2> HIDE DEF m
    <2>7. n \in -1..1 \/ n >= 2 \/ n <= -2
        OBVIOUS
    <2>8. m >= 0 /\ (n >= 2 \/ n <= -2 => m >= 4) /\ (m = 0 <=> n = 0)
        <3>1. n >= 2 => m >= 2 * n
            BY <2>1 DEF m
        <3>2. n <= -2 => m >= (-2) * n
            BY <2>2 DEF m
        <3>3. (n = 0 => m = 0) /\ (n = 1 => m = 1) /\ (n = -1 => m = 1)
            BY <2>3, <2>4, <2>5 DEF m
        <3> QED  BY <2>6, <2>7, <3>1, <3>2, <3>3
    <2> QED  BY <2>6, <2>8 DEF m
<1>2. d \in -1..1 \/ d >= 2 \/ d <= -2
    OBVIOUS
<1>3. e \in -1..1 \/ e >= 2 \/ e <= -2
    OBVIOUS
<1>4. /\ (d = 1 \/ d = -1) => d * d = 1
      /\ (e = 1 \/ e = -1) => e * e = 1
    OBVIOUS
<1> DEFINE f == d * d
           g == e * e
<1>5. /\ f \in Int /\ f >= 0 /\ (d >= 2 \/ d <= -2 => f >= 4) /\ (f = 0 <=> d = 0)
      /\ (d = 1 \/ d = -1) => f = 1
    BY <1>1, <1>4
<1>6. /\ g \in Int /\ g >= 0 /\ (e >= 2 \/ e <= -2 => g >= 4) /\ (g = 0 <=> e = 0)
      /\ (e = 1 \/ e = -1) => g = 1
    BY <1>1, <1>4
<1> HIDE DEF f, g
<1>7. f + g = 1 <=> \/ (d = 1 \/ d = -1) /\ e = 0
                    \/ (e = 1 \/ e = -1) /\ d = 0
    BY <1>2, <1>3, <1>5, <1>6
<1> QED  BY <1>7 DEF f, g

(* Those of the four that are chosen wait, and no others.                *)
LEMMA AroundHolds ==
    ASSUME NEW p \in Pixels, NEW chosen, \A q \in chosen : q \in Pixels /\ Beside(p, q)
    PROVE  Among(Around(p), chosen) \in Seq(Pixels) /\ HeldBy(Among(Around(p), chosen)) = chosen
<1> DEFINE W == Int \X Int
           s == Around(p)
           a == Among(s, chosen)
<1>1. p[1] \in Int /\ p[2] \in Int
    BY SpriteAssumption DEF Pixels
<1>2. s \in Seq(W) /\ Len(s) = 4
      /\ s[1] = <<p[1] - 1, p[2]>> /\ s[2] = <<p[1] + 1, p[2]>>
      /\ s[3] = <<p[1], p[2] - 1>> /\ s[4] = <<p[1], p[2] + 1>>
    BY <1>1 DEF Around
<1> HIDE DEF s
<1>3. ASSUME NEW q \in chosen
      PROVE  q \in HeldBy(s)
    <2>1. q \in Pixels /\ Beside(p, q)
        OBVIOUS
    <2>2. q[1] \in Int /\ q[2] \in Int /\ q = <<q[1], q[2]>>
        BY <2>1, SpriteAssumption DEF Pixels
    <2> DEFINE d == q[1] - p[1]
               e == q[2] - p[2]
    <2>3. d \in Int /\ e \in Int /\ q[1] = p[1] + d /\ q[2] = p[2] + e /\ d * d + e * e = 1
        BY <1>1, <2>1, <2>2 DEF Beside
    <2> HIDE DEF d, e
    <2>4. \/ (d = 1 \/ d = -1) /\ e = 0
          \/ (e = 1 \/ e = -1) /\ d = 0
        BY <2>3, OneApart
    <2>5. \/ q[1] = p[1] - 1 /\ q[2] = p[2]
          \/ q[1] = p[1] + 1 /\ q[2] = p[2]
          \/ q[1] = p[1] /\ q[2] = p[2] - 1
          \/ q[1] = p[1] /\ q[2] = p[2] + 1
        <3> DEFINE x == p[1]
                   y == p[2]
                   u == q[1]
                   v == q[2]
        <3>1. x \in Int /\ y \in Int /\ d \in Int /\ e \in Int /\ u = x + d /\ v = y + e
            BY <1>1, <2>3
        <3> HIDE DEF x, y, u, v
        <3>2. \/ u = x - 1 /\ v = y
              \/ u = x + 1 /\ v = y
              \/ u = x /\ v = y - 1
              \/ u = x /\ v = y + 1
            BY <2>4, <3>1
        <3> QED  BY <3>2 DEF x, y, u, v
    <2>6. q = s[1] \/ q = s[2] \/ q = s[3] \/ q = s[4]
        BY <1>2, <2>2, <2>5
    <2>7. 1 \in 1..Len(s) /\ 2 \in 1..Len(s) /\ 3 \in 1..Len(s) /\ 4 \in 1..Len(s)
        BY <1>2
    <2>8. s[1] \in HeldBy(s) /\ s[2] \in HeldBy(s) /\ s[3] \in HeldBy(s) /\ s[4] \in HeldBy(s)
        BY <2>7 DEF HeldBy
    <2> QED  BY <2>6, <2>8
<1>4. a \in Seq(W) /\ HeldBy(a) = HeldBy(s) \cap chosen
    BY <1>2, AmongHolds
<1>5. HeldBy(a) = chosen
    BY <1>3, <1>4
<1> HIDE DEF a
<1>6. a \in Seq(Pixels)
    <2>1. a = [k \in 1..Len(a) |-> a[k]] /\ Len(a) \in Nat
        BY <1>4, OfElements
    <2>2. \A k \in 1..Len(a) : a[k] \in Pixels
        BY <1>5 DEF HeldBy
    <2>3. a \in [1..Len(a) -> Pixels]
        BY <2>1, <2>2
    <2> QED  BY <2>1, <2>3, FunctionIsSeq
<1> QED  BY <1>5, <1>6 DEF a, s

(* A step changes a Manhattan distance by one at most.                   *)
LEMMA StepBeside ==
    ASSUME NEW p \in Pixels, NEW q \in Pixels, NEW s \in Pixels, Beside(p, q)
    PROVE  Manhattan(q, s) <= Manhattan(p, s) + 1
<1> DEFINE d == q[1] - p[1]
           e == q[2] - p[2]
<1>1. /\ p[1] \in Int /\ p[2] \in Int /\ q[1] \in Int /\ q[2] \in Int
      /\ s[1] \in Int /\ s[2] \in Int
    BY SpriteAssumption DEF Pixels
<1>2. d \in Int /\ e \in Int /\ q[1] = p[1] + d /\ q[2] = p[2] + e /\ d * d + e * e = 1
    BY <1>1 DEF Beside
<1> HIDE DEF d, e
<1>3. \/ (d = 1 \/ d = -1) /\ e = 0
      \/ (e = 1 \/ e = -1) /\ d = 0
    BY <1>2, OneApart
<1> DEFINE x == p[1]
           y == p[2]
           u == s[1]
           v == s[2]
           away(a, b) == IF a >= b THEN a - b ELSE b - a
<1>4. /\ Manhattan(p, s) = away(x, u) + away(y, v)
      /\ Manhattan(q, s) = away(x + d, u) + away(y + e, v)
    BY <1>2 DEF Manhattan
<1>5. x \in Int /\ y \in Int /\ u \in Int /\ v \in Int
    BY <1>1
<1> HIDE DEF x, y, u, v
<1> QED  BY <1>2, <1>3, <1>4, <1>5

(* One of the steps towards a pixel shortens the distance to it.         *)
LEMMA StepTowards ==
    ASSUME NEW p \in Pixels, NEW s \in Pixels, Manhattan(p, s) # 0
    PROVE  \E q \in Pixels : Beside(q, p) /\ Manhattan(q, s) = Manhattan(p, s) - 1
<1> DEFINE x == p[1]
           y == p[2]
           u == s[1]
           v == s[2]
           q == IF x > u THEN <<x - 1, y>>
                ELSE IF x < u THEN <<x + 1, y>>
                ELSE IF y > v THEN <<x, y - 1>>
                ELSE <<x, y + 1>>
<1>1. x \in 0..width - 1 /\ y \in 0..height - 1 /\ u \in 0..width - 1 /\ v \in 0..height - 1
      /\ p = <<x, y>> /\ s = <<u, v>> /\ width \in Nat /\ height \in Nat
    BY SpriteAssumption DEF Pixels
<1>2. x # u \/ y # v
    BY <1>1 DEF Manhattan
<1>3. q[1] \in 0..width - 1 /\ q[2] \in 0..height - 1 /\ q = <<q[1], q[2]>>
      /\ \/ (x - q[1] = 1 \/ x - q[1] = -1) /\ y - q[2] = 0
         \/ (y - q[2] = 1 \/ y - q[2] = -1) /\ x - q[1] = 0
    <2> HIDE DEF x, y, u, v
    <2>1. CASE x > u
        BY <1>1, <2>1
    <2>2. CASE x < u
        BY <1>1, <2>2
    <2>3. CASE x = u /\ y > v
        BY <1>1, <2>3
    <2>4. CASE x = u /\ y < v
        BY <1>1, <2>4
    <2> QED  BY <1>1, <1>2, <2>1, <2>2, <2>3, <2>4
<1>4. Manhattan(q, s) = Manhattan(p, s) - 1
    <2> DEFINE away(a, b) == IF a >= b THEN a - b ELSE b - a
    <2>1. Manhattan(q, s) = away(q[1], u) + away(q[2], v) /\ Manhattan(p, s) = away(x, u) + away(y, v)
        BY DEF Manhattan
    <2> HIDE DEF x, y, u, v
    <2>2. CASE x > u
        <3>1. q[1] = x - 1 /\ q[2] = y
            BY <2>2
        <3> HIDE DEF q
        <3> QED  BY <1>1, <2>1, <2>2, <3>1
    <2>3. CASE x < u
        <3>1. q[1] = x + 1 /\ q[2] = y
            BY <1>1, <2>3
        <3> HIDE DEF q
        <3> QED  BY <1>1, <2>1, <2>3, <3>1
    <2>4. CASE x = u /\ y > v
        <3>1. q[1] = x /\ q[2] = y - 1
            BY <1>1, <2>4
        <3> HIDE DEF q
        <3> QED  BY <1>1, <2>1, <2>4, <3>1
    <2>5. CASE x = u /\ y < v
        <3>1. q[1] = x /\ q[2] = y + 1
            BY <1>1, <2>5
        <3> HIDE DEF q
        <3> QED  BY <1>1, <2>1, <2>5, <3>1
    <2> QED  BY <1>1, <1>2, <2>2, <2>3, <2>4, <2>5
<1>5. q \in Pixels
    <2> HIDE DEF q
    <2> QED  BY <1>3 DEF Pixels
<1>6. Beside(q, p)
    <2> HIDE DEF q
    <2>1. x - q[1] \in Int /\ y - q[2] \in Int
        BY <1>1, <1>3
    <2>2. (x - q[1]) * (x - q[1]) + (y - q[2]) * (y - q[2]) = 1
        BY <1>3, <2>1, OneApart
    <2> QED  BY <2>2 DEF Beside
<1> HIDE DEF q
<1> QED  BY <1>4, <1>5, <1>6

(* What the search knows: a distance is never too small, for some seed is *)
(* as near, and a pixel that does not wait to be looked at has told its  *)
(* neighbours.                                                           *)
FloodTypes ==
    dist \in [Pixels -> 0..Unreached] /\ queue \in Seq(Pixels)

NotTooSmall == \A p \in Pixels : \E s \in Seeds(image) : Manhattan(p, s) <= dist[p]

Told == \A p \in Pixels :
    p \in HeldBy(queue) \/ \A q \in Pixels : Beside(p, q) /\ Opaque(image, q) => dist[q] <= dist[p] + 1

FloodInv ==
    /\ FloodTypes
    /\ \A s \in Seeds(image) : dist[s] = 0
    /\ NotTooSmall
    /\ Told

(* The distance of what was not reached yet is a number.                 *)
LEMMA UnreachedType == Unreached \in Nat
BY SMT DEF Unreached

(* Two pixels of an image are less than its sides together apart.        *)
LEMMA ManhattanType ==
    ASSUME NEW p \in Pixels, NEW q \in Pixels
    PROVE  Manhattan(p, q) \in Nat /\ Manhattan(p, q) <= width + height
BY SpriteAssumption DEF Pixels, Manhattan

(* The seeds begin the search; looking at a pixel keeps what it knows.   *)
LEMMA FloodStart == SpriteInit => FloodInv
<1> SUFFICES ASSUME SpriteInit
             PROVE  FloodInv
    OBVIOUS
<1>1. /\ queue \in Seq(Pixels) /\ Seeds(image) = HeldBy(queue)
      /\ Seeds(image) \subseteq Pixels /\ Seeds(image) # {}
    BY SeedsAre DEF SpriteInit
<1>2. dist = [p \in Pixels |-> IF p \in Seeds(image) THEN 0 ELSE Unreached]
    BY DEF SpriteInit
<1>3. 0 \in 0..Unreached /\ Unreached \in 0..Unreached /\ width + height <= Unreached
    BY SpriteAssumption, UnreachedType
<1>4. FloodTypes
    BY <1>1, <1>2, <1>3 DEF FloodTypes
<1>5. \A s \in Seeds(image) : dist[s] = 0
    BY <1>1, <1>2
<1>6. NotTooSmall
    <2> SUFFICES ASSUME NEW p \in Pixels
                 PROVE  \E s \in Seeds(image) : Manhattan(p, s) <= dist[p]
        BY DEF NotTooSmall
    <2>1. CASE p \in Seeds(image)
        <3>1. Manhattan(p, p) = 0
            BY SpriteAssumption DEF Manhattan, Pixels
        <3> QED  BY <1>2, <2>1, <3>1
    <2>2. CASE p \notin Seeds(image)
        <3>1. PICK s \in Seeds(image) : TRUE
            BY <1>1
        <3>2. s \in Pixels
            BY <1>1
        <3>3. Manhattan(p, s) \in Nat /\ Manhattan(p, s) <= width + height
            BY <3>2, ManhattanType
        <3>4. dist[p] = Unreached /\ Unreached \in Nat /\ width + height \in Nat
            BY <1>2, <2>2, SpriteAssumption, UnreachedType
        <3> QED  BY <1>3, <3>3, <3>4
    <2> QED  BY <2>1, <2>2
<1>7. Told
    <2> SUFFICES ASSUME NEW p \in Pixels, p \notin HeldBy(queue), NEW q \in Pixels
                 PROVE  dist[q] <= dist[p] + 1
        BY DEF Told
    <2>1. dist[p] = Unreached /\ dist[q] \in 0..Unreached /\ Unreached \in Nat
        BY <1>1, <1>2, <1>3, UnreachedType
    <2> QED  BY <2>1
<1> QED  BY <1>4, <1>5, <1>6, <1>7 DEF FloodInv

LEMMA FloodStep == FloodInv /\ Flood => FloodInv'
<1> SUFFICES ASSUME FloodInv, Flood
             PROVE  FloodInv'
    OBVIOUS
<1> DEFINE p == Head(queue)
           near == Nearer(p)
<1>1. /\ queue \in Seq(Pixels) /\ queue # << >> /\ dist \in [Pixels -> 0..Unreached]
      /\ image' = image
    BY DEF FloodInv, FloodTypes, Flood
<1>2. /\ p \in Pixels /\ Tail(queue) \in Seq(Pixels)
      /\ queue = <<p>> \o Tail(queue) /\ <<p>> \in Seq(Pixels)
    BY <1>1
<1>3. \A q \in near : q \in Pixels /\ Beside(p, q) /\ Opaque(image, q) /\ dist[q] > dist[p] + 1
    BY DEF Nearer, Beside
<1>4. \A q \in Pixels : Beside(p, q) /\ Opaque(image, q) /\ q \notin near => ~ dist[q] > dist[p] + 1
    BY DEF Nearer, Beside
<1>5. /\ dist' = [q \in Pixels |-> IF q \in near THEN dist[p] + 1 ELSE dist[q]]
      /\ queue' = Tail(queue) \o Among(Around(p), near)
    BY DEF Flood, Around
<1> HIDE DEF near, p
<1>6. /\ Among(Around(p), near) \in Seq(Pixels)
      /\ HeldBy(Among(Around(p), near)) = near
    <2>1. \A q \in near : q \in Pixels /\ Beside(p, q)
        BY <1>3
    <2> QED  BY <1>2, <2>1, AroundHolds
<1>7. queue' \in Seq(Pixels) /\ HeldBy(queue') = HeldBy(Tail(queue)) \cup near
    <2> DEFINE more == Among(Around(p), near)
    <2> HIDE DEF more
    <2>1. more \in Seq(Pixels) /\ HeldBy(more) = near /\ queue' = Tail(queue) \o more
        BY <1>5, <1>6 DEF more
    <2>2. HeldBy(Tail(queue) \o more) = HeldBy(Tail(queue)) \cup HeldBy(more)
        BY <1>2, <2>1, BothHeld
    <2>3. Tail(queue) \o more \in Seq(Pixels)
        BY <1>2, <2>1, Together
    <2> QED  BY <2>1, <2>2, <2>3
<1>8. HeldBy(queue) = {p} \cup HeldBy(Tail(queue))
    <2> DEFINE t == Tail(queue)
    <2> HIDE DEF t
    <2>1. HeldBy(<<p>> \o t) = HeldBy(<<p>>) \cup HeldBy(t)
        BY <1>2, BothHeld DEF t
    <2>2. HeldBy(<<p>>) = {p}
        BY DEF HeldBy
    <2>3. queue = <<p>> \o t
        BY <1>2 DEF t
    <2>4. HeldBy(queue) = {p} \cup HeldBy(t)
        BY <2>1, <2>2, <2>3
    <2> QED  BY <2>4 DEF t
<1>9. \A q \in Pixels : dist[q] \in Int /\ 0 <= dist[q] /\ dist[q] <= Unreached
    BY <1>1, UnreachedType
<1>10. \A q \in near : q \in Pixels /\ dist'[q] = dist[p] + 1 /\ dist'[q] < dist[q]
    <2> SUFFICES ASSUME NEW q \in near
                 PROVE  q \in Pixels /\ dist'[q] = dist[p] + 1 /\ dist'[q] < dist[q]
        OBVIOUS
    <2>1. q \in Pixels /\ dist[q] > dist[p] + 1
        BY <1>3
    <2>2. dist'[q] = dist[p] + 1
        BY <1>5, <2>1
    <2>3. dist[p] + 1 < dist[q]
        BY <1>2, <1>9, <2>1
    <2> QED  BY <2>1, <2>2, <2>3
<1>11. \A q \in Pixels : q \notin near => dist'[q] = dist[q]
    BY <1>5
<1>12. \A q \in Pixels : dist'[q] \in Int /\ 0 <= dist'[q] /\ dist'[q] <= dist[q]
    <2> SUFFICES ASSUME NEW q \in Pixels
                 PROVE  dist'[q] \in Int /\ 0 <= dist'[q] /\ dist'[q] <= dist[q]
        OBVIOUS
    <2>1. dist[p] \in Int /\ 0 <= dist[p] /\ dist[q] \in Int /\ 0 <= dist[q]
        BY <1>2, <1>9
    <2>2. CASE q \in near
        BY <1>10, <2>1, <2>2
    <2>3. CASE q \notin near
        BY <1>11, <2>1, <2>3
    <2> QED  BY <2>2, <2>3
<1>13. FloodTypes'
    <2>1. \A q \in Pixels : dist'[q] \in 0..Unreached
        BY <1>9, <1>12, UnreachedType
    <2>2. dist' = [q \in Pixels |-> dist'[q]]
        BY <1>5
    <2>3. dist' \in [Pixels -> 0..Unreached]
        BY <2>1, <2>2
    <2> QED  BY <1>7, <2>3 DEF FloodTypes
<1>14. Seeds(image') = Seeds(image) /\ Seeds(image) \subseteq Pixels
    BY <1>1, SeedsAre
<1>15. \A s \in Seeds(image) : dist'[s] = 0
    <2> SUFFICES ASSUME NEW s \in Seeds(image)
                 PROVE  dist'[s] = 0
        OBVIOUS
    <2>1. s \in Pixels /\ dist[s] = 0
        BY <1>14 DEF FloodInv
    <2> QED  BY <1>12, <2>1
<1>16. \A q \in Pixels : \E s \in Seeds(image) : Manhattan(q, s) <= dist'[q]
    <2> SUFFICES ASSUME NEW q \in Pixels
                 PROVE  \E s \in Seeds(image) : Manhattan(q, s) <= dist'[q]
        OBVIOUS
    <2>1. CASE q \in near
        <3>1. PICK s \in Seeds(image) : Manhattan(p, s) <= dist[p]
            BY <1>2 DEF FloodInv, NotTooSmall
        <3>2. s \in Pixels /\ Beside(p, q)
            BY <1>3, <1>14, <2>1
        <3>3. Manhattan(q, s) <= Manhattan(p, s) + 1
            BY <1>2, <3>2, StepBeside
        <3>4. Manhattan(q, s) \in Nat /\ Manhattan(p, s) \in Nat
            BY <1>2, <3>2, ManhattanType
        <3>5. dist'[q] = dist[p] + 1 /\ dist[p] \in Int
            BY <1>2, <1>9, <1>10, <2>1
        <3> QED  BY <3>1, <3>3, <3>4, <3>5
    <2>2. CASE q \notin near
        <3>1. \E s \in Seeds(image) : Manhattan(q, s) <= dist[q]
            BY DEF FloodInv, NotTooSmall
        <3> QED  BY <1>11, <2>2, <3>1
    <2> QED  BY <2>1, <2>2
<1>17. ASSUME NEW r \in Pixels, r \notin HeldBy(queue'), NEW q \in Pixels, Beside(r, q), Opaque(image, q)
       PROVE  dist'[q] <= dist'[r] + 1
    <2>1. r \notin near /\ r \notin HeldBy(Tail(queue))
        BY <1>7, <1>17
    <2>2. dist'[r] = dist[r]
        BY <1>11, <2>1
    <2>3. dist[q] \in Int /\ dist[r] \in Int /\ dist'[q] \in Int /\ dist'[q] <= dist[q]
        BY <1>9, <1>12
    <2>4. CASE r = p
        <3>1. CASE q \in near
            <4>1. dist'[q] = dist[p] + 1
                BY <1>10, <3>1
            <4> QED  BY <2>2, <2>3, <2>4, <4>1
        <3>2. CASE q \notin near
            <4>1. ~ dist[q] > dist[p] + 1
                BY <1>4, <1>17, <2>4, <3>2
            <4> QED  BY <2>2, <2>3, <2>4, <4>1
        <3> QED  BY <3>1, <3>2
    <2>5. CASE r # p
        <3>1. r \notin HeldBy(queue)
            BY <1>8, <2>1, <2>5
        <3>2. dist[q] <= dist[r] + 1
            BY <1>17, <3>1 DEF FloodInv, Told
        <3> QED  BY <2>2, <2>3, <3>2
    <2> QED  BY <2>4, <2>5
<1>18. NotTooSmall'
    <2>1. \A q \in Pixels : \E s \in Seeds(image') : Manhattan(q, s) <= dist'[q]
        BY <1>14, <1>16
    <2> QED  BY <2>1 DEF NotTooSmall, Pixels, Manhattan
<1>19. Told'
    <2>1. \A r \in Pixels :
             r \in HeldBy(queue') \/ \A q \in Pixels : Beside(r, q) /\ Opaque(image', q) => dist'[q] <= dist'[r] + 1
        BY <1>1, <1>17
    <2> QED  BY <2>1 DEF Told, Pixels, HeldBy, Beside, Opaque, Index
<1>20. (\A s \in Seeds(image) : dist[s] = 0)'
    BY <1>14, <1>15
<1> QED  BY <1>13, <1>18, <1>19, <1>20 DEF FloodInv

(* A search that has ended has found the distance: along a shortest way  *)
(* to a seed every pixel has told the next.                              *)
LEMMA NoneTooLarge ==
    ASSUME FloodInv, queue = << >>, NEW p \in Pixels, NEW s \in Seeds(image)
    PROVE  dist[p] <= Manhattan(p, s)
<1> DEFINE N == width + height
           T == {n \in 0..N : \A q \in Pixels : Manhattan(q, s) = n => dist[q] <= n}
<1>1. s \in Pixels /\ N \in Nat
    BY SeedsAre, SpriteAssumption
<1>2. \A q \in Pixels : dist[q] \in Nat /\ Manhattan(q, s) \in Nat /\ Manhattan(q, s) <= N
    BY <1>1, ManhattanType, UnreachedType DEF FloodInv, FloodTypes
<1>3. HeldBy(queue) = {}
    BY DEF HeldBy
<1> HIDE DEF N
<1>4. 0 \in T
    <2>1. ASSUME NEW q \in Pixels, Manhattan(q, s) = 0
          PROVE  dist[q] <= 0
        <3>1. q = s
            <4>1. PICK a \in 0..width - 1, b \in 0..height - 1 : q = <<a, b>>
                BY DEF Pixels
            <4>2. PICK u \in 0..width - 1, v \in 0..height - 1 : s = <<u, v>>
                BY <1>1 DEF Pixels
            <4>3. a = u /\ b = v
                BY <2>1, <4>1, <4>2, SpriteAssumption DEF Manhattan
            <4> QED  BY <4>1, <4>2, <4>3
        <3>2. dist[s] = 0
            BY DEF FloodInv
        <3> QED  BY <3>1, <3>2
    <2> QED  BY <1>1, <2>1
<1>5. ASSUME NEW n \in 0..N - 1, n \in T
      PROVE  n + 1 \in T
    <2>1. n \in Nat /\ n + 1 \in 0..N
        BY <1>1
    <2>2. ASSUME NEW q \in Pixels, Manhattan(q, s) = n + 1
          PROVE  dist[q] <= n + 1
        <3>1. CASE q \in Seeds(image)
            <4>1. dist[q] = 0
                BY <3>1 DEF FloodInv
            <4> QED  BY <2>1, <4>1
        <3>2. CASE q \notin Seeds(image)
            <4>1. Opaque(image, q)
                BY <3>2, SeedsAre
            <4>2. Manhattan(q, s) # 0
                BY <2>1, <2>2
            <4>3. PICK r \in Pixels : Beside(r, q) /\ Manhattan(r, s) = Manhattan(q, s) - 1
                BY <1>1, <4>2, StepTowards
            <4>4. Manhattan(r, s) = n
                BY <2>1, <2>2, <4>3
            <4>5. dist[r] <= n
                BY <1>5, <4>4
            <4>6. dist[q] <= dist[r] + 1
                BY <1>3, <4>1, <4>3 DEF FloodInv, Told
            <4>7. dist[q] \in Nat /\ dist[r] \in Nat
                BY <1>2
            <4> QED  BY <2>1, <4>5, <4>6, <4>7
        <3> QED  BY <3>1, <3>2
    <2> QED  BY <2>1, <2>2
<1>6. 0..N \subseteq T
    <2> HIDE DEF T
    <2> QED  BY <1>1, <1>4, <1>5, UpTo
<1>7. Manhattan(p, s) \in T
    <2> HIDE DEF T
    <2> QED  BY <1>1, <1>2, <1>6
<1> QED  BY <1>7

(* So the distance is the least there is, and never below it.            *)
LEMMA SearchFinds ==
    ASSUME FloodInv
    PROVE  DistancesFound
<1> SUFFICES ASSUME NEW p \in Pixels
             PROVE  LET true == Min({Manhattan(p, q) : q \in Seeds(image)})
                    IN  dist[p] >= true /\ (queue = << >> => dist[p] = true)
    BY DEF DistancesFound
<1> DEFINE M == {Manhattan(p, q) : q \in Seeds(image)}
           true == Min(M)
<1>1. Seeds(image) \subseteq Pixels /\ Seeds(image) # {}
    BY SeedsAre
<1>2. M \in SUBSET Nat /\ M # {}
    BY <1>1, ManhattanType
<1>3. true \in M /\ \A n \in M : true <= n
    <2> HIDE DEF M
    <2>1. \E n \in M : \A m \in M : n <= m
        BY <1>2, LeastNat
    <2> QED  BY <2>1 DEF Min
<1>4. true \in Nat
    BY <1>2, <1>3
<1>5. dist[p] \in Nat
    BY UnreachedType DEF FloodInv, FloodTypes
<1> HIDE DEF true
<1>6. PICK s \in Seeds(image) : Manhattan(p, s) <= dist[p]
    BY DEF FloodInv, NotTooSmall
<1>7. true <= Manhattan(p, s) /\ Manhattan(p, s) \in Nat
    BY <1>2, <1>3
<1>8. dist[p] >= true
    BY <1>4, <1>5, <1>6, <1>7
<1>9. ASSUME queue = << >>
      PROVE  dist[p] = true
    <2>1. PICK t \in Seeds(image) : true = Manhattan(p, t)
        BY <1>3
    <2>2. dist[p] <= Manhattan(p, t)
        BY <1>9, NoneTooLarge
    <2> QED  BY <1>4, <1>5, <1>8, <2>1, <2>2
<1> QED  BY <1>8, <1>9 DEF true

(* An extent of a balloon is inside the depth, holds the middle, grows   *)
(* with the distance and has two like sides.                             *)
LEMMA BalloonExtents ==
    ASSUME NEW depth \in Nat, NEW d \in Nat, NEW least \in Nat
    PROVE  /\ balloon_extent(depth, d, least) \subseteq flat_extent(depth)
           /\ AtLeast(depth, 1) \div 2 \in balloon_extent(depth, d, least)
           /\ \A e \in Nat : d <= e => balloon_extent(depth, d, least) \subseteq balloon_extent(depth, e, least)
           /\ \A k \in Nat : LET middle == AtLeast(depth, 1) \div 2
                             IN  middle + k < depth /\ k <= middle =>
                                   (middle - k \in balloon_extent(depth, d, least)
                                      <=> middle + k \in balloon_extent(depth, d, least))
<1> DEFINE full == AtLeast(depth, 1)
           m == full \div 2
           reach(x) == AtLeast(x, least)
<1>1. full \in Nat /\ full >= 1 /\ full >= depth /\ (depth >= 1 => full = depth)
    BY DEF AtLeast
<1>2. m \in Nat /\ m < full
    <2> HIDE DEF full
    <2> QED  BY <1>1
<1>3. \A x \in Nat : reach(x) \in Nat /\ reach(x) >= x /\ reach(x) >= least
    BY DEF AtLeast
<1>4. \A x, y \in Nat : x <= y => reach(x) <= reach(y)
    BY DEF AtLeast
<1>5. flat_extent(depth) = 0..full - 1
    BY DEF flat_extent
<1>6. \A x \in Nat : balloon_extent(depth, x, least)
                       = AtLeast(0, m - reach(x))..AtMost(full, m + reach(x) + 1) - 1
    BY DEF balloon_extent
<1> HIDE DEF full, m, reach
<1>7. \A x \in Nat, z \in Int :
        z \in balloon_extent(depth, x, least)
          <=> z >= 0 /\ z < full /\ z >= m - reach(x) /\ z <= m + reach(x)
    <2> SUFFICES ASSUME NEW x \in Nat, NEW z \in Int
                 PROVE  z \in AtLeast(0, m - reach(x))..AtMost(full, m + reach(x) + 1) - 1
                          <=> z >= 0 /\ z < full /\ z >= m - reach(x) /\ z <= m + reach(x)
        BY <1>6
    <2>1. reach(x) \in Nat
        BY <1>3
    <2> QED  BY <1>1, <1>2, <2>1 DEF AtLeast, AtMost
<1>8. \A x \in Nat : balloon_extent(depth, x, least) \subseteq Int
    <2> SUFFICES ASSUME NEW x \in Nat
                 PROVE  AtLeast(0, m - reach(x))..AtMost(full, m + reach(x) + 1) - 1 \subseteq Int
        BY <1>6
    <2> DEFINE r == reach(x)
    <2>1. r \in Nat
        BY <1>3
    <2> HIDE DEF r
    <2>2. AtLeast(0, m - r) \in Int /\ AtMost(full, m + r + 1) \in Int
        BY <1>1, <1>2, <2>1 DEF AtLeast, AtMost
    <2>3. AtLeast(0, m - r)..AtMost(full, m + r + 1) - 1 \subseteq Int
        BY <2>2
    <2> QED  BY <2>3 DEF r
<1>9. balloon_extent(depth, d, least) \subseteq flat_extent(depth)
    <2>1. \A z \in balloon_extent(depth, d, least) : z \in Int /\ z >= 0 /\ z < full
        BY <1>7, <1>8
    <2> QED  BY <1>1, <1>5, <2>1
<1>10. m \in balloon_extent(depth, d, least)
    <2>1. reach(d) \in Nat
        BY <1>3
    <2>2. m \in Int /\ m >= 0 /\ m < full /\ m >= m - reach(d) /\ m <= m + reach(d)
        BY <1>2, <2>1, <1>1
    <2> QED  BY <1>7, <2>2
<1>11. ASSUME NEW e \in Nat, d <= e
       PROVE  balloon_extent(depth, d, least) \subseteq balloon_extent(depth, e, least)
    <2> SUFFICES ASSUME NEW z \in balloon_extent(depth, d, least)
                 PROVE  z \in balloon_extent(depth, e, least)
        OBVIOUS
    <2>1. z \in Int /\ z >= 0 /\ z < full /\ z >= m - reach(d) /\ z <= m + reach(d)
        BY <1>7, <1>8
    <2>2. reach(d) \in Nat /\ reach(e) \in Nat /\ reach(d) <= reach(e)
        BY <1>3, <1>4, <1>11
    <2>3. z >= m - reach(e) /\ z <= m + reach(e)
        BY <1>2, <2>1, <2>2
    <2> QED  BY <1>7, <2>1, <2>3
<1>12. ASSUME NEW k \in Nat, m + k < depth, k <= m
       PROVE  m - k \in balloon_extent(depth, d, least) <=> m + k \in balloon_extent(depth, d, least)
    <2> DEFINE r == reach(d)
    <2>1. r \in Nat
        BY <1>3
    <2> HIDE DEF r
    <2>2. (m - k \in Int /\ m - k >= 0 /\ m - k < full) /\ (m - k >= m - r /\ m - k <= m + r <=> k <= r)
        BY <1>1, <1>2, <1>12, <2>1
    <2>3. (m + k \in Int /\ m + k >= 0 /\ m + k < full) /\ (m + k >= m - r /\ m + k <= m + r <=> k <= r)
        BY <1>1, <1>2, <1>12, <2>1
    <2>4. m - k \in balloon_extent(depth, d, least) <=> k <= r
        BY <1>7, <2>2 DEF r
    <2>5. m + k \in balloon_extent(depth, d, least) <=> k <= r
        BY <1>7, <2>3 DEF r
    <2> QED  BY <2>4, <2>5
<1> QED  BY <1>9, <1>10, <1>11, <1>12 DEF m, full

(* Extents that nest make volumes that do.                               *)
LEMMA ExtentsNest == FloodInv => BalloonNests
<1> SUFFICES ASSUME FloodInv, queue = << >>, NEW depth \in 0..MaxDepth, NEW least \in 0..2
             PROVE  LET extent == [p \in Pixels |-> balloon_extent(depth, dist[p], least)]
                        flat == [p \in Pixels |-> flat_extent(depth)]
                        middle == AtLeast(depth, 1) \div 2
                    IN  /\ voxelize_image(extent) \subseteq voxelize_image(flat)
                        /\ \A p, q \in Pixels : dist[p] <= dist[q] => extent[p] \subseteq extent[q]
                        /\ \A p \in Pixels : middle \in extent[p]
                        /\ \A p \in Pixels, k \in 0..MaxDepth :
                             middle + k < depth /\ k <= middle =>
                                (middle - k \in extent[p] <=> middle + k \in extent[p])
    BY DEF BalloonNests
<1> DEFINE extent == [p \in Pixels |-> balloon_extent(depth, dist[p], least)]
           flat == [p \in Pixels |-> flat_extent(depth)]
           middle == AtLeast(depth, 1) \div 2
<1>1. depth \in Nat /\ least \in Nat /\ \A k \in 0..MaxDepth : k \in Nat
    BY SpriteAssumption
<1>2. \A p \in Pixels : dist[p] \in Nat
    BY UnreachedType DEF FloodInv, FloodTypes
<1>3. \A p \in Pixels : extent[p] \subseteq flat[p]
    BY <1>1, <1>2, BalloonExtents
<1>4. \A p, q \in Pixels : dist[p] <= dist[q] => extent[p] \subseteq extent[q]
    BY <1>1, <1>2, BalloonExtents
<1>5. \A p \in Pixels : middle \in extent[p]
    BY <1>1, <1>2, BalloonExtents
<1>6. \A p \in Pixels, k \in 0..MaxDepth :
         middle + k < depth /\ k <= middle => (middle - k \in extent[p] <=> middle + k \in extent[p])
    <2> SUFFICES ASSUME NEW p \in Pixels, NEW k \in 0..MaxDepth, middle + k < depth, k <= middle
                 PROVE  middle - k \in extent[p] <=> middle + k \in extent[p]
        OBVIOUS
    <2>1. k \in Nat /\ dist[p] \in Nat /\ extent[p] = balloon_extent(depth, dist[p], least)
        BY <1>1, <1>2
    <2> QED  BY <1>1, <2>1, BalloonExtents
<1> HIDE DEF extent, flat
<1>7. voxelize_image(extent) \subseteq voxelize_image(flat)
    BY <1>3 DEF voxelize_image
<1> QED  BY <1>4, <1>5, <1>6, <1>7 DEF extent, flat

(* A voxel of a pixel is in the chunk if its three numbers are.          *)
LEMMA ChunkHolds == ChunkHoldsSprite
<1> SUFFICES ASSUME NEW depth \in 0..MaxDepth
             PROVE  LET chunk == voxelize_to_chunk(depth)
                    IN  {<<c[1], c[2], c[3], chunk[c]>> : c \in {c \in DOMAIN chunk : chunk[c] # 0}}
                          = {v \in voxelize_image([p \in Pixels |-> flat_extent(depth)]) :
                                v[1] < ChunkEdge /\ v[2] < ChunkEdge /\ v[3] < ChunkEdge}
    BY DEF ChunkHoldsSprite
<1> DEFINE chunk == voxelize_to_chunk(depth)
           B == (0..ChunkEdge - 1) \X (0..ChunkEdge - 1) \X (0..ChunkEdge - 1)
           at(x, y) == image[Index(x, y)]
           inside(x, y, z) == x < width /\ y < height /\ z < AtLeast(1, AtMost(depth, ChunkEdge))
           flat == [p \in Pixels |-> flat_extent(depth)]
           cells == {c \in DOMAIN chunk : chunk[c] # 0}
           left == {<<c[1], c[2], c[3], chunk[c]>> : c \in cells}
           right == {v \in voxelize_image(flat) : v[1] < ChunkEdge /\ v[2] < ChunkEdge /\ v[3] < ChunkEdge}
<1>1. /\ width \in Nat \ {0} /\ height \in Nat \ {0} /\ ChunkEdge \in Nat \ {0} /\ depth \in Nat
    BY SpriteAssumption
<1>2. DOMAIN chunk = B /\ \A c \in B : chunk[c] = IF inside(c[1], c[2], c[3]) THEN at(c[1], c[2]) ELSE 0
    BY DEF voxelize_to_chunk
<1>3. \A z \in 0..ChunkEdge - 1 :
         z < AtLeast(1, AtMost(depth, ChunkEdge)) <=> z \in 0..AtLeast(depth, 1) - 1
    BY <1>1 DEF AtLeast, AtMost
<1> HIDE DEF chunk
<1>4. ASSUME NEW x \in 0..ChunkEdge - 1, NEW y \in 0..ChunkEdge - 1, NEW z \in 0..ChunkEdge - 1,
             x < width, y < height, z \in 0..AtLeast(depth, 1) - 1, at(x, y) # 0
      PROVE  <<x, y, z, at(x, y)>> \in right
    <2> DEFINE p == <<x, y>>
    <2>1. p \in Pixels /\ p[1] = x /\ p[2] = y
        BY <1>1, <1>4 DEF Pixels
    <2>2. Opaque(image, p)
        BY <1>4, <2>1 DEF Opaque
    <2>3. z \in flat[p]
        BY <1>4, <2>1 DEF flat_extent
    <2> HIDE DEF p, flat
    <2>4. <<p[1], p[2], z, image[Index(p[1], p[2])]>> \in voxelize_image(flat)
        BY <2>1, <2>2, <2>3 DEF voxelize_image
    <2>5. <<x, y, z, at(x, y)>> \in voxelize_image(flat)
        BY <2>1, <2>4
    <2>6. x < ChunkEdge /\ y < ChunkEdge /\ z < ChunkEdge
        BY <1>1
    <2> HIDE DEF at
    <2> QED  BY <2>5, <2>6
<1>5. left \subseteq right
    <2> SUFFICES ASSUME NEW c \in cells
                 PROVE  <<c[1], c[2], c[3], chunk[c]>> \in right
        BY DEF cells
    <2>1. c \in B /\ chunk[c] # 0
        BY <1>2
    <2>2. c[1] \in 0..ChunkEdge - 1 /\ c[2] \in 0..ChunkEdge - 1 /\ c[3] \in 0..ChunkEdge - 1
        BY <2>1
    <2>3. inside(c[1], c[2], c[3]) /\ chunk[c] = at(c[1], c[2])
        BY <1>2, <2>1
    <2>4. c[3] \in 0..AtLeast(depth, 1) - 1
        BY <1>3, <2>2, <2>3
    <2> HIDE DEF right, at
    <2> QED  BY <1>4, <2>1, <2>2, <2>3, <2>4
<1>6. ASSUME NEW p \in Pixels, Opaque(image, p), NEW z \in flat[p],
             p[1] < ChunkEdge, p[2] < ChunkEdge, z < ChunkEdge
      PROVE  <<p[1], p[2], z, at(p[1], p[2])>> \in left
    <2> DEFINE c == <<p[1], p[2], z>>
    <2>1. p[1] \in Nat /\ p[2] \in Nat /\ p[1] < width /\ p[2] < height
        BY <1>1 DEF Pixels
    <2>2. z \in 0..AtLeast(depth, 1) - 1
        BY DEF flat_extent
    <2>3. z \in Nat
        BY <2>2
    <2>4. c \in B /\ c[1] = p[1] /\ c[2] = p[2] /\ c[3] = z
        BY <1>1, <1>6, <2>1, <2>3
    <2>5. z < AtLeast(1, AtMost(depth, ChunkEdge))
        BY <1>1, <1>3, <1>6, <2>2, <2>3
    <2> HIDE DEF c
    <2>6. inside(c[1], c[2], c[3])
        BY <2>1, <2>4, <2>5
    <2>7. chunk[c] = at(c[1], c[2]) /\ at(c[1], c[2]) # 0
        BY <1>2, <1>6, <2>4, <2>6 DEF Opaque
    <2> HIDE DEF at
    <2>8. <<c[1], c[2], c[3], chunk[c]>> \in left
        BY <1>2, <2>4, <2>7
    <2> QED  BY <2>4, <2>7, <2>8
<1>7. right \subseteq left
    <2> SUFFICES ASSUME NEW v \in right
                 PROVE  v \in left
        OBVIOUS
    <2>0. \A p \in Pixels : flat[p] = flat_extent(depth)
        OBVIOUS
    <2> HIDE DEF left, flat
    <2>1. PICK p \in Pixels, z \in flat_extent(depth) :
            Opaque(image, p) /\ v = <<p[1], p[2], z, image[Index(p[1], p[2])]>>
        BY <2>0 DEF voxelize_image
    <2>2. p[1] < ChunkEdge /\ p[2] < ChunkEdge /\ z < ChunkEdge
        BY <2>1
    <2> QED  BY <1>6, <2>0, <2>1, <2>2
<1>8. left = right
    BY <1>5, <1>7
<1> QED  BY <1>8 DEF chunk

(* The search finds the distance of every pixel to the air, and what is  *)
(* extruded from an image nests, is whole about its middle and fills a   *)
(* chunk as far as it goes, for images of any size and depth             *)
(* (compute_manhattan_dist_to_air, voxelize_image, voxelize_to_chunk).   *)
THEOREM SpritesAreExtruded == DataSpec => []SpriteVolumes
<1> DEFINE Inv == subject = "sprite" => FloodInv
<1>1. DataInit => Inv
    BY FloodStart DEF DataInit
<1>2. Inv /\ [DataNext]_data => Inv'
    <2> SUFFICES ASSUME Inv, [DataNext]_data, subject' = "sprite"
                 PROVE  FloodInv'
        OBVIOUS
    <2>1. subject = "sprite"
        BY DEF DataNext, data
    <2>2. CASE Flood
        BY <2>1, <2>2, FloodStep
    <2>3. CASE UNCHANGED sprite
        <3>1. image' = image /\ dist' = dist /\ queue' = queue /\ FloodInv
            BY <2>1, <2>3 DEF sprite
        <3> QED  BY <3>1 DEF FloodInv, FloodTypes, NotTooSmall, Told
    <2> QED  BY <2>1, <2>2, <2>3 DEF DataNext, data
<1>3. Inv => SpriteVolumes
    BY SearchFinds, ExtentsNest, ChunkHolds DEF SpriteVolumes
<1> HIDE DEF Inv
<1> QED  BY <1>1, <1>2, <1>3, PTL DEF DataSpec

---------------------------------------------------------------------------
(* Meshes.                                                               *)

(* The sides of a voxel, those that are exposed, and what is drawn for   *)
(* one: its place, its direction and its material.                       *)
Sides == Positions \X (0..5)

ExposedSides(chunk) == {s \in Sides : Exposed(chunk, s[1], s[2])}

LowOf(p, face) == [axis \in 1..3 |-> p[axis] + (IF normal(face)[axis] = 1 THEN 1 ELSE 0)]

SideOf(chunk, s) == <<LowOf(s[1], s[2]), normal(s[2]), chunk[s[1]]>>

(* The normals, one for each face.                                       *)
LEMMA Normals ==
    /\ normal(0) = <<1, 0, 0>> /\ normal(1) = <<-1, 0, 0>>
    /\ normal(2) = <<0, 1, 0>> /\ normal(3) = <<0, -1, 0>>
    /\ normal(4) = <<0, 0, 1>> /\ normal(5) = <<0, 0, -1>>
BY DEF normal

(* The components of a normal.                                           *)
LEMMA NormalType ==
    ASSUME NEW face \in 0..5
    PROVE  \A axis \in 1..3 : normal(face)[axis] \in -1..1
<1>1. face = 0 \/ face = 1 \/ face = 2 \/ face = 3 \/ face = 4 \/ face = 5
    OBVIOUS
<1>2. ASSUME NEW axis \in 1..3
      PROVE  axis = 1 \/ axis = 2 \/ axis = 3
    OBVIOUS
<1> QED  BY <1>1, <1>2, Normals

(* A face is known by its normal.                                        *)
LEMMA NormalOnce ==
    ASSUME NEW f \in 0..5, NEW g \in 0..5, normal(f) = normal(g)
    PROVE  f = g
<1>1. /\ f = 0 \/ f = 1 \/ f = 2 \/ f = 3 \/ f = 4 \/ f = 5
      /\ g = 0 \/ g = 1 \/ g = 2 \/ g = 3 \/ g = 4 \/ g = 5
    OBVIOUS
<1> DEFINE n(k) == normal(k)
<1>2. \A k \in 0..5 : /\ n(k)[1] = (IF k = 0 THEN 1 ELSE IF k = 1 THEN -1 ELSE 0)
                      /\ n(k)[2] = (IF k = 2 THEN 1 ELSE IF k = 3 THEN -1 ELSE 0)
                      /\ n(k)[3] = (IF k = 4 THEN 1 ELSE IF k = 5 THEN -1 ELSE 0)
    <2> SUFFICES ASSUME NEW k \in 0..5
                 PROVE  /\ n(k)[1] = (IF k = 0 THEN 1 ELSE IF k = 1 THEN -1 ELSE 0)
                        /\ n(k)[2] = (IF k = 2 THEN 1 ELSE IF k = 3 THEN -1 ELSE 0)
                        /\ n(k)[3] = (IF k = 4 THEN 1 ELSE IF k = 5 THEN -1 ELSE 0)
        OBVIOUS
    <2>1. k = 0 \/ k = 1 \/ k = 2 \/ k = 3 \/ k = 4 \/ k = 5
        OBVIOUS
    <2> QED  BY <2>1, Normals
<1>3. n(f) = n(g)
    OBVIOUS
<1> HIDE DEF n
<1> QED  BY <1>1, <1>2, <1>3

(* A position is three numbers below the edge.                           *)
LEMMA PositionIs ==
    ASSUME NEW p \in Positions
    PROVE  p[1] \in Span /\ p[2] \in Span /\ p[3] \in Span /\ p = <<p[1], p[2], p[3]>>
BY DEF Positions

(* Coordinates are natural numbers.                                      *)
LEMMA SpanType == CHUNK_EDGE \in Nat \ {0} /\ Span \subseteq Nat /\ Span \subseteq Int
BY ChunkAssumption DEF Span

(* No two sides are drawn alike.                                         *)
LEMMA SideOnce ==
    ASSUME NEW chunk, NEW s \in Sides, NEW t \in Sides, SideOf(chunk, s) = SideOf(chunk, t)
    PROVE  s = t
<1> DEFINE p == s[1]
           q == t[1]
           f == s[2]
           g == t[2]
<1>1. p \in Positions /\ q \in Positions /\ f \in 0..5 /\ g \in 0..5 /\ s = <<p, f>> /\ t = <<q, g>>
    BY DEF Sides
<1>2. LowOf(p, f) = LowOf(q, g) /\ normal(f) = normal(g)
    BY DEF SideOf
<1> HIDE DEF p, q, f, g
<1>3. f = g
    BY <1>1, <1>2, NormalOnce
<1>4. \A axis \in 1..3 : LowOf(p, f)[axis] = LowOf(q, f)[axis]
    BY <1>2, <1>3
<1>5. ASSUME NEW axis \in 1..3, p[axis] \in Int, q[axis] \in Int
      PROVE  p[axis] = q[axis]
    <2> DEFINE b == IF normal(f)[axis] = 1 THEN 1 ELSE 0
    <2>1. b \in Int
        OBVIOUS
    <2>2. p[axis] + b = q[axis] + b
        BY <1>4 DEF LowOf
    <2> DEFINE x == p[axis]
               y == q[axis]
    <2>3. x \in Int /\ y \in Int /\ x + b = y + b
        BY <1>5, <2>2
    <2> HIDE DEF b, x, y
    <2>4. x = y
        BY <2>1, <2>3
    <2> QED  BY <2>4 DEF x, y
<1>6. 1 \in 1..3 /\ 2 \in 1..3 /\ 3 \in 1..3
    OBVIOUS
<1>7. /\ p[1] \in Int /\ p[2] \in Int /\ p[3] \in Int /\ q[1] \in Int /\ q[2] \in Int /\ q[3] \in Int
      /\ p = <<p[1], p[2], p[3]>> /\ q = <<q[1], q[2], q[3]>>
    BY <1>1, PositionIs, SpanType
<1>8. p[1] = q[1] /\ p[2] = q[2] /\ p[3] = q[3]
    BY <1>5, <1>6, <1>7
<1> QED  BY <1>1, <1>3, <1>7, <1>8

(* The surface is what is drawn for the exposed sides.                   *)
LEMMA NeighbourIn ==
    ASSUME NEW p \in Positions, NEW face \in 0..5
    PROVE  in_bounds(neighbour(p, face)) <=> neighbour(p, face) \in Positions
<1> DEFINE q == neighbour(p, face)
<1>1. q = <<q[1], q[2], q[3]>>
    BY DEF neighbour, Plus
<1> HIDE DEF q
<1>2. (q[1] \in Span /\ q[2] \in Span /\ q[3] \in Span) <=> q \in Positions
    BY <1>1 DEF Positions
<1>3. (\A axis \in 1..3 : q[axis] \in Span) <=> q[1] \in Span /\ q[2] \in Span /\ q[3] \in Span
    <2>1. \A axis \in 1..3 : axis = 1 \/ axis = 2 \/ axis = 3
        OBVIOUS
    <2>2. 1 \in 1..3 /\ 2 \in 1..3 /\ 3 \in 1..3
        OBVIOUS
    <2> QED  BY <2>1, <2>2
<1> QED  BY <1>2, <1>3 DEF in_bounds, q

(* The surface is what is drawn for the exposed sides.                   *)
LEMMA SurfaceIs == Surface = {SideOf(voxels, s) : s \in ExposedSides(voxels)}
<1> DEFINE open(p, f) == neighbour(p, f) \in Positions => voxels[neighbour(p, f)] = 0
           sides == {s \in Positions \X (0..5) : voxels[s[1]] # 0 /\ open(s[1], s[2])}
<1>1. ASSUME NEW s \in Sides
      PROVE  Exposed(voxels, s[1], s[2]) <=> voxels[s[1]] # 0 /\ open(s[1], s[2])
    <2>1. in_bounds(neighbour(s[1], s[2])) <=> neighbour(s[1], s[2]) \in Positions
        BY NeighbourIn DEF Sides
    <2> QED  BY <2>1 DEF Exposed, is_solid, solid_at
<1>2. sides = ExposedSides(voxels)
    <2> HIDE DEF open
    <2> QED  BY <1>1 DEF ExposedSides, Sides
<1>3. Surface = {SideOf(voxels, s) : s \in sides}
    BY DEF Surface, SideOf, LowOf
<1> QED  BY <1>2, <1>3

(* A quad covers the box its corners span, flat along its normal.        *)
Bounds(q, lo, hi) ==
    \A axis \in 1..3 :
        /\ lo[axis] \in Int /\ hi[axis] \in Int
        /\ \A i \in 1..4 : /\ q.corners[i][axis] \in Int
                           /\ lo[axis] <= q.corners[i][axis] /\ q.corners[i][axis] <= hi[axis]
        /\ \E i \in 1..4 : q.corners[i][axis] = lo[axis]
        /\ \E i \in 1..4 : q.corners[i][axis] = hi[axis]

Across(q, lo, hi, axis) == IF q.normal[axis] # 0 THEN {lo[axis]} ELSE lo[axis]..hi[axis] - 1

(* What a quad covers is known by the bounds of its corners.             *)
LEMMA CoveredBox ==
    ASSUME NEW q, NEW lo, NEW hi, Bounds(q, lo, hi)
    PROVE  Covered(q) = {<<at, q.normal, q.material>> :
                           at \in Across(q, lo, hi, 1) \X Across(q, lo, hi, 2) \X Across(q, lo, hi, 3)}
<1> DEFINE low(axis) == q.corners[CHOOSE i \in 1..4 : \A j \in 1..4 : q.corners[i][axis] <= q.corners[j][axis]][axis]
           high(axis) == q.corners[CHOOSE i \in 1..4 : \A j \in 1..4 : q.corners[i][axis] >= q.corners[j][axis]][axis]
           extent(axis) == IF q.normal[axis] # 0 THEN {low(axis)} ELSE low(axis)..high(axis) - 1
<1>1. ASSUME NEW axis \in 1..3
      PROVE  low(axis) = lo[axis] /\ high(axis) = hi[axis]
    <2> DEFINE x(i) == q.corners[i][axis]
    <2>1. /\ lo[axis] \in Int /\ hi[axis] \in Int
          /\ \A i \in 1..4 : x(i) \in Int /\ lo[axis] <= x(i) /\ x(i) <= hi[axis]
          /\ \E i \in 1..4 : x(i) = lo[axis]
          /\ \E i \in 1..4 : x(i) = hi[axis]
        BY DEF Bounds
    <2>2. low(axis) = x(CHOOSE i \in 1..4 : \A j \in 1..4 : x(i) <= x(j))
          /\ high(axis) = x(CHOOSE i \in 1..4 : \A j \in 1..4 : x(i) >= x(j))
        OBVIOUS
    <2> HIDE DEF x, low, high
    <2>3. PICK a \in 1..4 : x(a) = lo[axis]
        BY <2>1
    <2>4. PICK b \in 1..4 : x(b) = hi[axis]
        BY <2>1
    <2> DEFINE least == CHOOSE i \in 1..4 : \A j \in 1..4 : x(i) <= x(j)
               most == CHOOSE i \in 1..4 : \A j \in 1..4 : x(i) >= x(j)
    <2>5. least \in 1..4 /\ \A j \in 1..4 : x(least) <= x(j)
        <3>1. \E i \in 1..4 : \A j \in 1..4 : x(i) <= x(j)
            BY <2>1, <2>3
        <3> QED  BY <3>1
    <2>6. most \in 1..4 /\ \A j \in 1..4 : x(most) >= x(j)
        <3>1. \E i \in 1..4 : \A j \in 1..4 : x(i) >= x(j)
            BY <2>1, <2>4
        <3> QED  BY <3>1
    <2>7. low(axis) = x(least) /\ high(axis) = x(most)
        BY <2>2
    <2> HIDE DEF least, most
    <2>8. x(least) <= lo[axis] /\ lo[axis] <= x(least) /\ x(least) \in Int
        BY <2>1, <2>3, <2>5
    <2>9. x(most) >= hi[axis] /\ x(most) <= hi[axis] /\ x(most) \in Int
        BY <2>1, <2>4, <2>6
    <2> QED  BY <2>1, <2>7, <2>8, <2>9
<1>2. Covered(q) = {<<at, q.normal, q.material>> : at \in extent(1) \X extent(2) \X extent(3)}
    BY DEF Covered
<1>3. extent(1) = Across(q, lo, hi, 1) /\ extent(2) = Across(q, lo, hi, 2) /\ extent(3) = Across(q, lo, hi, 3)
    <2>1. 1 \in 1..3 /\ 2 \in 1..3 /\ 3 \in 1..3
        OBVIOUS
    <2>2. \A axis \in 1..3 : extent(axis) = Across(q, lo, hi, axis)
        <3> HIDE DEF low, high
        <3> QED  BY <1>1 DEF Across
    <2> HIDE DEF extent
    <2> QED  BY <2>1, <2>2
<1> HIDE DEF extent
<1> QED  BY <1>2, <1>3

(* The four corners of a face lie in its plane and at the ends of its    *)
(* edges, the second between the first and the third, and turn about the *)
(* normal.                                                               *)
Fits(C, n, axis) ==
    /\ \A i \in 1..4 : /\ C[i][axis] \in 0..1
                       /\ n[axis] = 1 => C[i][axis] = 1
                       /\ n[axis] = -1 => C[i][axis] = 0
    /\ n[axis] = 0 => (\E i \in 1..4 : C[i][axis] = 0) /\ (\E i \in 1..4 : C[i][axis] = 1)
    /\ \/ C[1][axis] <= C[2][axis] /\ C[2][axis] <= C[3][axis]
       \/ C[3][axis] <= C[2][axis] /\ C[2][axis] <= C[1][axis]

(* The corners of every face fit its normal.                             *)
LEMMA FaceTable ==
    ASSUME NEW face \in 0..5
    PROVE  \A axis \in 1..3 : Fits(face_corners(face), normal(face), axis)
<1> DEFINE C == face_corners(face)
           n == normal(face)
<1>1. /\ 1 \in 1..4 /\ 2 \in 1..4 /\ 3 \in 1..4 /\ 4 \in 1..4
      /\ \A i \in 1..4 : i = 1 \/ i = 2 \/ i = 3 \/ i = 4
    OBVIOUS
<1>2. ASSUME face = 0
      PROVE  Fits(C, n, 1) /\ Fits(C, n, 2) /\ Fits(C, n, 3)
    <2>1. C = << <<1,0,0>>, <<1,1,0>>, <<1,1,1>>, <<1,0,1>> >>
          /\ n = <<1, 0, 0>>
        BY <1>2 DEF face_corners, normal
    <2> HIDE DEF C, n
    <2>2. Fits(C, n, 1)
        BY <1>1, <2>1 DEF Fits
    <2>3. Fits(C, n, 2)
        BY <1>1, <2>1 DEF Fits
    <2>4. Fits(C, n, 3)
        BY <1>1, <2>1 DEF Fits
    <2> QED  BY <2>2, <2>3, <2>4
<1>3. ASSUME face = 1
      PROVE  Fits(C, n, 1) /\ Fits(C, n, 2) /\ Fits(C, n, 3)
    <2>1. C = << <<0,0,1>>, <<0,1,1>>, <<0,1,0>>, <<0,0,0>> >>
          /\ n = <<-1, 0, 0>>
        BY <1>3 DEF face_corners, normal
    <2> HIDE DEF C, n
    <2>2. Fits(C, n, 1)
        BY <1>1, <2>1 DEF Fits
    <2>3. Fits(C, n, 2)
        BY <1>1, <2>1 DEF Fits
    <2>4. Fits(C, n, 3)
        BY <1>1, <2>1 DEF Fits
    <2> QED  BY <2>2, <2>3, <2>4
<1>4. ASSUME face = 2
      PROVE  Fits(C, n, 1) /\ Fits(C, n, 2) /\ Fits(C, n, 3)
    <2>1. C = << <<0,1,0>>, <<0,1,1>>, <<1,1,1>>, <<1,1,0>> >>
          /\ n = <<0, 1, 0>>
        BY <1>4 DEF face_corners, normal
    <2> HIDE DEF C, n
    <2>2. Fits(C, n, 1)
        BY <1>1, <2>1 DEF Fits
    <2>3. Fits(C, n, 2)
        BY <1>1, <2>1 DEF Fits
    <2>4. Fits(C, n, 3)
        BY <1>1, <2>1 DEF Fits
    <2> QED  BY <2>2, <2>3, <2>4
<1>5. ASSUME face = 3
      PROVE  Fits(C, n, 1) /\ Fits(C, n, 2) /\ Fits(C, n, 3)
    <2>1. C = << <<0,0,1>>, <<0,0,0>>, <<1,0,0>>, <<1,0,1>> >>
          /\ n = <<0, -1, 0>>
        BY <1>5 DEF face_corners, normal
    <2> HIDE DEF C, n
    <2>2. Fits(C, n, 1)
        BY <1>1, <2>1 DEF Fits
    <2>3. Fits(C, n, 2)
        BY <1>1, <2>1 DEF Fits
    <2>4. Fits(C, n, 3)
        BY <1>1, <2>1 DEF Fits
    <2> QED  BY <2>2, <2>3, <2>4
<1>6. ASSUME face = 4
      PROVE  Fits(C, n, 1) /\ Fits(C, n, 2) /\ Fits(C, n, 3)
    <2>1. C = << <<0,0,1>>, <<1,0,1>>, <<1,1,1>>, <<0,1,1>> >>
          /\ n = <<0, 0, 1>>
        BY <1>6 DEF face_corners, normal
    <2> HIDE DEF C, n
    <2>2. Fits(C, n, 1)
        BY <1>1, <2>1 DEF Fits
    <2>3. Fits(C, n, 2)
        BY <1>1, <2>1 DEF Fits
    <2>4. Fits(C, n, 3)
        BY <1>1, <2>1 DEF Fits
    <2> QED  BY <2>2, <2>3, <2>4
<1>7. ASSUME face = 5
      PROVE  Fits(C, n, 1) /\ Fits(C, n, 2) /\ Fits(C, n, 3)
    <2>1. C = << <<0,1,0>>, <<1,1,0>>, <<1,0,0>>, <<0,0,0>> >>
          /\ n = <<0, 0, -1>>
        BY <1>7 DEF face_corners, normal
    <2> HIDE DEF C, n
    <2>2. Fits(C, n, 1)
        BY <1>1, <2>1 DEF Fits
    <2>3. Fits(C, n, 2)
        BY <1>1, <2>1 DEF Fits
    <2>4. Fits(C, n, 3)
        BY <1>1, <2>1 DEF Fits
    <2> QED  BY <2>2, <2>3, <2>4
<1> HIDE DEF C, n
<1>8. face = 0 \/ face = 1 \/ face = 2 \/ face = 3 \/ face = 4 \/ face = 5
    OBVIOUS
<1>9. \A axis \in 1..3 : axis = 1 \/ axis = 2 \/ axis = 3
    OBVIOUS
<1>10. \A axis \in 1..3 : Fits(C, n, axis)
    BY <1>2, <1>3, <1>4, <1>5, <1>6, <1>7, <1>8, <1>9
<1> QED  BY <1>10 DEF C, n

(* The cubic mesher draws one side with one quad.                        *)
LEMMA CubicQuad ==
    ASSUME NEW chunk, NEW p \in Positions, NEW face \in 0..5
    PROVE  Covered(emit_face(chunk, p, face)) = {SideOf(chunk, <<p, face>>)}
<1> DEFINE q == emit_face(chunk, p, face)
           lo == LowOf(p, face)
           n == normal(face)
           hi == [axis \in 1..3 |-> IF n[axis] # 0 THEN lo[axis] ELSE p[axis] + 1]
           C == face_corners(face)
<1>1. /\ q.normal = n /\ q.material = chunk[p]
      /\ \A i \in 1..4 : q.corners[i] = Plus(p, C[i])
    BY DEF emit_face
<1>2. \A axis \in 1..3 : axis = 1 \/ axis = 2 \/ axis = 3
    OBVIOUS
<1>3. \A axis \in 1..3 : p[axis] \in Int
    BY <1>2, PositionIs, SpanType
<1>4. \A axis \in 1..3 : n[axis] \in -1..1
    BY NormalType
<1>5. \A axis \in 1..3 : \A i \in 1..4 : q.corners[i][axis] = p[axis] + C[i][axis]
    BY <1>1, <1>2 DEF Plus
<1>6. \A axis \in 1..3 : Fits(C, n, axis)
    BY FaceTable
<1>7. \A axis \in 1..3 : lo[axis] = p[axis] + (IF n[axis] = 1 THEN 1 ELSE 0)
    BY DEF LowOf
<1>8. \A axis \in 1..3 : hi[axis] = IF n[axis] # 0 THEN lo[axis] ELSE p[axis] + 1
    OBVIOUS
<1>9. lo = <<lo[1], lo[2], lo[3]>>
    <2>1. lo = [axis \in 1..3 |-> lo[axis]]
        BY DEF LowOf
    <2> HIDE DEF lo
    <2> QED  BY <2>1, TripleIs
<1> HIDE DEF q, lo, hi, n, C
<1>10. ASSUME NEW axis \in 1..3
       PROVE  /\ lo[axis] \in Int /\ hi[axis] \in Int
              /\ \A i \in 1..4 : /\ q.corners[i][axis] \in Int
                                 /\ lo[axis] <= q.corners[i][axis] /\ q.corners[i][axis] <= hi[axis]
              /\ \E i \in 1..4 : q.corners[i][axis] = lo[axis]
              /\ \E i \in 1..4 : q.corners[i][axis] = hi[axis]
    <2> DEFINE x == p[axis]
               m == n[axis]
               c(i) == C[i][axis]
               y(i) == q.corners[i][axis]
    <2>1. x \in Int /\ m \in -1..1
        BY <1>3, <1>4
    <2>2. \A i \in 1..4 : y(i) = x + c(i)
        BY <1>5
    <2>3. /\ \A i \in 1..4 : c(i) \in 0..1 /\ (m = 1 => c(i) = 1) /\ (m = -1 => c(i) = 0)
          /\ m = 0 => (\E i \in 1..4 : c(i) = 0) /\ (\E i \in 1..4 : c(i) = 1)
        BY <1>6 DEF Fits
    <2>4. lo[axis] = x + (IF m = 1 THEN 1 ELSE 0) /\ hi[axis] = IF m # 0 THEN lo[axis] ELSE x + 1
        BY <1>7, <1>8
    <2> DEFINE a == lo[axis]
               b == hi[axis]
    <2> HIDE DEF x, m, c, y
    <2>5. a \in Int /\ b \in Int /\ a = x + (IF m = 1 THEN 1 ELSE 0) /\ b = IF m # 0 THEN a ELSE x + 1
        BY <2>1, <2>4
    <2> HIDE DEF a, b
    <2>6. 1 \in 1..4
        OBVIOUS
    <2>7. CASE m = 0
        <3>1. a = x /\ b = x + 1
            BY <2>1, <2>5, <2>7
        <3>2. PICK i \in 1..4 : c(i) = 0
            BY <2>3, <2>7
        <3>3. PICK j \in 1..4 : c(j) = 1
            BY <2>3, <2>7
        <3>4. y(i) = a /\ y(j) = b
            BY <2>1, <2>2, <3>1, <3>2, <3>3
        <3>5. \A k \in 1..4 : y(k) \in Int /\ a <= y(k) /\ y(k) <= b
            BY <2>1, <2>2, <2>3, <3>1
        <3> QED  BY <2>5, <3>4, <3>5 DEF y, a, b
    <2>8. CASE m = 1 \/ m = -1
        <3>1. \A k \in 1..4 : y(k) = a
            BY <2>1, <2>2, <2>3, <2>5, <2>8
        <3>2. a = b
            BY <2>1, <2>5, <2>8
        <3>3. y(1) = a
            BY <2>6, <3>1
        <3>4. (\E k \in 1..4 : y(k) = a) /\ (\E k \in 1..4 : y(k) = b)
            BY <2>6, <3>2, <3>3
        <3>5. \A k \in 1..4 : y(k) \in Int /\ a <= y(k) /\ y(k) <= b
            BY <2>5, <3>1, <3>2
        <3> QED  BY <2>5, <3>4, <3>5 DEF y, a, b
    <2> QED  BY <2>1, <2>7, <2>8
<1>11. Bounds(q, lo, hi)
    BY <1>10 DEF Bounds
<1>12. ASSUME NEW axis \in 1..3
       PROVE  Across(q, lo, hi, axis) = {lo[axis]}
    <2>1. CASE n[axis] # 0
        BY <1>1, <2>1 DEF Across
    <2>2. CASE n[axis] = 0
        <3> DEFINE x == lo[axis]
        <3>1. x \in Int /\ hi[axis] = x + 1
            BY <1>3, <1>7, <1>8, <2>2
        <3>2. Across(q, lo, hi, axis) = x..(x + 1) - 1
            BY <1>1, <2>2, <3>1 DEF Across
        <3> HIDE DEF x
        <3>3. x..(x + 1) - 1 = {x}
            BY <3>1
        <3> QED  BY <3>2, <3>3 DEF x
    <2> QED  BY <2>1, <2>2
<1>13. Across(q, lo, hi, 1) = {lo[1]} /\ Across(q, lo, hi, 2) = {lo[2]} /\ Across(q, lo, hi, 3) = {lo[3]}
    <2>1. 1 \in 1..3 /\ 2 \in 1..3 /\ 3 \in 1..3
        OBVIOUS
    <2> QED  BY <1>12, <2>1
<1>14. {lo[1]} \X {lo[2]} \X {lo[3]} = {lo}
    <2>1. {lo[1]} \X {lo[2]} \X {lo[3]} = {<<lo[1], lo[2], lo[3]>>}
        OBVIOUS
    <2> QED  BY <1>9, <2>1
<1>15. Covered(q) = {<<at, q.normal, q.material>> : at \in {lo}}
    BY <1>11, <1>13, <1>14, CoveredBox
<1>16. SideOf(chunk, <<p, face>>) = <<lo, n, chunk[p]>>
    BY DEF SideOf, lo, n
<1> QED  BY <1>1, <1>15, <1>16 DEF q

(* The tangent axes of a slice, and the place of a cell of it.           *)
LEMMA TangentAxes ==
    /\ u_axis(1) = 2 /\ v_axis(1) = 3
    /\ u_axis(2) = 3 /\ v_axis(2) = 1
    /\ u_axis(3) = 1 /\ v_axis(3) = 2
BY DEF u_axis, v_axis

(* A place by its coordinates, for each axis.                            *)
LEMMA PlaceOf ==
    ASSUME NEW axis \in 1..3, NEW d, NEW a, NEW b
    PROVE  LET f == In3D(axis, d, a, b)
           IN  /\ f = [k \in 1..3 |-> f[k]] /\ f = <<f[1], f[2], f[3]>>
               /\ f[axis] = d /\ f[u_axis(axis)] = a /\ f[v_axis(axis)] = b
               /\ axis = 1 => f = <<d, a, b>>
               /\ axis = 2 => f = <<b, d, a>>
               /\ axis = 3 => f = <<a, b, d>>
<1> DEFINE f == In3D(axis, d, a, b)
<1>1. f = [k \in 1..3 |-> IF k = axis THEN d ELSE IF k = u_axis(axis) THEN a ELSE b]
    BY DEF In3D
<1>2. 1 \in 1..3 /\ 2 \in 1..3 /\ 3 \in 1..3 /\ (axis = 1 \/ axis = 2 \/ axis = 3)
    OBVIOUS
<1> HIDE DEF f
<1>3. f = [k \in 1..3 |-> f[k]]
    BY <1>1
<1>4. f = <<f[1], f[2], f[3]>>
    BY <1>3, TripleIs
<1>5. axis = 1 => f[1] = d /\ f[2] = a /\ f[3] = b
    BY <1>1, <1>2, TangentAxes
<1>6. axis = 2 => f[1] = b /\ f[2] = d /\ f[3] = a
    BY <1>1, <1>2, TangentAxes
<1>7. axis = 3 => f[1] = a /\ f[2] = b /\ f[3] = d
    BY <1>1, <1>2, TangentAxes
<1>8. f[axis] = d /\ f[u_axis(axis)] = a /\ f[v_axis(axis)] = b
    BY <1>2, <1>5, <1>6, <1>7, TangentAxes
<1> QED  BY <1>3, <1>4, <1>5, <1>6, <1>7, <1>8 DEF f

(* The face of an axis and a direction along it.                         *)
LEMMA FaceOf ==
    ASSUME NEW axis \in 1..3, NEW neg \in BOOLEAN
    PROVE  /\ face_id(axis, neg) \in 0..5
           /\ \A k \in 1..3 : normal(face_id(axis, neg))[k] = IF k # axis THEN 0 ELSE IF neg THEN -1 ELSE 1
<1>1. axis = 1 \/ axis = 2 \/ axis = 3
    OBVIOUS
<1>2. \A k \in 1..3 : k = 1 \/ k = 2 \/ k = 3
    OBVIOUS
<1>3. face_id(axis, neg) = 2 * (axis - 1) + (IF neg THEN 1 ELSE 0)
    BY DEF face_id
<1> DEFINE f == face_id(axis, neg)
<1>4. /\ axis = 1 => f = IF neg THEN 1 ELSE 0
      /\ axis = 2 => f = IF neg THEN 3 ELSE 2
      /\ axis = 3 => f = IF neg THEN 5 ELSE 4
    BY <1>3
<1> HIDE DEF f
<1>5. CASE axis = 1
    BY <1>2, <1>4, <1>5, Normals DEF f
<1>6. CASE axis = 2
    BY <1>2, <1>4, <1>6, Normals DEF f
<1>7. CASE axis = 3
    BY <1>2, <1>4, <1>7, Normals DEF f
<1> QED  BY <1>1, <1>5, <1>6, <1>7

(* The greedy mesher draws the sides of a rectangle of cells with one    *)
(* quad.                                                                 *)
CornersOf(axis, D, mu, mv, w, h, neg) ==
    IF neg THEN <<In3D(axis, D, mu, mv + h), In3D(axis, D, mu + w, mv + h), In3D(axis, D, mu + w, mv), In3D(axis, D, mu, mv)>>
    ELSE <<In3D(axis, D, mu, mv), In3D(axis, D, mu + w, mv), In3D(axis, D, mu + w, mv + h), In3D(axis, D, mu, mv + h)>>

(* The parts of a quad.                                                  *)
LEMMA QuadIs ==
    ASSUME NEW axis, NEW d, NEW mu \in Int, NEW mv \in Int, NEW w, NEW h, NEW neg \in BOOLEAN, NEW key,
           NEW D, D = IF neg THEN d ELSE d + 1
    PROVE  LET q == emit_quad(axis, d, mu, mv, w, h, neg, key)
           IN  /\ q.corners = CornersOf(axis, D, mu, mv, w, h, neg)
               /\ q.normal = normal(face_id(axis, neg)) /\ q.material = key.material
<1>1. mu + 0 = mu /\ mv + 0 = mv
    OBVIOUS
<1> QED  BY <1>1 DEF emit_quad, CornersOf

(* The bounds of the corners of a rectangle.                             *)
LEMMA RectBounds ==
    ASSUME NEW axis \in 1..3, NEW D \in Int, NEW mu \in Int, NEW mv \in Int,
           NEW w \in Nat \ {0}, NEW h \in Nat \ {0}, NEW neg \in BOOLEAN,
           NEW q, q.corners = CornersOf(axis, D, mu, mv, w, h, neg)
    PROVE  Bounds(q, In3D(axis, D, mu, mv), In3D(axis, D, mu + w, mv + h))
<1> DEFINE lo == In3D(axis, D, mu, mv)
           hi == In3D(axis, D, mu + w, mv + h)
           t(a, b) == In3D(axis, D, a, b)
           C == q.corners
<1>1. \/ /\ C[1] = t(mu, mv + h) /\ C[2] = t(mu + w, mv + h)
         /\ C[3] = t(mu + w, mv) /\ C[4] = t(mu, mv)
      \/ /\ C[1] = t(mu, mv) /\ C[2] = t(mu + w, mv)
         /\ C[3] = t(mu + w, mv + h) /\ C[4] = t(mu, mv + h)
    BY DEF CornersOf
<1>2. \A k \in 1..3 : k = axis \/ (k # axis /\ k = u_axis(axis)) \/ (k # axis /\ k # u_axis(axis) /\ k = v_axis(axis))
    <2>1. axis = 1 \/ axis = 2 \/ axis = 3
        OBVIOUS
    <2>2. \A k \in 1..3 : k = 1 \/ k = 2 \/ k = 3
        OBVIOUS
    <2> QED  BY <2>1, <2>2, TangentAxes
<1>3. \A a, b : /\ t(a, b)[axis] = D /\ t(a, b)[u_axis(axis)] = a /\ t(a, b)[v_axis(axis)] = b
    BY PlaceOf
<1>4. lo = t(mu, mv) /\ hi = t(mu + w, mv + h)
    OBVIOUS
<1>5. 1 \in 1..4 /\ 2 \in 1..4 /\ 3 \in 1..4 /\ 4 \in 1..4 /\ \A i \in 1..4 : i = 1 \/ i = 2 \/ i = 3 \/ i = 4
    OBVIOUS
<1> DEFINE A == mu + w
           B == mv + h
<1>6. A \in Int /\ B \in Int /\ mu <= A /\ mv <= B
    OBVIOUS
<1> HIDE DEF lo, hi, t, C
<1>7. ASSUME NEW k \in 1..3
      PROVE  /\ lo[k] \in Int /\ hi[k] \in Int
             /\ \A i \in 1..4 : C[i][k] \in Int /\ lo[k] <= C[i][k] /\ C[i][k] <= hi[k]
             /\ \E i \in 1..4 : C[i][k] = lo[k]
             /\ \E i \in 1..4 : C[i][k] = hi[k]
    <2> HIDE DEF A, B
    <2>1. CASE k = axis
        <3>1. C[1][k] = D /\ C[2][k] = D /\ C[3][k] = D /\ C[4][k] = D /\ lo[k] = D /\ hi[k] = D
            BY <1>1, <1>3, <1>4, <2>1
        <3> QED  BY <1>5, <3>1
    <2>2. CASE k = u_axis(axis)
        <3>1. lo[k] = mu /\ hi[k] = A
            BY <1>3, <1>4, <2>2 DEF A
        <3>2. \/ C[1][k] = mu /\ C[2][k] = A /\ C[3][k] = A /\ C[4][k] = mu
              \/ C[1][k] = mu /\ C[2][k] = A /\ C[3][k] = A /\ C[4][k] = mu
            BY <1>1, <1>3, <2>2 DEF A
        <3> QED  BY <1>5, <1>6, <3>1, <3>2
    <2>3. CASE k = v_axis(axis)
        <3>1. lo[k] = mv /\ hi[k] = B
            BY <1>3, <1>4, <2>3 DEF B
        <3>2. \/ C[1][k] = B /\ C[2][k] = B /\ C[3][k] = mv /\ C[4][k] = mv
              \/ C[1][k] = mv /\ C[2][k] = mv /\ C[3][k] = B /\ C[4][k] = B
            BY <1>1, <1>3, <2>3 DEF B
        <3> QED  BY <1>5, <1>6, <3>1, <3>2
    <2> QED  BY <1>2, <2>1, <2>2, <2>3
<1>8. \A k \in 1..3 :
             /\ lo[k] \in Int /\ hi[k] \in Int
             /\ \A i \in 1..4 : /\ C[i][k] \in Int
                                /\ lo[k] <= C[i][k] /\ C[i][k] <= hi[k]
             /\ \E i \in 1..4 : C[i][k] = lo[k]
             /\ \E i \in 1..4 : C[i][k] = hi[k]
    BY <1>7
<1> QED  BY <1>8 DEF Bounds, lo, hi, C

(* A flat box of three sides is a rectangle.                             *)
IsFlat(D, U, V) ==
    /\ {D} \X U \X V = {<<D, c[1], c[2]>> : c \in U \X V}
    /\ V \X {D} \X U = {<<c[2], D, c[1]>> : c \in U \X V}
    /\ U \X V \X {D} = {<<c[1], c[2], D>> : c \in U \X V}

(* A box that is flat along one axis.                                    *)
LEMMA FlatBox ==
    ASSUME NEW D, NEW U, NEW V
    PROVE  IsFlat(D, U, V)
<1>1. {D} \X U \X V = {<<D, c[1], c[2]>> : c \in U \X V}
    <2> DEFINE P == {D} \X U \X V
               Q == {<<D, c[1], c[2]>> : c \in U \X V}
    <2>1. ASSUME NEW x \in P
          PROVE  x \in Q
        <3>1. x = <<x[1], x[2], x[3]>> /\ x[1] \in {D} /\ x[2] \in U /\ x[3] \in V
            OBVIOUS
        <3> DEFINE c == <<x[2], x[3]>>
        <3>2. c \in U \X V /\ c[1] = x[2] /\ c[2] = x[3]
            BY <3>1
        <3>3. x = <<D, c[1], c[2]>>
            BY <3>1, <3>2
        <3> HIDE DEF c
        <3> QED  BY <3>2, <3>3
    <2>2. ASSUME NEW c \in U \X V
          PROVE  <<D, c[1], c[2]>> \in P
        <3>1. c[1] \in U /\ c[2] \in V
            OBVIOUS
        <3> QED  BY <3>1
    <2> HIDE DEF P
    <2>3. P = Q
        BY <2>1, <2>2
    <2> QED  BY <2>3 DEF P
<1>2. V \X {D} \X U = {<<c[2], D, c[1]>> : c \in U \X V}
    <2> DEFINE P == V \X {D} \X U
               Q == {<<c[2], D, c[1]>> : c \in U \X V}
    <2>1. ASSUME NEW x \in P
          PROVE  x \in Q
        <3>1. x = <<x[1], x[2], x[3]>> /\ x[1] \in V /\ x[2] \in {D} /\ x[3] \in U
            OBVIOUS
        <3> DEFINE c == <<x[3], x[1]>>
        <3>2. c \in U \X V /\ c[1] = x[3] /\ c[2] = x[1]
            BY <3>1
        <3>3. x = <<c[2], D, c[1]>>
            BY <3>1, <3>2
        <3> HIDE DEF c
        <3> QED  BY <3>2, <3>3
    <2>2. ASSUME NEW c \in U \X V
          PROVE  <<c[2], D, c[1]>> \in P
        <3>1. c[1] \in U /\ c[2] \in V
            OBVIOUS
        <3> QED  BY <3>1
    <2> HIDE DEF P
    <2>3. P = Q
        BY <2>1, <2>2
    <2> QED  BY <2>3 DEF P
<1>3. U \X V \X {D} = {<<c[1], c[2], D>> : c \in U \X V}
    <2> DEFINE P == U \X V \X {D}
               Q == {<<c[1], c[2], D>> : c \in U \X V}
    <2>1. ASSUME NEW x \in P
          PROVE  x \in Q
        <3>1. x = <<x[1], x[2], x[3]>> /\ x[1] \in U /\ x[2] \in V /\ x[3] \in {D}
            OBVIOUS
        <3> DEFINE c == <<x[1], x[2]>>
        <3>2. c \in U \X V /\ c[1] = x[1] /\ c[2] = x[2]
            BY <3>1
        <3>3. x = <<c[1], c[2], D>>
            BY <3>1, <3>2
        <3> HIDE DEF c
        <3> QED  BY <3>2, <3>3
    <2>2. ASSUME NEW c \in U \X V
          PROVE  <<c[1], c[2], D>> \in P
        <3>1. c[1] \in U /\ c[2] \in V
            OBVIOUS
        <3> QED  BY <3>1
    <2> HIDE DEF P
    <2>3. P = Q
        BY <2>1, <2>2
    <2> QED  BY <2>3 DEF P
<1> QED  BY <1>1, <1>2, <1>3 DEF IsFlat

(* Where the faces of a slice are.                                       *)
Depth(neg, d) == IF neg THEN d ELSE d + 1

(* The cells of a rectangle.                                             *)
Rect(mu, mv, w, h) == (mu..mu + w - 1) \X (mv..mv + h - 1)

RectFaces(axis, D, mu, mv, w, h, n, key) ==
    {<<In3D(axis, D, c[1], c[2]), n, key.material>> : c \in Rect(mu, mv, w, h)}

(* A quad covers one face for each cell of its rectangle.                *)
LEMMA RectQuad ==
    ASSUME NEW axis \in 1..3, NEW d \in Int, NEW mu \in Int, NEW mv \in Int,
           NEW w \in Nat \ {0}, NEW h \in Nat \ {0}, NEW neg \in BOOLEAN, NEW key
    PROVE  Covered(emit_quad(axis, d, mu, mv, w, h, neg, key))
             = RectFaces(axis, Depth(neg, d), mu, mv, w, h, normal(face_id(axis, neg)), key)
<1> DEFINE D == Depth(neg, d)
           q == emit_quad(axis, d, mu, mv, w, h, neg, key)
           n == normal(face_id(axis, neg))
           lo == In3D(axis, D, mu, mv)
           hi == In3D(axis, D, mu + w, mv + h)
           U == mu..mu + w - 1
           V == mv..mv + h - 1
           box == Across(q, lo, hi, 1) \X Across(q, lo, hi, 2) \X Across(q, lo, hi, 3)
<1>1. q.corners = CornersOf(axis, D, mu, mv, w, h, neg) /\ q.normal = n /\ q.material = key.material
    <2>1. D = IF neg THEN d ELSE d + 1
        BY DEF Depth
    <2> HIDE DEF D
    <2> QED  BY <2>1, QuadIs
<1>2. D \in Int
    BY DEF Depth
<1> HIDE DEF q, D
<1>3. Bounds(q, lo, hi)
    BY <1>1, <1>2, RectBounds
<1>4. Covered(q) = {<<at, q.normal, q.material>> : at \in box}
    <2> HIDE DEF lo, hi
    <2> QED  BY <1>3, CoveredBox
<1>5. \A k \in 1..3 : n[k] # 0 <=> k = axis
    BY FaceOf
<1>6. lo[axis] = D /\ lo[u_axis(axis)] = mu /\ lo[v_axis(axis)] = mv
      /\ hi[u_axis(axis)] = mu + w /\ hi[v_axis(axis)] = mv + h
    BY PlaceOf
<1> HIDE DEF n, lo, hi
<1>7. 1 \in 1..3 /\ 2 \in 1..3 /\ 3 \in 1..3 /\ (axis = 1 \/ axis = 2 \/ axis = 3)
    OBVIOUS
<1>8. Across(q, lo, hi, axis) = {D} /\ Across(q, lo, hi, u_axis(axis)) = U /\ Across(q, lo, hi, v_axis(axis)) = V
    BY <1>1, <1>5, <1>6, <1>7, TangentAxes DEF Across
<1> HIDE DEF U, V
<1>0. IsFlat(D, U, V)
    BY FlatBox
<1>9. box = {In3D(axis, D, c[1], c[2]) : c \in U \X V}
    <2>1. CASE axis = 1
        <3>1. box = {D} \X U \X V
            BY <1>8, <2>1, TangentAxes
        <3>2. {D} \X U \X V = {<<D, c[1], c[2]>> : c \in U \X V}
            BY <1>0 DEF IsFlat
        <3>3. \A a, b : In3D(axis, D, a, b) = <<D, a, b>>
            BY <2>1, PlaceOf
        <3> HIDE DEF box
        <3> QED  BY <3>1, <3>2, <3>3
    <2>2. CASE axis = 2
        <3>1. box = V \X {D} \X U
            BY <1>8, <2>2, TangentAxes
        <3>2. V \X {D} \X U = {<<c[2], D, c[1]>> : c \in U \X V}
            BY <1>0 DEF IsFlat
        <3>3. \A a, b : In3D(axis, D, a, b) = <<b, D, a>>
            BY <2>2, PlaceOf
        <3> HIDE DEF box
        <3> QED  BY <3>1, <3>2, <3>3
    <2>3. CASE axis = 3
        <3>1. box = U \X V \X {D}
            BY <1>8, <2>3, TangentAxes
        <3>2. U \X V \X {D} = {<<c[1], c[2], D>> : c \in U \X V}
            BY <1>0 DEF IsFlat
        <3>3. \A a, b : In3D(axis, D, a, b) = <<a, b, D>>
            BY <2>3, PlaceOf
        <3> HIDE DEF box
        <3> QED  BY <3>1, <3>2, <3>3
    <2> QED  BY <1>7, <2>1, <2>2, <2>3
<1>10. Covered(q) = {<<In3D(axis, D, c[1], c[2]), n, key.material>> : c \in U \X V}
    <2> HIDE DEF box
    <2> QED  BY <1>1, <1>4, <1>9
<1> QED  BY <1>10 DEF q, n, U, V, D, Rect, RectFaces

(* A sequence of quads draws a set of sides if it can be divided among   *)
(* them: g says which sides a quad covers.                               *)
Parted(chunk, quads, g, sides) ==
    /\ \A k \in 1..Len(quads) : g[k] \subseteq sides /\ Covered(quads[k]) = {SideOf(chunk, s) : s \in g[k]}
    /\ \A j, k \in 1..Len(quads) : j # k => g[j] \cap g[k] = {}
    /\ \A s \in sides : \E k \in 1..Len(quads) : s \in g[k]

Draws(chunk, X, quads, sides) ==
    quads \in Seq(X) /\ \E g : Parted(chunk, quads, g, sides)

(* No quad draws no side.                                                *)
LEMMA DrawsNone ==
    ASSUME NEW chunk, NEW X
    PROVE  Draws(chunk, X, << >>, {})
<1>1. << >> \in Seq(X) /\ Len(<< >>) = 0 /\ 1..0 = {}
    OBVIOUS
<1>2. Parted(chunk, << >>, << >>, {})
    BY <1>1 DEF Parted
<1> QED  BY <1>1, <1>2 DEF Draws

(* One quad draws the sides it covers.                                   *)
LEMMA DrawsOne ==
    ASSUME NEW chunk, NEW X, NEW q \in X, NEW R, Covered(q) = {SideOf(chunk, s) : s \in R}
    PROVE  Draws(chunk, X, <<q>>, R)
<1> DEFINE g == [k \in 1..1 |-> R]
<1>1. <<q>> \in Seq(X) /\ Len(<<q>>) = 1 /\ <<q>>[1] = q /\ g[1] = R
    OBVIOUS
<1>2. \A k : k \in 1..1 <=> k = 1
    OBVIOUS
<1> HIDE DEF g
<1>3. Parted(chunk, <<q>>, g, R)
    BY <1>1, <1>2 DEF Parted
<1> QED  BY <1>1, <1>3 DEF Draws

(* Two sequences that draw different sides draw both together.           *)
LEMMA DrawsBoth ==
    ASSUME NEW chunk, NEW X, NEW a, NEW b, NEW S, NEW T, S \cap T = {},
           Draws(chunk, X, a, S), Draws(chunk, X, b, T)
    PROVE  Draws(chunk, X, a \o b, S \cup T)
<1>1. a \in Seq(X) /\ b \in Seq(X)
    BY DEF Draws
<1>2. PICK f : Parted(chunk, a, f, S)
    BY DEF Draws
<1>3. PICK h : Parted(chunk, b, h, T)
    BY DEF Draws
<1> DEFINE m == Len(a)
           n == Len(b)
           ab == a \o b
           g == [k \in 1..m + n |-> IF k <= m THEN f[k] ELSE h[k - m]]
<1>4. ab \in Seq(X) /\ Joint(a, b) /\ m \in Nat /\ n \in Nat
    BY <1>1, Together
<1>5. Len(ab) = m + n /\ (\A k \in 1..m : ab[k] = a[k]) /\ (\A k \in 1..n : ab[m + k] = b[k])
    BY <1>4 DEF Joint
<1>6. /\ \A k \in 1..m : f[k] \subseteq S /\ Covered(a[k]) = {SideOf(chunk, s) : s \in f[k]}
      /\ \A j, k \in 1..m : j # k => f[j] \cap f[k] = {}
      /\ \A s \in S : \E k \in 1..m : s \in f[k]
    BY <1>2 DEF Parted
<1>7. /\ \A k \in 1..n : h[k] \subseteq T /\ Covered(b[k]) = {SideOf(chunk, s) : s \in h[k]}
      /\ \A j, k \in 1..n : j # k => h[j] \cap h[k] = {}
      /\ \A s \in T : \E k \in 1..n : s \in h[k]
    BY <1>3 DEF Parted
<1> HIDE DEF m, n, ab
<1>8. \A k \in 1..m : k \in 1..m + n /\ g[k] = f[k]
    BY <1>4
<1>9. \A k \in 1..n : m + k \in 1..m + n /\ g[m + k] = h[k]
    <2> SUFFICES ASSUME NEW k \in 1..n
                 PROVE  m + k \in 1..m + n /\ g[m + k] = h[k]
        OBVIOUS
    <2>1. m + k \in 1..m + n /\ ~ m + k <= m /\ (m + k) - m = k
        BY <1>4
    <2> QED  BY <2>1
<1>10. \A k \in 1..m + n : k \in 1..m \/ \E i \in 1..n : k = m + i
    <2> SUFFICES ASSUME NEW k \in 1..m + n, k \notin 1..m
                 PROVE  \E i \in 1..n : k = m + i
        OBVIOUS
    <2>1. k - m \in 1..n /\ k = m + (k - m)
        BY <1>4
    <2> QED  BY <2>1
<1> HIDE DEF g
<1>11. \A k \in 1..m + n : g[k] \subseteq S \cup T /\ Covered(ab[k]) = {SideOf(chunk, s) : s \in g[k]}
    <2> SUFFICES ASSUME NEW k \in 1..m + n
                 PROVE  g[k] \subseteq S \cup T /\ Covered(ab[k]) = {SideOf(chunk, s) : s \in g[k]}
        OBVIOUS
    <2>1. CASE k \in 1..m
        BY <1>5, <1>6, <1>8, <2>1
    <2>2. CASE \E i \in 1..n : k = m + i
        <3>1. PICK i \in 1..n : k = m + i
            BY <2>2
        <3> QED  BY <1>5, <1>7, <1>9, <3>1
    <2> QED  BY <1>10, <2>1, <2>2
<1>12. ASSUME NEW j \in 1..m + n, NEW k \in 1..m + n, j # k
       PROVE  g[j] \cap g[k] = {}
    <2>1. CASE j \in 1..m /\ k \in 1..m
        BY <1>6, <1>8, <1>12, <2>1
    <2>2. CASE j \in 1..m /\ \E i \in 1..n : k = m + i
        <3>1. PICK i \in 1..n : k = m + i
            BY <2>2
        <3>2. g[j] \subseteq S /\ g[k] \subseteq T
            BY <1>6, <1>7, <1>8, <1>9, <2>2, <3>1
        <3> QED  BY <3>2
    <2>3. CASE k \in 1..m /\ \E i \in 1..n : j = m + i
        <3>1. PICK i \in 1..n : j = m + i
            BY <2>3
        <3>2. g[k] \subseteq S /\ g[j] \subseteq T
            BY <1>6, <1>7, <1>8, <1>9, <2>3, <3>1
        <3> QED  BY <3>2
    <2>4. CASE (\E i \in 1..n : j = m + i) /\ (\E i \in 1..n : k = m + i)
        <3>1. PICK i \in 1..n : j = m + i
            BY <2>4
        <3>2. PICK l \in 1..n : k = m + l
            BY <2>4
        <3>3. i # l
            BY <1>12, <3>1, <3>2
        <3> QED  BY <1>7, <1>9, <3>1, <3>2, <3>3
    <2> QED  BY <1>10, <2>1, <2>2, <2>3, <2>4
<1>13. \A s \in S \cup T : \E k \in 1..m + n : s \in g[k]
    <2> SUFFICES ASSUME NEW s \in S \cup T
                 PROVE  \E k \in 1..m + n : s \in g[k]
        OBVIOUS
    <2>1. CASE s \in S
        <3>1. PICK k \in 1..m : s \in f[k]
            BY <1>6, <2>1
        <3> QED  BY <1>8, <3>1
    <2>2. CASE s \in T
        <3>1. PICK k \in 1..n : s \in h[k]
            BY <1>7, <2>2
        <3> QED  BY <1>9, <3>1
    <2> QED  BY <2>1, <2>2
<1>14. Parted(chunk, ab, g, S \cup T)
    BY <1>5, <1>11, <1>12, <1>13 DEF Parted
<1> QED  BY <1>4, <1>14 DEF Draws, ab

(* Sequences in a sequence are put together one after the other.         *)
LEMMA Flattened ==
    ASSUME NEW X, NEW N \in Nat, NEW parts \in [1..N -> Seq(X)]
    PROVE  \E f \in [0..N -> Seq(X)] :
             /\ f[0] = << >> /\ \A i \in 1..N : f[i] = f[i - 1] \o parts[i]
             /\ FlattenSeq(parts) = f[N]
<1>1. parts \in Seq(Seq(X)) /\ Len(parts) = N /\ parts = [i \in 1..N |-> parts[i]]
    <2> DEFINE Q == Seq(X)
    <2> HIDE DEF Q
    <2>1. parts \in [1..N -> Q]
        BY DEF Q
    <2>2. parts \in Seq(Q) /\ Len(parts) = N
        BY <2>1, FunctionIsSeq
    <2> QED  BY <2>1, <2>2 DEF Q
<1> DEFINE next == [i \in 1..N |-> [x \in Seq(X) |-> x \o parts[i]]]
<1>2. next \in [1..N -> [Seq(X) -> Seq(X)]]
    <2>1. \A i \in 1..N : \A x \in Seq(X) : x \o parts[i] \in Seq(X)
        OBVIOUS
    <2> DEFINE Q == Seq(X)
    <2>2. \A i \in 1..N : \A x \in Q : x \o parts[i] \in Q
        BY <2>1
    <2> HIDE DEF Q
    <2>3. [i \in 1..N |-> [x \in Q |-> x \o parts[i]]] \in [1..N -> [Q -> Q]]
        BY <2>2
    <2> QED  BY <2>3 DEF Q
<1>3. PICK f \in [0..N -> Seq(X)] : Follows(f, N, << >>, next)
    <2>1. << >> \in Seq(X)
        OBVIOUS
    <2> HIDE DEF next
    <2> QED  BY <1>2, <2>1, Recursion
<1>4. f[0] = << >>
    <2> HIDE DEF next
    <2> QED  BY <1>3 DEF Follows
<1>5. ASSUME NEW i \in 1..N
      PROVE  f[i] = f[i - 1] \o parts[i]
    <2>1. i - 1 \in 0..N
        OBVIOUS
    <2>2. f[i - 1] \in Seq(X)
        <3> HIDE DEF next
        <3> QED  BY <1>3, <2>1
    <2>3. f[i] = next[i][f[i - 1]]
        <3> HIDE DEF next
        <3> QED  BY <1>3 DEF Follows
    <2> QED  BY <2>2, <2>3
<1> HIDE DEF next
<1>6. CASE N = 0
    <2>1. FlattenSeq(parts) = parts /\ parts = << >>
        BY <1>1, <1>6 DEF FlattenSeq
    <2> QED  BY <1>3, <1>4, <1>5, <1>6, <2>1
<1>7. CASE N # 0
    <2> DEFINE body(e) == [i \in 1..N |-> IF i = 1 THEN parts[i] ELSE e[i - 1] \o parts[i]]
               flatten[i \in 1..Len(parts)] == IF i = 1 THEN parts[i] ELSE flatten[i - 1] \o parts[i]
               g == [i \in 1..N |-> f[i]]
    <2>1. FlattenSeq(parts) = flatten[N]
        BY <1>1, <1>7 DEF FlattenSeq
    <2>2. flatten = CHOOSE e : e = [i \in 1..Len(parts) |-> IF i = 1 THEN parts[i] ELSE e[i - 1] \o parts[i]]
        OBVIOUS
    <2>3. flatten = CHOOSE e : e = body(e)
        <3> HIDE DEF flatten
        <3> QED  BY <1>1, <2>2
    <2> HIDE DEF flatten
    <2>4. g = body(g)
        <3>1. ASSUME NEW i \in 1..N
              PROVE  g[i] = IF i = 1 THEN parts[i] ELSE g[i - 1] \o parts[i]
            <4>1. CASE i = 1
                <5>1. f[i - 1] = << >>
                    BY <1>4, <4>1
                <5>2. << >> \o parts[i] = parts[i]
                    OBVIOUS
                <5> QED  BY <1>5, <4>1, <5>1, <5>2
            <4>2. CASE i # 1
                <5>1. i - 1 \in 1..N
                    BY <4>2
                <5> QED  BY <1>5, <4>2, <5>1
            <4> QED  BY <4>1, <4>2
        <3>2. g = [i \in 1..N |-> g[i]]
            OBVIOUS
        <3> HIDE DEF g
        <3>3. g = body(g)
            BY <3>1, <3>2
        <3> QED  BY <3>3
    <2>5. flatten = body(flatten)
        <3> HIDE DEF body, g
        <3> QED  BY <2>3, <2>4
    <2> DEFINE S == {i \in 0..N : i = 0 \/ flatten[i] = f[i]}
    <2>6. 0 \in S
        OBVIOUS
    <2>7. ASSUME NEW i \in 0..N - 1, i \in S
          PROVE  i + 1 \in S
        <3> DEFINE j == i + 1
        <3>1. j \in 1..N /\ j - 1 = i /\ j \in 0..N
            OBVIOUS
        <3> HIDE DEF j
        <3>2. flatten[j] = IF j = 1 THEN parts[j] ELSE flatten[j - 1] \o parts[j]
            BY <2>5, <3>1
        <3>3. g[j] = f[j] /\ g[j] = IF j = 1 THEN parts[j] ELSE g[j - 1] \o parts[j]
            <4>1. g[j] = f[j]
                BY <3>1
            <4> HIDE DEF g
            <4> QED  BY <2>4, <3>1, <4>1
        <3>4. CASE j = 1
            BY <3>1, <3>2, <3>3, <3>4
        <3>5. CASE j # 1
            <4>1. i # 0 /\ i \in 1..N
                BY <3>1, <3>5
            <4>2. flatten[i] = f[i] /\ g[i] = f[i]
                BY <2>7, <4>1
            <4>3. flatten[j] = f[j]
                BY <3>1, <3>2, <3>3, <3>5, <4>2
            <4> QED  BY <3>1, <4>3
        <3> QED  BY <3>4, <3>5 DEF j
    <2>8. N \in S
        <3> HIDE DEF S
        <3>1. 0..N \subseteq S
            BY <2>6, <2>7, UpTo
        <3> QED  BY <3>1
    <2> QED  BY <1>3, <1>4, <1>5, <1>7, <2>1, <2>8
<1> QED  BY <1>6, <1>7

(* What draws sets of sides that are disjoint draws them all together.   *)
(* A set is what the members of a sequence of sets hold.                 *)
Holds(whole, sides, N) == \A s : s \in whole <=> \E k \in 1..N : s \in sides[k]

(* Parts that draw different sides draw them all, put together.          *)
LEMMA FlattenDraws ==
    ASSUME NEW chunk, NEW X, NEW N \in Nat, NEW parts, NEW sides, parts = [k \in 1..N |-> parts[k]],
           \A k \in 1..N : Draws(chunk, X, parts[k], sides[k]),
           \A j, k \in 1..N : j # k => sides[j] \cap sides[k] = {},
           NEW whole, Holds(whole, sides, N)
    PROVE  Draws(chunk, X, FlattenSeq(parts), whole)
<1>1. parts \in [1..N -> Seq(X)]
    <2> DEFINE Q == Seq(X)
    <2>1. \A k \in 1..N : parts[k] \in Q
        BY DEF Draws
    <2> HIDE DEF Q
    <2>2. parts \in [1..N -> Q]
        BY <2>1
    <2> QED  BY <2>2 DEF Q
<1>2. PICK f \in [0..N -> Seq(X)] :
             /\ f[0] = << >> /\ \A i \in 1..N : f[i] = f[i - 1] \o parts[i]
             /\ FlattenSeq(parts) = f[N]
    BY <1>1, Flattened
<1> DEFINE all(n) == UNION {sides[k] : k \in 1..n}
           S == {n \in 0..N : Draws(chunk, X, f[n], all(n))}
<1>3. 0 \in S
    <2>1. all(0) = {}
        OBVIOUS
    <2>2. Draws(chunk, X, << >>, {})
        BY DrawsNone
    <2>3. f[0] = << >>
        BY <1>2
    <2> HIDE DEF all
    <2>4. Draws(chunk, X, f[0], all(0))
        BY <2>1, <2>2, <2>3
    <2>5. 0 \in 0..N
        OBVIOUS
    <2> QED  BY <2>4, <2>5
<1>4. ASSUME NEW n \in 0..N - 1, n \in S
      PROVE  n + 1 \in S
    <2> DEFINE j == n + 1
    <2>0. n \in Nat /\ n < N
        OBVIOUS
    <2>1. /\ j \in 1..N /\ j - 1 = n /\ j \in 0..N
          /\ \A k : k \in 1..j <=> k \in 1..n \/ k = j
          /\ \A k \in 1..n : k \in 1..N /\ k # j
        <3>1. j \in 1..N /\ j - 1 = n /\ j \in 0..N
            <4>1. j - 1 = n
                BY <2>0
            <4>2. j \in 1..N
                BY <2>0
            <4>3. j \in 0..N
                BY <2>0
            <4> QED  BY <4>1, <4>2, <4>3
        <3>2. \A k : k \in 1..j <=> k \in 1..n \/ k = j
            BY <2>0
        <3>3. \A k \in 1..n : k \in 1..N /\ k # j
            BY <2>0
        <3> QED  BY <3>1, <3>2, <3>3
    <2> HIDE DEF j
    <2>2. all(j) = all(n) \cup sides[j]
        BY <2>1
    <2>3. all(n) \cap sides[j] = {}
        BY <2>1
    <2> HIDE DEF all
    <2>4. Draws(chunk, X, f[n], all(n)) /\ Draws(chunk, X, parts[j], sides[j])
        BY <1>4, <2>1
    <2>5. Draws(chunk, X, f[n] \o parts[j], all(n) \cup sides[j])
        BY <2>3, <2>4, DrawsBoth
    <2>6. Draws(chunk, X, f[j], all(j))
        BY <1>2, <2>1, <2>2, <2>5
    <2> QED  BY <2>1, <2>6 DEF j
<1>5. N \in S
    <2> HIDE DEF S
    <2>1. 0..N \subseteq S
        BY <1>3, <1>4, UpTo
    <2> QED  BY <2>1
<1>6. all(N) = whole
    BY DEF Holds
<1> HIDE DEF all
<1> QED  BY <1>2, <1>5, <1>6

(* Numbers below w * h are pairs of numbers below w and h.               *)
LEMMA Quotient ==
    ASSUME NEW w \in Nat \ {0}, NEW h \in Nat \ {0}, NEW a \in 0..w * h - 1
    PROVE  a \div w \in 0..h - 1 /\ a % w \in 0..w - 1 /\ a = w * (a \div w) + (a % w)
<1> DEFINE q == a \div w
           r == a % w
<1>1. a \in Int /\ a >= 0 /\ a < w * h /\ w * h \in Nat
    OBVIOUS
<1>2. q \in Int /\ r \in 0..w - 1 /\ a = w * q + r
    BY <1>1, Divided
<1> DEFINE m == w * q
           n == w * h
<1>3. m \in Int /\ n \in Int /\ a = m + r /\ a < n
    BY <1>1, <1>2
<1> HIDE DEF q, r
<1>4. ~ q < 0 /\ ~ q >= h
    <2>1. q < 0 => m <= -w
        <3>1. q < 0 => w * q <= w * (-1)
            BY <1>2
        <3>2. w * (-1) = -w
            OBVIOUS
        <3> QED  BY <3>1, <3>2
    <2>2. q >= h => m >= n
        BY <1>2
    <2> HIDE DEF m, n
    <2>3. r >= 0 /\ r < w /\ r \in Int
        BY <1>2
    <2> QED  BY <1>1, <1>3, <2>1, <2>2, <2>3
<1>5. q \in 0..h - 1
    BY <1>2, <1>4
<1> QED  BY <1>2, <1>5 DEF q, r

(* A pair of numbers in range is numbered in one way.                    *)
LEMMA PairNumber ==
    ASSUME NEW w \in Nat \ {0}, NEW h \in Nat \ {0}, NEW x \in 0..w - 1, NEW y \in 0..h - 1
    PROVE  /\ w * y + x \in 0..w * h - 1
           /\ (w * y + x) \div w = y /\ (w * y + x) % w = x
<1> DEFINE a == w * y + x
           m == w * y
           n == w * h
<1>1. m <= n - w
    <2>1. w * y <= w * (h - 1)
        OBVIOUS
    <2>2. w * (h - 1) = w * h - w
        OBVIOUS
    <2> QED  BY <2>1, <2>2
<1>2. m \in Nat /\ n \in Nat
    OBVIOUS
<1>3. a \in 0..n - 1
    <2> HIDE DEF m, n
    <2>1. m + x \in 0..n - 1
        BY <1>1, <1>2
    <2> QED  BY <2>1 DEF m
<1>4. a = w * y + x /\ a \in Int /\ y \in Int
    BY <1>3
<1>5. a \div w = y /\ a % w = x
    <2> HIDE DEF a
    <2> QED  BY <1>4, DividedOnce
<1> QED  BY <1>3, <1>5 DEF a, n

(* The loops over a chunk come to every position once.                   *)
LEMMA OrderIs ==
    /\ \A k \in 1..CHUNK_VOXELS : InLoopOrder[k] \in Positions
    /\ \A j, k \in 1..CHUNK_VOXELS : InLoopOrder[j] = InLoopOrder[k] => j = k
    /\ \A p \in Positions : \E k \in 1..CHUNK_VOXELS : InLoopOrder[k] = p
    /\ CHUNK_VOXELS \in Nat \ {0}
<1> DEFINE E == CHUNK_EDGE
           F == E * E
           N == CHUNK_VOXELS
<1>1. E \in Nat \ {0} /\ F \in Nat \ {0}
    BY ChunkAssumption
<1>2. N = E * F /\ N \in Nat \ {0}
    <2>1. N = E * E * E /\ E * E * E = E * (E * E)
        BY <1>1 DEF CHUNK_VOXELS
    <2>2. E * F \in Nat /\ E * F # 0
        <3> HIDE DEF E, F
        <3> QED  BY <1>1
    <2> QED  BY <2>1, <2>2
<1>3. ASSUME NEW k \in 1..N
      PROVE  \E x, y, z \in Span : InLoopOrder[k] = <<x, y, z>> /\ k - 1 = E * (E * z + y) + x
    <2> DEFINE a == k - 1
               q == a \div E
               x == a % E
               z == q \div E
               y == q % E
    <2>1. a \in 0..E * F - 1
        BY <1>2
    <2>2. InLoopOrder[k] = <<a % E, (a \div E) % E, a \div (E * E)>>
        BY DEF InLoopOrder, CHUNK_VOXELS
    <2> HIDE DEF a
    <2>3. a \in Int
        BY <1>1, <1>2, <2>1
    <2>4. a \div (E * E) = q \div E
        <3> HIDE DEF E
        <3> QED  BY <1>1, <2>3, DividedTwice
    <2> HIDE DEF F
    <2>5. q \in 0..F - 1 /\ x \in 0..E - 1 /\ a = E * q + x
        <3> HIDE DEF E
        <3> QED  BY <1>1, <2>1, Quotient
    <2> HIDE DEF q, x
    <2>6. q \in 0..E * E - 1
        BY <2>5 DEF F
    <2>7. z \in 0..E - 1 /\ y \in 0..E - 1 /\ q = E * z + y
        <3> HIDE DEF E
        <3> QED  BY <1>1, <2>6, Quotient
    <2>8. InLoopOrder[k] = <<x, y, z>>
        BY <2>2, <2>4 DEF q, x
    <2> HIDE DEF y, z
    <2>9. k - 1 = E * (E * z + y) + x
        BY <2>5, <2>7 DEF a
    <2> QED  BY <2>5, <2>7, <2>8, <2>9 DEF Span
<1>4. \A k \in 1..N : InLoopOrder[k] \in Positions
    <2> SUFFICES ASSUME NEW k \in 1..N
                 PROVE  InLoopOrder[k] \in Positions
        OBVIOUS
    <2>1. PICK x, y, z \in Span : InLoopOrder[k] = <<x, y, z>>
        BY <1>3
    <2> QED  BY <2>1 DEF Positions
<1>5. ASSUME NEW j \in 1..N, NEW k \in 1..N, InLoopOrder[j] = InLoopOrder[k]
      PROVE  j = k
    <2>1. PICK x, y, z \in Span : InLoopOrder[j] = <<x, y, z>> /\ j - 1 = E * (E * z + y) + x
        BY <1>3
    <2>2. PICK u, v, w \in Span : InLoopOrder[k] = <<u, v, w>> /\ k - 1 = E * (E * w + v) + u
        BY <1>3
    <2>3. x = u /\ y = v /\ z = w
        <3>1. <<x, y, z>> = <<u, v, w>>
            BY <1>5, <2>1, <2>2
        <3> QED  BY <3>1
    <2> HIDE DEF E
    <2>4. j - 1 = k - 1
        BY <2>1, <2>2, <2>3
    <2>5. j \in Int /\ k \in Int
        BY <1>2
    <2> QED  BY <2>4, <2>5
<1>6. ASSUME NEW p \in Positions
      PROVE  \E k \in 1..N : InLoopOrder[k] = p
    <2> DEFINE x == p[1]
               y == p[2]
               z == p[3]
               q == E * z + y
               a == E * q + x
               k == a + 1
    <2>1. x \in 0..E - 1 /\ y \in 0..E - 1 /\ z \in 0..E - 1 /\ p = <<x, y, z>>
        BY PositionIs DEF Span
    <2> HIDE DEF x, y, z
    <2>2. q \in 0..E * E - 1 /\ q \div E = z /\ q % E = y
        <3> HIDE DEF E
        <3> QED  BY <1>1, <2>1, PairNumber
    <2> HIDE DEF q
    <2>3. q \in 0..F - 1
        BY <2>2
    <2> HIDE DEF F
    <2>4. a \in 0..E * F - 1 /\ a \div E = q /\ a % E = x
        <3> HIDE DEF E
        <3> QED  BY <1>1, <2>1, <2>3, PairNumber
    <2> HIDE DEF a
    <2>5. a \in Int /\ k \in 1..N /\ k - 1 = a
        <3>1. a \in 0..N - 1
            BY <1>2, <2>4
        <3> HIDE DEF N
        <3> QED  BY <1>2, <3>1
    <2>6. a \div (E * E) = z
        <3>1. a \div (E * E) = (a \div E) \div E
            <4> HIDE DEF E
            <4> QED  BY <1>1, <2>5, DividedTwice
        <3> QED  BY <2>2, <2>4, <3>1
    <2> HIDE DEF k
    <2>7. InLoopOrder[k] = <<a % E, (a \div E) % E, a \div (E * E)>>
        BY <2>5 DEF InLoopOrder, CHUNK_VOXELS
    <2>8. InLoopOrder[k] = p
        BY <2>1, <2>2, <2>4, <2>6, <2>7
    <2> QED  BY <2>5, <2>8
<1> HIDE DEF N
<1>7. \A j, k \in 1..N : InLoopOrder[j] = InLoopOrder[k] => j = k
    BY <1>5
<1>8. \A p \in Positions : \E k \in 1..N : InLoopOrder[k] = p
    BY <1>6
<1> QED  BY <1>2, <1>4, <1>7, <1>8 DEF N

(* The cubic mesher draws the exposed sides.                             *)
CubicQuads(chunk) == {emit_face(chunk, s[1], s[2]) : s \in Sides}

(* Each exposed side is met once, with its own quad.                     *)
LEMMA CubicDraws ==
    ASSUME NEW chunk
    PROVE  Draws(chunk, CubicQuads(chunk), mesh_cubic(chunk), ExposedSides(chunk))
<1> DEFINE voxel(k) == InLoopOrder[((k - 1) \div 6) + 1]
           face(k) == (k - 1) % 6
           side(k) == <<voxel(k), face(k)>>
           N == 6 * CHUNK_VOXELS
           parts == [k \in 1..N |-> IF Exposed(chunk, voxel(k), face(k))
                                      THEN <<emit_face(chunk, voxel(k), face(k))>> ELSE << >>]
           sides == [k \in 1..N |-> IF Exposed(chunk, voxel(k), face(k)) THEN {side(k)} ELSE {}]
           X == CubicQuads(chunk)
<1>1. N \in Nat /\ CHUNK_VOXELS \in Nat \ {0}
    BY OrderIs
<1>2. ASSUME NEW k \in 1..N
      PROVE  /\ ((k - 1) \div 6) + 1 \in 1..CHUNK_VOXELS /\ face(k) \in 0..5
             /\ k = 6 * ((((k - 1) \div 6) + 1) - 1) + face(k) + 1
    <2> DEFINE a == k - 1
    <2>1. a \in 0..6 * CHUNK_VOXELS - 1
        BY <1>1
    <2> HIDE DEF a
    <2>2. a \div 6 \in 0..CHUNK_VOXELS - 1 /\ a % 6 \in 0..5 /\ a = 6 * (a \div 6) + (a % 6)
        BY <1>1, <2>1, Quotient
    <2> DEFINE q == a \div 6
               r == a % 6
    <2>3. q \in Nat /\ r \in Nat /\ a = 6 * q + r /\ q + 1 \in 1..CHUNK_VOXELS
        BY <1>1, <2>2
    <2> HIDE DEF q, r
    <2>4. a + 1 = 6 * ((q + 1) - 1) + r + 1
        BY <2>3
    <2>5. a + 1 = k
        BY <1>1 DEF a
    <2>6. k = 6 * (((a \div 6) + 1) - 1) + (a % 6) + 1
        BY <2>4, <2>5 DEF q, r
    <2> QED  BY <2>2, <2>3, <2>6 DEF a, q
<1>3. \A k \in 1..N : side(k) \in Sides /\ voxel(k) \in Positions
    BY <1>2, OrderIs DEF Sides
<1>4. ASSUME NEW j \in 1..N, NEW k \in 1..N, side(j) = side(k)
      PROVE  j = k
    <2>1. voxel(j) = voxel(k) /\ face(j) = face(k)
        BY <1>4
    <2>2. ((j - 1) \div 6) + 1 = ((k - 1) \div 6) + 1
        BY <1>2, <2>1, OrderIs
    <2>3. /\ j = 6 * ((((j - 1) \div 6) + 1) - 1) + face(j) + 1
          /\ k = 6 * ((((k - 1) \div 6) + 1) - 1) + face(k) + 1
        BY <1>2
    <2> QED  BY <2>1, <2>2, <2>3
<1>5. ASSUME NEW s \in Sides
      PROVE  \E k \in 1..N : side(k) = s
    <2>1. PICK j \in 1..CHUNK_VOXELS : InLoopOrder[j] = s[1]
        BY OrderIs DEF Sides
    <2> DEFINE f == s[2]
               a == 6 * (j - 1) + f
               k == a + 1
    <2>2. f \in 0..5 /\ s = <<s[1], f>>
        BY DEF Sides
    <2> HIDE DEF f
    <2>3. j - 1 \in 0..CHUNK_VOXELS - 1 /\ j \in Int
        BY <1>1
    <2>4. a \in 0..6 * CHUNK_VOXELS - 1 /\ a \div 6 = j - 1 /\ a % 6 = f
        <3> DEFINE y == j - 1
                   n == 6 * y + f
        <3>1. y \in 0..CHUNK_VOXELS - 1 /\ f \in 0..6 - 1 /\ 6 \in Nat \ {0}
            BY <2>2, <2>3
        <3> HIDE DEF y
        <3>2. n \in 0..6 * CHUNK_VOXELS - 1 /\ n \div 6 = y /\ n % 6 = f
            BY <1>1, <3>1, PairNumber
        <3> QED  BY <3>2 DEF y
    <2> HIDE DEF a
    <2>5. k \in 1..N /\ k - 1 = a
        BY <1>1, <2>4
    <2>6. (j - 1) + 1 = j
        BY <2>3
    <2>7. voxel(k) = s[1] /\ face(k) = f
        BY <2>1, <2>4, <2>5, <2>6
    <2> QED  BY <2>2, <2>5, <2>7
<1>6. \A k \in 1..N : /\ parts[k] = IF Exposed(chunk, voxel(k), face(k))
                                      THEN <<emit_face(chunk, voxel(k), face(k))>> ELSE << >>
                      /\ sides[k] = IF Exposed(chunk, voxel(k), face(k)) THEN {side(k)} ELSE {}
    OBVIOUS
<1>7. parts = [k \in 1..N |-> parts[k]]
    OBVIOUS
<1>8. mesh_cubic(chunk) = FlattenSeq(parts)
    BY DEF mesh_cubic
<1> HIDE DEF parts, sides, N
<1>9. ASSUME NEW k \in 1..N
      PROVE  Draws(chunk, X, parts[k], sides[k])
    <2> DEFINE p == voxel(k)
               f == face(k)
               q == emit_face(chunk, p, f)
    <2>1. p \in Positions /\ f \in 0..5 /\ side(k) = <<p, f>> /\ side(k) \in Sides
        BY <1>2, <1>3
    <2>2. parts[k] = (IF Exposed(chunk, p, f) THEN <<q>> ELSE << >>)
          /\ sides[k] = IF Exposed(chunk, p, f) THEN {side(k)} ELSE {}
        BY <1>6
    <2> HIDE DEF p, f, side
    <2>3. CASE Exposed(chunk, p, f)
        <3>1. Covered(q) = {SideOf(chunk, side(k))}
            <4>1. Covered(q) = {SideOf(chunk, <<p, f>>)}
                BY <2>1, CubicQuad
            <4> HIDE DEF q
            <4> QED  BY <2>1, <4>1
        <3>2. Covered(q) = {SideOf(chunk, s) : s \in {side(k)}}
            BY <3>1
        <3>3. side(k)[1] = p /\ side(k)[2] = f
            BY <2>1
        <3>4. q \in X
            BY <2>1, <3>3 DEF CubicQuads
        <3> HIDE DEF q, X
        <3>5. Draws(chunk, X, <<q>>, {side(k)})
            BY <3>2, <3>4, DrawsOne
        <3> QED  BY <2>2, <2>3, <3>5
    <2>4. CASE ~ Exposed(chunk, p, f)
        <3>1. Draws(chunk, X, << >>, {})
            BY DrawsNone
        <3> QED  BY <2>2, <2>4, <3>1
    <2> QED  BY <2>3, <2>4
<1>10. \A j, k \in 1..N : j # k => sides[j] \cap sides[k] = {}
    <2> SUFFICES ASSUME NEW j \in 1..N, NEW k \in 1..N, j # k
                 PROVE  sides[j] \cap sides[k] = {}
        OBVIOUS
    <2>1. side(j) # side(k)
        BY <1>4
    <2>2. sides[j] \subseteq {side(j)} /\ sides[k] \subseteq {side(k)}
        BY <1>6
    <2> QED  BY <2>1, <2>2
<1>11. \A s : s \in ExposedSides(chunk) <=> \E k \in 1..N : s \in sides[k]
    <2>1. ASSUME NEW k \in 1..N, NEW s \in sides[k]
          PROVE  s \in ExposedSides(chunk)
        <3>1. s = side(k) /\ Exposed(chunk, voxel(k), face(k))
            BY <1>6
        <3>2. s[1] = voxel(k) /\ s[2] = face(k) /\ s \in Sides
            BY <1>3, <3>1
        <3> HIDE DEF side, voxel, face
        <3> QED  BY <3>1, <3>2 DEF ExposedSides
    <2>2. ASSUME NEW s \in ExposedSides(chunk)
          PROVE  \E k \in 1..N : s \in sides[k]
        <3>1. s \in Sides /\ Exposed(chunk, s[1], s[2])
            BY DEF ExposedSides
        <3>2. PICK k \in 1..N : side(k) = s
            BY <1>5, <3>1
        <3>3. s[1] = voxel(k) /\ s[2] = face(k)
            BY <3>2
        <3>4. sides[k] = {side(k)}
            BY <1>6, <3>1, <3>3
        <3> QED  BY <3>2, <3>4
    <2> QED  BY <2>1, <2>2
<1>12. Draws(chunk, X, FlattenSeq(parts), ExposedSides(chunk))
    <2>1. N \in Nat
        BY <1>1
    <2>2. Holds(ExposedSides(chunk), sides, N)
        BY <1>11 DEF Holds
    <2> HIDE DEF X
    <2> QED  BY <1>7, <1>9, <1>10, <2>1, <2>2, FlattenDraws
<1> QED  BY <1>8, <1>12

(* The greedy mesher: the cells of a slice that have a face, the sides of *)
(* cells, and the quads there are.                                       *)
Cells == Span \X Span

WithFace(chunk, axis, neg, d) ==
    {c \in Cells : Exposed(chunk, In3D(axis, d, c[1], c[2]), face_id(axis, neg))}

SidesAt(axis, neg, d, C) == {<<In3D(axis, d, c[1], c[2]), face_id(axis, neg)>> : c \in C}

GreedyQuads(chunk) ==
    {emit_quad(axis, d, c[1], c[2], w, h, neg, mask_of(chunk, axis, neg, d, c)) :
        axis \in 1..3, d \in Span, c \in Cells, w \in 1..CHUNK_EDGE, h \in 1..CHUNK_EDGE, neg \in BOOLEAN}

(* A cell of the mask is filled where there is a face.                   *)
LEMMA MaskOf ==
    ASSUME NEW chunk, NEW axis, NEW neg, NEW d, NEW c \in Cells
    PROVE  /\ c \in WithFace(chunk, axis, neg, d) <=> mask_of(chunk, axis, neg, d, c) # NoCell
           /\ c \in WithFace(chunk, axis, neg, d) =>
                mask_of(chunk, axis, neg, d, c).material = chunk[In3D(axis, d, c[1], c[2])]
<1> DEFINE p == In3D(axis, d, c[1], c[2])
           face == face_id(axis, neg)
           m == mask_of(chunk, axis, neg, d, c)
<1>1. m = IF Exposed(chunk, p, face) THEN [material |-> chunk[p], ao |-> face_ao(chunk, p, face)] ELSE NoCell
    BY DEF mask_of
<1>2. c \in WithFace(chunk, axis, neg, d) <=> Exposed(chunk, p, face)
    BY DEF WithFace
<1>3. Exposed(chunk, p, face) => chunk[p] # 0
    BY DEF Exposed, is_solid
<1>4. NoCell.material = 0
    BY DEF NoCell
<1> HIDE DEF p, face, m
<1>5. CASE Exposed(chunk, p, face)
    <2>1. m = [material |-> chunk[p], ao |-> face_ao(chunk, p, face)]
        BY <1>1, <1>5
    <2>2. m.material = chunk[p]
        BY <2>1
    <2>3. m # NoCell
        BY <1>3, <1>4, <1>5, <2>2
    <2> QED  BY <1>2, <1>5, <2>2, <2>3 DEF m, p
<1>6. CASE ~ Exposed(chunk, p, face)
    BY <1>1, <1>2, <1>6 DEF m
<1> QED  BY <1>5, <1>6

(* The longest of some lengths is one of them.                           *)
LEMMA LongestIs ==
    ASSUME NEW m \in Nat, NEW S, S \subseteq 1..m, S # {}
    PROVE  Longest(S) \in S
<1> DEFINE T == {m - n : n \in S}
<1>1. T \in SUBSET Nat /\ T # {}
    <2>1. \A n \in S : m - n \in Nat
        OBVIOUS
    <2>2. T \subseteq Nat
        BY <2>1
    <2>3. T # {}
        OBVIOUS
    <2> HIDE DEF T
    <2> QED  BY <2>2, <2>3
<1>2. PICK t \in T : \A x \in T : t <= x
    <2> HIDE DEF T
    <2> QED  BY <1>1, LeastNat
<1>3. PICK n \in S : t = m - n
    OBVIOUS
<1>4. \A k \in S : k <= n
    <2> SUFFICES ASSUME NEW k \in S
                 PROVE  k <= n
        OBVIOUS
    <2>1. m - k \in T
        OBVIOUS
    <2>2. m - n <= m - k /\ k \in Int /\ n \in Int
        BY <1>2, <1>3, <2>1
    <2> QED  BY <2>2
<1>5. \E x \in S : \A k \in S : k <= x
    BY <1>4
<1> QED  BY <1>5 DEF Longest

(* What a cell adds: nothing if it is used or has no face, and otherwise a *)
(* rectangle of free cells with its key.                                 *)
Merges(chunk, axis, neg, d, acc, cell, next, w, h) ==
    LET key == mask_of(chunk, axis, neg, d, cell)
        R == Rect(cell[1], cell[2], w, h)
    IN  /\ w \in 1..CHUNK_EDGE /\ h \in 1..CHUNK_EDGE
        /\ cell \in R /\ R \subseteq Cells /\ R \cap acc.used = {}
        /\ key # NoCell /\ \A c \in R : mask_of(chunk, axis, neg, d, c) = key
        /\ next = [used  |-> acc.used \cup R,
                   quads |-> Append(acc.quads, emit_quad(axis, d, cell[1], cell[2], w, h, neg, key))]

(* The width and the height found span free cells of one key.            *)
LEMMA MergedOrNot ==
    ASSUME NEW chunk, NEW axis, NEW neg, NEW d, NEW acc, NEW cell \in Cells
    PROVE  LET next == MergedAt(chunk, axis, neg, d, acc, cell)
           IN  \/ next = acc /\ (cell \in acc.used \/ mask_of(chunk, axis, neg, d, cell) = NoCell)
               \/ \E w, h : Merges(chunk, axis, neg, d, acc, cell, next, w, h)
<1> DEFINE free == [c \in Span \X Span |-> IF c \in acc.used THEN NoCell ELSE mask_of(chunk, axis, neg, d, c)]
           mu == cell[1]
           mv == cell[2]
           w == Width(free, mu, mv)
           h == Height(free, mu, mv, w)
           key == free[cell]
           next == MergedAt(chunk, axis, neg, d, acc, cell)
<1>1. next = IF key = NoCell THEN acc
             ELSE [used  |-> acc.used \cup (mu..mu + w - 1) \X (mv..mv + h - 1),
                   quads |-> Append(acc.quads, emit_quad(axis, d, mu, mv, w, h, neg, key))]
    BY DEF MergedAt
<1>2. \A c \in Cells : free[c] = IF c \in acc.used THEN NoCell ELSE mask_of(chunk, axis, neg, d, c)
    BY DEF Cells
<1>3. mu \in Span /\ mv \in Span /\ cell = <<mu, mv>>
    BY DEF Cells
<1> DEFINE ws == {n \in 1..CHUNK_EDGE - mu : \A k \in 0..n - 1 : free[<<mu + k, mv>>] = free[<<mu, mv>>]}
           hs == {n \in 1..CHUNK_EDGE - mv : \A j \in 0..n - 1, k \in 0..w - 1 :
                    free[<<mu + k, mv + j>>] = free[<<mu, mv>>]}
<1>4. w = Longest(ws) /\ h = Longest(hs)
    BY DEF Width, Height
<1> HIDE DEF free, next, mu, mv
<1>5. /\ mu \in Int /\ mv \in Int /\ mu >= 0 /\ mv >= 0 /\ mu < CHUNK_EDGE /\ mv < CHUNK_EDGE
      /\ CHUNK_EDGE \in Nat
    BY <1>3, SpanType DEF Span
<1>6. w \in ws
    <2>1. 1 \in 1..CHUNK_EDGE - mu
        BY <1>5
    <2>2. \A k \in 0..1 - 1 : mu + k = mu
        BY <1>5
    <2>3. 1 \in ws
        BY <2>1, <2>2
    <2>4. CHUNK_EDGE - mu \in Nat /\ ws \subseteq 1..CHUNK_EDGE - mu /\ ws # {}
        <3>1. ws \subseteq 1..CHUNK_EDGE - mu
            OBVIOUS
        <3>2. ws # {}
            BY <2>3
        <3> HIDE DEF ws
        <3> QED  BY <1>5, <3>1, <3>2
    <2> HIDE DEF ws, w
    <2> QED  BY <1>4, <2>4, LongestIs
<1>7. w \in 1..CHUNK_EDGE - mu /\ \A k \in 0..w - 1 : free[<<mu + k, mv>>] = key
    <2> HIDE DEF w
    <2> QED  BY <1>3, <1>6
<1> HIDE DEF w
<1>8. h \in hs
    <2>1. 1 \in 1..CHUNK_EDGE - mv
        BY <1>5
    <2>2. \A j \in 0..1 - 1 : mv + j = mv
        BY <1>5
    <2>3. \A j \in 0..1 - 1, k \in 0..w - 1 : free[<<mu + k, mv + j>>] = free[<<mu, mv>>]
        BY <1>3, <1>7, <2>2
    <2>4. 1 \in hs
        BY <2>1, <2>3
    <2>5. CHUNK_EDGE - mv \in Nat /\ hs \subseteq 1..CHUNK_EDGE - mv /\ hs # {}
        <3>1. hs \subseteq 1..CHUNK_EDGE - mv
            OBVIOUS
        <3>2. hs # {}
            BY <2>4
        <3> HIDE DEF hs
        <3> QED  BY <1>5, <3>1, <3>2
    <2> HIDE DEF hs, h
    <2> QED  BY <1>4, <2>5, LongestIs
<1>9. h \in 1..CHUNK_EDGE - mv /\ \A j \in 0..h - 1, k \in 0..w - 1 : free[<<mu + k, mv + j>>] = key
    <2> HIDE DEF h
    <2> QED  BY <1>3, <1>8
<1> HIDE DEF h, ws, hs
<1> DEFINE R == Rect(mu, mv, w, h)
<1>10. ASSUME NEW c \in R
       PROVE  c \in Cells /\ free[c] = key
    <2> DEFINE x == c[1]
               y == c[2]
    <2>1. x \in mu..mu + w - 1 /\ y \in mv..mv + h - 1 /\ c = <<x, y>>
        BY DEF Rect
    <2> HIDE DEF x, y, key
    <2>2. x - mu \in 0..w - 1 /\ y - mv \in 0..h - 1 /\ mu + (x - mu) = x /\ mv + (y - mv) = y
        BY <1>5, <1>7, <1>9, <2>1
    <2>3. x \in Span /\ y \in Span
        BY <1>5, <1>7, <1>9, <2>1 DEF Span
    <2>4. free[<<mu + (x - mu), mv + (y - mv)>>] = key
        BY <1>9, <2>2
    <2> QED  BY <2>1, <2>2, <2>3, <2>4 DEF Cells
<1>11. cell \in R
    <2>1. mu \in mu..mu + w - 1 /\ mv \in mv..mv + h - 1
        BY <1>5, <1>7, <1>9
    <2> QED  BY <1>3, <2>1 DEF Rect
<1>12. w \in 1..CHUNK_EDGE /\ h \in 1..CHUNK_EDGE
    BY <1>5, <1>7, <1>9
<1>13. key = IF cell \in acc.used THEN NoCell ELSE mask_of(chunk, axis, neg, d, cell)
    BY <1>2
<1>14. CASE key = NoCell
    BY <1>1, <1>13, <1>14 DEF next
<1>15. CASE key # NoCell
    <2>1. key = mask_of(chunk, axis, neg, d, cell)
        BY <1>13, <1>15
    <2> HIDE DEF key, R
    <2>2. R \subseteq Cells
        BY <1>10
    <2>3. \A c \in R : c \notin acc.used /\ mask_of(chunk, axis, neg, d, c) = key
        BY <1>2, <1>10, <1>15
    <2>4. next = [used |-> acc.used \cup R,
                  quads |-> Append(acc.quads, emit_quad(axis, d, mu, mv, w, h, neg, key))]
        BY <1>1, <1>15 DEF R, Rect
    <2>5. Merges(chunk, axis, neg, d, acc, cell, next, w, h)
        BY <1>11, <1>12, <1>15, <2>1, <2>2, <2>3, <2>4 DEF Merges, R, mu, mv
    <2> QED  BY <2>5 DEF next
<1> QED  BY <1>14, <1>15

(* A rectangle draws the sides of its cells.                             *)
LEMMA SideDrawn ==
    ASSUME NEW chunk, NEW axis \in 1..3, NEW d \in Span, NEW neg \in BOOLEAN, NEW c \in Cells,
           NEW D, D = Depth(neg, d)
    PROVE  SideOf(chunk, <<In3D(axis, d, c[1], c[2]), face_id(axis, neg)>>)
             = <<In3D(axis, D, c[1], c[2]), normal(face_id(axis, neg)), chunk[In3D(axis, d, c[1], c[2])]>>
<1> DEFINE a == c[1]
           b == c[2]
           face == face_id(axis, neg)
           p == In3D(axis, d, a, b)
<1>1. a \in Int /\ b \in Int /\ d \in Int
    BY SpanType DEF Cells
<1>2. \A k \in 1..3 : normal(face)[k] = IF k # axis THEN 0 ELSE IF neg THEN -1 ELSE 1
    BY FaceOf
<1> HIDE DEF a, b, face
<1>0. D = IF neg THEN d ELSE d + 1
    BY DEF Depth
<1>3. p = [k \in 1..3 |-> IF k = axis THEN d ELSE IF k = u_axis(axis) THEN a ELSE b]
    BY DEF In3D
<1>4. In3D(axis, D, a, b) = [k \in 1..3 |-> IF k = axis THEN D ELSE IF k = u_axis(axis) THEN a ELSE b]
    BY DEF In3D
<1>5. LowOf(p, face) = [k \in 1..3 |-> p[k] + (IF normal(face)[k] = 1 THEN 1 ELSE 0)]
    BY DEF LowOf
<1> HIDE DEF p
<1>6. ASSUME NEW k \in 1..3
      PROVE  p[k] + (IF normal(face)[k] = 1 THEN 1 ELSE 0)
               = IF k = axis THEN D ELSE IF k = u_axis(axis) THEN a ELSE b
    <2>1. CASE k = axis
        <3>1. p[k] = d
            BY <1>3, <2>1
        <3>2. normal(face)[k] = IF neg THEN -1 ELSE 1
            BY <1>2, <2>1
        <3>3. CASE neg
            BY <1>0, <1>1, <2>1, <3>1, <3>2, <3>3
        <3>4. CASE ~ neg
            BY <1>0, <1>1, <2>1, <3>1, <3>2, <3>4
        <3> QED  BY <3>3, <3>4
    <2>2. CASE k # axis
        <3>1. p[k] = IF k = u_axis(axis) THEN a ELSE b
            BY <1>3, <2>2
        <3>2. normal(face)[k] = 0
            BY <1>2, <2>2
        <3>3. p[k] \in Int
            BY <1>1, <3>1
        <3> QED  BY <2>2, <3>1, <3>2, <3>3
    <2> QED  BY <2>1, <2>2
<1>7. LowOf(p, face) = In3D(axis, D, a, b)
    BY <1>4, <1>5, <1>6
<1>8. SideOf(chunk, <<p, face>>) = <<LowOf(p, face), normal(face), chunk[p]>>
    BY DEF SideOf
<1> QED  BY <1>7, <1>8 DEF p, face, a, b

(* A merged rectangle draws the sides of its cells.                      *)
LEMMA RectSides ==
    ASSUME NEW chunk, NEW axis \in 1..3, NEW d \in Span, NEW neg \in BOOLEAN, NEW cell \in Cells,
           NEW acc, NEW next, NEW w, NEW h, Merges(chunk, axis, neg, d, acc, cell, next, w, h)
    PROVE  LET key == mask_of(chunk, axis, neg, d, cell)
               R == Rect(cell[1], cell[2], w, h)
           IN  /\ Covered(emit_quad(axis, d, cell[1], cell[2], w, h, neg, key))
                     = {SideOf(chunk, s) : s \in SidesAt(axis, neg, d, R)}
               /\ R \subseteq WithFace(chunk, axis, neg, d)
<1> DEFINE D == Depth(neg, d)
           face == face_id(axis, neg)
           mu == cell[1]
           mv == cell[2]
           key == mask_of(chunk, axis, neg, d, cell)
           R == Rect(mu, mv, w, h)
           q == emit_quad(axis, d, mu, mv, w, h, neg, key)
<1>0. /\ w \in 1..CHUNK_EDGE /\ h \in 1..CHUNK_EDGE /\ R \subseteq Cells /\ key # NoCell
      /\ \A c \in R : mask_of(chunk, axis, neg, d, c) = key
    BY DEF Merges
<1> HIDE DEF key
<1>1. mu \in Int /\ mv \in Int /\ d \in Int /\ w \in Nat \ {0} /\ h \in Nat \ {0}
    <2>1. mu \in Span /\ mv \in Span
        BY DEF Cells
    <2>2. w \in Nat \ {0} /\ h \in Nat \ {0}
        BY <1>0
    <2> HIDE DEF mu, mv
    <2> QED  BY <2>1, <2>2, SpanType
<1>2. Covered(q) = {<<In3D(axis, D, c[1], c[2]), normal(face), key.material>> :
                       c \in R}
    <2> HIDE DEF mu, mv
    <2>2. Covered(q) = RectFaces(axis, D, mu, mv, w, h, normal(face), key)
        BY <1>1, RectQuad
    <2> HIDE DEF q, face
    <2> QED  BY <2>2 DEF RectFaces
<1> HIDE DEF D, face, q, mu, mv, R
<1>5. ASSUME NEW c \in R
      PROVE  /\ c \in WithFace(chunk, axis, neg, d)
             /\ SideOf(chunk, <<In3D(axis, d, c[1], c[2]), face>>)
                  = <<In3D(axis, D, c[1], c[2]), normal(face), key.material>>
    <2>1. c \in Cells /\ mask_of(chunk, axis, neg, d, c) = key
        BY <1>0
    <2>2. c \in WithFace(chunk, axis, neg, d) /\ key.material = chunk[In3D(axis, d, c[1], c[2])]
        BY <1>0, <2>1, MaskOf
    <2>3. D = Depth(neg, d)
        BY DEF D
    <2> QED  BY <2>1, <2>2, <2>3, SideDrawn DEF face
<1>6. Covered(q) = {SideOf(chunk, <<In3D(axis, d, c[1], c[2]), face>>) : c \in R}
    BY <1>2, <1>5
<1> DEFINE side(c) == <<In3D(axis, d, c[1], c[2]), face>>
           T == SidesAt(axis, neg, d, R)
<1>7. T = {side(c) : c \in R}
    BY DEF SidesAt, face
<1>8. Covered(q) = {SideOf(chunk, side(c)) : c \in R}
    BY <1>6
<1> HIDE DEF side, T
<1>9. Covered(q) = {SideOf(chunk, s) : s \in T}
    BY <1>7, <1>8
<1>10. R \subseteq WithFace(chunk, axis, neg, d)
    BY <1>5
<1> QED  BY <1>9, <1>10 DEF T, q, R, mu, mv, key

(* The sides of different cells are different.                           *)
LEMMA CellSides ==
    ASSUME NEW axis \in 1..3, NEW neg, NEW d, NEW C, NEW B, C \cap B = {},
           C \subseteq Cells, B \subseteq Cells
    PROVE  /\ SidesAt(axis, neg, d, C \cup B) = SidesAt(axis, neg, d, C) \cup SidesAt(axis, neg, d, B)
           /\ SidesAt(axis, neg, d, C) \cap SidesAt(axis, neg, d, B) = {}
<1>1. SidesAt(axis, neg, d, C \cup B) = SidesAt(axis, neg, d, C) \cup SidesAt(axis, neg, d, B)
    BY DEF SidesAt
<1>2. ASSUME NEW x \in Cells, NEW y \in Cells, In3D(axis, d, x[1], x[2]) = In3D(axis, d, y[1], y[2])
      PROVE  x = y
    <2>1. x[1] = y[1] /\ x[2] = y[2]
        BY <1>2, PlaceOf
    <2> QED  BY <2>1 DEF Cells
<1>3. ASSUME NEW s \in SidesAt(axis, neg, d, C), s \in SidesAt(axis, neg, d, B)
      PROVE  FALSE
    <2>1. PICK x \in C : s = <<In3D(axis, d, x[1], x[2]), face_id(axis, neg)>>
        BY DEF SidesAt
    <2>2. PICK y \in B : s = <<In3D(axis, d, y[1], y[2]), face_id(axis, neg)>>
        BY <1>3 DEF SidesAt
    <2>3. In3D(axis, d, x[1], x[2]) = In3D(axis, d, y[1], y[2])
        BY <2>1, <2>2
    <2>4. x = y
        BY <1>2, <2>3
    <2> QED  BY <2>4
<1> QED  BY <1>1, <1>3

(* A slice as far as it is meshed: the quads draw the cells that are used. *)
SlicePart(chunk, axis, neg, d, acc) ==
    /\ acc.used \subseteq WithFace(chunk, axis, neg, d)
    /\ Draws(chunk, GreedyQuads(chunk), acc.quads, SidesAt(axis, neg, d, acc.used))

SliceParts(chunk, axis, neg, d) ==
    {acc \in [used : SUBSET Cells, quads : Seq(GreedyQuads(chunk))] : SlicePart(chunk, axis, neg, d, acc)}

(* A cell that is visited is used afterwards, and the quads draw it.     *)
LEMMA MergeKeeps ==
    ASSUME NEW chunk, NEW axis \in 1..3, NEW d \in Span, NEW neg \in BOOLEAN, NEW cell \in Cells,
           NEW acc \in SliceParts(chunk, axis, neg, d)
    PROVE  LET next == MergedAt(chunk, axis, neg, d, acc, cell)
           IN  /\ next \in SliceParts(chunk, axis, neg, d)
               /\ acc.used \subseteq next.used
               /\ cell \in WithFace(chunk, axis, neg, d) => cell \in next.used
<1> DEFINE next == MergedAt(chunk, axis, neg, d, acc, cell)
           F == WithFace(chunk, axis, neg, d)
           X == GreedyQuads(chunk)
<1>1. /\ acc.used \subseteq Cells /\ acc.quads \in Seq(X)
      /\ acc.used \subseteq F /\ Draws(chunk, X, acc.quads, SidesAt(axis, neg, d, acc.used))
    BY DEF SliceParts, SlicePart
<1>2. \/ next = acc /\ (cell \in acc.used \/ mask_of(chunk, axis, neg, d, cell) = NoCell)
      \/ \E w, h : Merges(chunk, axis, neg, d, acc, cell, next, w, h)
    BY MergedOrNot
<1> HIDE DEF next
<1>3. CASE next = acc /\ (cell \in acc.used \/ mask_of(chunk, axis, neg, d, cell) = NoCell)
    BY <1>3, MaskOf DEF next
<1>4. CASE \E w, h : Merges(chunk, axis, neg, d, acc, cell, next, w, h)
    <2>1. PICK w, h : Merges(chunk, axis, neg, d, acc, cell, next, w, h)
        BY <1>4
    <2> DEFINE key == mask_of(chunk, axis, neg, d, cell)
               R == Rect(cell[1], cell[2], w, h)
               q == emit_quad(axis, d, cell[1], cell[2], w, h, neg, key)
    <2>2. /\ w \in 1..CHUNK_EDGE /\ h \in 1..CHUNK_EDGE
          /\ cell \in R /\ R \subseteq Cells /\ R \cap acc.used = {}
          /\ key # NoCell /\ \A c \in R : mask_of(chunk, axis, neg, d, c) = key
          /\ next = [used |-> acc.used \cup R, quads |-> Append(acc.quads, q)]
        BY <2>1 DEF Merges
    <2>3. q \in X
        BY <2>2 DEF GreedyQuads
    <2> HIDE DEF key
    <2>4. Covered(q) = {SideOf(chunk, s) : s \in SidesAt(axis, neg, d, R)} /\ R \subseteq F
        BY <2>1, RectSides DEF key
    <2> HIDE DEF R, q, X, F
    <2>5. Draws(chunk, X, <<q>>, SidesAt(axis, neg, d, R))
        BY <2>3, <2>4, DrawsOne
    <2>6. /\ SidesAt(axis, neg, d, acc.used \cup R) = SidesAt(axis, neg, d, acc.used) \cup SidesAt(axis, neg, d, R)
          /\ SidesAt(axis, neg, d, acc.used) \cap SidesAt(axis, neg, d, R) = {}
        <3>1. acc.used \cap R = {}
            BY <2>2
        <3> DEFINE A == acc.used
        <3>2. A \cap R = {} /\ A \subseteq Cells /\ R \subseteq Cells
            BY <1>1, <2>2, <3>1
        <3> HIDE DEF A
        <3>3. /\ SidesAt(axis, neg, d, A \cup R) = SidesAt(axis, neg, d, A) \cup SidesAt(axis, neg, d, R)
              /\ SidesAt(axis, neg, d, A) \cap SidesAt(axis, neg, d, R) = {}
            BY <3>2, CellSides
        <3> QED  BY <3>3 DEF A
    <2>7. Draws(chunk, X, acc.quads \o <<q>>, SidesAt(axis, neg, d, acc.used \cup R))
        <3> DEFINE S == SidesAt(axis, neg, d, acc.used)
                   T == SidesAt(axis, neg, d, R)
                   A == acc.quads
        <3>1. Draws(chunk, X, A, S) /\ Draws(chunk, X, <<q>>, T) /\ S \cap T = {}
            BY <1>1, <2>5, <2>6
        <3> HIDE DEF S, T, A
        <3>2. Draws(chunk, X, A \o <<q>>, S \cup T)
            BY <3>1, DrawsBoth
        <3> QED  BY <2>6, <3>2 DEF S, T, A
    <2>8. Append(acc.quads, q) = acc.quads \o <<q>> /\ Append(acc.quads, q) \in Seq(X)
        BY <1>1, <2>3
    <2>9. next.used = acc.used \cup R /\ next.quads = acc.quads \o <<q>>
        BY <2>2, <2>8
    <2>10. next.used \subseteq F /\ acc.used \subseteq next.used /\ cell \in next.used
        BY <1>1, <2>2, <2>4, <2>9
    <2>11. SlicePart(chunk, axis, neg, d, next)
        BY <2>7, <2>9, <2>10 DEF SlicePart, X, F
    <2>12. next \in [used : SUBSET Cells, quads : Seq(X)]
        <3>1. acc.used \cup R \in SUBSET Cells
            BY <1>1, <2>2
        <3> QED  BY <2>2, <2>8, <3>1
    <2>13. next \in SliceParts(chunk, axis, neg, d)
        BY <2>11, <2>12 DEF SliceParts, X
    <2> QED  BY <2>10, <2>13 DEF next
<1> QED  BY <1>2, <1>3, <1>4

(* A whole slice: its quads draw every cell that has a face.             *)
LEMMA CellOrder ==
    /\ CHUNK_EDGE * CHUNK_EDGE \in Nat
    /\ \A i \in 1..CHUNK_EDGE * CHUNK_EDGE : <<(i - 1) % CHUNK_EDGE, (i - 1) \div CHUNK_EDGE>> \in Cells
    /\ \A c \in Cells : \E i \in 1..CHUNK_EDGE * CHUNK_EDGE :
         <<(i - 1) % CHUNK_EDGE, (i - 1) \div CHUNK_EDGE>> = c
<1> DEFINE E == CHUNK_EDGE
           N == E * E
<1>1. E \in Nat \ {0} /\ N \in Nat /\ Span = 0..E - 1
    BY SpanType DEF Span
<1>2. ASSUME NEW i \in 1..N
      PROVE  <<(i - 1) % E, (i - 1) \div E>> \in Cells
    <2> DEFINE a == i - 1
    <2>1. a \in 0..E * E - 1
        BY <1>1
    <2> HIDE DEF a, E
    <2>2. a \div E \in 0..E - 1 /\ a % E \in 0..E - 1
        BY <1>1, <2>1, Quotient
    <2>3. <<a % E, a \div E>> \in Cells
        BY <1>1, <2>2 DEF Cells
    <2> QED  BY <2>3 DEF a
<1>3. ASSUME NEW c \in Cells
      PROVE  \E i \in 1..N : <<(i - 1) % E, (i - 1) \div E>> = c
    <2> DEFINE x == c[1]
               y == c[2]
               a == E * y + x
               i == a + 1
    <2>1. x \in 0..E - 1 /\ y \in 0..E - 1 /\ c = <<x, y>>
        BY <1>1 DEF Cells
    <2> HIDE DEF x, y, E
    <2>2. a \in 0..E * E - 1 /\ a \div E = y /\ a % E = x
        BY <1>1, <2>1, PairNumber
    <2> HIDE DEF a
    <2>3. i \in 1..N /\ i - 1 = a
        BY <1>1, <2>2
    <2> QED  BY <2>1, <2>2, <2>3
<1> QED  BY <1>1, <1>2, <1>3

(* When every cell was visited, those with a face are the used ones.     *)
LEMMA SliceDraws ==
    ASSUME NEW chunk, NEW axis \in 1..3, NEW d \in Span, NEW neg \in BOOLEAN
    PROVE  Draws(chunk, GreedyQuads(chunk), mesh_slice(chunk, axis, neg, d),
                 SidesAt(axis, neg, d, WithFace(chunk, axis, neg, d)))
<1> DEFINE N == CHUNK_EDGE * CHUNK_EDGE
           X == SliceParts(chunk, axis, neg, d)
           F == WithFace(chunk, axis, neg, d)
           cell(i) == <<(i - 1) % CHUNK_EDGE, (i - 1) \div CHUNK_EDGE>>
           first == [used |-> {}, quads |-> << >>]
           merged(acc, i) == MergedAt(chunk, axis, neg, d, acc, cell(i))
           next == [i \in 1..N |-> [acc \in X |-> merged(acc, i)]]
           body(e) == [n \in 0..N |-> IF n = 0 THEN first ELSE merged(e[n - 1], n)]
           after[n \in 0..N] == IF n = 0 THEN first ELSE merged(after[n - 1], n)
<1>1. mesh_slice(chunk, axis, neg, d) = after[N].quads
    BY DEF mesh_slice
<1>2. after = CHOOSE e : e = body(e)
    OBVIOUS
<1> HIDE DEF after, N
<1>3. N \in Nat /\ (\A i \in 1..N : cell(i) \in Cells) /\ \A c \in Cells : \E i \in 1..N : cell(i) = c
    BY CellOrder DEF N
<1> HIDE DEF cell
<1>4. first \in X
    <2>1. first \in [used : SUBSET Cells, quads : Seq(GreedyQuads(chunk))]
        OBVIOUS
    <2>2. SidesAt(axis, neg, d, {}) = {}
        BY DEF SidesAt
    <2>3. first.used = {} /\ first.quads = << >>
        OBVIOUS
    <2> HIDE DEF first
    <2>4. SlicePart(chunk, axis, neg, d, first)
        BY <2>2, <2>3, DrawsNone DEF SlicePart
    <2> QED  BY <2>1, <2>4 DEF SliceParts
<1>5. ASSUME NEW acc \in X, NEW i \in 1..N
      PROVE  /\ merged(acc, i) \in X /\ acc.used \subseteq merged(acc, i).used
             /\ cell(i) \in F => cell(i) \in merged(acc, i).used
    <2>1. cell(i) \in Cells
        BY <1>3
    <2> QED  BY <2>1, MergeKeeps
<1> HIDE DEF X, F, first, merged
<1>6. PICK f \in [0..N -> X] : Follows(f, N, first, next)
    <2>1. next \in [1..N -> [X -> X]]
        BY <1>5
    <2> HIDE DEF next
    <2> QED  BY <1>3, <1>4, <2>1, Recursion
<1>7. f[0] = first /\ \A i \in 1..N : i - 1 \in 0..N /\ f[i - 1] \in X /\ f[i] = merged(f[i - 1], i)
    <2>1. f[0] = first /\ \A i \in 1..N : f[i] = next[i][f[i - 1]]
        <3> HIDE DEF next
        <3> QED  BY <1>6 DEF Follows
    <2>2. \A i \in 1..N : i - 1 \in 0..N
        BY <1>3
    <2>3. \A i \in 1..N : f[i - 1] \in X
        BY <2>2
    <2> QED  BY <2>1, <2>2, <2>3
<1>8. f = body(f)
    <2>1. ASSUME NEW n \in 0..N
          PROVE  f[n] = IF n = 0 THEN first ELSE merged(f[n - 1], n)
        <3>1. n # 0 => n \in 1..N
            BY <1>3
        <3> QED  BY <1>7, <3>1
    <2> QED  BY <2>1
<1>9. after = body(after)
    <2> HIDE DEF body
    <2> QED  BY <1>2, <1>8
<1>10. \A n \in 0..N : after[n] = IF n = 0 THEN first ELSE merged(after[n - 1], n)
    BY <1>9
<1> DEFINE S == {n \in 0..N : /\ after[n] = f[n]
                              /\ \A i \in 1..n : cell(i) \in F => cell(i) \in f[n].used}
<1>11. 0 \in S
    BY <1>3, <1>7, <1>10
<1>12. ASSUME NEW n \in 0..N - 1, n \in S
       PROVE  n + 1 \in S
    <2> DEFINE j == n + 1
    <2>1. n \in Nat /\ n < N
        BY <1>3
    <2>2. j \in 1..N /\ j - 1 = n /\ j \in 0..N /\ j # 0
        BY <1>3, <2>1
    <2>3. \A i \in 1..j : i \in 1..n \/ i = j
        BY <2>1
    <2> HIDE DEF j
    <2>4. after[j] = f[j]
        BY <1>7, <1>10, <1>12, <2>2
    <2>5. f[n] \in X /\ f[j] = merged(f[n], j)
        BY <1>7, <2>2
    <2>6. f[n].used \subseteq f[j].used /\ (cell(j) \in F => cell(j) \in f[j].used)
        BY <1>5, <2>2, <2>5
    <2>7. \A i \in 1..j : cell(i) \in F => cell(i) \in f[j].used
        BY <1>12, <2>3, <2>6
    <2>8. j \in S
        BY <2>2, <2>4, <2>7
    <2> QED  BY <2>8 DEF j
<1>13. N \in S
    <2> HIDE DEF S
    <2>1. 0..N \subseteq S
        BY <1>3, <1>11, <1>12, UpTo
    <2> QED  BY <1>3, <2>1
<1>14. f[N] \in X /\ after[N] = f[N] /\ \A i \in 1..N : cell(i) \in F => cell(i) \in f[N].used
    BY <1>3, <1>13
<1>15. f[N].used \subseteq F /\ F \subseteq Cells
       /\ Draws(chunk, GreedyQuads(chunk), f[N].quads, SidesAt(axis, neg, d, f[N].used))
    BY <1>14 DEF X, F, SliceParts, SlicePart, WithFace
<1>16. f[N].used = F
    BY <1>3, <1>14, <1>15
<1> QED  BY <1>1, <1>14, <1>15, <1>16 DEF F

(* The normals are of length one already.                                *)
LEMMA NormalizedAlready ==
    ASSUME NEW chunk, NEW quads \in Seq(GreedyQuads(chunk))
    PROVE  batch_normalize_normals(quads) = quads
<1> DEFINE size(x) == IF x < 0 THEN -x ELSE x
           length(n) == size(n[1]) + size(n[2]) + size(n[3])
           unit(n) == [axis \in 1..3 |-> IF length(n) = 0 THEN 0 ELSE n[axis] \div length(n)]
<1>1. ASSUME NEW f \in 0..5
      PROVE  unit(normal(f)) = normal(f)
    <2>1. f = 0 \/ f = 1 \/ f = 2 \/ f = 3 \/ f = 4 \/ f = 5
        OBVIOUS
    <2>2. ASSUME NEW a \in -1..1, NEW b \in -1..1, NEW c \in -1..1, size(a) + size(b) + size(c) = 1
          PROVE  unit(<<a, b, c>>) = <<a, b, c>>
        <3> DEFINE t == <<a, b, c>>
                   u == unit(t)
        <3>1. t[1] = a /\ t[2] = b /\ t[3] = c /\ t = [k \in 1..3 |-> t[k]]
            OBVIOUS
        <3>2. length(t) = 1
            BY <2>2, <3>1
        <3> HIDE DEF length, t
        <3>3. u = [k \in 1..3 |-> t[k] \div 1]
            BY <3>2
        <3>4. \A k \in 1..3 : t[k] \in Int
            <4>1. a \in Int /\ b \in Int /\ c \in Int
                OBVIOUS
            <4>2. \A k \in 1..3 : k = 1 \/ k = 2 \/ k = 3
                OBVIOUS
            <4> QED  BY <3>1, <4>1, <4>2
        <3>5. \A k \in 1..3 : t[k] \div 1 = t[k]
            BY <3>4
        <3> HIDE DEF u
        <3>6. u = [k \in 1..3 |-> t[k]]
            BY <3>3, <3>5
        <3> QED  BY <3>1, <3>6 DEF u, t
    <2>3. 1 \in -1..1 /\ -1 \in -1..1 /\ 0 \in -1..1
        OBVIOUS
    <2>5. size(1) = 1 /\ size(0) = 0
        OBVIOUS
    <2>6. size(-1) = 1
        <3>1. \A x \in Int : x + 1 = 0 => size(x) = 1
            OBVIOUS
        <3>2. -1 \in Int /\ -1 + 1 = 0
            OBVIOUS
        <3> HIDE DEF size
        <3> QED  BY <3>1, <3>2
    <2>7. 1 + 0 + 0 = 1 /\ 0 + 1 + 0 = 1 /\ 0 + 0 + 1 = 1
        OBVIOUS
    <2> HIDE DEF size, unit
    <2>4. /\ unit(<<1, 0, 0>>) = <<1, 0, 0>> /\ unit(<<-1, 0, 0>>) = <<-1, 0, 0>>
          /\ unit(<<0, 1, 0>>) = <<0, 1, 0>> /\ unit(<<0, -1, 0>>) = <<0, -1, 0>>
          /\ unit(<<0, 0, 1>>) = <<0, 0, 1>> /\ unit(<<0, 0, -1>>) = <<0, 0, -1>>
        BY <2>2, <2>3, <2>5, <2>6, <2>7
    <2> QED  BY <2>1, <2>4, Normals
<1>2. \A q \in GreedyQuads(chunk) : \E f \in 0..5 : q.normal = normal(f)
    <2> SUFFICES ASSUME NEW q \in GreedyQuads(chunk)
                 PROVE  \E f \in 0..5 : q.normal = normal(f)
        OBVIOUS
    <2>1. PICK axis \in 1..3, d \in Span, c \in Cells, w \in 1..CHUNK_EDGE, h \in 1..CHUNK_EDGE, neg \in BOOLEAN :
             q = emit_quad(axis, d, c[1], c[2], w, h, neg, mask_of(chunk, axis, neg, d, c))
        BY DEF GreedyQuads
    <2>2. q.normal = normal(face_id(axis, neg))
        BY <2>1 DEF emit_quad
    <2>3. face_id(axis, neg) \in 0..5
        BY FaceOf
    <2> QED  BY <2>2, <2>3
<1>3. batch_normalize_normals(quads) = [k \in DOMAIN quads |-> [quads[k] EXCEPT !.normal = unit(quads[k].normal)]]
    BY DEF batch_normalize_normals
<1> HIDE DEF unit
<1>4. ASSUME NEW q \in GreedyQuads(chunk)
      PROVE  [q EXCEPT !.normal = unit(q.normal)] = q
    <2>1. unit(q.normal) = q.normal
        BY <1>1, <1>2
    <2>2. PICK axis \in 1..3, d \in Span, c \in Cells, w \in 1..CHUNK_EDGE, h \in 1..CHUNK_EDGE, neg \in BOOLEAN :
             q = emit_quad(axis, d, c[1], c[2], w, h, neg, mask_of(chunk, axis, neg, d, c))
        BY DEF GreedyQuads
    <2>3. \E a, n, m, o : q = [corners |-> a, normal |-> n, material |-> m, ao |-> o]
        BY <2>2 DEF emit_quad
    <2>4. PICK a, n, m, o : q = [corners |-> a, normal |-> n, material |-> m, ao |-> o]
        BY <2>3
    <2>5. [q EXCEPT !.normal = q.normal] = q
        BY <2>4
    <2> QED  BY <2>1, <2>5
<1>5. \A k \in DOMAIN quads : quads[k] \in GreedyQuads(chunk)
    OBVIOUS
<1>6. quads = [k \in DOMAIN quads |-> quads[k]]
    OBVIOUS
<1>7. \A k \in DOMAIN quads : [quads[k] EXCEPT !.normal = unit(quads[k].normal)] = quads[k]
    BY <1>4, <1>5
<1>8. [k \in DOMAIN quads |-> [quads[k] EXCEPT !.normal = unit(quads[k].normal)]] = [k \in DOMAIN quads |-> quads[k]]
    BY <1>7
<1> QED  BY <1>3, <1>6, <1>8

(* The slices: one for each face and each place along its axis.          *)
SliceIs(k, axis, neg, d) ==
    /\ Slices[k] = <<axis, neg, d>>
    /\ axis \in 1..3 /\ neg \in BOOLEAN /\ d \in Span
    /\ k = CHUNK_EDGE * face_id(axis, neg) + d + 1

(* The number of a slice gives its face and its place.                   *)
LEMMA SliceOf ==
    ASSUME NEW k \in 1..6 * CHUNK_EDGE
    PROVE  SliceIs(k, Slices[k][1], Slices[k][2], Slices[k][3])
<1> DEFINE E == CHUNK_EDGE
           a == k - 1
           f == a \div E
           d == a % E
           axis == (f \div 2) + 1
           neg == (f % 2 = 1)
<1>1. E \in Nat \ {0} /\ Span = 0..E - 1 /\ 2 \in Nat \ {0}
    BY SpanType DEF Span
<1>2. Slices[k] = <<(a \div (2 * E)) + 1, neg, d>>
    BY DEF Slices
<1> HIDE DEF E, neg
<1>3. a \in 0..E * 6 - 1 /\ a \in Int /\ a + 1 = k
    <2>1. k \in 1..6 * E
        BY DEF E
    <2>2. 6 * E = E * 6 /\ E * 6 \in Nat
        BY <1>1
    <2> QED  BY <2>1, <2>2
<1> HIDE DEF a
<1>4. f \in 0..6 - 1 /\ d \in 0..E - 1 /\ a = E * f + d
    <2>1. 6 \in Nat \ {0}
        OBVIOUS
    <2> QED  BY <1>1, <1>3, <2>1, Quotient
<1>5. a \div (2 * E) = f \div 2
    <2>1. E * 2 = 2 * E
        BY <1>1
    <2> DEFINE m == E * 2
    <2>2. a \div m = (a \div E) \div 2
        BY <1>1, <1>3, DividedTwice
    <2> QED  BY <2>1, <2>2
<1> HIDE DEF f, d
<1>6. /\ f \div 2 \in 0..2 /\ f % 2 \in 0..1 /\ f = 2 * (f \div 2) + (f % 2)
    BY <1>4
<1>7. axis \in 1..3 /\ f = 2 * (axis - 1) + (IF f % 2 = 1 THEN 1 ELSE 0)
    BY <1>6
<1>8. neg \in BOOLEAN
    BY DEF neg
<1>9. face_id(axis, neg) = f
    BY <1>7 DEF face_id, neg
<1>10. Slices[k] = <<axis, neg, d>>
    BY <1>2, <1>5
<1> HIDE DEF axis
<1>11. E * f \in Int /\ d \in Int
    BY <1>1, <1>4
<1>12. k = E * f + d + 1
    BY <1>3, <1>4, <1>11
<1>13. Slices[k][1] = axis /\ Slices[k][2] = neg /\ Slices[k][3] = d
    BY <1>10
<1>14. SliceIs(k, axis, neg, d)
    BY <1>1, <1>4, <1>7, <1>8, <1>9, <1>10, <1>12 DEF SliceIs, E
<1> QED  BY <1>13, <1>14

(* A face number stands for one axis and one direction.                  *)
LEMMA FaceIdOnce ==
    ASSUME NEW axis \in 1..3, NEW neg \in BOOLEAN, NEW axis2 \in 1..3, NEW neg2 \in BOOLEAN,
           face_id(axis, neg) = face_id(axis2, neg2)
    PROVE  axis = axis2 /\ neg = neg2
<1>1. /\ axis = 1 \/ axis = 2 \/ axis = 3
      /\ axis2 = 1 \/ axis2 = 2 \/ axis2 = 3
    OBVIOUS
<1> DEFINE a == IF neg THEN 1 ELSE 0
           b == IF neg2 THEN 1 ELSE 0
<1>2. 2 * (axis - 1) + a = 2 * (axis2 - 1) + b
    BY DEF face_id
<1>3. a \in 0..1 /\ b \in 0..1
    OBVIOUS
<1>4. a = b => neg = neg2
    OBVIOUS
<1> HIDE DEF a, b
<1>5. axis = axis2 /\ a = b
    BY <1>1, <1>2, <1>3
<1> QED  BY <1>4, <1>5

(* Every face and place has a slice.                                     *)
LEMMA SliceFor ==
    ASSUME NEW axis \in 1..3, NEW neg \in BOOLEAN, NEW d \in Span
    PROVE  \E k \in 1..6 * CHUNK_EDGE : Slices[k] = <<axis, neg, d>>
<1> DEFINE E == CHUNK_EDGE
           f == face_id(axis, neg)
           a == E * f + d
           k == a + 1
<1>1. E \in Nat \ {0} /\ d \in 0..E - 1 /\ 6 \in Nat \ {0}
    BY SpanType DEF Span
<1>2. f \in 0..6 - 1
    BY FaceOf
<1>3. k \in 1..6 * CHUNK_EDGE
    <2> HIDE DEF f
    <2>1. a \in 0..E * 6 - 1
        <3> HIDE DEF E
        <3> QED  BY <1>1, <1>2, PairNumber
    <2> HIDE DEF a
    <2>2. E * 6 = 6 * E /\ 6 * E \in Nat
        BY <1>1
    <2>3. k \in 1..6 * E
        BY <2>1, <2>2
    <2> QED  BY <2>3
<1>4. a \div E = f /\ a % E = d /\ k - 1 = a
    <2> HIDE DEF f, E
    <2>1. a \div E = f /\ a % E = d
        BY <1>1, <1>2, PairNumber
    <2>2. a \in Int
        BY <1>1, <1>2
    <2> HIDE DEF a
    <2> QED  BY <2>1, <2>2
<1> HIDE DEF k
<1>5. SliceIs(k, Slices[k][1], Slices[k][2], Slices[k][3])
    BY <1>3, SliceOf
<1> DEFINE S == Slices[k]
           x == S[1]
           n == S[2]
           e == S[3]
<1>6. /\ S = <<x, n, e>> /\ x \in 1..3 /\ n \in BOOLEAN /\ e \in 0..E - 1
      /\ k = E * face_id(x, n) + e + 1
    BY <1>5 DEF SliceIs, Span
<1> HIDE DEF x, n, e, S, E, a, f
<1> DEFINE g == face_id(x, n)
<1>7. g \in 0..5
    BY <1>6, FaceOf
<1>8. g = f /\ e = d
    <2>1. k - 1 = E * g + e
        <3> HIDE DEF g
        <3>1. E * g \in Int /\ e \in Int
            BY <1>1, <1>6, <1>7
        <3>2. k = E * g + e + 1
            BY <1>6 DEF g
        <3> QED  BY <3>1, <3>2
    <2> HIDE DEF g
    <2>2. g \in Int /\ k - 1 \in Int
        BY <1>3, <1>7
    <2> DEFINE b == k - 1
    <2>3. b = E * g + e /\ b \in Int
        BY <2>1, <2>2
    <2> HIDE DEF b
    <2>4. b \div E = g /\ b % E = e
        BY <1>1, <1>6, <2>2, <2>3, DividedOnce
    <2> QED  BY <1>4, <2>4 DEF b
<1>9. x = axis /\ n = neg
    BY <1>6, <1>8, FaceIdOnce DEF f
<1> QED  BY <1>3, <1>6, <1>8, <1>9 DEF S

(* The sides of a slice, and of all slices together.                     *)
SliceSides(chunk, k) ==
    SidesAt(Slices[k][1], Slices[k][2], Slices[k][3], WithFace(chunk, Slices[k][1], Slices[k][2], Slices[k][3]))

(* A cell of a slice is a position of the chunk.                         *)
LEMMA PlaceIn ==
    ASSUME NEW axis \in 1..3, NEW d \in Span, NEW c \in Cells
    PROVE  In3D(axis, d, c[1], c[2]) \in Positions
<1>1. c[1] \in Span /\ c[2] \in Span
    BY DEF Cells
<1>2. axis = 1 \/ axis = 2 \/ axis = 3
    OBVIOUS
<1> DEFINE a == c[1]
           b == c[2]
<1>3. a \in Span /\ b \in Span
    BY <1>1
<1> HIDE DEF a, b
<1>4. <<d, a, b>> \in Positions /\ <<b, d, a>> \in Positions /\ <<a, b, d>> \in Positions
    BY <1>3 DEF Positions
<1>5. In3D(axis, d, a, b) \in Positions
    BY <1>2, <1>4, PlaceOf
<1> QED  BY <1>5 DEF a, b

(* Every position is a cell of the slice it lies in.                     *)
LEMMA PlaceFor ==
    ASSUME NEW axis \in 1..3, NEW p \in Positions
    PROVE  p[axis] \in Span /\ \E c \in Cells : In3D(axis, p[axis], c[1], c[2]) = p
<1>1. axis = 1 \/ axis = 2 \/ axis = 3
    OBVIOUS
<1>2. p[1] \in Span /\ p[2] \in Span /\ p[3] \in Span /\ p = <<p[1], p[2], p[3]>>
    BY PositionIs
<1> DEFINE a == p[u_axis(axis)]
           b == p[v_axis(axis)]
           d == p[axis]
           c == <<a, b>>
<1>3. a \in Span /\ b \in Span /\ d \in Span
    BY <1>1, <1>2, TangentAxes
<1>4. /\ axis = 1 => p = <<d, a, b>>
      /\ axis = 2 => p = <<b, d, a>>
      /\ axis = 3 => p = <<a, b, d>>
    BY <1>2, TangentAxes
<1> HIDE DEF a, b, d
<1>5. In3D(axis, d, a, b) = p
    BY <1>1, <1>4, PlaceOf
<1>6. c \in Cells /\ c[1] = a /\ c[2] = b
    BY <1>3 DEF Cells
<1> HIDE DEF c
<1>7. In3D(axis, d, c[1], c[2]) = p
    BY <1>5, <1>6
<1> QED  BY <1>3, <1>6, <1>7 DEF d

(* The sides of a slice are exposed, of its face and at its place.       *)
LEMMA SliceSidesIn ==
    ASSUME NEW chunk, NEW k \in 1..6 * CHUNK_EDGE, NEW s \in SliceSides(chunk, k)
    PROVE  /\ s \in ExposedSides(chunk) /\ s[2] = face_id(Slices[k][1], Slices[k][2])
           /\ s[1][Slices[k][1]] = Slices[k][3]
<1> DEFINE axis == Slices[k][1]
           neg == Slices[k][2]
           d == Slices[k][3]
<1>1. axis \in 1..3 /\ neg \in BOOLEAN /\ d \in Span
    BY SliceOf DEF SliceIs
<1>2. PICK c \in WithFace(chunk, axis, neg, d) : s = <<In3D(axis, d, c[1], c[2]), face_id(axis, neg)>>
    BY DEF SliceSides, SidesAt
<1> HIDE DEF axis, neg, d
<1>3. c \in Cells /\ Exposed(chunk, In3D(axis, d, c[1], c[2]), face_id(axis, neg))
    BY DEF WithFace
<1>4. s[1] = In3D(axis, d, c[1], c[2]) /\ s[2] = face_id(axis, neg)
    BY <1>2
<1>5. s[1] \in Positions /\ s[2] \in 0..5 /\ s[1][axis] = d
    BY <1>1, <1>3, <1>4, PlaceIn, FaceOf, PlaceOf
<1>6. s \in Sides
    BY <1>2, <1>4, <1>5 DEF Sides
<1>7. s \in ExposedSides(chunk)
    BY <1>3, <1>4, <1>6 DEF ExposedSides
<1> QED  BY <1>4, <1>5, <1>7 DEF axis, neg, d

(* Every exposed side is in a slice.                                     *)
LEMMA SlicesCover ==
    ASSUME NEW chunk, NEW s \in ExposedSides(chunk)
    PROVE  \E k \in 1..6 * CHUNK_EDGE : s \in SliceSides(chunk, k)
<1> DEFINE p == s[1]
           f == s[2]
<1>1. p \in Positions /\ f \in 0..5 /\ s = <<p, f>> /\ Exposed(chunk, p, f)
    BY DEF ExposedSides, Sides
<1> HIDE DEF p, f
<1>2. PICK axis \in 1..3, neg \in BOOLEAN : face_id(axis, neg) = f
    <2> DEFINE axis == (f \div 2) + 1
               neg == (f % 2 = 1)
    <2>1. axis \in 1..3 /\ neg \in BOOLEAN
        BY <1>1
    <2>2. f = 0 \/ f = 1 \/ f = 2 \/ f = 3 \/ f = 4 \/ f = 5
        BY <1>1
    <2>3. face_id(axis, neg) = f
        BY <2>2 DEF face_id
    <2> HIDE DEF axis, neg
    <2> QED  BY <2>1, <2>3
<1>3. p[axis] \in Span /\ \E c \in Cells : In3D(axis, p[axis], c[1], c[2]) = p
    BY <1>1, PlaceFor
<1> DEFINE d == p[axis]
<1>4. PICK c \in Cells : In3D(axis, d, c[1], c[2]) = p
    BY <1>3
<1>5. d \in Span
    BY <1>3
<1> HIDE DEF d
<1>6. PICK k \in 1..6 * CHUNK_EDGE : Slices[k] = <<axis, neg, d>>
    BY <1>5, SliceFor
<1>7. c \in WithFace(chunk, axis, neg, d)
    BY <1>1, <1>2, <1>4 DEF WithFace
<1>8. s \in SidesAt(axis, neg, d, WithFace(chunk, axis, neg, d))
    BY <1>1, <1>2, <1>4, <1>7 DEF SidesAt
<1>9. Slices[k][1] = axis /\ Slices[k][2] = neg /\ Slices[k][3] = d
    BY <1>6
<1>10. s \in SliceSides(chunk, k)
    BY <1>8, <1>9 DEF SliceSides
<1> QED  BY <1>10

(* The greedy mesher draws the exposed sides.                            *)
LEMMA GreedyDraws ==
    ASSUME NEW chunk
    PROVE  Draws(chunk, GreedyQuads(chunk), mesh_greedy(chunk), ExposedSides(chunk))
<1> DEFINE N == 6 * CHUNK_EDGE
           parts == [k \in DOMAIN Slices |-> mesh_slice(chunk, Slices[k][1], Slices[k][2], Slices[k][3])]
           sides == [k \in 1..N |-> SliceSides(chunk, k)]
           X == GreedyQuads(chunk)
<1>1. DOMAIN Slices = 1..N
    BY DEF Slices
<1>2. N \in Nat
    BY SpanType
<1>3. \A k \in 1..N : parts[k] = mesh_slice(chunk, Slices[k][1], Slices[k][2], Slices[k][3])
    BY <1>1
<1>4. parts = [k \in 1..N |-> parts[k]]
    BY <1>1
<1>5. \A k \in 1..N : sides[k] = SliceSides(chunk, k)
    OBVIOUS
<1>6. mesh_greedy(chunk) = batch_normalize_normals(FlattenSeq(parts))
    BY DEF mesh_greedy
<1> HIDE DEF parts, sides, X
<1>7. ASSUME NEW k \in 1..N
      PROVE  Draws(chunk, X, parts[k], sides[k])
    <2>1. Slices[k][1] \in 1..3 /\ Slices[k][2] \in BOOLEAN /\ Slices[k][3] \in Span
        BY SliceOf DEF SliceIs
    <2>2. Draws(chunk, X, mesh_slice(chunk, Slices[k][1], Slices[k][2], Slices[k][3]), SliceSides(chunk, k))
        BY <2>1, SliceDraws DEF SliceSides, X
    <2> QED  BY <1>3, <1>5, <2>2
<1>8. \A j, k \in 1..N : j # k => sides[j] \cap sides[k] = {}
    <2> SUFFICES ASSUME NEW j \in 1..N, NEW k \in 1..N, NEW s \in sides[j], s \in sides[k]
                 PROVE  j = k
        OBVIOUS
    <2>1. SliceIs(j, Slices[j][1], Slices[j][2], Slices[j][3]) /\ SliceIs(k, Slices[k][1], Slices[k][2], Slices[k][3])
        BY SliceOf
    <2>2. /\ s[2] = face_id(Slices[j][1], Slices[j][2]) /\ s[1][Slices[j][1]] = Slices[j][3]
          /\ s[2] = face_id(Slices[k][1], Slices[k][2]) /\ s[1][Slices[k][1]] = Slices[k][3]
        BY <1>5, SliceSidesIn
    <2>3. /\ Slices[j][1] \in 1..3 /\ Slices[j][2] \in BOOLEAN
          /\ Slices[k][1] \in 1..3 /\ Slices[k][2] \in BOOLEAN
          /\ j = CHUNK_EDGE * face_id(Slices[j][1], Slices[j][2]) + Slices[j][3] + 1
          /\ k = CHUNK_EDGE * face_id(Slices[k][1], Slices[k][2]) + Slices[k][3] + 1
        BY <2>1 DEF SliceIs
    <2>4. Slices[j][1] = Slices[k][1]
        <3> DEFINE x == Slices[j][1]
                   m == Slices[j][2]
                   y == Slices[k][1]
                   n == Slices[k][2]
        <3>1. x \in 1..3 /\ m \in BOOLEAN /\ y \in 1..3 /\ n \in BOOLEAN
            BY <2>3
        <3>2. face_id(x, m) = face_id(y, n)
            BY <2>2
        <3> HIDE DEF x, m, y, n
        <3>3. x = y
            BY <3>1, <3>2, FaceIdOnce
        <3> QED  BY <3>3 DEF x, y
    <2>5. Slices[j][3] = Slices[k][3]
        BY <2>2, <2>4
    <2>6. face_id(Slices[j][1], Slices[j][2]) = face_id(Slices[k][1], Slices[k][2])
        BY <2>2
    <2> QED  BY <2>3, <2>5, <2>6
<1>9. \A s : s \in ExposedSides(chunk) <=> \E k \in 1..N : s \in sides[k]
    BY <1>5, SliceSidesIn, SlicesCover
<1>10. Draws(chunk, X, FlattenSeq(parts), ExposedSides(chunk))
    <2>1. Holds(ExposedSides(chunk), sides, N)
        BY <1>9 DEF Holds
    <2> HIDE DEF N
    <2> QED  BY <1>2, <1>4, <1>7, <1>8, <2>1, FlattenDraws
<1>11. FlattenSeq(parts) \in Seq(X)
    BY <1>10 DEF Draws
<1>12. batch_normalize_normals(FlattenSeq(parts)) = FlattenSeq(parts)
    BY <1>11, NormalizedAlready DEF X
<1> QED  BY <1>6, <1>10, <1>12 DEF X

(* The surface a mesh covers is that of the sides it draws.              *)
LEMMA DrawnSurface ==
    ASSUME NEW X, NEW mesh, Draws(voxels, X, mesh, ExposedSides(voxels))
    PROVE  /\ UNION {Covered(q) : q \in Quads(mesh)} = Surface
           /\ \A j, k \in DOMAIN mesh : j # k => Covered(mesh[j]) \cap Covered(mesh[k]) = {}
<1> DEFINE N == Len(mesh)
           T == ExposedSides(voxels)
           side(s) == SideOf(voxels, s)
<1>1. mesh \in Seq(X) /\ DOMAIN mesh = 1..N
    BY DEF Draws
<1>2. PICK g : Parted(voxels, mesh, g, T)
    BY DEF Draws
<1>3. /\ \A k \in 1..N : g[k] \subseteq T /\ Covered(mesh[k]) = {side(s) : s \in g[k]}
      /\ \A j, k \in 1..N : j # k => g[j] \cap g[k] = {}
      /\ \A s \in T : \E k \in 1..N : s \in g[k]
    BY <1>2 DEF Parted
<1>4. Surface = {side(s) : s \in T}
    BY SurfaceIs
<1>5. T \subseteq Sides
    BY DEF ExposedSides
<1>6. \A s, t \in T : side(s) = side(t) => s = t
    BY <1>5, SideOnce
<1> HIDE DEF N, T, side
<1>7. UNION {Covered(q) : q \in Quads(mesh)} = Surface
    <2>1. ASSUME NEW q \in Quads(mesh), NEW x \in Covered(q)
          PROVE  x \in Surface
        <3>1. PICK k \in 1..N : q = mesh[k]
            BY <1>1 DEF Quads
        <3>2. PICK s \in g[k] : x = side(s)
            BY <1>3, <3>1
        <3> QED  BY <1>3, <1>4, <3>2
    <2>2. ASSUME NEW x \in Surface
          PROVE  \E q \in Quads(mesh) : x \in Covered(q)
        <3>1. PICK s \in T : x = side(s)
            BY <1>4
        <3>2. PICK k \in 1..N : s \in g[k]
            BY <1>3
        <3>3. x \in Covered(mesh[k]) /\ mesh[k] \in Quads(mesh)
            BY <1>1, <1>3, <3>1, <3>2 DEF Quads
        <3> QED  BY <3>3
    <2> QED  BY <2>1, <2>2
<1>8. ASSUME NEW j \in 1..N, NEW k \in 1..N, j # k, NEW x \in Covered(mesh[j]), x \in Covered(mesh[k])
      PROVE  FALSE
    <2>1. PICK s \in g[j] : x = side(s)
        BY <1>3
    <2>2. PICK t \in g[k] : x = side(t)
        BY <1>3, <1>8
    <2>3. s \in T /\ t \in T
        BY <1>3
    <2>4. s = t
        BY <1>6, <2>1, <2>2, <2>3
    <2> QED  BY <1>3, <1>8, <2>4
<1>9. \A j, k \in DOMAIN mesh : j # k => Covered(mesh[j]) \cap Covered(mesh[k]) = {}
    BY <1>1, <1>8
<1> QED  BY <1>7, <1>9

(* Winding.  The difference of two places, and the faces of the unit cube. *)
Diff(a, b) == <<a[1] - b[1], a[2] - b[2], a[3] - b[3]>>

Winds(corners4, n, k) ==
    \A i \in 2..3 : Cross(Diff(corners4[i], corners4[1]), Diff(corners4[i + 1], corners4[1])) = Times(k, n)

(* The difference of two corners.                                        *)
LEMMA MinusIs ==
    ASSUME NEW a, NEW b, \A axis \in 1..3 : a[axis] \in Int /\ b[axis] \in Int
    PROVE  Minus(a, b) = Diff(a, b)
<1>1. /\ a[1] \in Int /\ a[2] \in Int /\ a[3] \in Int
      /\ b[1] \in Int /\ b[2] \in Int /\ b[3] \in Int
    OBVIOUS
<1>2. \A x, y \in Int : x + (-1 * y) = x - y
    OBVIOUS
<1>3. Minus(a, b) = <<a[1] + (-1 * b[1]), a[2] + (-1 * b[2]), a[3] + (-1 * b[3])>>
    BY DEF Minus, Plus, Times
<1> QED  BY <1>1, <1>2, <1>3 DEF Diff

(* A difference is the same wherever the two are moved.                  *)
LEMMA DiffMoved ==
    ASSUME NEW p, NEW a, NEW b,
           \A axis \in 1..3 : p[axis] \in Int /\ a[axis] \in Int /\ b[axis] \in Int
    PROVE  Diff(Plus(p, a), Plus(p, b)) = Diff(a, b)
<1>1. /\ p[1] \in Int /\ p[2] \in Int /\ p[3] \in Int
      /\ a[1] \in Int /\ a[2] \in Int /\ a[3] \in Int
      /\ b[1] \in Int /\ b[2] \in Int /\ b[3] \in Int
    OBVIOUS
<1>2. \A x, y, z \in Int : (x + y) - (x + z) = y - z
    OBVIOUS
<1>3. Diff(Plus(p, a), Plus(p, b))
        = <<(p[1] + a[1]) - (p[1] + b[1]), (p[2] + a[2]) - (p[2] + b[2]), (p[3] + a[3]) - (p[3] + b[3])>>
    BY DEF Diff, Plus
<1> QED  BY <1>1, <1>2, <1>3 DEF Diff

(* Every face of the unit cube is wound about its normal.                *)
LEMMA FaceWinds ==
    ASSUME NEW face \in 0..5
    PROVE  Winds(face_corners(face), normal(face), 1)
<1> DEFINE C == face_corners(face)
           n == normal(face)
<1>1. 2 \in 2..3 /\ 3 \in 2..3 /\ 2 + 1 = 3 /\ 3 + 1 = 4 /\ \A i \in 2..3 : i = 2 \/ i = 3
    OBVIOUS
<1>2. ASSUME /\ Cross(Diff(C[2], C[1]), Diff(C[3], C[1])) = n
             /\ Cross(Diff(C[3], C[1]), Diff(C[4], C[1])) = n
             /\ Times(1, n) = n
      PROVE  Winds(C, n, 1)
    <2> HIDE DEF C, n
    <2> QED  BY <1>1, <1>2 DEF Winds
<1>3. CASE face = 0
    <2>1. C = << <<1, 0, 0>>, <<1, 1, 0>>, <<1, 1, 1>>, <<1, 0, 1>> >> /\ n = <<1, 0, 0>>
        BY <1>3 DEF face_corners, normal
    <2> HIDE DEF C, n
    <2>2. Diff(C[2], C[1]) = <<0, 1, 0>> /\ Diff(C[3], C[1]) = <<0, 1, 1>> /\ Diff(C[4], C[1]) = <<0, 0, 1>>
        BY <2>1 DEF Diff
    <2>3. Times(1, n) = n
        BY <2>1 DEF Times
    <2>4. Cross(<<0, 1, 0>>, <<0, 1, 1>>) = n
        BY <2>1 DEF Cross
    <2>5. Cross(<<0, 1, 1>>, <<0, 0, 1>>) = n
        BY <2>1 DEF Cross
    <2>6. Winds(C, n, 1)
        BY <1>2, <2>2, <2>3, <2>4, <2>5
    <2> QED  BY <2>6 DEF C, n
<1>4. CASE face = 1
    <2>1. C = << <<0, 0, 1>>, <<0, 1, 1>>, <<0, 1, 0>>, <<0, 0, 0>> >> /\ n = <<-1, 0, 0>>
        BY <1>4 DEF face_corners, normal
    <2> HIDE DEF C, n
    <2>2. Diff(C[2], C[1]) = <<0, 1, 0>> /\ Diff(C[3], C[1]) = <<0, 1, -1>> /\ Diff(C[4], C[1]) = <<0, 0, -1>>
        BY <2>1 DEF Diff
    <2>3. Times(1, n) = n
        BY <2>1 DEF Times
    <2>4. Cross(<<0, 1, 0>>, <<0, 1, -1>>) = n
        BY <2>1 DEF Cross
    <2>5. Cross(<<0, 1, -1>>, <<0, 0, -1>>) = n
        BY <2>1 DEF Cross
    <2>6. Winds(C, n, 1)
        BY <1>2, <2>2, <2>3, <2>4, <2>5
    <2> QED  BY <2>6 DEF C, n
<1>5. CASE face = 2
    <2>1. C = << <<0, 1, 0>>, <<0, 1, 1>>, <<1, 1, 1>>, <<1, 1, 0>> >> /\ n = <<0, 1, 0>>
        BY <1>5 DEF face_corners, normal
    <2> HIDE DEF C, n
    <2>2. Diff(C[2], C[1]) = <<0, 0, 1>> /\ Diff(C[3], C[1]) = <<1, 0, 1>> /\ Diff(C[4], C[1]) = <<1, 0, 0>>
        BY <2>1 DEF Diff
    <2>3. Times(1, n) = n
        BY <2>1 DEF Times
    <2>4. Cross(<<0, 0, 1>>, <<1, 0, 1>>) = n
        BY <2>1 DEF Cross
    <2>5. Cross(<<1, 0, 1>>, <<1, 0, 0>>) = n
        BY <2>1 DEF Cross
    <2>6. Winds(C, n, 1)
        BY <1>2, <2>2, <2>3, <2>4, <2>5
    <2> QED  BY <2>6 DEF C, n
<1>6. CASE face = 3
    <2>1. C = << <<0, 0, 1>>, <<0, 0, 0>>, <<1, 0, 0>>, <<1, 0, 1>> >> /\ n = <<0, -1, 0>>
        BY <1>6 DEF face_corners, normal
    <2> HIDE DEF C, n
    <2>2. Diff(C[2], C[1]) = <<0, 0, -1>> /\ Diff(C[3], C[1]) = <<1, 0, -1>> /\ Diff(C[4], C[1]) = <<1, 0, 0>>
        BY <2>1 DEF Diff
    <2>3. Times(1, n) = n
        BY <2>1 DEF Times
    <2>4. Cross(<<0, 0, -1>>, <<1, 0, -1>>) = n
        BY <2>1 DEF Cross
    <2>5. Cross(<<1, 0, -1>>, <<1, 0, 0>>) = n
        BY <2>1 DEF Cross
    <2>6. Winds(C, n, 1)
        BY <1>2, <2>2, <2>3, <2>4, <2>5
    <2> QED  BY <2>6 DEF C, n
<1>7. CASE face = 4
    <2>1. C = << <<0, 0, 1>>, <<1, 0, 1>>, <<1, 1, 1>>, <<0, 1, 1>> >> /\ n = <<0, 0, 1>>
        BY <1>7 DEF face_corners, normal
    <2> HIDE DEF C, n
    <2>2. Diff(C[2], C[1]) = <<1, 0, 0>> /\ Diff(C[3], C[1]) = <<1, 1, 0>> /\ Diff(C[4], C[1]) = <<0, 1, 0>>
        BY <2>1 DEF Diff
    <2>3. Times(1, n) = n
        BY <2>1 DEF Times
    <2>4. Cross(<<1, 0, 0>>, <<1, 1, 0>>) = n
        BY <2>1 DEF Cross
    <2>5. Cross(<<1, 1, 0>>, <<0, 1, 0>>) = n
        BY <2>1 DEF Cross
    <2>6. Winds(C, n, 1)
        BY <1>2, <2>2, <2>3, <2>4, <2>5
    <2> QED  BY <2>6 DEF C, n
<1>8. CASE face = 5
    <2>1. C = << <<0, 1, 0>>, <<1, 1, 0>>, <<1, 0, 0>>, <<0, 0, 0>> >> /\ n = <<0, 0, -1>>
        BY <1>8 DEF face_corners, normal
    <2> HIDE DEF C, n
    <2>2. Diff(C[2], C[1]) = <<1, 0, 0>> /\ Diff(C[3], C[1]) = <<1, -1, 0>> /\ Diff(C[4], C[1]) = <<0, -1, 0>>
        BY <2>1 DEF Diff
    <2>3. Times(1, n) = n
        BY <2>1 DEF Times
    <2>4. Cross(<<1, 0, 0>>, <<1, -1, 0>>) = n
        BY <2>1 DEF Cross
    <2>5. Cross(<<1, -1, 0>>, <<0, -1, 0>>) = n
        BY <2>1 DEF Cross
    <2>6. Winds(C, n, 1)
        BY <1>2, <2>2, <2>3, <2>4, <2>5
    <2> QED  BY <2>6 DEF C, n
<1>9. face = 0 \/ face = 1 \/ face = 2 \/ face = 3 \/ face = 4 \/ face = 5
    OBVIOUS
<1> QED  BY <1>3, <1>4, <1>5, <1>6, <1>7, <1>8, <1>9

(* A quad is wound about its normal.                                     *)
Wound(q) ==
    \A i \in 2..3 : \E k \in 1..CHUNK_EDGE * CHUNK_EDGE :
        Cross(Minus(q.corners[i], q.corners[1]), Minus(q.corners[i + 1], q.corners[1])) = Times(k, q.normal)

(* A quad is wound about its normal when its edges turn about it.        *)
LEMMA WindsIs ==
    ASSUME NEW q, NEW k \in 1..CHUNK_EDGE * CHUNK_EDGE, Winds(q.corners, q.normal, k),
           \A i \in 1..4 : \A axis \in 1..3 : q.corners[i][axis] \in Int
    PROVE  Wound(q)
<1> DEFINE C == q.corners
<1>1. ASSUME NEW i \in 2..4
      PROVE  Minus(C[i], C[1]) = Diff(C[i], C[1])
    <2>1. i \in 1..4 /\ 1 \in 1..4
        OBVIOUS
    <2>2. \A axis \in 1..3 : C[i][axis] \in Int /\ C[1][axis] \in Int
        BY <2>1
    <2> HIDE DEF C
    <2> DEFINE a == C[i]
               b == C[1]
    <2>3. \A axis \in 1..3 : a[axis] \in Int /\ b[axis] \in Int
        BY <2>2
    <2> HIDE DEF a, b
    <2>4. Minus(a, b) = Diff(a, b)
        BY <2>3, MinusIs
    <2> QED  BY <2>4 DEF a, b
<1>2. \A i \in 2..3 : i \in 2..4 /\ i + 1 \in 2..4
    OBVIOUS
<1>3. \A i \in 2..3 : Cross(Diff(C[i], C[1]), Diff(C[i + 1], C[1])) = Times(k, q.normal)
    BY DEF Winds
<1> HIDE DEF C
<1>4. \A i \in 2..3 : Cross(Minus(C[i], C[1]), Minus(C[i + 1], C[1])) = Times(k, q.normal)
    BY <1>1, <1>2, <1>3
<1> QED  BY <1>4 DEF Wound, C

(* The corners of the unit cube are numbers.                             *)
LEMMA UnitFace ==
    ASSUME NEW face \in 0..5
    PROVE  \A i \in 1..4 : \A axis \in 1..3 : face_corners(face)[i][axis] \in Int
BY FaceTable DEF Fits

(* A quad of the cubic mesher is a face of the unit cube, moved.         *)
LEMMA CubicWound ==
    ASSUME NEW chunk, NEW q \in CubicQuads(chunk)
    PROVE  Wound(q)
<1>1. PICK s \in Sides : q = emit_face(chunk, s[1], s[2])
    BY DEF CubicQuads
<1> DEFINE p == s[1]
           face == s[2]
           C == face_corners(face)
           n == normal(face)
<1>2. p \in Positions /\ face \in 0..5
    BY DEF Sides
<1>3. /\ \A i \in 1..4 : q.corners[i] = Plus(p, C[i])
      /\ q.normal = n
    BY <1>1 DEF emit_face
<1> HIDE DEF p, face
<1>4. \A axis \in 1..3 : p[axis] \in Int
    <2>1. \A axis \in 1..3 : axis = 1 \/ axis = 2 \/ axis = 3
        OBVIOUS
    <2> QED  BY <1>2, <2>1, PositionIs, SpanType
<1>5. (\A i \in 1..4 : \A axis \in 1..3 : C[i][axis] \in Int) /\ Winds(C, n, 1)
    BY <1>2, UnitFace, FaceWinds
<1> HIDE DEF C, n
<1>6. ASSUME NEW i \in 2..4
      PROVE  Diff(q.corners[i], q.corners[1]) = Diff(C[i], C[1])
    <2>1. i \in 1..4 /\ 1 \in 1..4
        OBVIOUS
    <2> DEFINE a == C[i]
               b == C[1]
    <2>2. \A axis \in 1..3 : p[axis] \in Int /\ a[axis] \in Int /\ b[axis] \in Int
        BY <1>4, <1>5, <2>1
    <2>3. q.corners[i] = Plus(p, a) /\ q.corners[1] = Plus(p, b)
        BY <1>3, <2>1
    <2> HIDE DEF a, b
    <2>4. Diff(Plus(p, a), Plus(p, b)) = Diff(a, b)
        BY <2>2, DiffMoved
    <2> QED  BY <2>3, <2>4 DEF a, b
<1>7. \A i \in 2..3 : i \in 2..4 /\ i + 1 \in 2..4
    OBVIOUS
<1>8. Winds(q.corners, q.normal, 1)
    BY <1>3, <1>5, <1>6, <1>7 DEF Winds
<1>9. \A i \in 1..4 : \A axis \in 1..3 : q.corners[i][axis] \in Int
    <2> SUFFICES ASSUME NEW i \in 1..4, NEW axis \in 1..3
                 PROVE  q.corners[i][axis] \in Int
        OBVIOUS
    <2>1. axis = 1 \/ axis = 2 \/ axis = 3
        OBVIOUS
    <2>2. q.corners[i][axis] = p[axis] + C[i][axis]
        BY <1>3, <2>1 DEF Plus
    <2> QED  BY <1>4, <1>5, <2>2
<1>10. 1 \in 1..CHUNK_EDGE * CHUNK_EDGE
    <2>1. CHUNK_EDGE * CHUNK_EDGE \in Nat /\ CHUNK_EDGE * CHUNK_EDGE >= 1
        BY SpanType
    <2> QED  BY <2>1
<1> QED  BY <1>8, <1>9, <1>10, WindsIs

(* A merged rectangle spans two edges that turn about its axis.          *)
LEMMA PlaceDiff ==
    ASSUME NEW axis \in 1..3, NEW D \in Int, NEW a \in Int, NEW b \in Int, NEW c \in Int, NEW e \in Int
    PROVE  Diff(In3D(axis, D, a, b), In3D(axis, D, c, e)) = In3D(axis, 0, a - c, b - e)
<1>1. axis = 1 \/ axis = 2 \/ axis = 3
    OBVIOUS
<1>2. D - D = 0
    OBVIOUS
<1>3. CASE axis = 1
    <2>1. /\ In3D(axis, D, a, b) = <<D, a, b>> /\ In3D(axis, D, c, e) = <<D, c, e>>
          /\ In3D(axis, 0, a - c, b - e) = <<0, a - c, b - e>>
        BY <1>3, PlaceOf
    <2> QED  BY <1>2, <2>1 DEF Diff
<1>4. CASE axis = 2
    <2>1. /\ In3D(axis, D, a, b) = <<b, D, a>> /\ In3D(axis, D, c, e) = <<e, D, c>>
          /\ In3D(axis, 0, a - c, b - e) = <<b - e, 0, a - c>>
        BY <1>4, PlaceOf
    <2> QED  BY <1>2, <2>1 DEF Diff
<1>5. CASE axis = 3
    <2>1. /\ In3D(axis, D, a, b) = <<a, b, D>> /\ In3D(axis, D, c, e) = <<c, e, D>>
          /\ In3D(axis, 0, a - c, b - e) = <<a - c, b - e, 0>>
        BY <1>5, PlaceOf
    <2> QED  BY <1>2, <2>1 DEF Diff
<1> QED  BY <1>1, <1>3, <1>4, <1>5

(* The cross product of two edges along a slice.                         *)
LEMMA PlaceCross ==
    ASSUME NEW axis \in 1..3, NEW a \in Int, NEW b \in Int, NEW c \in Int, NEW e \in Int
    PROVE  Cross(In3D(axis, 0, a, b), In3D(axis, 0, c, e)) = In3D(axis, a * e - b * c, 0, 0)
<1>1. axis = 1 \/ axis = 2 \/ axis = 3
    OBVIOUS
<1>2. /\ a * 0 - 0 * c = 0 /\ b * 0 - 0 * e = 0
      /\ 0 * c - a * 0 = 0 /\ 0 * e - b * 0 = 0
    OBVIOUS
<1>3. CASE axis = 1
    <2>1. /\ In3D(axis, 0, a, b) = <<0, a, b>> /\ In3D(axis, 0, c, e) = <<0, c, e>>
          /\ In3D(axis, a * e - b * c, 0, 0) = <<a * e - b * c, 0, 0>>
        BY <1>3, PlaceOf
    <2>2. Cross(<<0, a, b>>, <<0, c, e>>) = <<a * e - b * c, b * 0 - 0 * e, 0 * c - a * 0>>
        BY DEF Cross
    <2> QED  BY <1>2, <2>1, <2>2
<1>4. CASE axis = 2
    <2>1. /\ In3D(axis, 0, a, b) = <<b, 0, a>> /\ In3D(axis, 0, c, e) = <<e, 0, c>>
          /\ In3D(axis, a * e - b * c, 0, 0) = <<0, a * e - b * c, 0>>
        BY <1>4, PlaceOf
    <2>2. Cross(<<b, 0, a>>, <<e, 0, c>>) = <<0 * c - a * 0, a * e - b * c, b * 0 - 0 * e>>
        BY DEF Cross
    <2> QED  BY <1>2, <2>1, <2>2
<1>5. CASE axis = 3
    <2>1. /\ In3D(axis, 0, a, b) = <<a, b, 0>> /\ In3D(axis, 0, c, e) = <<c, e, 0>>
          /\ In3D(axis, a * e - b * c, 0, 0) = <<0, 0, a * e - b * c>>
        BY <1>5, PlaceOf
    <2>2. Cross(<<a, b, 0>>, <<c, e, 0>>) = <<b * 0 - 0 * e, 0 * c - a * 0, a * e - b * c>>
        BY DEF Cross
    <2> QED  BY <1>2, <2>1, <2>2
<1> QED  BY <1>1, <1>3, <1>4, <1>5

(* The normal of a slice, taken a number of times.                       *)
LEMMA NormalAlong ==
    ASSUME NEW axis \in 1..3, NEW neg \in BOOLEAN, NEW k \in Int
    PROVE  Times(k, normal(face_id(axis, neg))) = In3D(axis, IF neg THEN -k ELSE k, 0, 0)
<1> DEFINE n == normal(face_id(axis, neg))
           x == IF neg THEN -k ELSE k
           m == IF neg THEN -1 ELSE 1
<1>1. \A i \in 1..3 : n[i] = IF i # axis THEN 0 ELSE m
    BY FaceOf
<1>2. k * m = x /\ k * 0 = 0
    OBVIOUS
<1>3. 1 \in 1..3 /\ 2 \in 1..3 /\ 3 \in 1..3 /\ (axis = 1 \/ axis = 2 \/ axis = 3)
    OBVIOUS
<1>4. Times(k, n) = <<k * n[1], k * n[2], k * n[3]>>
    BY DEF Times
<1>5. /\ axis = 1 => In3D(axis, x, 0, 0) = <<x, 0, 0>>
      /\ axis = 2 => In3D(axis, x, 0, 0) = <<0, x, 0>>
      /\ axis = 3 => In3D(axis, x, 0, 0) = <<0, 0, x>>
    BY PlaceOf
<1> HIDE DEF n, x, m
<1>6. /\ axis = 1 => n[1] = m /\ n[2] = 0 /\ n[3] = 0
      /\ axis = 2 => n[1] = 0 /\ n[2] = m /\ n[3] = 0
      /\ axis = 3 => n[1] = 0 /\ n[2] = 0 /\ n[3] = m
    BY <1>1, <1>3
<1>7. Times(k, n) = In3D(axis, x, 0, 0)
    BY <1>2, <1>3, <1>4, <1>5, <1>6
<1> QED  BY <1>7 DEF n, x

(* The edges of a rectangle turn about its normal, by its area.          *)
LEMMA RectWinds ==
    ASSUME NEW axis \in 1..3, NEW D \in Int, NEW mu \in Int, NEW mv \in Int, NEW w \in Int, NEW h \in Int,
           NEW neg \in BOOLEAN
    PROVE  Winds(CornersOf(axis, D, mu, mv, w, h, neg), normal(face_id(axis, neg)), w * h)
<1> DEFINE t(a, b) == In3D(axis, D, a, b)
           e(a, b) == In3D(axis, 0, a, b)
           C == CornersOf(axis, D, mu, mv, w, h, neg)
           n == normal(face_id(axis, neg))
           k == w * h
<1>1. \A i \in 2..3 : i = 2 \/ i = 3
    OBVIOUS
<1>2. 2 + 1 = 3 /\ 3 + 1 = 4
    OBVIOUS
<1>3. \A a, b, c, g \in Int : Diff(t(a, b), t(c, g)) = e(a - c, b - g)
    BY PlaceDiff
<1>4. \A a, b, c, g \in Int : Cross(e(a, b), e(c, g)) = In3D(axis, a * g - b * c, 0, 0)
    BY PlaceCross
<1>5. k \in Int /\ mu + w \in Int /\ mv + h \in Int
    OBVIOUS
<1>6. (mu + w) - mu = w /\ (mv + h) - mv = h /\ (mv + h) - (mv + h) = 0 /\ mv - (mv + h) = -h
      /\ mu - mu = 0 /\ mv - mv = 0
    OBVIOUS
<1>7. CASE neg
    <2>1. /\ C[1] = t(mu, mv + h) /\ C[2] = t(mu + w, mv + h)
          /\ C[3] = t(mu + w, mv) /\ C[4] = t(mu, mv)
        BY <1>7 DEF CornersOf
    <2>2. Times(k, n) = In3D(axis, -k, 0, 0)
        BY <1>5, <1>7, NormalAlong
    <2> HIDE DEF C, n, t, e, k
    <2>3. Diff(C[2], C[1]) = e(w, 0) /\ Diff(C[3], C[1]) = e(w, -h) /\ Diff(C[4], C[1]) = e(0, -h)
        <3>1. Diff(C[2], C[1]) = e((mu + w) - mu, (mv + h) - (mv + h))
            BY <1>3, <1>5, <2>1
        <3>2. Diff(C[3], C[1]) = e((mu + w) - mu, mv - (mv + h))
            BY <1>3, <1>5, <2>1
        <3>3. Diff(C[4], C[1]) = e(mu - mu, mv - (mv + h))
            BY <1>3, <1>5, <2>1
        <3> QED  BY <1>6, <3>1, <3>2, <3>3
    <2>4. w * (-h) - 0 * w = -k /\ w * (-h) - (-h) * 0 = -k /\ -h \in Int
        BY DEF k
    <2>5. Cross(e(w, 0), e(w, -h)) = In3D(axis, -k, 0, 0)
        <3>1. Cross(e(w, 0), e(w, -h)) = In3D(axis, w * (-h) - 0 * w, 0, 0)
            BY <1>4, <2>4
        <3> QED  BY <2>4, <3>1
    <2>6. Cross(e(w, -h), e(0, -h)) = In3D(axis, -k, 0, 0)
        <3>1. Cross(e(w, -h), e(0, -h)) = In3D(axis, w * (-h) - (-h) * 0, 0, 0)
            BY <1>4, <2>4
        <3> QED  BY <2>4, <3>1
    <2>7. Winds(C, n, k)
        BY <1>1, <1>2, <2>2, <2>3, <2>5, <2>6 DEF Winds
    <2> QED  BY <2>7 DEF C, n, k
<1>8. CASE ~ neg
    <2>1. /\ C[1] = t(mu, mv) /\ C[2] = t(mu + w, mv)
          /\ C[3] = t(mu + w, mv + h) /\ C[4] = t(mu, mv + h)
        BY <1>8 DEF CornersOf
    <2>2. Times(k, n) = In3D(axis, k, 0, 0)
        BY <1>5, <1>8, NormalAlong
    <2> HIDE DEF C, n, t, e, k
    <2>3. Diff(C[2], C[1]) = e(w, 0) /\ Diff(C[3], C[1]) = e(w, h) /\ Diff(C[4], C[1]) = e(0, h)
        <3>1. Diff(C[2], C[1]) = e((mu + w) - mu, mv - mv)
            BY <1>3, <1>5, <2>1
        <3>2. Diff(C[3], C[1]) = e((mu + w) - mu, (mv + h) - mv)
            BY <1>3, <1>5, <2>1
        <3>3. Diff(C[4], C[1]) = e(mu - mu, (mv + h) - mv)
            BY <1>3, <1>5, <2>1
        <3> QED  BY <1>6, <3>1, <3>2, <3>3
    <2>4. w * h - 0 * w = k /\ w * h - h * 0 = k
        BY DEF k
    <2>5. Cross(e(w, 0), e(w, h)) = In3D(axis, k, 0, 0)
        <3>1. Cross(e(w, 0), e(w, h)) = In3D(axis, w * h - 0 * w, 0, 0)
            BY <1>4
        <3> QED  BY <2>4, <3>1
    <2>6. Cross(e(w, h), e(0, h)) = In3D(axis, k, 0, 0)
        <3>1. Cross(e(w, h), e(0, h)) = In3D(axis, w * h - h * 0, 0, 0)
            BY <1>4
        <3> QED  BY <2>4, <3>1
    <2>7. Winds(C, n, k)
        BY <1>1, <1>2, <2>2, <2>3, <2>5, <2>6 DEF Winds
    <2> QED  BY <2>7 DEF C, n, k
<1> QED  BY <1>7, <1>8

(* A quad of the greedy mesher is wound about its normal.                *)
LEMMA GreedyWound ==
    ASSUME NEW chunk, NEW q \in GreedyQuads(chunk)
    PROVE  Wound(q)
<1>1. PICK axis \in 1..3, d \in Span, cell \in Cells, w \in 1..CHUNK_EDGE, h \in 1..CHUNK_EDGE, neg \in BOOLEAN :
         q = emit_quad(axis, d, cell[1], cell[2], w, h, neg, mask_of(chunk, axis, neg, d, cell))
    BY DEF GreedyQuads
<1> DEFINE D == Depth(neg, d)
           mu == cell[1]
           mv == cell[2]
           key == mask_of(chunk, axis, neg, d, cell)
           n == normal(face_id(axis, neg))
           lo == In3D(axis, D, mu, mv)
           hi == In3D(axis, D, mu + w, mv + h)
<1>2. mu \in Int /\ mv \in Int /\ d \in Int /\ D \in Int /\ w \in Nat \ {0} /\ h \in Nat \ {0}
    <2>1. mu \in Span /\ mv \in Span
        BY DEF Cells
    <2>2. w \in Nat \ {0} /\ h \in Nat \ {0} /\ d \in Int
        BY SpanType
    <2>3. D \in Int
        BY <2>2 DEF Depth
    <2> HIDE DEF mu, mv, D
    <2> QED  BY <2>1, <2>2, <2>3, SpanType
<1>3. q.corners = CornersOf(axis, D, mu, mv, w, h, neg) /\ q.normal = n
    <2>1. D = IF neg THEN d ELSE d + 1
        BY DEF Depth
    <2> HIDE DEF D, mu, mv, key
    <2>2. q = emit_quad(axis, d, mu, mv, w, h, neg, key)
        BY <1>1 DEF mu, mv, key
    <2> QED  BY <1>2, <2>1, <2>2, QuadIs
<1> HIDE DEF D, mu, mv, key
<1>4. Winds(q.corners, q.normal, w * h)
    <2>1. w \in Int /\ h \in Int
        BY <1>2
    <2>2. Winds(CornersOf(axis, D, mu, mv, w, h, neg), n, w * h)
        BY <1>2, <2>1, RectWinds
    <2> QED  BY <1>3, <2>2
<1>5. \A i \in 1..4 : \A k \in 1..3 : q.corners[i][k] \in Int
    <2>1. Bounds(q, lo, hi)
        BY <1>2, <1>3, RectBounds
    <2> HIDE DEF lo, hi
    <2> QED  BY <2>1 DEF Bounds
<1>6. w * h \in 1..CHUNK_EDGE * CHUNK_EDGE
    <2> DEFINE E == CHUNK_EDGE
    <2>1. E \in Nat /\ w \in Nat /\ h \in Nat /\ w >= 1 /\ h >= 1 /\ w <= E /\ h <= E
        BY <1>2, SpanType
    <2> HIDE DEF E
    <2>2. w * h <= E * h
        BY <2>1
    <2>3. E * h <= E * E
        BY <2>1
    <2>4. w * h >= 1
        <3>1. w * h >= 1 * h
            BY <2>1
        <3> QED  BY <2>1, <3>1
    <2>5. w * h \in Int /\ E * h \in Int /\ E * E \in Int
        BY <2>1
    <2>6. w * h \in 1..E * E
        BY <2>2, <2>3, <2>4, <2>5
    <2> QED  BY <2>6 DEF E
<1> DEFINE k == w * h
<1>7. k \in 1..CHUNK_EDGE * CHUNK_EDGE /\ Winds(q.corners, q.normal, k)
    BY <1>4, <1>6
<1> HIDE DEF k
<1> QED  BY <1>5, <1>7, WindsIs

(* The centre computed for a quad of the cubic mesher is the middle of two *)
(* opposite corners: on each axis the second corner is one of them.      *)
LEMMA Middle ==
    ASSUME NEW x \in Int, NEW y \in Int, NEW z \in Int, y = x \/ y = z
    PROVE  LET least(S) == CHOOSE a \in S : \A b \in S : a <= b
               most(S) == CHOOSE a \in S : \A b \in S : a >= b
           IN  least({x, y, z}) + most({x, y, z}) = x + z
<1> DEFINE S == {x, y, z}
           least == CHOOSE a \in S : \A b \in S : a <= b
           most == CHOOSE a \in S : \A b \in S : a >= b
<1>1. S = {x, z}
    OBVIOUS
<1>2. \E a \in S : \A b \in S : a <= b
    <2>1. x <= z \/ z <= x
        OBVIOUS
    <2> QED  BY <1>1, <2>1
<1>3. \E a \in S : \A b \in S : a >= b
    <2>1. x <= z \/ z <= x
        OBVIOUS
    <2> QED  BY <1>1, <2>1
<1> HIDE DEF S
<1>4. least \in S /\ (\A b \in S : least <= b) /\ most \in S /\ \A b \in S : most >= b
    <2>1. least \in S /\ \A b \in S : least <= b
        BY <1>2
    <2>2. most \in S /\ \A b \in S : most >= b
        BY <1>3
    <2> QED  BY <2>1, <2>2
<1> HIDE DEF least, most
<1>5. least + most = x + z
    BY <1>1, <1>4
<1> QED  BY <1>5 DEF least, most, S

(* The centre of a face is the middle of its first and third corner.     *)
LEMMA Centred ==
    ASSUME NEW chunk, NEW mesh \in Seq(CubicQuads(chunk)), NEW k \in DOMAIN mesh
    PROVE  Plus(mesh[k].corners[1], mesh[k].corners[3]) = batch_compute_face_aabb_centers(mesh)[k]
<1> DEFINE q == mesh[k]
           box(r) == {r.corners[1], r.corners[2], r.corners[3]}
           least(S) == CHOOSE x \in S : \A y \in S : x <= y
           most(S) == CHOOSE x \in S : \A y \in S : x >= y
           mid(axis) == least({c[axis] : c \in box(q)}) + most({c[axis] : c \in box(q)})
<1>1. batch_compute_face_aabb_centers(mesh)[k] = [axis \in 1..3 |-> mid(axis)]
    BY DEF batch_compute_face_aabb_centers
<1>2. q \in CubicQuads(chunk)
    OBVIOUS
<1> HIDE DEF q
<1>3. PICK s \in Sides : q = emit_face(chunk, s[1], s[2])
    BY <1>2 DEF CubicQuads
<1> DEFINE p == s[1]
           C == face_corners(s[2])
           n == normal(s[2])
<1>4. p \in Positions /\ s[2] \in 0..5 /\ \A i \in 1..4 : q.corners[i] = Plus(p, C[i])
    BY <1>3 DEF Sides, emit_face
<1>5. \A axis \in 1..3 : Fits(C, n, axis)
    BY <1>4, FaceTable
<1> HIDE DEF C, n
<1>6. ASSUME NEW axis \in 1..3
      PROVE  mid(axis) = q.corners[1][axis] + q.corners[3][axis]
    <2> DEFINE x == q.corners[1][axis]
               y == q.corners[2][axis]
               z == q.corners[3][axis]
               m == p[axis]
               a == C[1][axis]
               b == C[2][axis]
               c == C[3][axis]
    <2>1. axis = 1 \/ axis = 2 \/ axis = 3
        OBVIOUS
    <2>2. m \in Int
        BY <1>4, <2>1, PositionIs, SpanType
    <2>3. 1 \in 1..4 /\ 2 \in 1..4 /\ 3 \in 1..4
        OBVIOUS
    <2>4. a \in 0..1 /\ b \in 0..1 /\ c \in 0..1 /\ ((a <= b /\ b <= c) \/ (c <= b /\ b <= a))
        BY <1>5, <2>3 DEF Fits
    <2>5. x = m + a /\ y = m + b /\ z = m + c
        BY <1>4, <2>1, <2>3 DEF Plus
    <2>6. {g[axis] : g \in box(q)} = {x, y, z}
        OBVIOUS
    <2>7. mid(axis) = least({x, y, z}) + most({x, y, z})
        BY <2>6
    <2> HIDE DEF x, y, z, m, a, b, c, mid
    <2>8. x \in Int /\ y \in Int /\ z \in Int /\ (y = x \/ y = z)
        BY <2>2, <2>4, <2>5
    <2>9. least({x, y, z}) + most({x, y, z}) = x + z
        BY <2>8, Middle
    <2> HIDE DEF least, most
    <2>10. mid(axis) = x + z
        BY <2>7, <2>9
    <2> QED  BY <2>10 DEF x, z
<1> HIDE DEF mid
<1>7. 1 \in 1..3 /\ 2 \in 1..3 /\ 3 \in 1..3
    OBVIOUS
<1> DEFINE centre == [axis \in 1..3 |-> mid(axis)]
<1>8. centre = <<centre[1], centre[2], centre[3]>>
    <2>1. centre = [axis \in 1..3 |-> centre[axis]]
        OBVIOUS
    <2> HIDE DEF centre
    <2> QED  BY <2>1, TripleIs
<1>9. centre[1] = mid(1) /\ centre[2] = mid(2) /\ centre[3] = mid(3)
    BY <1>7
<1> HIDE DEF centre
<1>10. Plus(q.corners[1], q.corners[3]) = centre
    BY <1>6, <1>7, <1>8, <1>9 DEF Plus
<1> QED  BY <1>1, <1>10 DEF q, centre

(* Both meshers, whatever the chunk holds.                               *)
LEMMA MeshedSurface == SurfaceCovered /\ WindingOutward
<1> DEFINE cubic == mesh_cubic(voxels)
           greedy == mesh_greedy(voxels)
<1>1. /\ Draws(voxels, CubicQuads(voxels), cubic, ExposedSides(voxels))
      /\ Draws(voxels, GreedyQuads(voxels), greedy, ExposedSides(voxels))
    BY CubicDraws, GreedyDraws
<1>2. cubic \in Seq(CubicQuads(voxels)) /\ greedy \in Seq(GreedyQuads(voxels))
    BY <1>1 DEF Draws
<1> HIDE DEF cubic, greedy
<1>3. SurfaceCovered
    <2>1. ASSUME NEW mesh \in {cubic, greedy}
          PROVE  /\ UNION {Covered(q) : q \in Quads(mesh)} = Surface
                 /\ \A j, k \in DOMAIN mesh : j # k => Covered(mesh[j]) \cap Covered(mesh[k]) = {}
        BY <1>1, DrawnSurface
    <2> QED  BY <2>1 DEF SurfaceCovered, cubic, greedy
<1>4. ASSUME NEW q \in Quads(cubic) \cup Quads(greedy)
      PROVE  Wound(q)
    <2>1. CASE q \in Quads(cubic)
        <3>1. q \in CubicQuads(voxels)
            BY <1>2, <2>1 DEF Quads
        <3> QED  BY <3>1, CubicWound
    <2>2. CASE q \in Quads(greedy)
        <3>1. q \in GreedyQuads(voxels)
            BY <1>2, <2>2 DEF Quads
        <3> QED  BY <3>1, GreedyWound
    <2> QED  BY <2>1, <2>2
<1>5. \A k \in DOMAIN cubic : Plus(cubic[k].corners[1], cubic[k].corners[3])
                                = batch_compute_face_aabb_centers(cubic)[k]
    BY <1>2, Centred
<1>6. WindingOutward
    <2>1. \A q \in Quads(cubic) \cup Quads(greedy) : \A i \in 2..3 : \E k \in 1..CHUNK_EDGE * CHUNK_EDGE :
            Cross(Minus(q.corners[i], q.corners[1]), Minus(q.corners[i + 1], q.corners[1])) = Times(k, q.normal)
        BY <1>4 DEF Wound
    <2> QED  BY <1>5, <2>1 DEF WindingOutward, cubic, greedy
<1> QED  BY <1>3, <1>6

(* Whatever a chunk holds, the meshes of both meshers cover its surface, *)
(* each part of it once and nothing else, every triangle is wound about  *)
(* the outward normal, and the centres computed for the faces are those  *)
(* of their corners (mesh_cubic, emit_face, mesh_greedy, emit_quad,      *)
(* batch_normalize_normals, batch_compute_face_aabb_centers).            *)
THEOREM MeshesAreSurface == DataSpec => []MeshesDrawSurface
<1>1. MeshesDrawSurface
    BY MeshedSurface DEF MeshesDrawSurface
<1> QED  BY <1>1, PTL
=============================================================================
