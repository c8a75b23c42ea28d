----------------------------- MODULE EventOrder -----------------------------
(***************************************************************************)
(* The order in which a consumer takes dirty-chunk events: the fixtures  *)
(* and sort_and_dedup of src/voxel/fixtures.rs.  Events reach the consumer *)
(* in any order, some of them twice.                                     *)
(***************************************************************************)
EXTENDS Naturals, Sequences, SequencesExt, FiniteSets

CONSTANTS
    Arrivals,      \* bound: the events, as <<chunk_id, write_seq>>
    MaxArrived     \* bound: events in one batch

ASSUME ArrivalAssumption == Arrivals \subseteq Nat \X Nat

VARIABLE arrived

LOD_LOWER_CHUNK == 101
LOD_UPPER_CHUNK == 102

sample_sequence == << <<2, 5>>, <<1, 10>>, <<1, 3>>, <<2, 1>> >>
sample_with_ties == << <<7, 2>>, <<3, 1>>, <<7, 2>>, <<3, 1>> >>
sample_lod_transition ==
    << <<LOD_LOWER_CHUNK, 1>>, <<LOD_UPPER_CHUNK, 2>>,
       <<LOD_LOWER_CHUNK, 3>>, <<LOD_UPPER_CHUNK, 4>> >>

(* The order derived for DirtyChunkEvent.                                *)
Before(e, f) == e[1] < f[1] \/ (e[1] = f[1] /\ e[2] < f[2])

(* sort is stable and dedup drops an event equal to the one before it.   *)
sorted(events) ==
    LET rank(k) == Cardinality({j \in DOMAIN events :
                       Before(events[j], events[k]) \/ (events[j] = events[k] /\ j < k)})
    IN  [place \in DOMAIN events |-> events[CHOOSE k \in DOMAIN events : rank(k) = place - 1]]

dedup(events) ==
    LET upTo[n \in 0..Len(events)] ==
            IF n = 0 THEN << >>
            ELSE IF upTo[n - 1] # << >> /\ Last(upTo[n - 1]) = events[n] THEN upTo[n - 1]
            ELSE Append(upTo[n - 1], events[n])
    IN  upTo[Len(events)]

sort_and_dedup(events) == dedup(sorted(events))

ArrivalInit == arrived \in {<< >>, sample_sequence, sample_with_ties, sample_lod_transition}

arrive(e) ==
    /\ Len(arrived) < MaxArrived
    /\ arrived' = Append(arrived, e)

ArrivalNext == \E e \in Arrivals : arrive(e)

ArrivalSpec == ArrivalInit /\ [][ArrivalNext]_arrived

---------------------------------------------------------------------------
(* Whatever the order of arrival and whatever arrives twice, the consumer *)
(* sees each event once, chunk by chunk and each chunk's in the order of *)
(* the writes, so that the last it sees of a chunk is the latest write; an *)
(* event that comes late changes the batch only by its own place         *)
(* (sort_and_dedup).                                                     *)
BatchesInOrder ==
    LET batch == sort_and_dedup(arrived)
    IN  /\ ToSet(batch) = ToSet(arrived)
        /\ \A j, k \in DOMAIN batch : j < k <=> Before(batch[j], batch[k])
        /\ arrived # << >> =>
              sort_and_dedup(<<Last(arrived)>> \o Front(arrived)) = batch

=============================================================================
