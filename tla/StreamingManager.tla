-------------------------- MODULE StreamingManager --------------------------
(***************************************************************************)
(* StreamingManager of src/streaming_io.rs: the chunks held in memory, the *)
(* bookkeeping that ranks them, and the storage they are evicted to.     *)
(*                                                                       *)
(* Every mutating method takes &mut self, so a method is one action; the *)
(* loop of prefetch_next_frame is one action per turn, because a storage *)
(* error or a crash may stop it between two turns.  The storage is       *)
(* the map a ChunkStorage implements (DiskChunkStorage shows that a save *)
(* takes effect at one instant or not at all); it may refuse any call.   *)
(* A crash loses the manager and keeps the storage.                      *)
(***************************************************************************)
EXTENDS ChunkPriority, Sequences

CONSTANTS
    Coords,           \* the chunk coordinates clients use
    Payloads,         \* contents a chunk may have
    LodLevels,        \* LOD levels clients set
    Anchors,          \* camera anchors clients set
    Velocities,       \* camera velocities clients set
    None,             \* Rust's Option::None, a key a HashMap lacks
    max_resident,     \* "Maximum number of chunks to keep resident."
    StorageMayFail,   \* whether storage calls may return an I/O error
    MayCrash,         \* whether the process may be killed
    MaxTick,          \* bound: frames
    MaxCount          \* bound: MaxCount[counter] of each statistics counter

ASSUME CapacityAssumption == max_resident \in Nat

ASSUME CoordsAssumption ==
    /\ Coords # {} /\ IsFiniteSet(Coords)
    /\ Coords \subseteq Int \X Int \X Int
    /\ (Anchors \cup Velocities) \subseteq Int \X Int \X Int

ASSUME NoneAssumption ==
    None \notin Payloads /\ None \notin Anchors /\ None \notin Nat

StatNames == {"disk_cache_hits", "disk_cache_misses", "evictions",
              "pending_evictions", "prefetch_hits"}

ASSUME BoundAssumption ==
    /\ MaxTick \in Nat /\ MaxCount \in [StatNames -> Nat]
    /\ StorageMayFail \in BOOLEAN /\ MayCrash \in BOOLEAN
    /\ LodLevels \subseteq Nat

VARIABLES
    storage,          \* storage[c]: the payload saved for c, None when no file
    resident,         \* resident[c]: the payload in memory, None when absent
    lod_levels,       \* lod_levels[c]: the LOD level on record, or None
    last_access,      \* last_access[c]: the tick of the last access, or None
    current_tick,
    camera_anchor,
    camera_velocity,
    stats,            \* StreamingCacheStats
    prefetch,         \* the prefetch call in progress: chunks to go, loaded so far
    reply             \* what the last call returned

vars == <<storage, resident, lod_levels, last_access, current_tick,
          camera_anchor, camera_velocity, stats, prefetch, reply>>

camera == <<camera_anchor, camera_velocity>>

Resident == {c \in Coords : resident[c] # None}

Idle == [todo |-> << >>, loaded |-> 0, active |-> FALSE]

Done == [kind |-> "done"]
Failed == [kind |-> "failed"]
Busy == [kind |-> "busy"]
Restarted == [kind |-> "restarted"]

Got(c, d) == [kind |-> "got", coord |-> c, value |-> d]

NoStats == [counter \in StatNames |-> 0]

---------------------------------------------------------------------------
(* Ranking.                                                              *)

Cleared(map, c) == [map EXCEPT ![c] = None]

get_lod_level(lods, c) == IF lods[c] = None THEN max_lod_level ELSE lods[c]

(* The score of c under the given maps; with no camera every chunk counts *)
(* as being where the camera is.                                         *)
chunk_priority(c, lods, access) ==
    LET anchor == IF camera_anchor = None THEN c ELSE camera_anchor
        seen   == IF access[c] = None THEN 0 ELSE access[c]
    IN  compute_priority(ring_distance(c, anchor), get_lod_level(lods, c),
                         Larger(current_tick - seen, 0))

(* The chunks lowest_priority_coord may return: min_by over a HashMap    *)
(* returns whichever of the least important chunks it meets first.       *)
lowest_priority_coord(lods, access) ==
    {v \in Resident : \A c \in Resident :
        ~ LessImportant(chunk_priority(c, lods, access),
                        chunk_priority(v, lods, access))}

(* Mutant: the capacity test lets one chunk too many in.                 *)
NeedsVictimLate == Cardinality(Resident) > max_resident /\ Resident # {}

(* insert_chunk and prefetch_next_frame evict once at capacity, and only *)
(* when there is something to evict.                                     *)
NeedsVictim == Cardinality(Resident) >= max_resident /\ Resident # {}

---------------------------------------------------------------------------
(* The camera, the clock and the LOD map.                                *)

Ready == ~ prefetch.active

set_camera_anchor(a) ==
    /\ Ready
    /\ camera_anchor' = a
    /\ reply' = Done
    /\ UNCHANGED <<storage, resident, lod_levels, last_access, current_tick,
                   camera_velocity, stats, prefetch>>

set_camera_velocity(v) ==
    /\ Ready
    /\ camera_velocity' = v
    /\ reply' = Done
    /\ UNCHANGED <<storage, resident, lod_levels, last_access, current_tick,
                   camera_anchor, stats, prefetch>>

advance_tick ==
    /\ Ready
    /\ current_tick < MaxTick
    /\ current_tick' = current_tick + 1
    /\ reply' = Done
    /\ UNCHANGED <<storage, resident, lod_levels, last_access, camera, stats,
                   prefetch>>

set_lod_level(c, lod) ==
    /\ Ready
    /\ lod_levels' = [lod_levels EXCEPT ![c] = lod]
    /\ reply' = Done
    /\ UNCHANGED <<storage, resident, last_access, current_tick, camera,
                   stats, prefetch>>

---------------------------------------------------------------------------
(* Requests.                                                             *)

Counted(counter) == [stats EXCEPT ![counter] = @ + 1]

Room(counter) == stats[counter] < MaxCount[counter]

request_hit(c) ==
    /\ Ready
    /\ c \in Resident
    /\ last_access' = [last_access EXCEPT ![c] = current_tick]
    /\ reply' = Got(c, resident[c])
    /\ UNCHANGED <<storage, resident, lod_levels, current_tick, camera, stats,
                   prefetch>>

(* A disk hit becomes resident whatever the number of resident chunks.   *)
request_load(c) ==
    /\ Ready
    /\ c \notin Resident /\ storage[c] # None
    /\ Room("disk_cache_hits")
    /\ stats' = Counted("disk_cache_hits")
    /\ last_access' = [last_access EXCEPT ![c] = current_tick]
    /\ resident' = [resident EXCEPT ![c] = storage[c]]
    /\ reply' = Got(c, storage[c])
    /\ UNCHANGED <<storage, lod_levels, current_tick, camera, prefetch>>

request_miss(c) ==
    /\ Ready
    /\ c \notin Resident /\ storage[c] = None
    /\ Room("disk_cache_misses")
    /\ stats' = Counted("disk_cache_misses")
    /\ reply' = Got(c, None)
    /\ UNCHANGED <<storage, resident, lod_levels, last_access, current_tick,
                   camera, prefetch>>

request_error(c) ==
    /\ Ready /\ StorageMayFail
    /\ c \notin Resident
    /\ reply' = Failed
    /\ UNCHANGED <<storage, resident, lod_levels, last_access, current_tick,
                   camera, stats, prefetch>>

request_chunk(c) ==
    request_hit(c) \/ request_load(c) \/ request_miss(c) \/ request_error(c)

---------------------------------------------------------------------------
(* Eviction and insertion.                                               *)

(* Mutant: a subtraction that does not saturate.                         *)
EvictedBelowZero == [stats EXCEPT !.evictions = @ + 1, !.pending_evictions = @ - 1]

Evicted == [stats EXCEPT !.evictions = @ + 1,
                         !.pending_evictions = IF @ = 0 THEN 0 ELSE @ - 1]

(* Mutant: the victim leaves memory without being saved.                 *)
SavedNowhere(v) == storage

Saved(v) == [storage EXCEPT ![v] = resident[v]]

(* Mutant: an explicit eviction is not counted.                          *)
evict_done_uncounted(v) ==
    /\ v \in Resident
    /\ storage' = Saved(v)
    /\ resident' = Cleared(resident, v)
    /\ lod_levels' = Cleared(lod_levels, v)
    /\ last_access' = Cleared(last_access, v)
    /\ reply' = Done
    /\ UNCHANGED stats

evict_done(v) ==
    /\ v \in Resident
    /\ Room("evictions")
    /\ storage' = Saved(v)
    /\ resident' = Cleared(resident, v)
    /\ lod_levels' = Cleared(lod_levels, v)
    /\ last_access' = Cleared(last_access, v)
    /\ stats' = Evicted
    /\ reply' = Done

evict_absent(v) ==
    /\ v \notin Resident
    /\ reply' = Done
    /\ UNCHANGED <<storage, resident, lod_levels, last_access, stats>>

(* Mutant: the chunk is taken out of memory before the save that fails.  *)
evict_error_after_removal(v) ==
    /\ StorageMayFail
    /\ v \in Resident
    /\ resident' = Cleared(resident, v)
    /\ reply' = Failed
    /\ UNCHANGED <<storage, lod_levels, last_access, stats>>

evict_error(v) ==
    /\ StorageMayFail
    /\ v \in Resident
    /\ reply' = Failed
    /\ UNCHANGED <<storage, resident, lod_levels, last_access, stats>>

evict_chunk(v) ==
    /\ Ready
    /\ evict_done(v) \/ evict_absent(v) \/ evict_error(v)
    /\ UNCHANGED <<current_tick, camera, prefetch>>

(* The tail of insert_chunk, under the maps the eviction leaves.         *)
Place(c, d, chunks, access) ==
    /\ resident' = [chunks EXCEPT ![c] = d]
    /\ last_access' = [access EXCEPT ![c] = IF @ = None THEN current_tick ELSE @]

insert_free(c, d, lods, access) ==
    /\ ~ NeedsVictim
    /\ Place(c, d, resident, access)
    /\ lod_levels' = lods
    /\ reply' = Done
    /\ UNCHANGED <<storage, stats>>

(* At capacity the least important chunk makes room, even when c itself is *)
(* resident and its own entry would only be replaced; c may be the victim. *)
insert_evicting(c, d, lods, access) ==
    /\ NeedsVictim
    /\ Room("evictions")
    /\ \E v \in lowest_priority_coord(lods, access) :
         /\ storage' = Saved(v)
         /\ Place(c, d, Cleared(resident, v), Cleared(access, v))
         /\ lod_levels' = Cleared(lods, v)
    /\ stats' = Evicted
    /\ reply' = Done

(* The victim could not be saved: the chunk is not inserted, but what    *)
(* insert_chunk_with_lod wrote beforehand stays.                         *)
insert_error(lods, access) ==
    /\ StorageMayFail /\ NeedsVictim
    /\ lod_levels' = lods
    /\ last_access' = access
    /\ reply' = Failed
    /\ UNCHANGED <<storage, resident, stats>>

InsertUnder(c, d, lods, access) ==
    /\ Ready
    /\ \/ insert_free(c, d, lods, access)
       \/ insert_evicting(c, d, lods, access)
       \/ insert_error(lods, access)
    /\ UNCHANGED <<current_tick, camera, prefetch>>

insert_chunk(c, d) == InsertUnder(c, d, lod_levels, last_access)

insert_chunk_with_lod(c, d, lod) ==
    InsertUnder(c, d, [lod_levels EXCEPT ![c] = lod],
                      [last_access EXCEPT ![c] = current_tick])

---------------------------------------------------------------------------
(* Prefetch: one turn of the loop per action.                            *)

(* The bound on the counters is checked before the call, so that a call  *)
(* once begun is never cut short by it.                                  *)
RoomForCall ==
    \A counter \in {"evictions", "prefetch_hits"} :
        stats[counter] + prefetch_budget <= MaxCount[counter]

prefetch_begin ==
    /\ Ready
    /\ camera_anchor # None
    /\ RoomForCall
    /\ prefetch' = [todo |-> predict_chunks(camera_anchor, camera_velocity),
                    loaded |-> 0, active |-> TRUE]
    /\ reply' = Busy
    /\ UNCHANGED <<storage, resident, lod_levels, last_access, current_tick,
                   camera, stats>>

Turn == prefetch.active /\ prefetch.todo # << >>

NextChunk == Head(prefetch.todo)

(* The turn passes the residency test and the budget test.               *)
Wanted == Turn /\ NextChunk \notin Resident /\ prefetch.loaded < prefetch_budget

Stored == NextChunk \in Coords /\ storage[NextChunk] # None

Turned(n) == [todo |-> Tail(prefetch.todo), loaded |-> prefetch.loaded + n,
              active |-> TRUE]

prefetch_skip ==
    /\ Turn
    /\ NextChunk \in Resident \/ (Wanted /\ ~ Stored)
    /\ prefetch' = Turned(0)
    /\ UNCHANGED <<storage, resident, lod_levels, last_access, current_tick,
                   camera, stats, reply>>

prefetch_load ==
    /\ Wanted /\ Stored
    /\ ~ NeedsVictim
    /\ resident' = [resident EXCEPT ![NextChunk] = storage[NextChunk]]
    /\ last_access' = [last_access EXCEPT ![NextChunk] = current_tick]
    /\ stats' = Counted("prefetch_hits")
    /\ prefetch' = Turned(1)
    /\ UNCHANGED <<storage, lod_levels, current_tick, camera, reply>>

(* The payload is read before the victim is written back.                *)
prefetch_load_evicting ==
    /\ Wanted /\ Stored
    /\ NeedsVictim
    /\ \E v \in lowest_priority_coord(lod_levels, last_access) :
         /\ storage' = Saved(v)
         /\ resident' = [Cleared(resident, v) EXCEPT ![NextChunk] = storage[NextChunk]]
         /\ last_access' = [Cleared(last_access, v) EXCEPT ![NextChunk] = current_tick]
         /\ lod_levels' = Cleared(lod_levels, v)
    /\ stats' = [Evicted EXCEPT !.prefetch_hits = @ + 1]
    /\ prefetch' = Turned(1)
    /\ UNCHANGED <<current_tick, camera, reply>>

(* A failed read, or a victim that could not be saved, ends the call; the *)
(* chunks loaded by earlier turns stay.                                  *)
prefetch_error ==
    /\ Wanted /\ StorageMayFail
    /\ prefetch' = Idle
    /\ reply' = Failed
    /\ UNCHANGED <<storage, resident, lod_levels, last_access, current_tick,
                   camera, stats>>

(* The list is exhausted, or the budget is.                              *)
prefetch_end ==
    /\ prefetch.active
    /\ Turn => NextChunk \notin Resident /\ prefetch.loaded >= prefetch_budget
    /\ prefetch' = Idle
    /\ reply' = Done
    /\ UNCHANGED <<storage, resident, lod_levels, last_access, current_tick,
                   camera, stats>>

prefetch_next_frame ==
    \/ prefetch_begin \/ prefetch_skip \/ prefetch_load
    \/ prefetch_load_evicting \/ prefetch_error \/ prefetch_end

---------------------------------------------------------------------------
(* Persistence and restart.                                              *)

(* The resident chunks are saved in no particular order up to the first  *)
(* failure.                                                              *)
save_all_chunks ==
    /\ Ready
    /\ \E S \in SUBSET Resident :
         /\ S # Resident => StorageMayFail
         /\ storage' = [c \in Coords |-> IF c \in S THEN resident[c] ELSE storage[c]]
         /\ reply' = IF S = Resident THEN Done ELSE Failed
    /\ UNCHANGED <<resident, lod_levels, last_access, current_tick, camera,
                   stats, prefetch>>

Unknown == [c \in Coords |-> None]

Standstill == <<0, 0, 0>>

(* StreamingManager::new and with_lod_config over an empty storage.      *)
Init ==
    /\ storage = Unknown
    /\ resident = Unknown
    /\ lod_levels = Unknown
    /\ last_access = Unknown
    /\ current_tick = 0
    /\ camera_anchor = None
    /\ camera_velocity = Standstill
    /\ stats = NoStats
    /\ prefetch = Idle
    /\ reply = Done

(* The process dies, within a call or between two, and a new manager is  *)
(* built over the storage that is left.                                  *)
Crash ==
    /\ MayCrash
    /\ resident' = Unknown
    /\ lod_levels' = Unknown
    /\ last_access' = Unknown
    /\ current_tick' = 0
    /\ camera_anchor' = None
    /\ camera_velocity' = Standstill
    /\ stats' = NoStats
    /\ prefetch' = Idle
    /\ reply' = Restarted
    /\ UNCHANGED storage

Next ==
    \/ \E a \in Anchors : set_camera_anchor(a)
    \/ \E v \in Velocities : set_camera_velocity(v)
    \/ advance_tick
    \/ \E c \in Coords :
         \/ \E lod \in LodLevels : set_lod_level(c, lod)
         \/ request_chunk(c)
         \/ evict_chunk(c)
         \/ \E d \in Payloads :
              \/ insert_chunk(c, d)
              \/ \E lod \in LodLevels : insert_chunk_with_lod(c, d, lod)
    \/ prefetch_next_frame
    \/ save_all_chunks
    \/ Crash

Spec == Init /\ [][Next]_vars

---------------------------------------------------------------------------
(* Properties.                                                           *)

(* Type invariant.                                                       *)
TypeOK ==
    /\ storage \in [Coords -> Payloads \cup {None}]
    /\ resident \in [Coords -> Payloads \cup {None}]
    /\ lod_levels \in [Coords -> LodLevels \cup {None}]
    /\ last_access \in [Coords -> Nat \cup {None}]
    /\ current_tick \in Nat
    /\ camera_anchor \in Anchors \cup {None}
    /\ camera_velocity \in Velocities \cup {Standstill}
    /\ stats \in [StatNames -> Nat]
    /\ prefetch \in [todo : {prefetch.todo}, loaded : Nat, active : BOOLEAN]

(* What a request for c would return.                                    *)
Visible == [c \in Coords |-> IF resident[c] # None THEN resident[c] ELSE storage[c]]

Cache == INSTANCE ChunkCache WITH value <- Visible, durable <- storage

(* The manager is a map with a durable shadow: through evictions, prefetch, *)
(* partial flushes, storage errors and crashes, a request returns the    *)
(* payload of the last successful insert, and a crash returns every chunk *)
(* to a payload that was once current (evict_chunk, insert_chunk,        *)
(* request_chunk, prefetch_next_frame, save_all_chunks).                 *)
ImplementsChunkCache == Cache!Spec

(* Only request_chunk lets the manager outgrow its capacity, by at most one *)
(* chunk per disk hit; every insert and every prefetched chunk pays for its *)
(* place with an eviction (insert_chunk, prefetch_next_frame).           *)
OvershootBoundedByHits ==
    Cardinality(Resident) <= Larger(max_resident, 1) + stats.disk_cache_hits

(* Every chunk the statistics say was loaded is in memory or was counted *)
(* as evicted (StreamingCacheStats).                                     *)
LoadsAccounted ==
    stats.disk_cache_hits + stats.prefetch_hits
        <= stats.evictions + Cardinality(Resident)

(* A resident chunk always has an access tick, without which the score   *)
(* would take it for one last used at tick 0, and no tick on record lies in *)
(* the future, not even one a failed insert left behind (chunk_priority). *)
ResidentsHaveAccessTick ==
    \A c \in Coords :
        /\ c \in Resident => last_access[c] # None
        /\ last_access[c] # None => last_access[c] <= current_tick

(* c is at least as near, as detailed and as recently used as v, and     *)
(* strictly nearer or more detailed.                                     *)
Beats(c, v) ==
    LET Ring(x) == IF camera_anchor = None THEN 0 ELSE ring_distance(x, camera_anchor)
        Lod(x)  == get_lod_level(lod_levels, x)
    IN  /\ Ring(c) <= Ring(v) /\ Lod(c) <= Lod(v) /\ last_access[c] >= last_access[v]
        /\ Ring(c) < Ring(v) \/ Lod(c) < Lod(v)

(* "chunks closest to the camera, at the highest LOD detail, and most    *)
(* recently accessed are evicted LAST": a chunk that makes room for another *)
(* never beats one that stays, whatever the weights of the score and the *)
(* order of arrival (lowest_priority_coord, compute_priority).           *)
BetterChunksStay ==
    [][Resident' \ Resident # {} =>
         \A v \in Resident \ Resident', c \in Resident \cap Resident' :
            ~ Beats(v, c)]_vars

(* The step with which a call fails leaves every payload in memory and every *)
(* statistic alone, and the ranking of every chunk but one, the chunk that *)
(* insert_chunk_with_lod was asked for: its entries are written before the *)
(* eviction that fails, with the current tick.  What earlier turns of a   *)
(* failing prefetch loaded stays, and the statistics have counted it (the *)
(* ? after save_chunk in evict_chunk comes before any removal).          *)
FailureKeepsMemory ==
    [][reply' = Failed =>
         /\ UNCHANGED <<resident, stats>>
         /\ prefetch.loaded <= stats.prefetch_hits
         /\ \E c \in Coords :
              /\ \A other \in Coords \ {c} :
                   /\ lod_levels'[other] = lod_levels[other]
                   /\ last_access'[other] = last_access[other]
              /\ \/ UNCHANGED <<lod_levels, last_access>>
                 \/ last_access'[c] = current_tick]_vars

(* A prefetch never holds more predictions than its budget still allows, so *)
(* the budget test inside the loop never ends it early                   *)
(* (prefetch_next_frame, predict_chunks).                                *)
PrefetchWithinBudget ==
    prefetch.active => prefetch.loaded + Len(prefetch.todo) <= prefetch_budget

=============================================================================
