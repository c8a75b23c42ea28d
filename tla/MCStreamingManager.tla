------------------------ MODULE MCStreamingManager ------------------------
(* Small instances of StreamingManager for TLC.                          *)
EXTENDS StreamingManager, TLC

CONSTANTS p1, p2

(* The camera's chunk and the two chunks a standing camera with          *)
(* mesh_ring = 0, prefetch_ring = 1 and a budget of 2 is predicted to need. *)
Here   == <<0, 0, 0>>
Corner == <<-1, 0, -1>>
Side   == <<-1, 0, 0>>

MCCoords == {Here, Corner, Side}
MCHere == {Here}

(* A camera that comes and goes between a chunk and a neighbour.          *)
MCHereOrCorner == {Here, Corner}

MCMoves == {<<-1, 0, 0>>}

(* Room for one prefetch that loads, and evicts for, all it may; one load *)
(* and one miss by request, after which a crash starts the counts anew.  *)
MCOnePrefetch ==
    [disk_cache_hits |-> 1, disk_cache_misses |-> 1, evictions |-> 2,
     pending_evictions |-> 0, prefetch_hits |-> 2]

(* Enough evictions to push one predicted chunk out and then to evict for  *)
(* both as a prefetch loads them; misses change nothing the run looks at. *)
MCEvictions ==
    [disk_cache_hits |-> 1, disk_cache_misses |-> 0, evictions |-> 3,
     pending_evictions |-> 0, prefetch_hits |-> 2]

(* Payloads are only stored and compared.                                *)
MCSymmetry == Permutations({p1, p2})

=============================================================================
