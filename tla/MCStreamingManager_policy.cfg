\* The clock, the LOD levels, a camera between two chunks; storage errors; one
\* payload, no crashes.
SPECIFICATION Spec
CONSTANTS
    None = None
    p1 = p1
    p2 = p2
    Coords <- MCCoords
    Payloads = {p1}
    LodLevels = {0}
    Anchors <- MCHereOrCorner
    Velocities = {}
    vy_weight = 2
    max_lod_level = 1
    recency_decay_ticks = 1
    mesh_ring = 0
    prefetch_ring = 1
    prefetch_budget = 2
    max_resident = 2
    StorageMayFail = TRUE
    MayCrash = FALSE
    MaxTick = 1
    MaxCount <- MCEvictions
INVARIANTS
    OvershootBoundedByHits
    LoadsAccounted
PROPERTIES
    BetterChunksStay
    FailureKeepsMemory
