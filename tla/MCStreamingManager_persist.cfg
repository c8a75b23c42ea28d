\* Payloads, storage errors and crashes; one anchor and one velocity for the
\* camera, no LOD levels, no frames.
SPECIFICATION Spec
CONSTANTS
    None = None
    p1 = p1
    p2 = p2
    Coords <- MCCoords
    Payloads = {p1, p2}
    LodLevels = {}
    Anchors <- MCHere
    Velocities <- MCMoves
    vy_weight = 2
    max_lod_level = 1
    recency_decay_ticks = 1
    mesh_ring = 0
    prefetch_ring = 1
    prefetch_budget = 2
    max_resident = 2
    StorageMayFail = TRUE
    MayCrash = TRUE
    MaxTick = 0
    MaxCount <- MCOnePrefetch
SYMMETRY MCSymmetry
INVARIANTS
    TypeOK
PROPERTIES
    ImplementsChunkCache
