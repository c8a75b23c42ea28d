\* The test comment on normals of the standalone crate: slices alone.
SPECIFICATION DataSpec
CONSTANTS
    Subjects = {"batch"}
    voxel_span = 2
    edge = 2
    I32Half <- MCI32Half
    None = None
    Coords <- MCCoords
    Voxels = {1, 2}
    Values = {0, 1}
    Default = 0
    SeqModulus = 3
    Places <- MCPlaces
    CHUNK_EDGE = 3
    Editable <- MCEditable
    Materials = {0, 1, 2}
    MaxRun = 9
    width = 4
    height = 3
    Images <- MCImages
    MaxDepth = 5
    ChunkEdge = 3
    Trees <- MCTrees
    Inserts <- MCInserts
    Vectors <- MCVectors
    MaxLength = 13
INVARIANTS
    NormalsAgree
CHECK_DEADLOCK FALSE
