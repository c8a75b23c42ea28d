\* Every pair of 96 positions, a world of three chunks of two voxels, two of
\* them with one identifier, every chunk of 27 voxels with six of them
\* written, 93 images of twelve pixels, octrees of up to two sibling groups,
\* slices of up to thirteen vectors (a block of eight, one of four, one left).
SPECIFICATION DataSpec
CONSTANTS
    Subjects = {"lattice", "world", "chunk", "sprite", "octree", "batch"}
    voxel_span = 2
    edge = 2
    I32Half <- MCI32Half
    None = None
    Coords <- MCCoords
    Voxels = {1, 2}
    Values = {0, 1}
    Default = 0
    SeqModulus = 3
    Places <- MCPlaces
    CHUNK_EDGE = 3
    Editable <- MCEditable
    Materials = {0, 1, 2}
    MaxRun = 9
    width = 4
    height = 3
    Images <- MCImages
    MaxDepth = 5
    ChunkEdge = 3
    Trees <- MCTrees
    Inserts <- MCInserts
    Vectors <- MCVectors
    MaxLength = 13
INVARIANTS
    LatticeNames
    MeshesDrawSurface
    ChunksLoadBack
    SpriteVolumes
    CompactionExplained
    BatchesAgree
    ReadsMatchWrites
    StaleMeshesHaveEvent
PROPERTIES
    CompactSettles
CHECK_DEADLOCK FALSE
