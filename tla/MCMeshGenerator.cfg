\* Two voxels, three invocations; buffers of three sizes.
SPECIFICATION Spec
CONSTANTS
    None = None
    workgroup_size = 3
    Configs <- MCConfigs
    Uploads <- MCUploads
INVARIANTS
    IndicesResolve
    SurfaceComplete
    ShortfallBounded
PROPERTIES
    WritesOnce
    DispatchEnds
