\* Four frames, two plugins, four hints, two materials, palettes of three, two
\* saves over three names, tables of up to 125 entries where 100 values fit a u32,
\* batches of five events.
SPECIFICATION ServicesSpec
CONSTANTS
    Subjects = {"frames", "plugins", "hints", "registries", "palettes", "snapshots", "passes",
                "terrain", "pbr", "stages", "arrivals"}
    MaxFrames = 4
    PluginNames = {"p", "q"}
    MaxRuns = 3
    Lower <- MCLower
    Defaults <- MCDefaults
    NamePrefixes <- MCNamePrefixes
    Hints = {"Tall", "Mirror"}
    AssetIds <- MCAssetIds
    MaxEntries = 4
    Labels = {"", "a"}
    Blank = ""
    MaxMade = 2
    MaxCalls = 3
    MaterialNames = {"", "a", "b"}
    BlankName = ""
    PaletteSize = 3
    MaxLogged = 3
    Destinations = {"", " ", "a"}
    PostFxSnapshots <- MCPostFxSnapshots
    TerrainSnapshots <- MCTerrainSnapshots
    WaterSnapshots <- MCWaterSnapshots
    MaxSaves = 2
    One = 12
    U32Values = 100
    PassConfigs <- MCPassConfigs
    Colours <- MCColours
    Exposures = {0, 1, 2, 3, 4, 40}
    Offsets <- MCOffsets
    CustomLut <- MCCustomLut
    PropertyNames = {"a", "b"}
    PropertyValues = {1}
    MaterialIds = {1, 2}
    CascadeSplits <- MCCascadeSplits
    MaxCascades = 5
    ViewDistances = {0, 1, 2, 3, 4, 5, 6, 7, 8, 9, 10}
    KernelLengths = {0, 8, 16, 32}
    FadeDistance = 8
    U32Bound = 65536
    Arrivals <- MCArrivals
    MaxArrived = 5
INVARIANTS
    BooksBalance
    SnapshotsLoad
    DrawnAsSet
PROPERTIES
    HintsLast
CHECK_DEADLOCK FALSE
