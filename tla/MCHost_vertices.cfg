\* The comment on the copied vertices: the C API behind its wrappers, alone.
SPECIFICATION HostSpec
CONSTANTS
    Subjects = {"native"}
    Objects = {o1, o2}
    Addresses = {a1, a2}
    Null = Null
    Coords = {c1, c2}
    CellCount = 2
    Materials = {0, 1}
    Hardness = {3, 4}
    MaxId = 1
    U32 = 3
    MaxLoads = 3
    Amounts = {1}
    Policies <- MCPolicies
    RenderRings = {0, 3}
    Forward <- MCForward
    One = 128
    I32Half = 32768
    MaxU32 = 200
    Reach = 3
    Roam = 1
    MaxDistance = 7
    Thresholds = {2, 4, 6}
    Resolutions = {1, 2, 3}
    LodPolicies <- MCLodPolicies
    Scales <- MCScales
    Fields <- MCFields
    Elevations = {0, 7}
    Edits <- MCEdits
    Waves <- MCWaves
    MaxWaves = 2
    MaxResolution = 3
    Size = 24
    Cohorts <- MCCohorts
    MaxCohorts = 5
    grid_size <- MCGrid
    workgroup_size = 2
    MaterialIds = {0, 3}
    Percentages = {50, 100}
    MaxDispatches = 2
    element_count = 3
    group_size = 2
    RADIX_SIZE = 2
    digit_count = 2
    Keys = {0, 1, 2, 3}
PROPERTIES
    VerticesCopied
