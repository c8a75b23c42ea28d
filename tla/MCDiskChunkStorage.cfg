\* Two threads share one chunk, one saving it at a time; failures and crashes.
SPECIFICATION Spec
CONSTANTS
    None = None
    c1 = c1
    p1 = p1
    p2 = p2
    t1 = t1
    t2 = t2
    i1 = i1
    i2 = i2
    i3 = i3
    i4 = i4
    Threads = {t1, t2}
    Coords = {c1}
    Payloads = {p1, p2}
    Inodes = {i1, i2, i3, i4}
    Blocks = 2
    Exclusive = TRUE
    IoMayFail = TRUE
    StatMayFail = FALSE
    MayCrash = TRUE
SYMMETRY MCSymmetry
INVARIANTS
    SavedFilesWhole
PROPERTIES
    ImplementsChunkStore
