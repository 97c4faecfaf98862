\* Two workers upload files of one path while the user rewrites it.
CONSTANTS
    Hole = hole
    Absent = absent
    Dir = dir
    NoHash = nohash
    NoMsg = nomsg
    NoEffect = noeffect
    NoPath = nopath
    NoTask = notask
    NotOpen = notopen
    AtPath = atpath
    a = a
    b = b
    Blocks = {a, b}
    Workers = {w1, w2}
    Paths = {p}
    MaxBlocks = 2
    Threshold = 1
    MaxConns = 2
    MaxFaults = 1
    MaxRetry = 0
    Kinds = {"UPDATE"}
    UserRemoves = TRUE
    MaxWrites = 2
    MaxTasks = 2
    UserFiles <- MixedFiles
SYMMETRY MCSymmetry
SPECIFICATION Spec
CHECK_DEADLOCK FALSE
INVARIANTS TypeOK SuccessMeansApplied CurrentIsWhole
