\* Two workers rename, delete, create and upload two paths.
CONSTANTS
    Hole = hole
    Absent = absent
    Dir = dir
    NoHash = nohash
    NoMsg = nomsg
    NoEffect = noeffect
    NoPath = nopath
    NoTask = notask
    NotOpen = notopen
    AtPath = atpath
    a = a
    b = b
    Blocks = {a, b}
    Workers = {w1, w2}
    Paths = {p, q}
    MaxBlocks = 2
    Threshold = 1
    MaxConns = 4
    MaxFaults = 1
    MaxRetry = 0
    Kinds = {"UPDATE", "DELETE", "RENAME"}
    UserRemoves = FALSE
    MaxWrites = 0
    MaxTasks = 2
    UserFiles <- TreeFiles
SYMMETRY MCSymmetry
SPECIFICATION Spec
CHECK_DEADLOCK FALSE
PROPERTIES OldFileKept
