\* Two workers synchronise one path without a lock.
CONSTANTS
    Hole = hole
    Absent = absent
    Dir = dir
    NoHash = nohash
    NoPath = nopath
    NoTask = notask
    NotOpen = notopen
    NoName = noname
    a = a
    b = b
    Blocks = {a, b}
    Workers = {w1, w2}
    Paths = {p, q}
    ActivePaths = {p}
    MaxBlocks = 2
    MaxRetry = 1
    Kinds = {"UPDATE", "DELETE", "RENAME"}
    UserFiles <- TwoFiles
    FirstTrees <- NoneOrLarge
    MaxWrites = 1
    MaxTasks = 2
    MaxFaults = 1
SYMMETRY MCSymmetry
SPECIFICATION Spec
CHECK_DEADLOCK FALSE
INVARIANTS TypeOK QuietIsSynced NoTempLeft
