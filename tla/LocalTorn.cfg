\* One worker copies a file while the user rewrites it.
CONSTANTS
    Hole = hole
    Absent = absent
    Dir = dir
    NoHash = nohash
    NoPath = nopath
    NoTask = notask
    NotOpen = notopen
    NoName = noname
    a = a
    b = b
    Blocks = {a, b}
    Workers = {w1}
    Paths = {p}
    ActivePaths = {p}
    MaxBlocks = 2
    MaxRetry = 0
    Kinds = {"UPDATE"}
    UserFiles <- TwoFiles
    FirstTrees <- NoneOrLarge
    MaxWrites = 1
    MaxTasks = 1
    MaxFaults = 0
SPECIFICATION Spec
CHECK_DEADLOCK FALSE
INVARIANTS CurrentIsWhole
