\* Two workers whose uploads share the mutex and one temporary file.
CONSTANTS
    Hole = hole
    Absent = absent
    Dir = dir
    NoHash = nohash
    NoMsg = nomsg
    NoEffect = noeffect
    NoPath = nopath
    NoTask = notask
    NotOpen = notopen
    AtPath = atpath
    a = a
    b = b
    Blocks = {a, b}
    Workers = {w1, w2}
    Paths = {p}
    MaxBlocks = 2
    Threshold = 1
    MaxConns = 2
    MaxFaults = 1
    MaxRetry = 1
    Kinds = {"UPDATE"}
    UserRemoves = FALSE
    MaxWrites = 0
    MaxTasks = 2
    UserFiles <- TreeFiles
SPECIFICATION FairSpec
CHECK_DEADLOCK FALSE
PROPERTIES EveryTaskEnds
