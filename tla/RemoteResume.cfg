\* A large upload whose END was lost, and its retry.
CONSTANTS
    Hole = hole
    Absent = absent
    Dir = dir
    NoHash = nohash
    NoMsg = nomsg
    NoEffect = noeffect
    NoPath = nopath
    NoTask = notask
    NotOpen = notopen
    AtPath = atpath
    a = a
    b = b
    Blocks = {a, b}
    Workers = {w1}
    Paths = {p}
    MaxBlocks = 2
    Threshold = 1
    MaxConns = 2
    MaxFaults = 1
    MaxRetry = 1
    Kinds = {"UPDATE"}
    UserRemoves = FALSE
    MaxWrites = 0
    MaxTasks = 1
    UserFiles <- TreeFiles
SPECIFICATION Spec
CHECK_DEADLOCK FALSE
PROPERTIES CompleteFileTaken
