\* A file moved out of the source and created again.
CONSTANTS
    Root = root
    Out = out
    SubDirs = {d1, d2}
    RootNames = {a, b}
    OutNames = {a}
    InnerNames = {x}
    a = a
    b = b
    x = x
    Absent = absent
    Dir = dir
    NoStat = nostat
    NoMove = nomove
    MaxWatches = 2
    MaxSnapshots = 5
    FirstRoots <- OneFile
    Changes = {"create", "leave"}
    MaxChanges = 2
SPECIFICATION Spec
INVARIANTS FilesAreBackedUp
