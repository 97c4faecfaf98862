\* All that a user may do in three changes, with watches for one subdirectory.
CONSTANTS
    Root = root
    Out = out
    SubDirs = {d1, d2}
    RootNames = {a, b}
    OutNames = {a}
    InnerNames = {x}
    a = a
    b = b
    x = x
    Absent = absent
    Dir = dir
    NoStat = nostat
    NoMove = nomove
    MaxWatches = 2
    MaxSnapshots = 5
    FirstRoots <- EmptyRoot
    Changes = {"create", "write", "remove", "mkdir", "rename", "leave", "arrive"}
    MaxChanges = 3
SPECIFICATION FairSpec
INVARIANTS TypeOK DrainedIsInStep SettledIsInStep
PROPERTIES AlwaysSettles
