\* Two workers, two queued tasks at a time; no symmetry, for the liveness.
CONSTANTS
    Workers = {w1, w2}
    Scheduler = sched
    Tasks = {a, b}
    NoTask = none
    Nodes = {n1, n2}
    NULL = null
    MaxPushes = 3
SPECIFICATION FairSpec
INVARIANTS TypeOK ListShape NodesAccounted NoLostWakeup
PROPERTIES ImplementsFifo BacklogIsTaken StopLeadsToJoin
