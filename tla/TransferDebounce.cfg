\* The scheduler: three paths compete for two pending slots, one worker.
CONSTANTS
    Workers = {w1}
    NoTask = none
    Paths = {a, b, c}
    NoPath = nopath
    PendingSlots = 2
    Debounce = 2
    MaxRetry = 0
    MaxEvents = 3
SYMMETRY MCSymmetry
SPECIFICATION Spec
INVARIANTS EveryEventAccounted SupersededByNewer FirstTriesInOrder
PROPERTIES QueuedOnlyWhenStable
