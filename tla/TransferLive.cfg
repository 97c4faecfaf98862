\* Two workers and the retries of two events of one path, up to the end.
CONSTANTS
    Workers = {w1, w2}
    NoTask = none
    Paths = {a}
    NoPath = nopath
    PendingSlots = 1
    Debounce = 2
    MaxRetry = 2
    MaxEvents = 2
SPECIFICATION FairSpec
INVARIANTS TypeOK EveryEventAccounted GivenUpAfterAllTries
PROPERTIES EveryEventEnds ExitEndsProcess
