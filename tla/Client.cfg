\* Two tasks, an event pipe of two records, a log pipe of one, and any process killed at any time.
CONSTANTS
    EXIT = exit
    LINE = line
    EventCap = 2
    LogCap = 1
    MaxTasks = 2
SPECIFICATION FairSpec
CHECK_DEADLOCK FALSE
INVARIANTS TypeOK PromisedIsRead LogComplete
PROPERTIES EndsTogether OrphansEnd
