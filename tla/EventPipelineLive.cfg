\* Liveness, with one of the two files ignored.
CONSTANTS
    p1 = p1
    p2 = p2
    NoEvent = NoEvent
    Paths <- MCPaths
    Ignored <- OnlyP2
    Debounce = 1
    OutCap = 1
    KernelCap = 1
    EventLogSize = 0
    SyncQueueSize = 0
    MaxChanges = 2
    MaxTime = 0
SPECIFICATION FairSpec
CHECK_DEADLOCK FALSE
PROPERTIES
    ChangesAreProcessed
    EventsReachEngine
    OverflowIsShown
    ShutdownCompletes
INVARIANTS
    TypeOK
