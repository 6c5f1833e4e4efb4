\* Two files changed three times: both channels and the kernel queue overflow,
\* notifications merge, the ring of recent events slides.  The daemon stops for
\* good once it is cancelled, so a stop is no deadlock.
CONSTANTS
    p1 = p1
    p2 = p2
    NoEvent = NoEvent
    Paths <- MCPaths
    Ignored <- None
    Debounce = 1
    OutCap = 1
    KernelCap = 1
    EventLogSize = 1
    SyncQueueSize = 1
    MaxChanges = 3
    MaxTime = 1
SPECIFICATION Spec
CHECK_DEADLOCK FALSE
SYMMETRY FileSymmetry
INVARIANTS
    EveryEventAccountedFor
    SyncingMeansBusy
    StatusShowsRecorded
    LatestChangeReported
    RemovalReported
    ReportsAreSpaced
PROPERTY
    ImplementsLossyFifo
