\* A file removed and created again within the debounce interval.
CONSTANTS
    p1 = p1
    p2 = p2
    NoEvent = NoEvent
    Paths <- OneFile
    Ignored <- None
    Debounce = 1
    OutCap = 1
    KernelCap = 2
    EventLogSize = 1
    SyncQueueSize = 1
    MaxChanges = 3
    MaxTime = 0
SPECIFICATION Spec
CHECK_DEADLOCK FALSE
INVARIANTS
    PresenceReported
