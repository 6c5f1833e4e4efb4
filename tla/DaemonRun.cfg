\* Three starts: a daemon is started beside the other one, and again after any
\* end.  With no start left the daemons stop for good.
CONSTANTS
    d1 = d1
    d2 = d2
    c1 = c1
    None = None
    Daemons <- MCDaemons
    Streamers <- MCStreamers
    MaxStarts = 3
SPECIFICATION FairDaemonSpec
CHECK_DEADLOCK FALSE
INVARIANTS
    TypeOK
    AloneMeansReachable
    SocketRemoved
    UnclosedOnlyAfterFailure
    ShutdownNeverStuck
PROPERTIES
    ShutdownReturns
