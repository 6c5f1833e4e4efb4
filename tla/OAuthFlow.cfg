\* Three callbacks: two answers of one kind and one of the other, beside the
\* error of the server.  A flow that has returned does nothing more.
CONSTANTS
    r1 = r1
    r2 = r2
    r3 = r3
    Server = Server
    Callbacks <- MCCallbacks
SPECIFICATION FairSpec
CHECK_DEADLOCK FALSE
INVARIANTS
    TypeOK
    NothingLeftRunning
PROPERTIES
    FlowReturns
