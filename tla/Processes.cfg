\* One daemon started twice: its end, or its kill, and its return are seen by
\* the chains of the status program.  It stops for good in the end.
CONSTANTS
    d1 = d1
    t1 = t1
    t2 = t2
    None = None
    NaN = NaN
    NoText = NoText
    Daemons <- MCDaemons
    Streamers <- MCStreamers
    MaxStarts = 2
    MaxRefreshes = 1
    MaxVersions = 2
    Texts <- MCTexts
    DefaultText <- t1
    Numbers <- MCNumbers
SPECIFICATION FairSpec
CHECK_DEADLOCK FALSE
INVARIANTS
    PollsMeetDaemon
    PollingGoesOn
PROPERTIES
    ErrorGoesAway
    ShownNeverGoesBack
