\* Directories made, moved in and removed while trees are walked.
CONSTANTS
    root = root
    a = a
    b = b
    c = c
    t = t
    u = u
    f = f
    Root <- root
    Dirs <- MCDirs
    Files <- MCFiles
    ParentOf <- MCParentOf
    Ignored <- MCIgnored
    KernelCap = 3
    MaxChanges = 3
    None = None
SPECIFICATION FairSpec
CHECK_DEADLOCK FALSE
INVARIANTS
    TypeOK
    OnlyVisibleWatched
    VisibleTreeWatched
PROPERTIES
    TreeGetsWatched
