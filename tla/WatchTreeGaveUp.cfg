\* A directory removed while its parent is being walked.
CONSTANTS
    root = root
    a = a
    b = b
    c = c
    t = t
    u = u
    f = f
    Root <- root
    Dirs <- MCDirs
    Files <- MCFiles
    ParentOf <- MCParentOf
    Ignored <- MCIgnored
    KernelCap = 3
    MaxChanges = 4
    None = None
SPECIFICATION Spec
CHECK_DEADLOCK FALSE
INVARIANTS
    AlwaysWatched
