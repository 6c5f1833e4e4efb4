\* Files that are in a new directory before it is watched.
CONSTANTS
    root = root
    a = a
    b = b
    c = c
    t = t
    u = u
    f = f
    Root <- root
    Dirs <- MCDirs
    Files <- MCFiles
    ParentOf <- MCParentOf
    Ignored <- MCIgnored
    KernelCap = 3
    MaxChanges = 4
    None = None
SPECIFICATION Spec
CHECK_DEADLOCK FALSE
INVARIANTS
    FileChangesReported
