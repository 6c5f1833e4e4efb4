\* Four calls of any kind, from a new database or one of schema 1.
CONSTANTS
    default = default
    user = user
    local = local
    f1 = f1
    f2 = f2
    d1 = d1
    o1 = o1
    s1 = s1
    None = None
    DefaultAccount <- default
    DefaultEmail <- local
    AccountIds <- MCAccounts
    Emails <- MCEmails
    FileIds <- MCFiles
    FolderIds <- MCFolders
    OpIds <- MCOps
    DriveIds <- MCDrives
    Paths <- MCPaths
    Times <- MCTimes
    MaxCalls = 4
    Lower <- MCLower
    Characters <- MCCharacters
    MaxLength = 2
    Before <- MCBefore
    Limits <- MCLimits
SPECIFICATION Spec
CHECK_DEADLOCK FALSE
SYMMETRY Names
INVARIANTS
    TypeOK
    NoDanglingRows
    PrefixListIsExact
PROPERTIES
    CreationTimeKept
    FilesAreIndexed
