\* Only the deletion-vector fetch may fail.  Its exception is thrown inside
\* the kernel's callback and the process aborts, holding the list's mutex:
\* the GetFile call never returns to the query.
CONSTANTS
    Threads = {t1, t2}
    f1 = f1
    f2 = f2
    f3 = f3
    p1 = p1
    p2 = p2
    Files <- MCFiles
    LOG <- MCLog
    HasDV <- MCHasDV
    Stats <- MCStats
    Parts <- MCParts
    NoStats = NoStats
    NoParts = NoParts
    NoThread = NoThread
    Empty = Empty
    Error = Error
    MaxIndex = 3
    InitCanFail = FALSE
    PullCanFail = FALSE
    DvCanFail = TRUE
    MaxFailures = 2
SPECIFICATION Spec
CHECK_DEADLOCK FALSE
PROPERTY CallsReturn
