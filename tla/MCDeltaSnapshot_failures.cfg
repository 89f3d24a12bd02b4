\* Two threads; open, scan and pull may fail with an exception (the
\* deletion-vector fetch, which aborts the process, is left to the safety
\* and dv_failure runs). No symmetry: liveness is checked.
CONSTANTS
    Threads = {t1, t2}
    f1 = f1
    f2 = f2
    f3 = f3
    p1 = p1
    p2 = p2
    Files <- MCFiles
    LOG <- MCLog
    HasDV <- MCHasDV
    Stats <- MCStats
    Parts <- MCParts
    NoStats = NoStats
    NoParts = NoParts
    NoThread = NoThread
    Empty = Empty
    Error = Error
    MaxIndex = 3
    InitCanFail = TRUE
    PullCanFail = TRUE
    DvCanFail = FALSE
    MaxFailures = 2
SPECIFICATION Spec
PROPERTY CallsReturn
