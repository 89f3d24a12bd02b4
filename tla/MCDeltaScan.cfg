\* Two threads, three queries on one table, clean kernel failures (open,
\* scan, pull) in any query.
CONSTANTS
    Threads = {t1, t2}
    f1 = f1  f2 = f2  f3 = f3  p1 = p1  p2 = p2
    Files <- MCFiles
    LOG <- MCLog
    HasDV <- MCHasDV
    Stats <- MCStats
    Parts <- MCParts
    DV <- MCDV
    NoStats = NoStats
    NoParts = NoParts
    NoThread = NoThread
    Empty = Empty
    Error = Error
    MaxIndex <- MCMaxIndex
    InitCanFail = TRUE
    PullCanFail = TRUE
    MaxFailures = 2
    MaxRow = 2
    MaxQueries = 3
SPECIFICATION Spec
\* The table's last query ends: nothing is left to happen.
CHECK_DEADLOCK FALSE
INVARIANT TypeOK
INVARIANT QueryReturnsLiveRows
PROPERTY ScanCompletes
