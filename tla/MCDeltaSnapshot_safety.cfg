\* Two threads; every kernel call may fail: open, scan and pull with an
\* exception, the deletion-vector fetch by aborting the process.
CONSTANTS
    Threads = {t1, t2}
    f1 = f1
    f2 = f2
    f3 = f3
    p1 = p1
    p2 = p2
    Files <- MCFiles
    LOG <- MCLog
    HasDV <- MCHasDV
    Stats <- MCStats
    Parts <- MCParts
    NoStats = NoStats
    NoParts = NoParts
    NoThread = NoThread
    Empty = Empty
    Error = Error
    MaxIndex = 3
    InitCanFail = TRUE
    PullCanFail = TRUE
    DvCanFail = TRUE
    MaxFailures = 2
SYMMETRY ThreadSymmetry
SPECIFICATION Spec
\* A failed deletion-vector fetch aborts the process: nothing runs after it.
CHECK_DEADLOCK FALSE
INVARIANT TypeOK
INVARIANT EntriesFaithful
INVARIANT AnswersMatchSnapshot
INVARIANT NoOverExpansion
PROPERTY ExhaustionStable
PROPERTY FileListSpec
