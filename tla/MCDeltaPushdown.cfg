\* With and without the profiler and the explain setting: three files,
\* three table versions, up to three pushdowns on one plan node.
CONSTANTS
    f1 = f1  f2 = f2  f3 = f3
    pa = pa  pb = pb  pc = pc
    Files <- MCFiles
    Snap <- MCSnap
    Preds <- MCPreds
    Convertible <- MCConvertible
    SkipBy <- MCSkipBy
    MaxVersion = 2
    MaxPushdowns = 3
    NoSnapshot = NoSnapshot
    Invalid = Invalid
SPECIFICATION Spec
\* Planning ends: once the optimizer's pushdowns are done and no writer
\* commits any more, nothing is left to happen.
CHECK_DEADLOCK FALSE
INVARIANT TypeOK
INVARIANT VersionPinned
INVARIANT CountersConsistent
INVARIANT ExplainCountsTrue
INVARIANT FilesNeverExpand
