CONSTANTS
    a = a  b = b  p = p  fA = fA  fB = fB
    INTEGER = INTEGER  VARCHAR = VARCHAR
    FRN = FRN  DFN = DFN  BIGINT = BIGINT  UBIGINT = UBIGINT
    RowId = RowId  Invalid = Invalid
    TableCols <- MCTableCols
    TableType <- MCTableType
    Partitioned = {p}
    Files = {fA, fB}
    Local <- MCLocal
    HasDV = {fA}
    MaxRow = 3
    MaxDVLen = 4
    MaxProj = 3
SPECIFICATION Spec
\* The scan ends once every file of the table has been read.
CHECK_DEADLOCK FALSE
INVARIANT TypeOK
INVARIANT ColumnsReconciled
INVARIANT LiveRowsKept
INVARIANT ExtraColumnsLaidOut
