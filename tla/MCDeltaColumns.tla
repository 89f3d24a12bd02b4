--------------------------- MODULE MCDeltaColumns ---------------------------
(* DeltaColumns over a table with a data column a, a partition column p and *)
(* a data column b.  File fA stores a, b and (as some writers do) p, and    *)
(* has a deletion vector; file fB lacks a and stores b with another type.   *)
(* The parquet reader appends its row ordinal, named file_row_number, after *)
(* each file's columns.                                                    *)
EXTENDS DeltaColumns

CONSTANTS a, b, p, fA, fB, INTEGER, VARCHAR

Ordinal == [name |-> FRN, type |-> BIGINT, synthetic |-> TRUE]
Stored(n, t) == [name |-> n, type |-> t, synthetic |-> FALSE]

MCTableCols == <<a, p, b>>
MCTableType == (a :> INTEGER) @@ (p :> VARCHAR) @@ (b :> VARCHAR)
MCLocal == (fA :> <<Stored(a, INTEGER), Stored(p, VARCHAR), Stored(b, VARCHAR), Ordinal>>)
        @@ (fB :> <<Stored(b, INTEGER), Ordinal>>)

=============================================================================
