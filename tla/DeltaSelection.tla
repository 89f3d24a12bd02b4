--------------------------- MODULE DeltaSelection ---------------------------
(***************************************************************************)
(* DuckSVFromDeltaSV and DataChunk::Slice, the deletion-vector slice of    *)
(* DeltaMultiFileReader::FinalizeChunk (src/src/functions/delta_scan.cpp), *)
(* as operators; DeltaColumns applies them in its FinalizeChunk.  A chunk  *)
(* is abstracted to its file_row_number column, the row ordinals of its    *)
(* rows within the file; the kernel's deletion vector is a KernelBoolSlice,*)
(* TRUE meaning "keep", possibly shorter than the file.                    *)
(***************************************************************************)
EXTENDS Naturals, Sequences, SequencesExt

CONSTANTS
    MaxRow,     \* the largest file_row_number of a file
    MaxDVLen    \* the longest deletion vector

\* Chunks a reader produces: row ordinals strictly increasing (row groups or
\* pages may be skipped), at most one chunk of the file's rows.
Chunks == {SetToSortSeq(S, <) : S \in SUBSET (0..MaxRow)}

DVs == BoundedSeq(BOOLEAN, MaxDVLen)

\* A plausible bug: the kernel's slice read as a deletion bitmap (TRUE =
\* deleted) instead of a selection vector (TRUE = keep).
KeepRowInverted(d, r) == r >= Len(d) \/ ~d[r + 1]

\* row_id >= dv.len || dv.ptr[row_id]
KeepRow(d, r) == r >= Len(d) \/ d[r + 1]

\* DuckSVFromDeltaSV: the positions i (0-based) of the chunk's rows to keep,
\* in increasing order; its length is select_count.
DuckSVFromDeltaSV(d, row_ids, count) ==
    LET RECURSIVE Loop(_, _)
        Loop(i, sel) ==
            IF i = count THEN sel
            ELSE Loop(i + 1, IF KeepRow(d, row_ids[i + 1]) THEN Append(sel, i) ELSE sel)
    IN Loop(0, <<>>)

\* DataChunk::Slice: the rows at the selected positions.
Slice(chunk, sel) == [k \in 1..Len(sel) |-> chunk[sel[k] + 1]]

\* The reference: the deletion vector d marks row r as deleted.
Deleted(d, r) == r < Len(d) /\ d[r + 1] = FALSE

=============================================================================
