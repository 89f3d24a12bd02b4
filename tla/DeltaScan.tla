----------------------------- MODULE DeltaScan -----------------------------
(***************************************************************************)
(* delta_scan end to end (src/src/functions/delta_scan.cpp): queries run   *)
(* one after the other on one table; each gets its file list from          *)
(* DeltaMultiFileReader::CreateFileList, binds it, and the host's scan     *)
(* threads take file indices in turn, GetFile them from the shared         *)
(* DeltaSnapshot (the module DeltaSnapshot, under its mutex), fetch the    *)
(* file's DeltaFileMetaData with GetMetaData, and FinalizeChunk slices the *)
(* file's rows by its deletion vector (DeltaSelection's operators).        *)
(*                                                                         *)
(* CreateFileList returns the snapshot that CreateInstance took from the   *)
(* table function's function_info when there is one (a table attached with *)
(* its snapshot pinned), so later queries reuse the list of the first;     *)
(* otherwise every query constructs a new DeltaSnapshot.  A kernel call    *)
(* that fails makes GetFile throw and the query fails.                     *)
(*                                                                         *)
(* The scan's file counter and its threads' loop are DuckDB's              *)
(* (MultiFileReader); a file is read as one chunk of all its rows.         *)
(***************************************************************************)
EXTENDS Naturals, Sequences, FiniteSets, Functions, Bags

CONSTANTS
    Threads, Files, LOG, HasDV, Stats, Parts,
    NoStats, NoParts, NoThread, Empty, Error,
    MaxIndex, InitCanFail, PullCanFail, MaxFailures,
    DV,           \* DV[f]: the kernel's selection vector of f (TRUE = keep)
    MaxRow,       \* every file holds the rows 0..MaxRow
    MaxQueries    \* queries run on the table

ASSUME /\ DV \in [HasDV -> Seq(BOOLEAN)]
       /\ MaxQueries \in Nat \ {0}

VARIABLES
    resolved_files, metadata, files_exhausted, initialized_snapshot,
    initialized_scan, have_bound, names, iter_batch, iter_pos,
    lock, pc, call, idx, ret, demand, failures,
    injected,     \* function_info carries a snapshot: CreateFileList reuses it
    query,        \* the query running now
    phase,        \* "bind", "scan" or "over" for the query
    file_index,   \* the scan's next file index (MultiFileReader's counter)
    scan_pc,      \* per thread: "take", "get", "read" or "done"
    reading,      \* per thread: the file index it asked GetFile for
    aborted,      \* a call of this query threw: the query fails
    emitted       \* bag of <<file, row>>: the rows this query returned

S == INSTANCE DeltaSnapshot WITH DvCanFail <- FALSE
Sel == INSTANCE DeltaSelection WITH MaxDVLen <- 0

snapshot_vars == <<resolved_files, metadata, files_exhausted, initialized_snapshot,
                   initialized_scan, have_bound, names, iter_batch, iter_pos,
                   lock, pc, call, idx, ret, demand, failures>>
scan_vars == <<query, phase, file_index, scan_pc, reading, aborted, emitted>>
vars == <<snapshot_vars, injected, scan_vars>>

-----------------------------------------------------------------------------

\* The rows of a file, in file order: one chunk.
FileRows == [k \in 1..MaxRow + 1 |-> k - 1]

\* DeltaSnapshot::GetMetaData(index): *metadata[index], under the mutex.
GetMetaData(i) == metadata[i + 1]

\* FinalizeChunk on the chunk of all rows of a file with metadata m: slice
\* it by the deletion vector the metadata holds, if any.
FinalizeChunk(m) ==
    IF m.selection_vector # {} /\ Len(FileRows) # 0
    THEN LET d == DV[CHOOSE g \in m.selection_vector : TRUE]
         IN Sel!Slice(FileRows, Sel!DuckSVFromDeltaSV(d, FileRows, Len(FileRows)))
    ELSE FileRows

\* The rows of file f a scan must return: those its deletion vector keeps.
LiveRows(f) == {r \in 0..MaxRow : ~(f \in HasDV /\ Sel!Deleted(DV[f], r))}

\* A new DeltaSnapshot(context, path): nothing resolved, nothing opened.
FreshList ==
    /\ resolved_files' = <<>> /\ metadata' = <<>> /\ files_exhausted' = FALSE
    /\ initialized_snapshot' = FALSE /\ initialized_scan' = FALSE
    /\ have_bound' = FALSE /\ names' = FALSE
    /\ iter_batch' = 1 /\ iter_pos' = 0 /\ demand' = 0

\* DeltaMultiFileReader::CreateFileList for the next query: the injected
\* snapshot if there is one, else a new DeltaSnapshot.
CreateFileList ==
    IF injected THEN UNCHANGED <<resolved_files, metadata, files_exhausted,
                                 initialized_snapshot, initialized_scan, have_bound,
                                 names, iter_batch, iter_pos, demand>>
    ELSE FreshList

\* The query's scan starts: every thread takes files from index 0.
StartScan ==
    /\ file_index' = 0
    /\ scan_pc' = [t \in Threads |-> "take"]
    /\ reading' = [t \in Threads |-> 0]
    /\ emitted' = EmptyBag

\* Binding the query: DeltaMultiFileReader::Bind calls DeltaSnapshot::Bind
\* on the list; an exception fails the query.
BindQuery(t) ==
    /\ phase = "bind"
    /\ S!Bind(t)
    /\ IF ret'[t].val = Error
       THEN aborted' = TRUE /\ phase' = "over"
       ELSE phase' = "scan" /\ UNCHANGED aborted
    /\ UNCHANGED <<injected, query, file_index, scan_pc, reading, emitted>>

\* A scan thread takes the next file index and calls GetFile with it.
TakeFile(t) ==
    /\ phase = "scan" /\ ~aborted /\ scan_pc[t] = "take"
    /\ file_index <= MaxIndex
    /\ S!Call(t)
    /\ call'[t] = [op |-> "GetFile", i |-> file_index]
    /\ reading' = [reading EXCEPT ![t] = file_index]
    /\ file_index' = file_index + 1
    /\ scan_pc' = [scan_pc EXCEPT ![t] = "get"]
    /\ UNCHANGED <<injected, query, phase, aborted, emitted>>

\* A step of the GetFile call the thread is in (DeltaSnapshot).
ListStep(t) ==
    /\ S!LockedStep(t)
    /\ UNCHANGED <<injected, scan_vars>>

\* GetFile returned: a path is read next, "" ends the thread's scan, an
\* exception fails the query.
GotFile(t) ==
    /\ scan_pc[t] = "get" /\ pc[t] = "idle"
    /\ scan_pc' = [scan_pc EXCEPT ![t] =
                     IF ret[t].val \in Files THEN "read" ELSE "done"]
    /\ aborted' = (aborted \/ ret[t].val = Error)
    /\ UNCHANGED <<snapshot_vars, injected, query, phase, file_index, reading, emitted>>

\* The thread reads the file: GetMetaData under the mutex, then
\* FinalizeChunk slices its rows, which the scan returns.
ReadFile(t) ==
    /\ scan_pc[t] = "read" /\ ~aborted /\ lock = NoThread
    /\ LET f == ret[t].val
       IN emitted' = emitted (+)
                       SetToBag({<<f, r>> : r \in Range(FinalizeChunk(GetMetaData(reading[t])))})
    /\ scan_pc' = [scan_pc EXCEPT ![t] = "take"]
    /\ UNCHANGED <<snapshot_vars, injected, query, phase, file_index, reading, aborted>>

\* Once the query failed, a thread not inside a call stops.
StopScan(t) ==
    /\ aborted /\ scan_pc[t] \in {"take", "read"}
    /\ scan_pc' = [scan_pc EXCEPT ![t] = "done"]
    /\ UNCHANGED <<snapshot_vars, injected, query, phase, file_index, reading, aborted, emitted>>

\* The query is over: binding failed, or every thread finished its scan.
QueryOver == phase = "over" \/ \A t \in Threads : scan_pc[t] = "done"

\* The next query: CreateFileList gives it a list and binding starts.
NextQuery ==
    /\ QueryOver /\ query < MaxQueries
    /\ query' = query + 1
    /\ phase' = "bind" /\ aborted' = FALSE
    /\ CreateFileList
    /\ StartScan
    /\ UNCHANGED <<injected, lock, pc, call, idx, ret, failures>>

Init ==
    /\ S!Init /\ names = FALSE
    /\ injected \in BOOLEAN
    /\ query = 1 /\ phase = "bind" /\ aborted = FALSE
    /\ file_index = 0
    /\ scan_pc = [t \in Threads |-> "take"]
    /\ reading = [t \in Threads |-> 0]
    /\ emitted = EmptyBag

\* Everything a thread does for the scan.
ThreadStep(t) ==
    \/ BindQuery(t) \/ TakeFile(t) \/ ListStep(t)
    \/ GotFile(t) \/ ReadFile(t) \/ StopScan(t)

Next == (\E t \in Threads : ThreadStep(t)) \/ NextQuery

\* A runnable thread runs, a thread waiting for the free mutex gets it,
\* every kernel call returns, and the host starts the next query.
Fairness == /\ \A t \in Threads : WF_vars(ThreadStep(t))
            /\ WF_vars(NextQuery)

Spec == Init /\ [][Next]_vars /\ Fairness

-----------------------------------------------------------------------------
(* Properties *)

\* What a scan of the snapshot returns: each live row of each of its files.
SnapshotRows == SetToBag(UNION {{f} \X LiveRows(f) : f \in Range(S!FlatLog)})

TypeOK ==
    /\ S!TypeOK
    /\ injected \in BOOLEAN /\ aborted \in BOOLEAN
    /\ query \in 1..MaxQueries /\ phase \in {"bind", "scan", "over"}
    /\ file_index \in 0..MaxIndex + 1
    /\ scan_pc \in [Threads -> {"take", "get", "read", "done"}]
    /\ reading \in [Threads -> 0..MaxIndex]
    /\ IsABag(emitted) /\ BagToSet(emitted) \subseteq Files \X (0..MaxRow)

\* Whichever thread takes which file, whatever failed in an earlier query
\* on the same list, a query never returns a deleted row, a row of a file
\* outside the snapshot, or a row twice; and a query whose threads all
\* finished without exception returned every live row of every file.
QueryReturnsLiveRows ==
    /\ emitted \sqsubseteq SnapshotRows
    /\ phase = "scan" /\ ~aborted /\ (\A t \in Threads : scan_pc[t] = "done")
         => emitted = SnapshotRows

\* Every query ends, with its rows or with an exception: the threads'
\* GetFile calls return and the file indices run past the end of the list.
ScanCompletes == <>(query = MaxQueries /\ QueryOver)

=============================================================================
