--------------------------- MODULE DeltaSnapshot ---------------------------
(***************************************************************************)
(* One DeltaSnapshot (src/src/functions/delta_scan.cpp), the lazily        *)
(* expanded list of the data files of a Delta table, shared by the host's  *)
(* worker threads.  Every public method holds the list's mutex for its     *)
(* whole body; the model keeps the mutex as the variable lock and splits   *)
(* a call into the steps at which the kernel is called, because a kernel   *)
(* call may fail there.                                                    *)
(*                                                                         *)
(* The delta kernel is abstracted to what the list observes: the scan data *)
(* iterator yields the batches of LOG in order, calls VisitCallback once   *)
(* per file of a batch, and then reports "no more data".                   *)
(***************************************************************************)
EXTENDS Naturals, Sequences, SequencesExt, FiniteSets, Functions

CONSTANTS
    Threads,      \* host worker threads calling into the list
    Files,        \* data files of the table (model values)
    LOG,          \* the batches the scan data iterator yields, in order
    HasDV,        \* files that carry a deletion vector
    Stats,        \* Stats[f]: num_records of f's statistics, or NoStats
    Parts,        \* Parts[f]: f's partition-value map (a model value)
    NoStats,      \* no statistics / cardinality unknown (nullptr)
    NoParts,      \* the empty partition map
    NoThread,     \* the mutex is free
    Empty,        \* the "" path returned past the end of the list
    Error,        \* a call that ended by throwing
    MaxIndex,     \* the largest i a host thread passes to GetFile
    InitCanFail,  \* builder_build / snapshot / scan / scan_data_init may fail
    PullCanFail,  \* kernel_scan_data_next may return an error
    DvCanFail,    \* selection_vector_from_dv may fail inside the callback
    MaxFailures   \* bound on the number of failed calls in a behaviour

ASSUME /\ LOG \in Seq(Seq(Files))
       /\ HasDV \subseteq Files
       /\ MaxIndex \in Nat /\ MaxFailures \in Nat
       /\ {InitCanFail, PullCanFail, DvCanFail} \subseteq BOOLEAN

VARIABLES
    resolved_files,       \* DeltaSnapshot::resolved_files
    metadata,             \* DeltaSnapshot::metadata
    files_exhausted,      \* DeltaSnapshot::files_exhausted
    initialized_snapshot, \* DeltaSnapshot::initialized_snapshot
    initialized_scan,     \* DeltaSnapshot::initialized_scan
    have_bound,           \* DeltaSnapshot::have_bound
    names,                \* TRUE once DeltaSnapshot::names holds the schema
    iter_batch,           \* next batch the scan data iterator yields
    iter_pos,             \* file of batch iter_batch being visited, 0 if none
    lock,                 \* owner of DeltaSnapshot::lock
    pc,                   \* where each thread is in its call
    call,                 \* the call each thread is executing
    idx,                  \* the i of the thread's current GetFileInternal(i)
    ret,                  \* the result of each thread's last call
    demand,               \* history: files the calls so far asked to resolve
    failures              \* history: calls that ended by throwing

list_vars   == <<resolved_files, metadata, files_exhausted>>
init_vars   == <<initialized_snapshot, initialized_scan, have_bound, names>>
iter_vars   == <<iter_batch, iter_pos>>
thread_vars == <<lock, pc, call, idx, ret>>
vars == <<list_vars, init_vars, iter_vars, thread_vars, demand, failures>>

-----------------------------------------------------------------------------
(* The snapshot as the kernel presents it.                                 *)

\* The files of the snapshot in the order the iterator yields them.
FlatLog == FlattenSeq(LOG)

\* Number of files in the first b batches.
FilesInBatches(b) == Len(FlattenSeq(SubSeq(LOG, 1, b)))

\* The calls a host thread makes on the list after Bind.
Calls == [op : {"GetFile"}, i : 0..MaxIndex]
           \cup [op : {"GetTotalFileCount", "GetAllFiles", "GetCardinality"},
                 i : {0}]

\* The vector selection_vector_from_dv returns for file f: f's own, or
\* none; a set of at most one file stands for the KernelBoolSlice.
DvOf(f) == IF f \in HasDV THEN {f} ELSE {}

\* The DeltaFileMetaData VisitCallback builds for file f at ordinal n.
Entry(f, n) ==
    [file_number      |-> n,
     cardinality      |-> Stats[f],
     selection_vector |-> DvOf(f),
     partition_map    |-> IF names THEN Parts[f] ELSE NoParts]

-----------------------------------------------------------------------------
(* Thread bookkeeping.                                                     *)

\* The call of thread t ends with value v and releases the mutex.
Finish(t, v) ==
    /\ ret' = [ret EXCEPT ![t] = [call |-> call[t], val |-> v]]
    /\ lock' = NoThread
    /\ pc' = [pc EXCEPT ![t] = "idle"]
    /\ UNCHANGED <<call, idx>>

\* A kernel call failed: the exception leaves the call and unique_lock
\* releases the mutex.
Throw(t) ==
    /\ failures < MaxFailures
    /\ failures' = failures + 1
    /\ Finish(t, Error)

\* GetFileInternal(idx[t]) returned path; what its caller does next
\* (GetFile returns it; GetTotalFileCount, GetAllFiles and the first half of
\* GetCardinality loop on i++ until the path is empty).
Returned(t, path) ==
    \/ /\ call[t].op = "GetFile"
       /\ Finish(t, path)
    \/ /\ call[t].op # "GetFile" /\ path # Empty
       /\ idx' = [idx EXCEPT ![t] = @ + 1]
       /\ pc' = [pc EXCEPT ![t] = "enter"]
       /\ UNCHANGED <<lock, call, ret>>
    \/ /\ call[t].op = "GetTotalFileCount" /\ path = Empty
       /\ Finish(t, Len(resolved_files))
    \/ /\ call[t].op = "GetAllFiles" /\ path = Empty
       /\ Finish(t, resolved_files)
    \/ /\ call[t].op = "GetCardinality" /\ path = Empty
       /\ lock' = NoThread
       /\ pc' = [pc EXCEPT ![t] = "cardinality"]
       /\ UNCHANGED <<call, idx, ret>>

-----------------------------------------------------------------------------
(* Actions.                                                                *)

\* DeltaSnapshot::Bind: under the mutex, return the cached schema, or open
\* the snapshot and read the schema from it.
Bind(t) ==
    /\ pc[t] = "idle" /\ lock = NoThread /\ (have_bound \/ ~names)
    /\ \/ /\ have_bound
          /\ ret' = [ret EXCEPT ![t] = [call |-> [op |-> "Bind", i |-> 0], val |-> "ok"]]
          /\ UNCHANGED <<init_vars, failures>>
       \/ /\ ~have_bound /\ ~initialized_snapshot /\ InitCanFail
          /\ failures < MaxFailures /\ failures' = failures + 1
          /\ ret' = [ret EXCEPT ![t] = [call |-> [op |-> "Bind", i |-> 0], val |-> Error]]
          /\ UNCHANGED init_vars
       \/ /\ ~have_bound
          /\ initialized_snapshot' = TRUE
          /\ have_bound' = TRUE /\ names' = TRUE
          /\ ret' = [ret EXCEPT ![t] = [call |-> [op |-> "Bind", i |-> 0], val |-> "ok"]]
          /\ UNCHANGED <<initialized_scan, failures>>
    /\ UNCHANGED <<list_vars, iter_vars, lock, pc, call, idx, demand>>

\* A thread takes the mutex to run one of the calls the host makes once
\* the list knows the schema (bound, or a fork with names copied).
\* GetTotalFileCount and its callers start at i = size().
Call(t) ==
    /\ pc[t] = "idle" /\ lock = NoThread /\ names
    /\ \E c \in Calls :
         LET need == IF c.op = "GetFile" THEN c.i + 1 ELSE Len(FlatLog) + 1
         IN /\ call' = [call EXCEPT ![t] = c]
            /\ idx' = [idx EXCEPT ![t] =
                         IF c.op = "GetFile" THEN c.i ELSE Len(resolved_files)]
            /\ demand' = IF need > demand THEN need ELSE demand
    /\ lock' = t
    /\ pc' = [pc EXCEPT ![t] = "enter"]
    /\ UNCHANGED <<list_vars, init_vars, iter_vars, ret, failures>>

\* GetFileInternal, first lines: InitializeSnapshot if not yet done.
InitializeSnapshot(t) ==
    /\ pc[t] = "enter" /\ ~initialized_snapshot
    /\ \/ /\ InitCanFail /\ Throw(t)
          /\ UNCHANGED initialized_snapshot
       \/ /\ initialized_snapshot' = TRUE
          /\ UNCHANGED <<thread_vars, failures>>
    /\ UNCHANGED <<list_vars, initialized_scan, have_bound, names, iter_vars, demand>>

\* GetFileInternal, next lines: InitializeScan (scan, global state, version,
\* scan data iterator) if not yet done.
InitializeScan(t) ==
    /\ pc[t] = "enter" /\ initialized_snapshot /\ ~initialized_scan
    /\ \/ /\ InitCanFail /\ Throw(t)
          /\ UNCHANGED initialized_scan
       \/ /\ initialized_scan' = TRUE
          /\ UNCHANGED <<thread_vars, failures>>
    /\ UNCHANGED <<list_vars, initialized_snapshot, have_bound, names, iter_vars, demand>>

\* A plausible bug in GetFileInternal: the files_exhausted early return
\* tested before the "we already have this file" lookup.
LookupExhaustedFirst(t) ==
    /\ pc[t] = "enter" /\ initialized_snapshot /\ initialized_scan
    /\ \/ /\ files_exhausted /\ Returned(t, Empty)
       \/ /\ ~files_exhausted /\ idx[t] < Len(resolved_files)
          /\ Returned(t, resolved_files[idx[t] + 1])
       \/ /\ ~files_exhausted /\ idx[t] >= Len(resolved_files)
          /\ pc' = [pc EXCEPT ![t] = "pull"]
          /\ UNCHANGED <<lock, call, idx, ret>>
    /\ UNCHANGED <<list_vars, init_vars, iter_vars, demand, failures>>

\* A plausible bug in GetFileInternal: the files_exhausted early return
\* missing, so a request past the end pulls the drained iterator again.
LookupNoExhaustedCheck(t) ==
    /\ pc[t] = "enter" /\ initialized_snapshot /\ initialized_scan
    /\ \/ /\ idx[t] < Len(resolved_files)
          /\ Returned(t, resolved_files[idx[t] + 1])
       \/ /\ idx[t] >= Len(resolved_files)
          /\ pc' = [pc EXCEPT ![t] = "pull"]
          /\ UNCHANGED <<lock, call, idx, ret>>
    /\ UNCHANGED <<list_vars, init_vars, iter_vars, demand, failures>>

\* GetFileInternal: a file already resolved is returned, an exhausted list
\* answers "", otherwise the pull loop starts.
Lookup(t) ==
    /\ pc[t] = "enter" /\ initialized_snapshot /\ initialized_scan
    /\ \/ /\ idx[t] < Len(resolved_files)
          /\ Returned(t, resolved_files[idx[t] + 1])
       \/ /\ idx[t] >= Len(resolved_files) /\ files_exhausted
          /\ Returned(t, Empty)
       \/ /\ idx[t] >= Len(resolved_files) /\ ~files_exhausted
          /\ pc' = [pc EXCEPT ![t] = "pull"]
          /\ UNCHANGED <<lock, call, idx, ret>>
    /\ UNCHANGED <<list_vars, init_vars, iter_vars, demand, failures>>

\* A plausible bug in the pull loop: the "no more data" branch sets the flag
\* but does not return, so the loop pulls again.
ScanDataNextNoReturn(t) ==
    /\ pc[t] = "pull"
    /\ \/ /\ PullCanFail /\ Throw(t)
          /\ UNCHANGED <<list_vars, iter_vars>>
       \/ /\ iter_batch > Len(LOG)
          /\ files_exhausted' = TRUE
          /\ UNCHANGED <<resolved_files, metadata, iter_vars, thread_vars, failures>>
       \/ /\ iter_batch <= Len(LOG)
          /\ iter_pos' = 1
          /\ pc' = [pc EXCEPT ![t] = "visit"]
          /\ UNCHANGED <<list_vars, iter_batch, lock, call, idx, ret, failures>>
    /\ UNCHANGED <<init_vars, demand>>

\* One iteration of the while loop of GetFileInternal: kernel_scan_data_next
\* fails, reports that there is no more data (the list is exhausted and ""
\* is returned), or starts visiting its next batch.
ScanDataNext(t) ==
    /\ pc[t] = "pull"
    /\ \/ /\ PullCanFail /\ Throw(t)
          /\ UNCHANGED <<list_vars, iter_vars>>
       \/ /\ iter_batch > Len(LOG)
          /\ files_exhausted' = TRUE
          /\ Returned(t, Empty)
          /\ UNCHANGED <<resolved_files, metadata, iter_vars, failures>>
       \/ /\ iter_batch <= Len(LOG)
          /\ iter_pos' = 1
          /\ pc' = [pc EXCEPT ![t] = "visit"]
          /\ UNCHANGED <<list_vars, iter_batch, lock, call, idx, ret, failures>>
    /\ UNCHANGED <<init_vars, demand>>

\* A plausible bug in VisitCallback: the metadata entry only created inside
\* the "if (stats)" branch.
VisitCallbackMetaOnlyWithStats(t) ==
    /\ pc[t] = "visit" /\ iter_pos <= Len(LOG[iter_batch])
    /\ LET f == LOG[iter_batch][iter_pos]
       IN /\ resolved_files' = Append(resolved_files, f)
          /\ metadata' = IF Stats[f] = NoStats THEN metadata
                         ELSE Append(metadata, Entry(f, Len(resolved_files)))
    /\ iter_pos' = iter_pos + 1
    /\ UNCHANGED <<files_exhausted, init_vars, iter_batch, thread_vars, demand, failures>>

\* A plausible bug in VisitCallback: the deletion vector fetched but never
\* stored in the metadata.
VisitCallbackDropDV(t) ==
    /\ pc[t] = "visit" /\ iter_pos <= Len(LOG[iter_batch])
    /\ LET f == LOG[iter_batch][iter_pos]
       IN /\ resolved_files' = Append(resolved_files, f)
          /\ metadata' = Append(metadata,
                 [Entry(f, Len(resolved_files)) EXCEPT !.selection_vector = {}])
    /\ iter_pos' = iter_pos + 1
    /\ UNCHANGED <<files_exhausted, init_vars, iter_batch, thread_vars, demand, failures>>

\* VisitCallback for the next file f of the batch: the path is appended, a
\* metadata entry created and, for a file with a deletion vector, the
\* vector fetched.  When that fetch fails the IOException is thrown inside
\* the callback, which the kernel calls through the extern "C" frames of
\* visit_scan_data and kernel_scan_data_next: the exception cannot unwind
\* through them and the process aborts, the mutex still held.  What the
\* list held dies with the process, so the model keeps only that the
\* thread never returns.
VisitCallback(t) ==
    /\ pc[t] = "visit" /\ iter_pos <= Len(LOG[iter_batch])
    /\ LET f == LOG[iter_batch][iter_pos]
       IN \/ /\ resolved_files' = Append(resolved_files, f)
             /\ metadata' = Append(metadata, Entry(f, Len(resolved_files)))
             /\ iter_pos' = iter_pos + 1
             /\ UNCHANGED <<iter_batch, thread_vars>>
          \/ /\ DvCanFail /\ f \in HasDV
             /\ pc' = [pc EXCEPT ![t] = "aborted"]
             /\ UNCHANGED <<resolved_files, metadata, iter_vars, lock, call, idx, ret>>
    /\ UNCHANGED <<files_exhausted, init_vars, demand, failures>>

\* A plausible bug in the loop condition: while (i + 1 >= size()) pulls one
\* batch more than needed.
EndOfBatchOverPull(t) ==
    /\ pc[t] = "visit" /\ iter_pos > Len(LOG[iter_batch])
    /\ iter_batch' = iter_batch + 1 /\ iter_pos' = 0
    /\ \/ /\ idx[t] + 1 >= Len(resolved_files)
          /\ pc' = [pc EXCEPT ![t] = "pull"]
          /\ UNCHANGED <<lock, call, idx, ret>>
       \/ /\ idx[t] + 1 < Len(resolved_files)
          /\ Returned(t, resolved_files[idx[t] + 1])
    /\ UNCHANGED <<list_vars, init_vars, demand, failures>>

\* A plausible bug at the end of a batch: a batch that added no file is
\* taken for the end of the data.
EndOfBatchEmptyIsEnd(t) ==
    /\ pc[t] = "visit" /\ iter_pos > Len(LOG[iter_batch])
    /\ iter_batch' = iter_batch + 1 /\ iter_pos' = 0
    /\ \/ /\ LOG[iter_batch] = <<>>
          /\ files_exhausted' = TRUE
          /\ Returned(t, Empty)
          /\ UNCHANGED <<resolved_files, metadata>>
       \/ /\ LOG[iter_batch] # <<>> /\ idx[t] >= Len(resolved_files)
          /\ pc' = [pc EXCEPT ![t] = "pull"]
          /\ UNCHANGED <<list_vars, lock, call, idx, ret>>
       \/ /\ LOG[iter_batch] # <<>> /\ idx[t] < Len(resolved_files)
          /\ Returned(t, resolved_files[idx[t] + 1])
          /\ UNCHANGED list_vars
    /\ UNCHANGED <<init_vars, demand, failures>>

\* kernel_scan_data_next returns after the batch; the while condition
\* i >= resolved_files.size() decides between another pull and returning.
EndOfBatch(t) ==
    /\ pc[t] = "visit" /\ iter_pos > Len(LOG[iter_batch])
    /\ iter_batch' = iter_batch + 1 /\ iter_pos' = 0
    /\ \/ /\ idx[t] >= Len(resolved_files)
          /\ pc' = [pc EXCEPT ![t] = "pull"]
          /\ UNCHANGED <<lock, call, idx, ret>>
       \/ /\ idx[t] < Len(resolved_files)
          /\ Returned(t, resolved_files[idx[t] + 1])
    /\ UNCHANGED <<list_vars, init_vars, demand, failures>>

\* The sum of the known cardinalities of a sequence of metadata entries.
KnownRows(ms) ==
    FoldLeft(LAMBDA acc, m : IF m.cardinality = NoStats THEN acc
                             ELSE acc + m.cardinality, 0, ms)

\* GetCardinality, second half: after GetTotalFileCount released the mutex,
\* lock again and sum the statistics of all metadata entries.
CardinalityFromMetadata(t) ==
    /\ pc[t] = "cardinality" /\ lock = NoThread
    /\ LET total == idx[t]
           known == {k \in DOMAIN metadata : metadata[k].cardinality # NoStats}
           rows  == KnownRows(metadata)
       IN ret' = [ret EXCEPT ![t] =
                   [call |-> call[t],
                    val  |-> IF total = 0 THEN [estimated |-> 0, exact |-> 0]
                             ELSE IF known # {} THEN [estimated |-> rows, exact |-> rows]
                             ELSE NoStats]]
    /\ pc' = [pc EXCEPT ![t] = "idle"]
    /\ UNCHANGED <<list_vars, init_vars, iter_vars, lock, call, idx, demand, failures>>

-----------------------------------------------------------------------------

Init ==
    /\ resolved_files = <<>>
    /\ metadata = <<>>
    /\ files_exhausted = FALSE
    /\ initialized_snapshot = FALSE
    /\ initialized_scan = FALSE
    /\ have_bound = FALSE
    \* FALSE: the list delta_scan creates, bound next; TRUE: a list
    \* ComplexFilterPushdown creates, with names copied and never bound.
    /\ names \in BOOLEAN
    /\ iter_batch = 1
    /\ iter_pos = 0
    /\ lock = NoThread
    /\ pc = [t \in Threads |-> "idle"]
    /\ call = [t \in Threads |-> [op |-> "GetFile", i |-> 0]]
    /\ idx = [t \in Threads |-> 0]
    /\ ret = [t \in Threads |-> [call |-> [op |-> "None", i |-> 0], val |-> Empty]]
    /\ demand = 0
    /\ failures = 0

\* The steps a thread takes while it holds the mutex.
LockedStep(t) ==
    \/ InitializeSnapshot(t)
    \/ InitializeScan(t)
    \/ Lookup(t)
    \/ ScanDataNext(t)
    \/ VisitCallback(t)
    \/ EndOfBatch(t)

Next ==
    \E t \in Threads :
        \/ Bind(t)
        \/ Call(t)
        \/ LockedStep(t)
        \/ CardinalityFromMetadata(t)

\* The thread holding the mutex runs: the OS schedules it and every kernel
\* call returns.  Nothing is assumed about which waiting thread gets the
\* mutex next (std::mutex is not fair).
Fairness == \A t \in Threads : WF_vars(LockedStep(t))

Spec == Init /\ [][Next]_vars /\ Fairness

-----------------------------------------------------------------------------
(* What the list promises, stated from the snapshot (FlatLog, Stats, ...)  *)
(* rather than from the code's variables.                                  *)

\* The metadata of file f at ordinal n as the kernel describes it.
KernelEntry(f, n) ==
    [file_number |-> n, cardinality |-> Stats[f],
     selection_vector |-> IF f \in HasDV THEN {f} ELSE {}, partition_map |-> Parts[f]]

\* Row count the snapshot's statistics give for the whole table.
SnapshotCardinality ==
    LET withStats == {k \in DOMAIN FlatLog : Stats[FlatLog[k]] # NoStats}
        rows == MapThenSumSet(LAMBDA k : Stats[FlatLog[k]], withStats)
    IN IF FlatLog = <<>> THEN [estimated |-> 0, exact |-> 0]
       ELSE IF withStats = {} THEN NoStats
       ELSE [estimated |-> rows, exact |-> rows]

\* The answer a call must give for this snapshot.
Expected(c) ==
    CASE c.op = "GetFile" ->
             IF c.i < Len(FlatLog) THEN FlatLog[c.i + 1] ELSE Empty
      [] c.op = "GetTotalFileCount" -> Len(FlatLog)
      [] c.op = "GetAllFiles" -> FlatLog
      [] c.op = "GetCardinality" -> SnapshotCardinality

\* Files in the shortest run of whole batches that holds n files (all files
\* if the log has fewer than n).
Cover(n) ==
    LET enough == {b \in 0..Len(LOG) : FilesInBatches(b) >= n}
    IN IF enough = {} THEN Len(FlatLog) ELSE FilesInBatches(Min(enough))

\* What a call of each kind can return, besides Error.
Results(op) ==
    CASE op = "GetFile" -> Files \cup {Empty}
      [] op = "GetTotalFileCount" -> 0..Len(FlatLog)
      [] op = "GetAllFiles" -> Seq(Files)
      [] op = "GetCardinality" -> [estimated : Nat, exact : Nat] \cup {NoStats}
      [] OTHER -> {"ok", Empty}

TypeOK ==
    /\ resolved_files \in Seq(Files)
    /\ Len(metadata) = Len(resolved_files)
    /\ metadata \in Seq([file_number : 0..Len(FlatLog) - 1,
                         cardinality : Nat \cup {NoStats},
                         selection_vector : SUBSET HasDV,
                         partition_map : Range(Parts) \cup {NoParts}])
    /\ {files_exhausted, have_bound, names} \subseteq BOOLEAN
    /\ {initialized_snapshot, initialized_scan} \subseteq BOOLEAN
    /\ iter_batch \in 1..Len(LOG) + 1
    /\ lock \in Threads \cup {NoThread}
    /\ pc \in [Threads -> {"idle", "enter", "pull", "visit", "cardinality", "aborted"}]
    /\ call \in [Threads -> Calls]
    /\ idx \in [Threads -> 0..MaxIndex + Len(FlatLog)]
    /\ \A t \in Threads :
           ret[t].val = Error \/ ret[t].val \in Results(ret[t].call.op)

\* Every file a thread has materialized (by any call, in any interleaving,
\* after any failed call) sits at its ordinal in the snapshot's file order,
\* and its DeltaFileMetaData is complete and is that file's: ordinal as
\* file_number, statistics, deletion vector and partition values.
EntriesFaithful ==
    /\ IsPrefix(resolved_files, FlatLog)
    /\ \A k \in DOMAIN metadata :
           metadata[k] = KernelEntry(resolved_files[k], k - 1)

\* Every call that returned (GetFile, GetTotalFileCount, GetAllFiles,
\* GetCardinality) answered what the snapshot says, whatever other threads
\* materialized before or in between and whichever calls failed before.
AnswersMatchSnapshot ==
    \A t \in Threads :
        ret[t].call.op \in {"GetFile", "GetTotalFileCount", "GetAllFiles", "GetCardinality"}
          /\ ret[t].val # Error
        => ret[t].val = Expected(ret[t].call)

\* GetFileInternal's pull loop is lazy: the list never extends past the end
\* of the batch that holds the largest ordinal any call has asked for.
NoOverExpansion == Len(resolved_files) <= Cover(demand)

\* Once files_exhausted is set the list never changes again and no thread
\* goes back to pulling from the drained scan data iterator.
ExhaustionStable ==
    [][files_exhausted =>
         /\ files_exhausted'
         /\ resolved_files' = resolved_files
         /\ \A t \in Threads : pc'[t] # "pull"]_vars

\* A thread's standing answer: its last call's result unless that call
\* failed or was Bind.
NoAnswer == [call |-> [op |-> "None", i |-> 0], val |-> Empty]
Answered ==
    [t \in Threads |->
        IF ret[t].val # Error /\ ret[t].call \in Calls THEN ret[t] ELSE NoAnswer]

FL == INSTANCE FileList
        WITH Snapshot <- FlatLog, Calls <- Calls,
             files <- resolved_files, done <- files_exhausted,
             answered <- Answered

\* DeltaSnapshot implements FileList: under any interleaving of threads and
\* any clean kernel failure, the discovered files extend the snapshot's
\* order one at a time, exhaustion is declared only at the true end, and
\* every answer is the snapshot's, given only from what is known.
FileListSpec == FL!Spec

\* A thread that holds the mutex eventually releases it: every GetFile,
\* GetTotalFileCount, GetAllFiles and GetCardinality pull loop ends, with a
\* result or an exception that the caller (the query) sees.
CallsReturn == \A t \in Threads : (lock = t) ~> (lock # t)

=============================================================================
