# TLA+ models of the duckdb_delta scan

This directory holds TLA+ models of the Delta Lake table scan in
`src/src/functions/delta_scan.cpp`, checked with TLC. Everything below refers to
that file unless another file is named.

## 1. Inventory

### Components

| Component (spec name) | Code | State it keeps | Operations that change state |
|---|---|---|---|
| SnapshotFileList + FileEntryStore | `DeltaSnapshot` (l.384-659), `VisitCallback` / `VisitData` (l.49-97) | `resolved_files`, `metadata` (one `DeltaFileMetaData` per file), `files_exhausted`, `initialized_snapshot`, `initialized_scan`, `have_bound`, `names`, the kernel handles `snapshot` (shared), `scan`, `scan_data_iterator`, `version`; one `mutex lock` | `Bind`, `GetFile` / `GetFileInternal`, `InitializeSnapshot`, `InitializeScan`, `GetAllFiles`, `GetTotalFileCount`, `GetCardinality`; reads: `GetVersion`, `GetMetaData` |
| FilterPushdownReplanner | `DeltaSnapshot::ComplexFilterPushdown` (l.519-595) | creates a new `DeltaSnapshot` sharing the `snapshot` pointer; writes `info.extra_info.total_files / filtered_files / file_filters` of the plan node | the fork, and the explain counters |
| ColumnReconciler | `DeltaMultiFileReader::Bind`, `BindOptions`, `InitializeGlobalState`, `SetColumnIdx`, `FinalizeBind`, `CustomMulfiFileNameMapping`, `CreateColumnMapping` (l.671-985) | per query: `DeltaMultiFileReaderGlobalState` (`file_row_number_idx`, `delta_file_number_idx`, extra columns); per file: `reader_data.constant_map`, `column_mapping`, `column_ids`, `cast_map` | global-state construction, per-file finalize-bind and column mapping |
| SelectionVectorBuilder | `DuckSVFromDeltaSV` (l.780-802), `FinalizeChunk` (l.987-1032) | none (per batch) | slicing the chunk by the deletion vector |
| Kernel log replay (external) | `ffi::snapshot`, `ffi::scan`, `ffi::kernel_scan_data_next`, `ffi::selection_vector_from_dv` | the iterator position | abstracted as a constant batched file log with failure points |
| Engine builder / credentials | `CreateBuilder`, `ParseAccountNameFromEndpoint`, `parseFromConnectionString` (l.99-382) | none across calls; per call `bucket`, `path_in_bucket`, `secret_type`, `cleaned_path` and the builder options | one call: scheme dispatch, URL rewrite, secret lookup, options per secret type and provider |
| Path resolution | the `DeltaSnapshot` constructor, `ToDeltaPath`, `GetPath`, `ToDuckDBPath` (l.384-411), the path join of `VisitCallback` and `url_decode` (l.29-59) | the list's one path | construction, and the path of each visited file |
| Scan wiring | `CreateInstance`, `CreateFileList`, `GetMetaData` (l.656-668, 761-774), the per-file part of `FinalizeChunk` | the reader's injected `snapshot` (from `function_info`) | each query's list: the injected one or a new `DeltaSnapshot`; per file, its metadata and the slice |
| Extension wiring | `src/src/delta_extension.cpp`, `DeltaFunctionToString`, `GetDeltaScanFunction` | the registered setting `delta_scan_explain_files_filtered` | its default (`ExplainDefault`, in `DeltaPushdown`); the rest is registration, not modelled |

### Interaction

* Host worker threads call the `DeltaSnapshot` methods concurrently. Every
  method takes the one `lock` for its whole body, so each call is a critical
  section. `GetCardinality` is two: it calls `GetTotalFileCount` and then locks
  again.
* `GetFileInternal(i)` pulls batches from the kernel with
  `kernel_scan_data_next`. The kernel calls back into `VisitData` /
  `VisitCallback` once per file of the batch, and the callback appends to
  `resolved_files` and `metadata`. The callback can throw (the deletion-vector
  fetch at l.73-76), after it has already appended the path.
* `ComplexFilterPushdown` builds a second `DeltaSnapshot` with the same
  `snapshot` pointer but a fresh discovery cursor and the pushed filters. When
  profiling is on, it materializes both lists fully and checks the explain
  counters of the plan node against earlier calls.
* The multi-file reader (ColumnReconciler) asks the list for per-file
  `GetMetaData` to build constants from partition values, and `FinalizeChunk`
  uses the file's deletion vector and the `file_row_number` column to slice
  each chunk.

### What is hard here

* Interleaving of host threads on one list. The lock makes each call atomic,
  but a call is a loop of kernel pulls, and `GetCardinality` is split in two.
* A kernel failure in the middle of a batch. The path is appended before the
  deletion vector is fetched. The batch is consumed by the iterator but only
  partly applied.
* Laziness. A list is materialized a whole batch at a time, only as far as
  asked, and never past the end.
* Exhaustion. Once the iterator is drained it must not be pulled again, and the
  list must not change.
* Forks that share a snapshot. They must see the same table version while their
  own cursors stay independent. The explain counters are checked across
  repeated pushdowns.
* Paths and URLs. Offsets into URL strings are hard-coded per scheme, the
  table root is decoded together with the file path, and `url_decode` reads
  an uninitialized value on a malformed escape.
* Column index spaces. There are the projection, the extra trailing columns
  and the file's local columns, and a synthetic column may or may not be
  projected.

### Properties that make each component correct

* DeltaSnapshot:
  * every answered `GetFile(i)` is the i-th file of the snapshot, or empty past
    the end;
  * the materialized list is a prefix of the snapshot's file order, and each
    entry's metadata is that file's metadata with ordinal = position;
  * discovery stops at the end of the batch that holds the largest requested
    ordinal;
  * after exhaustion nothing is pulled and nothing changes;
  * a call holding the lock eventually releases it;
  * the list implements an abstract append-only file list (`FileList`).
* ComplexFilterPushdown:
  * a fork sees the same version as its parent;
  * a fork never has more files than its parent when the host passes at least
    the parent's filters;
  * the explain counters stay consistent.
* ColumnReconciler:
  * every projected column gets exactly one resolution: a constant (partition,
    null default, synthetic) or a mapped local column;
  * the extra columns occupy distinct trailing indices whose types match.
* Path resolution: every file resolves to the decoded file path inside the
  table directory the user named.
* Engine builder: the kernel's URL names the user's container and object
  path; endpoints carry a scheme and allow_http matches it; an azure builder
  names the URL's container and can address the account.
* SelectionVectorBuilder:
  * a row is kept iff its ordinal is past the deletion vector or marked keep;
  * the relative order of the rows is preserved.

## 2. Plan

Modules, in order of importance:

1. `DeltaSnapshot.tla`: one `DeltaSnapshot` shared by host threads, with the
   lock, `Bind`, `GetFile`, the counting operations, `GetCardinality`, and the
   kernel iterator as a constant batched log with failure points (snapshot
   open, scan open, pull, deletion-vector fetch). MC module `MCDeltaSnapshot`.
   **Done.**
2. `FileList.tla`: the abstract specification of a lazily discovered,
   append-only file list. `DeltaSnapshot` is shown to implement it through
   `INSTANCE FileList WITH ...`. **Done.**
3. `DeltaSelection.tla`: `DuckSVFromDeltaSV` as an operator, checked against a
   reference definition for all small deletion vectors and row-id batches.
   **Done**, as operators that `DeltaColumns` and `DeltaScan` instantiate.
4. `DeltaPushdown.tla`: composes `DeltaSnapshot` instances (parent and forks)
   that share the snapshot handle. It models `ComplexFilterPushdown` with its
   explain counters over a table that may receive new commits. It checks
   version pinning, non-expansion and counter consistency. **Done.** Lists
   are composed at the level of the `FileList` contract rather than as full
   `DeltaSnapshot` instances (see 3.4).
5. `DeltaColumns.tla`: `InitializeGlobalState`, `FinalizeBind`,
   `CustomMulfiFileNameMapping` and `CreateColumnMapping` over small schemas
   and projections. The map iteration order of `columns_to_map` is a
   nondeterministic choice. It checks that every column has exactly one
   resolution, and the index-space properties. Its `FinalizeChunk`
   instantiates 3 and checks that exactly the live rows of each chunk
   survive. **Done.**
6. `DeltaScan.tla`: composes 1 and 3 into queries whose scan threads take
   file indices, `GetFile` them, fetch metadata and filter rows, with the
   list injected and reused across queries or new per query. **Done.** The
   column mapping (5) is checked per file in `DeltaColumns` and not composed
   here.
7. `DeltaPaths.tla`: the table root from the user to each file's path, with
   `url_decode` as a recursive operator and its undefined behaviour as a
   nondeterministic choice. **Done.**
8. `DeltaBuilder.tla`: one `CreateBuilder` call per behaviour over every
   short URL of every scheme and every secret the providers create. **Done.**

## 3. Modules

| Module | Models | MC module / cfgs |
|---|---|---|
| `DeltaSnapshot` | one `DeltaSnapshot` shared by host threads | `MCDeltaSnapshot`, `MCDeltaSnapshot_{safety,failures,dvfail}.cfg` |
| `FileList` | the abstract contract of a lazily discovered file list | instantiated by `DeltaSnapshot` |
| `DeltaPushdown` | `ComplexFilterPushdown` on one plan node while others commit | `MCDeltaPushdown`, `MCDeltaPushdown.cfg` |
| `DeltaColumns` | the column reconciliation of `DeltaMultiFileReader` | `MCDeltaColumns`, `MCDeltaColumns.cfg` |
| `DeltaSelection` | `DuckSVFromDeltaSV` and the slice of `FinalizeChunk`, as operators | instantiated by `DeltaColumns` and `DeltaScan` |
| `DeltaScan` | queries scanning the table end to end: `CreateFileList`, `Bind`, scan threads on a shared `DeltaSnapshot`, `GetMetaData`, the slice | `MCDeltaScan`, `MCDeltaScan.cfg` |
| `DeltaPaths` | the table root through `ToDeltaPath`, the `VisitCallback` join, `url_decode` and `ToDuckDBPath` | `MCDeltaPaths`, `MCDeltaPaths.cfg`, `MCDeltaPaths_special.cfg` |
| `DeltaBuilder` | `CreateBuilder` with `ParseAccountNameFromEndpoint` and `parseFromConnectionString` | `MCDeltaBuilder`, `MCDeltaBuilder.cfg`, `MCDeltaBuilder_abfs.cfg` |

`PROJECT.json` maps every definition that models code to the lines it
translates.

### 3.1 DeltaSnapshot

**State.** The variables `resolved_files`, `metadata`, `files_exhausted`,
`initialized_snapshot`, `initialized_scan` and `have_bound` are the members of
the same name. `names` records only whether the schema is known. `lock` is the
owner of the mutex.

Per thread:

* `pc` is where the thread is in its call;
* `call` and `idx` are the method and the `i` of the running
  `GetFileInternal(i)`;
* `ret` is its last result.

**Kernel abstraction.** The kernel is the constant `LOG`, a sequence of
batches of files. `iter_batch` and `iter_pos` are the scan data iterator's
position, and `VisitCallback` is called once per file of a batch. The kernel
may fail at four points:

* `InitCanFail`: the builder, snapshot, scan and scan-data init;
* `PullCanFail`: `kernel_scan_data_next`;
* `DvCanFail`: `selection_vector_from_dv`, inside the callback.

A failure of the first three is an exception thrown after the kernel call
returned: it leaves the call, and `unique_lock` releases the mutex. A failed
deletion-vector fetch is different: `VisitCallback` throws from inside the
kernel, which called it through the `extern "C"` frames of `visit_scan_data`
(l.96) and `kernel_scan_data_next` (l.466). A C++ exception cannot unwind
through them, so the process aborts. The model gives the thread the pc
`aborted`: it keeps the mutex and nothing runs after it. The list state is
left as it was, since it dies with the process.

A metadata entry holds its deletion vector as `selection_vector`, the set of
at most one file whose vector it is (`DvOf`).

**Actions.** A call holds the mutex from `Call` (or `Bind`) until `Finish` or
`Throw`. It is split into the steps at which the kernel is called:

* `InitializeSnapshot`, `InitializeScan`;
* `Lookup` (the first lines of `GetFileInternal`);
* `ScanDataNext` (one `kernel_scan_data_next`);
* `VisitCallback` (one file of the batch);
* `EndOfBatch` (the `while` condition).

The other thread cannot take a step in between, because it would need the
mutex. The split exists only so that a failure can happen at each kernel call.

`GetTotalFileCount`, `GetAllFiles` and the first half of `GetCardinality` loop
`GetFileInternal(i++)` (`Returned`). `CardinalityFromMetadata` is the second
critical section of `GetCardinality`.

**Initial states.** `Init` covers both kinds of list:

* `names = FALSE`: the list `delta_scan` creates, which the host binds first;
* `names = TRUE`: a fork created by `ComplexFilterPushdown`, with `names`
  copied and never bound.

### 3.2 FileList

`FileList` is the contract of a lazily discovered, append-only file list:

* `Discover` appends the next file of the snapshot;
* `Exhaust` declares the end, only at the true end;
* `Answer` answers a call only from what is already known.

`DeltaSnapshot` instantiates it as `FL` with this mapping:

* `files <- resolved_files`;
* `done <- files_exhausted`;
* `answered <- ` each thread's standing answer.

The mapping shows that under any interleaving and any kernel failure that
raises an exception, the concrete list implements the contract (an abort
ends the behaviour).

### 3.3 DeltaSelection

* `DuckSVFromDeltaSV` is a RECURSIVE operator over a chunk's row ordinals and a
  deletion vector, written like the C++ loop: keep position `i` iff
  `row_id >= dv.len || dv[row_id]`.
* `Slice` is `DataChunk::Slice`; `Deleted` is the reference: the vector
  marks the row deleted.
* The module has no variables. `DeltaColumns` applies the operators in its
  `FinalizeChunk`, only when the file has a deletion vector and the chunk is
  not empty, and its run compares the result with the reference built with
  `SelectSeq` over every strictly increasing row-id chunk over `0..3` and
  every vector of length at most 4 (`LiveRowsKept`). This covers rows below,
  at and past the vector's end.

### 3.4 DeltaPushdown

**Abstraction of a list.** A list is abstracted to its snapshot version and
its table filters. Its `GetTotalFileCount` is `TotalFileCount`: the number of
files the kernel yields at that version once data skipping has dropped the
files some filter prunes. Run `snapshot_safety` justifies this: a
`DeltaSnapshot` behaves as a `FileList`, whose count after exhaustion is the
snapshot's file count. Composing whole `DeltaSnapshot` instances would add
only the lazy mechanics that run already covers.

**Actions.**

* `Bind` opens `lists[1]`'s snapshot at the current `table_version`.
* `Commit` is another writer's commit.
* `SetGlobal` is another connection's `SET GLOBAL
  delta_scan_explain_files_filtered`, at any point of planning.
* `PushdownNoFilters` is the `filters.empty()` early return.
* `Pushdown` builds the fork:
  * its table filters are the convertible part of the pushed filters
    (`GenerateTableScanFilters`);
  * it shares the parent's snapshot pointer.
* With profiling and `delta_scan_explain_files_filtered` on (`Counting`), two
  more steps follow:
  * `CountOld` counts the parent;
  * `CountNew` counts the fork and then updates or checks `file_filters`,
    `total_files` and `filtered_files`.

Each count opens the list's snapshot if it has none (`Opened`, i.e.
`InitializeSnapshot`). Commits interleave between these steps.

**Settings.** `profiling` (`QueryProfiler::IsEnabled`) is chosen by `Init`
and fixed for the planning of one query. `explain_files_filtered` (the
setting `delta_scan_explain_files_filtered`) starts at the default that
`LoadInternal` registers (`ExplainDefault`, true) and `SetGlobal` flips it.
`ComplexFilterPushdown` reads it on every call, so one pushdown of a node may
count and the next may not. The history variable `explain_reads` records the
values the pushdowns read. One run therefore covers pushdowns with and
without the counting steps, and mixes of the two.

**Host assumption.** A later pushdown passes at least the filters of the
previous one (`pushed \subseteq F`). DuckDB keeps the filters in the plan above
the scan. This assumption is what `FilesNeverExpand` and `CountersConsistent`
rest on (see 5).

### 3.5 DeltaColumns

**Stages.** The stages follow the reader's calls:

1. `Bind` (global columns plus `file_row_number` when the option is given);
2. `BindOptions` (plus `delta_file_number` when it is given and true);
3. `Project` (the planner's `global_column_ids`, the row id included);
4. `InitializeGlobalState`;
5. then, per file: `OpenFile`, `FinalizeBind`, `CreateColumnMapping`,
   `FinalizeChunk`.

**InitializeGlobalState.** It visits `columns_to_map` in either order, because
the case-insensitive map's iteration order is not specified. A column found in
the projection keeps its position (`Selected`, `MappedIdx`). The others get
`global_column_ids.size() + col_offset++`, and their types go to
`extra_columns`.

**FinalizeBind.** It adds constants: the row id (made a constant by DuckDB's
base `FinalizeBind`), the `delta_file_number` placeholder, and the partition
columns.

**CreateColumnMapping.** It skips constant positions and looks the others up
in the file's name map (`NameMap`, where the last column of a name wins):

* a column the file lacks gets a NULL constant (`NullDefaults`);
* a column the file has is mapped, with a cast when the types differ.

An extra `file_row_number` is then mapped from the reader's row ordinal, or the
file fails with `IOException`.

**FinalizeChunk.** It instantiates `DeltaSelection` (`Sel`) for
`DuckSVFromDeltaSV` and `Slice`. It fetches the file's metadata: the
selection vector is any vector of length at most `MaxDVLen` for a file with
a deletion vector (`FileDVs`), kept in `selection_vector`. The chunk is any strictly increasing
sequence of row ordinals of the file (`chunk`). The column the code reads at
`file_row_number_idx` is `RowIdColumn`: the ordinals themselves when that
position is mapped from the reader's synthetic row ordinal, and any numbers
in `0..MaxRow` otherwise (a NULL constant or a table column read as row ids).
When the file has a deletion vector and the chunk is not empty, the
chunk is sliced by the vector built from that column. Every surviving row
then gets the value of the `delta_file_number` column, if there is one
(`DemoFileNumber`, the bound expression `0 + 7` of l.1011-1028). `finalized`
holds each surviving row's ordinal and that value.

**The reader's refusal.** With `file_row_number` on, which
`DeltaMultiFileReader` always asks of the reader, DuckDB's parquet reader
refuses a file that stores a column of that name with a `BinderException`.
`DeltaColumns` states this as an `ASSUME` on `Local`: the only column named
`file_row_number` a file exposes is the reader's row ordinal.

**Abstractions.** Constant values are abstracted to their kind. Column names
are model values.

### 3.6 DeltaScan

**Composition.** `DeltaScan` declares the variables of `DeltaSnapshot` and
instantiates it as `S` (the deletion-vector fetch does not fail here: it
aborts the process, which run `snapshot_dv_failure` shows), and `DeltaSelection` as `Sel`. Queries
run one after the other (`query`, up to `MaxQueries`):

1. `NextQuery` gives the query its list through `CreateFileList`: the
   snapshot `CreateInstance` took from `function_info` when there is one
   (`injected`, chosen in `Init`: a table attached with its snapshot
   pinned), else a new `DeltaSnapshot` (`FreshList`);
2. `BindQuery` is `DeltaMultiFileReader::Bind` calling `S!Bind`; an
   exception fails the query;
3. each scan thread loops: `TakeFile` takes the scan's next file index and
   starts `S!Call` with `GetFile` of it, `ListStep` runs the call's locked
   steps (`S!LockedStep`), `GotFile` reacts to the answer (a path is read,
   `""` ends the thread, an exception fails the query), and `ReadFile` takes
   the mutex for `GetMetaData` and adds the rows `FinalizeChunk` leaves to
   the bag `emitted`; the deletion vector is the one the metadata entry
   holds, never looked up by the path;
4. `StopScan` stops the threads of a failed query once they are out of
   their calls.

**Environment.** The scan's file counter and the thread loop are DuckDB's
`MultiFileReader`, so `TakeFile`, `GotFile`, `StopScan` and `NextQuery` have
no lines in `src/`. A file is read as one chunk of all its rows; chunking is
covered in `DeltaColumns`.

### 3.7 DeltaPaths

**State.** `user_path` is the constructor's argument and `path` is `GetPath()`.
`name` is the decoded relative path of the last visited file, and `resolved`
is what `VisitCallback` appended to `resolved_files`.

**Actions.**

* `DeltaSnapshot` is the constructor: `path = ToDeltaPath(user_path)`.
* `VisitCallback` is the path half of the callback: `RTrim` the root, append
  `/` and the relative path, `url_decode`, then `ToDuckDBPath`.

**Operators.**

* `ToDeltaPath` joins `./x` with the working directory, prefixes `file://`,
  and appends the trailing `/`. It is the set of results it can have:
  for `delta_scan('')`, `path[path.size() - 1]` reads out of range
  (`LastChar`, undefined behaviour: any character), so the root becomes `/`,
  or stays empty if the byte happens to be `/`. The kernel cannot open an
  empty root, so `VisitCallback` is never taken for it.
* `Decode` is the loop of `url_decode`, after `+` became a space.
* `Sscanf` is `sscanf("%x")` on the two characters after `%`. It skips white
  space, then reads the run of hex digits. When there is none, `ii` is
  uninitialized, so the result is any character (`AnyChar`).

**Abstractions.**

* Strings are sequences of one-character strings over a small alphabet.
* Character codes are kept for the characters decoding can produce.
* `?` stands for every other character.
* `JoinPath` is DuckDB's `a + "/" + b`.
* The kernel hands the relative path over as the log stores it,
  percent-encoded (`Encode`).

`ResolvedUnderRoot` compares paths after collapsing runs of `/`, as the file
system reads them.

### 3.8 DeltaBuilder

**State.** The inputs and results of one `CreateBuilder` call:

* the inputs `path` and `secret` (`NoSecret` when `LookupSecret` finds none);
* the results `outcome`, `bucket`, `path_in_bucket`, `secret_type` and
  `cleaned_path`;
* `options`, the `set_builder_option` calls as a function from option name
  to value.

Calls share no state, so each behaviour is one call (`Idle`).

**Actions.** Each ends the call in one way:

* `CreateBuilderLocal`: the early out for non-cloud paths;
* `CreateBuilderInvalidUrl`: the `IOException`;
* `CreateBuilderNoSecret`: `NotImplemented` for r2/gs/gcs, a bare builder for
  s3/azure;
* `CreateBuilderS3Secret`;
* `CreateBuilderAzureSecret`, including the `InvalidInputException` for an
  empty `access_token`.

**Operators.**

* One branch record per scheme holds the offset `find('/')` starts at, the
  offset the container is read from, and the secret type. `AbfsBranch` has 7
  and 8.
* `CleanedPath` is the r2/gs/gcs rewrite.
* `S3Options` sets options in the order of l.240-289.
* `AzureOptions` follows the provider chain of l.290-380, with
  `AzureAccount` and `AzureEndpoint` giving the values after the connection
  string overwrote them.

**Abstractions.**

* A secret value tested only for emptiness is a boolean.
* An S3 endpoint is `[scheme, host]`.
* A connection string is the record of the keys the code asks
  `parseFromConnectionString` for.
* `devstoreaccount1` and `onelake` are shortened to three characters.

## 4. Runs

| Run | Cfg | Expect | What it shows |
|---|---|---|---|
| `snapshot_safety` | `MCDeltaSnapshot_safety.cfg` | pass | Two threads on one list, with failures of the init calls and pulls (exceptions) and of the deletion-vector fetch (an abort). Every materialized entry is the snapshot's file at its ordinal, with its metadata (`EntriesFaithful`). Every answer is the snapshot's (`AnswersMatchSnapshot`). The list is expanded only to the end of the batch holding the largest requested ordinal (`NoOverExpansion`). Nothing changes or is pulled after exhaustion (`ExhaustionStable`). `DeltaSnapshot` implements `FileList` (`FileListSpec`). |
| `snapshot_failures` | `MCDeltaSnapshot_failures.cfg` | pass | With snapshot open, scan open and pulls able to fail, every call holding the mutex ends with a result or an exception and releases it (`CallsReturn`). |
| `snapshot_dv_failure` | `MCDeltaSnapshot_dvfail.cfg` | violation | `CallsReturn` fails: a failed deletion-vector fetch aborts the process inside the kernel's callback with the mutex held (finding 1). |
| `pushdown` | `MCDeltaPushdown.cfg` | pass | With profiling on or off, the explain setting flipped by other connections at any point, and commits between every step: every list reads the version `Bind` opened (`VersionPinned`); the counter checks never throw, even when only some pushdowns count (`CountersConsistent`); `total_files` and `filtered_files` are the table's and the current list's file counts when every pushdown read one value of the setting (`ExplainCountsTrue`); no fork has more files than its parent (`FilesNeverExpand`). Empty pushdowns are interleaved. |
| `columns_reconciled` | `MCDeltaColumns.cfg` | pass | Each projected column of each file has exactly the one resolution the spec names (`ColumnsReconciled`). `FinalizeChunk` keeps exactly the rows of each chunk that the file's deletion vector does not delete, in order (`LiveRowsKept`); an off-by-one in the extra-column test leaves the slice reading a column that is not the row ordinal. The extra columns sit right after the projection, with their types (`ExtraColumnsLaidOut`). |
| `delta_scan` | `MCDeltaScan.cfg` | pass | Three queries, two scan threads, clean kernel failures in any query, with the list new per query or injected and reused: no query returns a deleted row, a row of another file or a row twice, and a query that ends without exception returns every live row of every file (`QueryReturnsLiveRows`); every query ends (`ScanCompletes`). |
| `paths_resolved` | `MCDeltaPaths.cfg` | pass | For relative, absolute, `./` and `file://` roots, with trailing or doubled slashes, and the empty root whatever its out-of-range read yields, every percent-encoded file path resolves to the decoded file inside the table directory (`ResolvedUnderRoot`). For `''` that directory is the literal join, `/`: the file system's root, not the working directory. |
| `paths_special_root` | `MCDeltaPaths_special.cfg` | violation | `ResolvedUnderRoot` fails for a root containing `+` or `%` (finding 3). |
| `builder_options` | `MCDeltaBuilder.cfg` | pass | For every scheme but `abfs://`: the kernel's URL names the user's container and key (`KernelUrlSameObject`); endpoints get the right scheme, Google's by default for gs, and `allow_http` exactly for http (`EndpointResolved`); an azure builder names the URL's container and can address the account (`AzureAddressable`). |
| `builder_abfs` | `MCDeltaBuilder_abfs.cfg` | violation | `AzureAddressable` fails for `abfs://` URLs (finding 2). |

Every property of a passing run has a mutant in `PROJECT.json`. A mutant is a
plausible bug in the mapped code that the run catches: a dropped guard, an
off-by-one, a missing copy or a wrong order.

### Findings

1. **A failed deletion-vector fetch aborts the process**
   (`delta_scan.cpp:73-76`, `:96`, `:466`).
   * `VisitCallback` throws `IOException` when `selection_vector_from_dv`
     fails.
   * `VisitCallback` runs inside the kernel: `kernel_scan_data_next` (l.466)
     calls `VisitData`, which calls `ffi::visit_scan_data` (l.96), and that
     calls back. Both are `extern "C"` functions of the Rust kernel, and a
     C++ exception cannot unwind through them: the behaviour is undefined,
     and Rust aborts the process.
   * So the query does not fail with the exception the callback raises:
     DuckDB aborts while the list's mutex is held, and the `GetFile` call
     never returns (`CallsReturn`).
   * The other kernel errors come back as results and are thrown after the
     FFI call returns (l.466-468), which is how this one would have to be
     reported.
2. **`abfs://` container off by one** (`delta_scan.cpp:192-197`).
   * The `abfs://` branch searches for the end of the container from offset
     7, but reads the container from offset 8.
   * `abfs://data/t` therefore yields the container `ata`. For `abfs:///t`,
     `end - 8` wraps around and the container is the rest of the URL.
   * With an azure secret, this name is passed to the kernel as
     `container_name` (l.378).
   * The other branches use one offset for both.
3. **Table root url-decoded** (`delta_scan.cpp:52-56`, `:37-38`).
   * `VisitCallback` decodes the whole path after joining the table root and
     the kernel's relative path, so the root is decoded too.
   * A directory `a+b` resolves to `a b`.
   * A `%` in the root consumes two characters. When they are not hex,
     `sscanf` leaves `ii` uninitialized, and the character is undefined.
   * Only the relative path from the log is percent-encoded.
## 5. Bounds and why they are enough

**DeltaSnapshot** uses:

* two threads;
* the log `<<f1, f2>>, <<>>, <<f3>>`, which has a multi-file batch, an empty
  batch and a last batch;
* `GetFile(i)` for `i <= 3`, one past the end;
* at most 2 failed calls.

These bounds make the following happen:

* a thread finds its file already materialized by the other;
* a request lands inside a batch, on the empty batch, or past the end;
* a failure comes before or after a partial expansion;
* a retry reuses a half-initialized scan;
* the deletion-vector fetch of `f1` aborts in the middle of the first batch.

`f1` has a deletion vector and `f2` has no statistics, so `GetCardinality`
meets unknown counts.

**DeltaPushdown** uses:

* three versions: v1 appends `f3`, v2 removes `f1`, so a reopened snapshot
  shows both more and fewer files;
* three pushdowns, enough to build a chain of two filtering forks and an empty
  call;
* filter `pa` prunes `f1` and `pb` prunes `f2`;
* `pc` is not convertible, so pushing it prunes nothing and the counts tie.
  That tie is the boundary of the `>=` in the `filtered_files` check.

**DeltaColumns** uses:

* three table columns (a plain one, a partition one and one with type drift);
* projections of up to three of the up to five global columns plus the row id;
* both iteration orders;
* the option values absent, false and true;
* two files, one of which lacks a column;
* row ordinals up to `MaxRow = 3` and, for `fA`, every deletion vector of
  length at most `MaxDVLen = 4` (chosen when its metadata is fetched), so a
  chunk meets kept rows, deleted rows and rows past the vector's end; `fB`
  has no vector.

**DeltaScan** uses the log of `DeltaSnapshot` (a two-file batch, an empty
batch, a last file), rows `0..2` per file, `f1`'s vector `<<TRUE, FALSE>>`
(row 1 deleted, row 2 past its end), two threads, three queries and two
failures. So a query can fail at open, scan open or a pull, and the next
query can resume the injected list half-initialized or partly expanded, with
the two threads racing over the same batch. Indices run to one past the end
per thread (`MCMaxIndex`).

**DeltaPaths** uses:

* roots of 1 to 3 body characters behind no prefix, `/`, `./` and `file:///`,
  so relative, absolute and URI roots with zero, one and two trailing or
  doubled slashes;
* file paths of one or two characters over `a`, space, `%` and `/`, so every
  escape, two escapes in a row, and subdirectories;
* the empty root, so both outcomes of the out-of-range read are explored;
* the violation run adds `+` and `%` to the root alphabet, so a `%` meets
  hex, non-hex and the end of the string.

**DeltaBuilder** uses:

* every scheme with every body of up to three characters over `a` and `/`,
  so empty containers, missing `/`, one-character containers and nested
  keys;
* S3-like secrets with every combination of key id, secret, session token
  and `use_ssl`, over endpoints that are absent, AWS's default, a host
  without scheme, with `https://` and with `http://`;
* r2 secrets with their account endpoint;
* azure secrets of all four providers, with connection strings holding an
  account key, a SAS with or without account name, https endpoints with and
  without a dot, an http endpoint, and azurite's.

## 6. Fairness

`snapshot_failures` assumes weak fairness of the steps of the thread that
holds the mutex: that thread is runnable and every kernel call returns.
Nothing is assumed about which waiting thread gets the mutex next, because
`std::mutex` is not fair. So the model checks only that a call holding the
mutex ends, not that every waiting thread eventually gets in.

`delta_scan` assumes weak fairness of each scan thread's steps and of the
host starting the next query: a runnable thread runs, and a thread waiting
for a mutex that stays free gets it. That is enough for `ScanCompletes`
without fairness between waiting threads: each thread has finitely many
files to take, so the others eventually stop competing for the mutex. The
run sets `CHECK_DEADLOCK FALSE`: the table's last query ends.

The pushdown and column runs set `CHECK_DEADLOCK FALSE`, because planning and
scanning really end:

* planning ends after the optimizer's pushdowns, once no writer commits;
* a scan ends after its last file.

The runs of `DeltaSnapshot` in which the deletion-vector fetch can fail
(`snapshot_safety`, `snapshot_dv_failure`) set `CHECK_DEADLOCK FALSE`: after
the abort nothing runs, which is what the process does.

`DeltaBuilder` also sets `CHECK_DEADLOCK FALSE`: a behaviour is one call,
which ends. `DeltaPaths` has no terminal state, because a new list can
always be constructed.

## 7. Not modelled

* **The regular expression of `parseFromConnectionString`.** It is abstracted
  to the value of the key. A key name found inside another key
  (`...AccountName=` within a longer name) is not modelled: Azure connection
  strings have no such keys.
* **The kernel's builder and DuckDB's secret manager.** These are external.
  `LookupSecret` is any secret of the type that DuckDB's providers create, or
  none.
* **Extension registration and option parsing** (`delta_extension.cpp`,
  `GetDeltaScanFunction`). These run once at load time and register functions,
  options and the storage extension. The `ATTACH` option `pin_snapshot` is
  copied into a `DeltaCatalog` that is not in this repository, so how it
  reaches `function_info` is not known here; `DeltaScan` chooses both ways.
  `ParseOption` appears only as the option values `Init` chooses in
  `DeltaColumns`, and the explain setting as `ExplainDefault` in
  `DeltaPushdown`. Registration has no state that a later step reads besides
  these values, and `LoadInternal` runs once, before any query.
* **The delta kernel's log replay and data skipping.** These are external: the
  constant log and `SkipBy` stand in for them.
* **DuckDB's base `MultiFileReader` and the parquet reader.** These are
  external, except the behaviours `DeltaColumns` states as environment (its `ASSUME`s).
* **The column mapping inside `DeltaScan`.** Composing `DeltaColumns` per
  file with the scan's threads would multiply two state spaces; the mapping
  is per reader and thread-local, so `DeltaColumns` checks it for one reader.
* **`ComplexFilterPushdown` inside `DeltaScan`.** `DeltaPushdown` checks the
  pushdowns of one plan node alone.
* **Stale explain counters as a finding.** With `SetGlobal`,
  `ExplainCountsTrue` holds only when every pushdown read the same value of
  the setting. Dropping that condition, TLC shows a node counted on one
  pushdown and not on the next: `filtered_files` keeps the count of a list
  the node no longer scans. It is not kept as a violation run, because
  nothing in the repository states what the counters should report across a
  change of the setting; it is shown by editing the condition out.
* **`GetVersion`.** A read under the mutex with no caller in `src/`.
* **The `BinderException` of `CreateFileList` for several paths.**
  `delta_scan` takes one path.
