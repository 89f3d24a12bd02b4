--------------------------- MODULE DeltaPushdown ---------------------------
(***************************************************************************)
(* DeltaSnapshot::ComplexFilterPushdown (src/src/functions/delta_scan.cpp) *)
(* on one plan node during planning, while other writers commit to the     *)
(* table.  The node starts with the list delta_scan created; each pushdown *)
(* forks the node's current list, sharing its snapshot pointer, and the    *)
(* host replaces the node's list by the fork.  With profiling on, both     *)
(* lists are fully counted and the node's explain counters checked.       *)
(*                                                                         *)
(* A list is abstracted to its snapshot version and its table filters.    *)
(* Its GetTotalFileCount is the number of files the kernel yields for that *)
(* version under those filters: DeltaSnapshot implements FileList (run     *)
(* snapshot_safety), whose exhausted answer is the snapshot's file count.  *)
(***************************************************************************)
EXTENDS Naturals, Sequences, SequencesExt, FiniteSets

CONSTANTS
    Files,          \* data files (model values)
    MaxVersion,     \* commits other writers make during planning
    Snap,           \* Snap[v]: the files of table version v, in log order
    Preds,          \* filter expressions the planner may push (model values)
    Convertible,    \* those GenerateTableScanFilters turns into table filters
    SkipBy,         \* SkipBy[f]: table filters whose statistics prune f
    MaxPushdowns,   \* how often the optimizer calls ComplexFilterPushdown
    NoSnapshot,     \* a list whose snapshot pointer is still null
    Invalid         \* an optional_idx without a value

ASSUME /\ Snap \in [0..MaxVersion -> Seq(Files)]
       /\ Convertible \subseteq Preds
       /\ SkipBy \in [Files -> SUBSET Preds]

VARIABLES
    profiling,       \* QueryProfiler::IsEnabled() for the query (EXPLAIN ANALYZE)
    explain_files_filtered, \* the setting delta_scan_explain_files_filtered
    explain_reads,   \* history: the values of the setting the pushdowns read
    table_version,   \* the latest version of the table
    lists,           \* the node's lists: lists[1] from delta_scan, then forks
    bound,           \* DeltaSnapshot::Bind ran on lists[1]
    phase,           \* "idle", "count_old", "count_new" or "failed"
    pending,         \* the fork ComplexFilterPushdown is building
    old_total,       \* its local old_total
    total_files,     \* info.extra_info.total_files
    filtered_files,  \* info.extra_info.filtered_files
    file_filters,    \* the filters info.extra_info.file_filters shows
    pushed,          \* history: the filters of the latest pushdown
    pushdowns        \* history: pushdown calls so far

settings == <<profiling, explain_files_filtered>>

vars == <<settings, explain_reads, table_version, lists, bound, phase, pending, old_total,
          total_files, filtered_files, file_filters, pushed, pushdowns>>

-----------------------------------------------------------------------------

\* The files the kernel's scan yields for version v under table filters P:
\* data skipping drops a file some filter of P prunes.
Visible(v, P) == SelectSeq(Snap[v], LAMBDA f : SkipBy[f] \cap P = {})

\* GetTotalFileCount of a list whose snapshot is open.
TotalFileCount(l) == Len(Visible(l.snapshot, l.filters))

\* InitializeSnapshot: a list without snapshot opens the latest version;
\* one that has a snapshot (its own, or its parent's) keeps it.
Opened(l) ==
    IF l.snapshot = NoSnapshot THEN [l EXCEPT !.snapshot = table_version] ELSE l

Parent == lists[Len(lists)]

\* Both lists are counted only when profiling and the setting are on.
Counting == profiling /\ explain_files_filtered

\* DeltaSnapshot::Bind on the list delta_scan created: opens the snapshot.
Bind ==
    /\ ~bound
    /\ lists' = [lists EXCEPT ![1] = Opened(lists[1])]
    /\ bound' = TRUE
    /\ UNCHANGED <<settings, explain_reads, table_version, phase, pending, old_total, total_files,
                   filtered_files, file_filters, pushed, pushdowns>>

\* Another writer commits a new table version.
Commit ==
    /\ table_version < MaxVersion
    /\ table_version' = table_version + 1
    /\ UNCHANGED <<settings, explain_reads, lists, bound, phase, pending, old_total, total_files,
                   filtered_files, file_filters, pushed, pushdowns>>

\* The optimizer calls ComplexFilterPushdown with no filters: nullptr.
PushdownNoFilters ==
    /\ bound /\ phase = "idle" /\ pushdowns < MaxPushdowns
    /\ pushdowns' = pushdowns + 1
    /\ UNCHANGED <<settings, explain_reads, table_version, lists, bound, phase, pending, old_total,
                   total_files, filtered_files, file_filters, pushed>>

\* A plausible bug: the fork built without copying the snapshot pointer.
PushdownNoSnapshotCopy ==
    /\ bound /\ phase = "idle" /\ pushdowns < MaxPushdowns
    /\ \E F \in SUBSET Preds :
         /\ F # {} /\ pushed \subseteq F
         /\ pushed' = F
         /\ LET fork == [snapshot |-> NoSnapshot, filters |-> F \cap Convertible]
            IN IF Counting
               THEN pending' = fork /\ phase' = "count_old" /\ UNCHANGED lists
               ELSE lists' = Append(lists, fork) /\ UNCHANGED <<pending, phase>>
    /\ explain_reads' = IF profiling THEN explain_reads \cup {explain_files_filtered}
                        ELSE explain_reads
    /\ pushdowns' = pushdowns + 1
    /\ UNCHANGED <<settings, table_version, bound, old_total, total_files, filtered_files, file_filters>>

\* A plausible bug: filters the combiner cannot convert kept on the fork.
PushdownAllFilters ==
    /\ bound /\ phase = "idle" /\ pushdowns < MaxPushdowns
    /\ \E F \in SUBSET Preds :
         /\ F # {} /\ pushed \subseteq F
         /\ pushed' = F
         /\ LET fork == [snapshot |-> Parent.snapshot, filters |-> F]
            IN IF Counting
               THEN pending' = fork /\ phase' = "count_old" /\ UNCHANGED lists
               ELSE lists' = Append(lists, fork) /\ UNCHANGED <<pending, phase>>
    /\ explain_reads' = IF profiling THEN explain_reads \cup {explain_files_filtered}
                        ELSE explain_reads
    /\ pushdowns' = pushdowns + 1
    /\ UNCHANGED <<settings, table_version, bound, old_total, total_files, filtered_files, file_filters>>

\* A plausible bug: no early return for an empty filter list, so a call
\* without filters builds a fork without table filters.
PushdownNoEmptyCheck ==
    /\ bound /\ phase = "idle" /\ pushdowns < MaxPushdowns
    /\ \E F \in SUBSET Preds :
         /\ F = {} \/ pushed \subseteq F
         /\ pushed' = F
         /\ LET fork == [snapshot |-> Parent.snapshot, filters |-> F \cap Convertible]
            IN IF Counting
               THEN pending' = fork /\ phase' = "count_old" /\ UNCHANGED lists
               ELSE lists' = Append(lists, fork) /\ UNCHANGED <<pending, phase>>
    /\ explain_reads' = IF profiling THEN explain_reads \cup {explain_files_filtered}
                        ELSE explain_reads
    /\ pushdowns' = pushdowns + 1
    /\ UNCHANGED <<settings, table_version, bound, old_total, total_files, filtered_files, file_filters>>

\* ComplexFilterPushdown with filters F: the convertible ones become the
\* fork's table_filters, the fork shares the parent's snapshot pointer.
\* Without profiling the fork is returned at once.  The host passes at least
\* the filters it pushed before (the filters stay in the plan above the get).
Pushdown ==
    /\ bound /\ phase = "idle" /\ pushdowns < MaxPushdowns
    /\ \E F \in SUBSET Preds :
         /\ F # {} /\ pushed \subseteq F
         /\ pushed' = F
         /\ LET fork == [snapshot |-> Parent.snapshot, filters |-> F \cap Convertible]
            IN IF Counting
               THEN pending' = fork /\ phase' = "count_old" /\ UNCHANGED lists
               ELSE lists' = Append(lists, fork) /\ UNCHANGED <<pending, phase>>
    /\ explain_reads' = IF profiling THEN explain_reads \cup {explain_files_filtered}
                        ELSE explain_reads
    /\ pushdowns' = pushdowns + 1
    /\ UNCHANGED <<settings, table_version, bound, old_total, total_files, filtered_files, file_filters>>

\* old_total = GetTotalFileCount() of the parent list.
CountOld ==
    /\ phase = "count_old"
    /\ LET p == Opened(Parent)
       IN /\ lists' = [lists EXCEPT ![Len(lists)] = p]
          /\ old_total' = TotalFileCount(p)
    /\ phase' = "count_new"
    /\ UNCHANGED <<settings, explain_reads, table_version, bound, pending, total_files, filtered_files,
                   file_filters, pushed, pushdowns>>

\* A plausible bug: filtered_files kept only while strictly greater.
CountNewStrict ==
    /\ phase = "count_new"
    /\ LET fork      == Opened(pending)
           new_total == TotalFileCount(fork)
           total_ok  == total_files = Invalid \/ total_files >= old_total
           filt_ok   == filtered_files = Invalid \/ filtered_files > new_total
       IN /\ pending' = fork
          /\ file_filters' = IF old_total # new_total THEN fork.filters ELSE file_filters
          /\ total_files' = IF total_files = Invalid THEN old_total ELSE total_files
          /\ IF total_ok /\ filt_ok
             THEN /\ filtered_files' = new_total
                  /\ lists' = Append(lists, fork) /\ phase' = "idle"
             ELSE /\ UNCHANGED <<filtered_files, lists>> /\ phase' = "failed"
    /\ UNCHANGED <<settings, explain_reads, table_version, bound, old_total, pushed, pushdowns>>

\* A plausible bug: total_files overwritten by every call's old_total.
CountNewOverwriteTotal ==
    /\ phase = "count_new"
    /\ LET fork      == Opened(pending)
           new_total == TotalFileCount(fork)
           filt_ok   == filtered_files = Invalid \/ filtered_files >= new_total
       IN /\ pending' = fork
          /\ file_filters' = IF old_total # new_total THEN fork.filters ELSE file_filters
          /\ total_files' = old_total
          /\ IF filt_ok
             THEN /\ filtered_files' = new_total
                  /\ lists' = Append(lists, fork) /\ phase' = "idle"
             ELSE /\ UNCHANGED <<filtered_files, lists>> /\ phase' = "failed"
    /\ UNCHANGED <<settings, explain_reads, table_version, bound, old_total, pushed, pushdowns>>

\* new_total = GetTotalFileCount() of the fork (opening its snapshot if it
\* has none), the filters shown when the counts differ, then the counters:
\* total_files is set once and must not be below a later old_total;
\* filtered_files may only shrink.  A failed check throws InternalException
\* and planning of the query stops.
CountNew ==
    /\ phase = "count_new"
    /\ LET fork      == Opened(pending)
           new_total == TotalFileCount(fork)
           total_ok  == total_files = Invalid \/ total_files >= old_total
           filt_ok   == filtered_files = Invalid \/ filtered_files >= new_total
       IN /\ pending' = fork
          /\ file_filters' = IF old_total # new_total THEN fork.filters ELSE file_filters
          /\ total_files' = IF total_files = Invalid THEN old_total ELSE total_files
          /\ IF total_ok /\ filt_ok
             THEN /\ filtered_files' = new_total
                  /\ lists' = Append(lists, fork) /\ phase' = "idle"
             ELSE /\ UNCHANGED <<filtered_files, lists>> /\ phase' = "failed"
    /\ UNCHANGED <<settings, explain_reads, table_version, bound, old_total, pushed, pushdowns>>

\* Another connection runs SET GLOBAL delta_scan_explain_files_filtered:
\* ComplexFilterPushdown reads the setting anew on every call.
SetGlobal ==
    /\ explain_files_filtered' = ~explain_files_filtered
    /\ UNCHANGED <<profiling, explain_reads, table_version, lists, bound, phase, pending,
                   old_total, total_files, filtered_files, file_filters, pushed, pushdowns>>

\* LoadInternal registers the setting with the default value true.
ExplainDefault == TRUE

\* The profiler is on or off for the whole query; the setting starts at its
\* default and other connections may change it at any time (SetGlobal).
Init ==
    /\ profiling \in BOOLEAN
    /\ explain_files_filtered = ExplainDefault
    /\ explain_reads = {}
    /\ table_version \in 0..MaxVersion
    /\ lists = << [snapshot |-> NoSnapshot, filters |-> {}] >>
    /\ bound = FALSE
    /\ phase = "idle"
    /\ pending = lists[1]
    /\ old_total = 0
    /\ total_files = Invalid
    /\ filtered_files = Invalid
    /\ file_filters = {}
    /\ pushed = {}
    /\ pushdowns = 0

Next ==
    \/ Bind
    \/ Commit
    \/ SetGlobal
    \/ PushdownNoFilters
    \/ Pushdown
    \/ CountOld
    \/ CountNew

Spec == Init /\ [][Next]_vars

-----------------------------------------------------------------------------
(* Properties *)

TypeOK ==
    /\ settings \in BOOLEAN \X BOOLEAN
    /\ explain_reads \subseteq BOOLEAN
    /\ table_version \in 0..MaxVersion
    /\ lists \in Seq([snapshot : (0..MaxVersion) \cup {NoSnapshot},
                      filters : SUBSET Convertible])
    /\ Len(lists) \in 1..MaxPushdowns + 1
    /\ phase \in {"idle", "count_old", "count_new", "failed"}
    /\ total_files \in Nat \cup {Invalid}
    /\ filtered_files \in Nat \cup {Invalid}
    /\ file_filters \subseteq Convertible
    /\ pushdowns \in 0..MaxPushdowns

\* Every list of the node that has opened a snapshot, the forks
\* ComplexFilterPushdown built included, reads the version DeltaSnapshot::Bind
\* opened, whatever other writers committed since: the fork shares the
\* parent's snapshot pointer and InitializeSnapshot keeps it.
VersionPinned ==
    \A l \in Range(lists) \cup {pending} :
        l.snapshot \in {NoSnapshot, lists[1].snapshot}

\* The checks of ComplexFilterPushdown on total_files and filtered_files
\* never throw InternalException while the optimizer keeps pushing the
\* filters it pushed before, even when another connection switches
\* delta_scan_explain_files_filtered between two pushdowns, so that some
\* calls count and others do not.
CountersConsistent == phase # "failed"

\* Between pushdowns the explain counters tell the truth: total_files is
\* the file count of the list DeltaSnapshot::Bind opened, filtered_files
\* the file count of the list the node scans now -- as long as every
\* pushdown of the node read the same value of the explain setting.  (A
\* SET GLOBAL between two pushdowns leaves counters a call skipped stale.)
ExplainCountsTrue ==
    bound /\ phase = "idle" /\ Cardinality(explain_reads) <= 1 =>
        /\ total_files \in {Invalid, TotalFileCount(lists[1])}
        /\ filtered_files \in {Invalid, TotalFileCount(lists[Len(lists)])}

\* No fork of the node has more files than the list it was forked from.
FilesNeverExpand ==
    \A k \in 2..Len(lists) :
        NoSnapshot \notin {lists[k].snapshot, lists[k - 1].snapshot} =>
            TotalFileCount(lists[k]) <= TotalFileCount(lists[k - 1])

=============================================================================
