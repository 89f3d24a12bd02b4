---------------------------- MODULE DeltaColumns ----------------------------
(***************************************************************************)
(* The column reconciliation of DeltaMultiFileReader                       *)
(* (src/src/functions/delta_scan.cpp): Bind and BindOptions build the      *)
(* global columns, the planner picks a projection, InitializeGlobalState   *)
(* places the synthetic columns file_row_number and delta_file_number, and *)
(* for each file FinalizeBind adds constants, CreateColumnMapping maps the *)
(* remaining projected columns onto the file's own columns, and            *)
(* FinalizeChunk slices each chunk by the file's deletion vector with the   *)
(* row ordinals read at file_row_number_idx (DeltaSelection's operators)   *)
(* and writes the delta_file_number column.                                *)
(*                                                                         *)
(* Column names are model values, compared as the code's case-insensitive  *)
(* maps compare them.  Chunk column indices are 0-based, as in the code:   *)
(* position i of the projection is ids[i + 1].                             *)
(***************************************************************************)
EXTENDS Naturals, Sequences, SequencesExt, FiniteSets

CONSTANTS
    TableCols,    \* the table's columns (names), in schema order
    TableType,    \* TableType[n]: the declared type of table column n
    Partitioned,  \* the table's partition columns
    FRN, DFN,     \* the names file_row_number and delta_file_number
    BIGINT, UBIGINT,
    RowId,        \* COLUMN_IDENTIFIER_ROW_ID in a projection
    Files,        \* the table's data files
    Local,        \* Local[f]: the columns the parquet reader exposes for f
    HasDV,        \* files with a deletion vector
    MaxRow,       \* the largest row ordinal of a file
    MaxDVLen,     \* the longest deletion vector the kernel returns
    MaxProj,      \* longest projection the planner asks for
    Invalid       \* DConstants::INVALID_INDEX

\* A column the reader exposes: its name, its type and whether it is the
\* reader's own row ordinal rather than a column stored in the file.
LocalColumn == [name : Range(TableCols) \cup {FRN}, type : Range(TableType) \cup {BIGINT},
                synthetic : BOOLEAN]

ASSUME /\ Partitioned \subseteq Range(TableCols)
       /\ Local \in [Files -> Seq(LocalColumn)]
       /\ HasDV \subseteq Files
       \* With file_row_number on (which DeltaMultiFileReader always asks of
       \* the reader), DuckDB's parquet reader refuses a file that stores a
       \* column of that name with a BinderException: the only column named
       \* file_row_number a file exposes is the reader's row ordinal.
       /\ \A f \in Files : \A c \in Range(Local[f]) : c.name = FRN => c.synthetic

VARIABLES
    frn_opt,           \* custom_options holds file_row_number (any value)
    dfn_opt,           \* delta_file_number: "absent", "false" or "true"
    names, types,      \* the global columns
    stage,             \* the step of the scan the reader is in
    ids,               \* global_column_ids of the projection
    file_row_number_idx, delta_file_number_idx, extra_columns,
    file,              \* the file being read
    opened,            \* history: the files read so far
    constant_map,      \* reader_data.constant_map: <<column, kind>> entries
    column_mapping,    \* reader_data.column_mapping
    column_ids,        \* reader_data.column_ids (1-based into Local[file])
    cast_map,          \* the local columns reader_data.cast_map casts
    selection_vector,  \* metadata.selection_vector of the file: the kernel's
                       \* keep bits (TRUE = keep), <<>> for a file without
    chunk,             \* row ordinals of the rows of the chunk the reader read
    finalized          \* the chunk after FinalizeChunk: per row, its ordinal
                       \* and the value of the delta_file_number column

vars == <<frn_opt, dfn_opt, names, types, stage, ids, file_row_number_idx,
          delta_file_number_idx, extra_columns, file, opened, constant_map,
          column_mapping, column_ids, cast_map, selection_vector, chunk, finalized>>

-----------------------------------------------------------------------------

Name(g) == names[g + 1]

\* The delta_file_number option is given and true.
FileNumberOn == dfn_opt = "true"
Positions == 0..Len(ids) - 1

\* DeltaMultiFileReader::Bind: the snapshot's columns, then file_row_number
\* when the option was given.
Bind ==
    /\ stage = "bind"
    /\ names' = TableCols \o (IF frn_opt THEN <<FRN>> ELSE <<>>)
    /\ types' = [n \in Range(TableCols) |-> TableType[n]] @@ (FRN :> BIGINT)
    /\ stage' = "bind_options"
    /\ UNCHANGED <<selection_vector, chunk, finalized, frn_opt, dfn_opt, ids, file_row_number_idx, delta_file_number_idx,
                   extra_columns, file, opened, constant_map, column_mapping,
                   column_ids, cast_map>>

\* DeltaMultiFileReader::BindOptions: delta_file_number when set to true.
BindOptions ==
    /\ stage = "bind_options"
    /\ names' = names \o (IF FileNumberOn THEN <<DFN>> ELSE <<>>)
    /\ types' = types @@ (DFN :> UBIGINT)
    /\ stage' = "project"
    /\ UNCHANGED <<selection_vector, chunk, finalized, frn_opt, dfn_opt, ids, file_row_number_idx, delta_file_number_idx,
                   extra_columns, file, opened, constant_map, column_mapping,
                   column_ids, cast_map>>

\* The planner projects distinct global columns, the row id among them.
Project ==
    /\ stage = "project"
    /\ \E s \in BoundedSeq((0..Len(names) - 1) \cup {RowId}, MaxProj) :
         /\ s # <<>> /\ Cardinality(Range(s)) = Len(s)
         /\ ids' = s
    /\ stage' = "global"
    /\ UNCHANGED <<selection_vector, chunk, finalized, frn_opt, dfn_opt, names, types, file_row_number_idx,
                   delta_file_number_idx, extra_columns, file, opened,
                   constant_map, column_mapping, column_ids, cast_map>>

\* selected_columns: the first projected position of a column named n.
Selected(n) == {i \in Positions : ids[i + 1] # RowId /\ Name(ids[i + 1]) = n}

\* The columns to map that are not in the projection, in the order the
\* case-insensitive map yields them.
Missing(order) == SelectSeq(order, LAMBDA n : Selected(n) = {})

\* A plausible bug: col_offset not incremented.
MappedIdxOffsetStuck(order) ==
    [n \in Range(order) |->
        IF Selected(n) # {} THEN Min(Selected(n)) ELSE Len(ids)]

\* The index InitializeGlobalState gives each column to map: a projected one
\* keeps its position, the others get global_column_ids.size() + col_offset++.
MappedIdx(order) ==
    [n \in Range(order) |->
        IF Selected(n) # {} THEN Min(Selected(n))
        ELSE Len(ids) + SelectInSeq(Missing(order), LAMBDA m : m = n) - 1]

\* InitializeGlobalState: the columns to map in the map's iteration order,
\* the extra columns' types, and SetColumnIdx for each mapped column.
InitializeGlobalState ==
    /\ stage = "global"
    /\ LET ToMap == {FRN} \cup (IF FileNumberOn THEN {DFN} ELSE {})
       IN \E order \in SetToSeqs(ToMap) :
            /\ extra_columns' = [k \in 1..Len(Missing(order)) |-> types[Missing(order)[k]]]
            /\ file_row_number_idx' = MappedIdx(order)[FRN]
            /\ delta_file_number_idx' = IF FileNumberOn THEN MappedIdx(order)[DFN] ELSE Invalid
    /\ stage' = "file"
    /\ UNCHANGED <<selection_vector, chunk, finalized, frn_opt, dfn_opt, names, types, ids, file, opened, constant_map,
                   column_mapping, column_ids, cast_map>>

\* The scan opens a file it has not read yet with a fresh MultiFileReaderData.
OpenFile ==
    /\ stage = "file"
    /\ \E f \in Files \ opened :
         /\ file' = f
         /\ opened' = opened \cup {f}
    /\ constant_map' = <<>> /\ column_mapping' = <<>> /\ column_ids' = <<>>
    /\ cast_map' = {}
    /\ selection_vector' = <<>> /\ chunk' = <<>> /\ finalized' = <<>>
    /\ stage' = "finalize_bind"
    /\ UNCHANGED <<frn_opt, dfn_opt, names, types, ids, file_row_number_idx,
                   delta_file_number_idx, extra_columns>>

\* The projection positions in order, as the code's loops visit them.
PosSeq == [k \in 1..Len(ids) |-> k - 1]

\* A plausible bug: the placeholder added when delta_file_number is given,
\* whatever its value.
FinalizeBindOptionPresent ==
    /\ stage = "finalize_bind"
    /\ LET RowIdCols == SelectSeq(PosSeq, LAMBDA i : ids[i + 1] = RowId)
           PartCols  == SelectSeq(PosSeq, LAMBDA i : ids[i + 1] # RowId
                                                      /\ Name(ids[i + 1]) \in Partitioned)
           Const(cols, kind) == [k \in 1..Len(cols) |-> [col |-> cols[k], kind |-> kind]]
       IN constant_map' = Const(RowIdCols, "rowid")
                          \o (IF dfn_opt # "absent" THEN Const(<<delta_file_number_idx>>, "dfn") ELSE <<>>)
                          \o (IF Partitioned # {} THEN Const(PartCols, "partition") ELSE <<>>)
    /\ stage' = "map"
    /\ UNCHANGED <<selection_vector, chunk, finalized, frn_opt, dfn_opt, names, types, ids, file_row_number_idx,
                   delta_file_number_idx, extra_columns, file, opened,
                   column_mapping, column_ids, cast_map>>

\* FinalizeBind: DuckDB's MultiFileReader::FinalizeBind first makes the row
\* id a constant; then the delta_file_number placeholder; then, when the
\* file's partition map is not empty, a constant for every projected column
\* whose name it holds.
FinalizeBind ==
    /\ stage = "finalize_bind"
    /\ LET RowIdCols == SelectSeq(PosSeq, LAMBDA i : ids[i + 1] = RowId)
           PartCols  == SelectSeq(PosSeq, LAMBDA i : ids[i + 1] # RowId
                                                      /\ Name(ids[i + 1]) \in Partitioned)
           Const(cols, kind) == [k \in 1..Len(cols) |-> [col |-> cols[k], kind |-> kind]]
       IN constant_map' = Const(RowIdCols, "rowid")
                          \o (IF FileNumberOn THEN Const(<<delta_file_number_idx>>, "dfn") ELSE <<>>)
                          \o (IF Partitioned # {} THEN Const(PartCols, "partition") ELSE <<>>)
    /\ stage' = "map"
    /\ UNCHANGED <<selection_vector, chunk, finalized, frn_opt, dfn_opt, names, types, ids, file_row_number_idx,
                   delta_file_number_idx, extra_columns, file, opened,
                   column_mapping, column_ids, cast_map>>

\* name_map of the file: the last local column with name n, 0 if none.
NameMap(n) == SelectLastInSeq(Local[file], LAMBDA c : c.name = n)

\* The NULL constants of the projected positions the file lacks.
NullDefaultsDropped(absent) == <<>>

NullDefaults(absent) == [k \in 1..Len(absent) |-> [col |-> absent[k], kind |-> "null"]]

\* A plausible bug: file_row_number at the first extra index taken as projected.
IsExtraOffByOne == file_row_number_idx > Len(ids)

\* file_row_number is an extra column, not part of the projection.
IsExtra == file_row_number_idx >= Len(ids)

\* CustomMulfiFileNameMapping then the delta part of CreateColumnMapping:
\* a projected column that is not constant is looked up by name in the file;
\* absent, it becomes a NULL constant; present, it is mapped, with a cast
\* when the types differ.  A file_row_number outside the projection is then
\* mapped from the file, or the file fails with IOException.
CreateColumnMapping ==
    /\ stage = "map"
    /\ LET ConstCols == {c.col : c \in Range(constant_map)}
           NonConst  == SelectSeq(PosSeq, LAMBDA i : i \notin ConstCols)
           Absent    == SelectSeq(NonConst, LAMBDA i : NameMap(Name(ids[i + 1])) = 0)
           Present   == SelectSeq(NonConst, LAMBDA i : NameMap(Name(ids[i + 1])) # 0)
           Lid(i)    == NameMap(Name(ids[i + 1]))
       IN /\ constant_map' = constant_map \o NullDefaults(Absent)
          /\ cast_map' = {Lid(i) : i \in {i \in Range(Present) :
                            Local[file][Lid(i)].type # types[Name(ids[i + 1])]}}
          /\ IF IsExtra /\ NameMap(FRN) = 0
             THEN stage' = "error" /\ UNCHANGED <<column_mapping, column_ids>>
             ELSE /\ column_mapping' = Present \o (IF IsExtra THEN <<file_row_number_idx>> ELSE <<>>)
                  /\ column_ids' = [k \in 1..Len(Present) |-> Lid(Present[k])]
                                   \o (IF IsExtra THEN <<NameMap(FRN)>> ELSE <<>>)
                  /\ stage' = "chunk"
    /\ UNCHANGED <<selection_vector, chunk, finalized, frn_opt, dfn_opt, names, types, ids, file_row_number_idx,
                   delta_file_number_idx, extra_columns, file, opened>>

\* The entries of the reader data for chunk column i: constants, mappings.
ConstAt(i) == {k \in 1..Len(constant_map) : constant_map[k].col = i}
MapAt(i)   == {k \in 1..Len(column_mapping) : column_mapping[k] = i}

\* DuckSVFromDeltaSV and DataChunk::Slice.
Sel == INSTANCE DeltaSelection

\* What the chunk column at position i holds for the file's row r: the
\* reader's ordinal when i reads the reader's synthetic column; any number
\* when it reads stored data, a constant, or nothing.
ColumnAt(i, r) ==
    IF ConstAt(i) = {} /\ \E k \in MapAt(i) : Local[file][column_ids[k]].synthetic
    THEN {r} ELSE 0..MaxRow

\* The file_row_number column of a chunk with rows rs, as the BIGINT data
\* DuckSVFromDeltaSV reads (ToUnifiedFormat).
RowIdColumn(rs) ==
    {v \in [1..Len(rs) -> 0..MaxRow] :
        \A k \in 1..Len(rs) : v[k] \in ColumnAt(file_row_number_idx, rs[k])}

\* The demo expression FinalizeChunk binds and executes into the
\* delta_file_number column: 0 + 7.
DemoFileNumber == 0 + 7

\* The selection vectors the kernel may have returned for the file
\* (GetMetaData): any vector for a file with deletion vector, none else.
FileDVs == IF file \in HasDV THEN Sel!DVs ELSE {<<>>}

\* FinalizeChunk for a chunk the reader read from the file (any increasing
\* run of its rows, row groups may be skipped): fetch the file's metadata,
\* slice the chunk by its deletion vector with the row ordinals read at
\* file_row_number_idx when the file has one and the chunk is not empty,
\* then overwrite the delta_file_number column with the demo expression;
\* the reader then goes on with the next file.
FinalizeChunk ==
    /\ stage = "chunk"
    /\ \E d \in FileDVs, rs \in Sel!Chunks : \E rid \in RowIdColumn(rs) :
         LET sel == IF file \in HasDV /\ Len(rs) # 0
                    THEN Sel!DuckSVFromDeltaSV(d, rid, Len(rs))
                    ELSE [k \in 1..Len(rs) |-> k - 1]
             dfn == IF delta_file_number_idx # Invalid THEN DemoFileNumber ELSE Invalid
         IN /\ selection_vector' = d
            /\ chunk' = rs
            /\ finalized' = [k \in 1..Len(sel) |-> [row |-> Sel!Slice(rs, sel)[k], dfn |-> dfn]]
    /\ stage' = IF opened = Files THEN "done" ELSE "file"
    /\ UNCHANGED <<frn_opt, dfn_opt, names, types, ids, file_row_number_idx,
                   delta_file_number_idx, extra_columns, file, opened,
                   constant_map, column_mapping, column_ids, cast_map>>

Init ==
    /\ frn_opt \in BOOLEAN /\ dfn_opt \in {"absent", "false", "true"}
    /\ names = <<>> /\ types = <<>>
    /\ stage = "bind"
    /\ ids = <<>>
    /\ file_row_number_idx = Invalid /\ delta_file_number_idx = Invalid
    /\ extra_columns = <<>>
    /\ file = CHOOSE f \in Files : TRUE
    /\ opened = {}
    /\ constant_map = <<>> /\ column_mapping = <<>> /\ column_ids = <<>>
    /\ cast_map = {}
    /\ selection_vector = <<>> /\ chunk = <<>> /\ finalized = <<>>

Next ==
    \/ Bind \/ BindOptions \/ Project \/ InitializeGlobalState
    \/ OpenFile \/ FinalizeBind \/ CreateColumnMapping \/ FinalizeChunk

Spec == Init /\ [][Next]_vars

-----------------------------------------------------------------------------
(* Properties *)

TypeOK ==
    /\ frn_opt \in BOOLEAN /\ dfn_opt \in {"absent", "false", "true"}
    /\ stage \in {"bind", "bind_options", "project", "global", "file",
                  "finalize_bind", "map", "chunk", "done", "error"}
    /\ Len(ids) <= MaxProj
    /\ extra_columns \in Seq({BIGINT, UBIGINT})
    /\ Range(constant_map) \subseteq [col : Nat, kind : {"rowid", "dfn", "partition", "null"}]
    /\ Len(column_mapping) = Len(column_ids)
    /\ Range(column_ids) \subseteq 1..Len(Local[file])
    /\ cast_map \subseteq 1..Len(Local[file])
    /\ selection_vector \in Sel!DVs /\ chunk \in Sel!Chunks
    /\ finalized \in Seq([row : 0..MaxRow, dfn : Nat \cup {Invalid}])

\* How the spec (section 4.3) says projected position i must be resolved:
\* the row id and delta_file_number by their constants, the file_row_number
\* the options added from the reader's row ordinals, a partition column by
\* its partition constant, any other table column from the file's column of
\* that name, or NULL when the file lacks it.
Expected(i) ==
    LET g == ids[i + 1]
    IN CASE g = RowId                                   -> "rowid"
         [] g >= Len(TableCols) /\ Name(g) = DFN        -> "dfn"
         [] g >= Len(TableCols) /\ Name(g) = FRN        -> "ordinal"
         [] Name(g) \in Partitioned                     -> "partition"
         [] \E c \in Range(Local[file]) : c.name = Name(g) /\ ~c.synthetic -> "stored"
         [] OTHER                                       -> "null"

\* What the reader data resolves position i to: a constant's kind, or the
\* file column it reads; a stored column counts only with the cast exactly
\* when its type differs from the global one.
Resolution(i) ==
    IF ConstAt(i) # {}
    THEN constant_map[CHOOSE k \in ConstAt(i) : TRUE].kind
    ELSE LET lid == column_ids[CHOOSE k \in MapAt(i) : TRUE]
             c   == Local[file][lid]
         IN CASE c.synthetic -> "ordinal"
              [] c.name = Name(ids[i + 1])
                 /\ (lid \in cast_map <=> c.type # types[c.name]) -> "stored"
              [] OTHER -> "wrong"

\* Every projected column of every file the reader maps gets exactly one
\* resolution, and the one the spec names: FinalizeBind's constants,
\* CreateColumnMapping's NULL defaults and mappings never overlap or miss a
\* position, and no column is read from the wrong file column.
ColumnsReconciled ==
    stage = "chunk" =>
        \A i \in Positions :
            /\ Cardinality(ConstAt(i)) + Cardinality(MapAt(i)) = 1
            /\ Resolution(i) = Expected(i)

\* After FinalizeChunk the file's chunk holds exactly the rows the reader
\* read that the file's deletion vector does not delete (rows past the end
\* of the vector kept), in their order: the column mapping put the reader's
\* row ordinals at file_row_number_idx, whether file_row_number was
\* projected or added as an extra column, and the slice used them.
LiveRowsKept ==
    [k \in 1..Len(finalized) |-> finalized[k].row] =
        IF file \in HasDV THEN SelectSeq(chunk, LAMBDA r : ~Sel!Deleted(selection_vector, r))
        ELSE chunk

\* The extra columns InitializeGlobalState adds are exactly the indices
\* after the projection, one per synthetic column not projected, and each
\* extra_columns entry has the type of the column placed there.
ExtraColumnsLaidOut ==
    stage \notin {"bind", "bind_options", "project", "global"} =>
        LET Placed == [n \in {FRN, DFN} |->
                         IF n = FRN THEN file_row_number_idx ELSE delta_file_number_idx]
            Extra  == {n \in {FRN, DFN} : Placed[n] # Invalid /\ Placed[n] >= Len(ids)}
        IN /\ {Placed[n] : n \in Extra} = Len(ids)..(Len(ids) + Len(extra_columns) - 1)
           /\ Cardinality(Extra) = Len(extra_columns)
           /\ \A n \in Extra : extra_columns[Placed[n] - Len(ids) + 1] = types[n]

=============================================================================
