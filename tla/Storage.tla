-------------------------------- MODULE Storage ---------------------------------
(***************************************************************************)
(* storage.rs: one step per call of the Storage API, from open() to Drop,  *)
(* with the files of the data directory and the state struct Storage keeps *)
(* in memory beside them. A process may also end between two calls without *)
(* running Drop (main.rs calls exit(1) when a script fails).               *)
(*                                                                         *)
(* Encryption and serialisation are the identity on what is read back. A   *)
(* locator's (offset, len) is the position of the row's line in its file.  *)
(* I/O errors are not modelled.                                            *)
(***************************************************************************)
EXTENDS Relational

CONSTANTS
    RowIdBatch,     \* ROW_ID_BATCH
    NoSnapshot,     \* there is no .txn_snapshot directory
    MaxRows,        \* bound: rows in a table
    MaxRowId,       \* bound: row ids reserved in a table
    MaxMigrations   \* bound: migration records

ASSUME BatchAssumption == RowIdBatch \in Nat \ {0}
ASSUME BoundAssumption == {MaxRows, MaxRowId, MaxMigrations} \subseteq Nat

VARIABLES
    \* the data directory
    disk,           \* the files a transaction snapshot copies
    marker,         \* indexes.clean exists
    txn_snapshot,   \* what .txn_snapshot holds, or NoSnapshot
    \* struct Storage
    catalog, migrations, index_catalog, index_maps, row_id_cursors,
    table_files,    \* the append handle of each table
    unique_caches, dirty_indexes, indexes_clean,
    txn_dir,        \* txn_dir.is_some()
    running         \* there is a Storage

memory == <<catalog, migrations, index_catalog, index_maps, row_id_cursors,
            table_files, unique_caches, dirty_indexes, indexes_clean, txn_dir, running>>
vars == <<disk, marker, txn_snapshot, memory>>

---------------------------------------------------------------------------------
(* Types *)

Schema == [columns : SUBSET Columns, next_row_id : Nat]
Row == [id : Nat, data : Data]
Locator == [id : Nat, pos : Nat]
IndexMap == [Val -> SUBSET Locator]
Migration == [id : Nat, change : Changes]
Cursor == [next : Nat, limit : Nat]

\* A metadata file that is absent reads as its default, the empty value.
\* tmp_rewrite: the tables t for which a t.tmp_rewrite.table file is left.
IsFiles(f) ==
    /\ f = [catalog |-> f.catalog, migrations |-> f.migrations, indexes |-> f.indexes,
            tables |-> f.tables, index_files |-> f.index_files, tmp_rewrite |-> f.tmp_rewrite]
    /\ IsMap(f.catalog, Tables, Schema)
    /\ f.migrations \in Seq(Migration)
    /\ IsMap(f.indexes, IndexNames, IndexDefinition)
    /\ IsMap(f.tables, Tables, Seq(Row))
    /\ IsMap(f.index_files, IndexNames, IndexMap)
    /\ f.tmp_rewrite \subseteq Tables

EmptyFiles ==
    [catalog |-> EmptyMap, migrations |-> <<>>, indexes |-> EmptyMap,
     tables |-> EmptyMap, index_files |-> EmptyMap, tmp_rewrite |-> {}]

\* An append handle is closed, open on the table's file, or still open on a
\* file that has been removed or replaced since.
Handles == {"closed", "live", "orphan"}

TypeOK ==
    /\ IsFiles(disk)
    /\ marker \in BOOLEAN
    /\ txn_dir \/ txn_snapshot # NoSnapshot => IsFiles(txn_snapshot)
    /\ IsMap(catalog, Tables, Schema)
    /\ migrations \in Seq(Migration)
    /\ IsMap(index_catalog, IndexNames, IndexDefinition)
    /\ IsMap(index_maps, IndexNames, IndexMap)
    /\ IsMap(row_id_cursors, Tables, Cursor)
    /\ table_files \in [Tables -> Handles]
    /\ IsMap(unique_caches, Tables, Maps(Columns, SUBSET Values))
    /\ dirty_indexes \subseteq IndexNames
    /\ indexes_clean \in BOOLEAN
    /\ txn_dir \in BOOLEAN
    /\ running \in BOOLEAN

---------------------------------------------------------------------------------
(* Helpers *)

\* read_stored_rows: a missing file reads as no rows
RowsIn(tables, t) == IF t \in DOMAIN tables THEN tables[t] ELSE <<>>

RowsOf(t) == RowsIn(disk.tables, t)

\* RowLocator of the i-th row of a file
LocatorOf(rows, i) == [id |-> rows[i].id, pos |-> i]

EmptyIndex == [v \in Val |-> {}]

\* rebuild_index: the map from each value of column c to the rows that hold it
IndexOf(rows, c) ==
    [v \in Val |-> {LocatorOf(rows, i) : i \in {j \in DOMAIN rows : Cell(rows[j].data, c) = v}}]

\* rebuild_all_indexes
RebuiltMaps(files) ==
    [i \in DOMAIN files.indexes |->
        IndexOf(RowsIn(files.tables, files.indexes[i].table), files.indexes[i].column)]

\* load_all_index_maps: a missing file is an empty map
LoadedMaps(files) ==
    [i \in DOMAIN files.indexes |->
        IF i \in DOMAIN files.index_files THEN files.index_files[i] ELSE EmptyIndex]

\* write_index_map, for each binding of `new` in turn: the map is kept in
\* memory only, marked dirty, and the clean marker is removed.
WriteIndexMaps_KeepsMarker(maps, dirty, new) ==
    /\ index_maps' = Override(maps, new)
    /\ dirty_indexes' = dirty \cup DOMAIN new
    /\ UNCHANGED <<indexes_clean, marker>>

WriteIndexMaps(maps, dirty, new) ==
    /\ index_maps' = Override(maps, new)
    /\ dirty_indexes' = dirty \cup DOMAIN new
    /\ indexes_clean' = (indexes_clean /\ DOMAIN new = {})
    /\ marker' = (marker /\ ~(indexes_clean /\ DOMAIN new # {}))

\* flush_indexes: the index files once the dirty maps are written to them
FlushedFiles_NotOverwritten ==
    Override(Restrict(index_maps, dirty_indexes \cap DOMAIN index_maps), disk.index_files)

FlushedFiles ==
    Override(disk.index_files, Restrict(index_maps, dirty_indexes \cap DOMAIN index_maps))

FlushIndexes ==
    /\ disk' = [disk EXCEPT !.index_files = FlushedFiles]
    /\ dirty_indexes' = {}
    /\ marker' = TRUE
    /\ indexes_clean' = TRUE

\* The file of table t is removed or replaced: a handle still open on it is
\* left on the old file.
Replaced(handles, t) ==
    [handles EXCEPT ![t] = IF @ = "closed" THEN "closed" ELSE "orphan"]

CloseTableFile_Forgotten(handles, t) == handles

CloseTableFile(handles, t) == [handles EXCEPT ![t] = "closed"]

AllClosed == [t \in Tables |-> "closed"]

\* write_stored_rows and the success of rewrite_rows: the file of table t is
\* replaced by one holding `rows`, and its indexes are rebuilt from it.
ReplaceRows_KeepsCache(t, rows, indexes, maps, dirty) ==
    /\ table_files' = Replaced(CloseTableFile(table_files, t), t)
    /\ UNCHANGED unique_caches
    /\ WriteIndexMaps(maps, dirty,
           [i \in IndexesOn(indexes, t) |-> IndexOf(rows, indexes[i].column)])

ReplaceRows_NoRebuild(t, rows, indexes, maps, dirty) ==
    /\ table_files' = Replaced(CloseTableFile(table_files, t), t)
    /\ unique_caches' = Without(unique_caches, {t})
    /\ WriteIndexMaps(maps, dirty, EmptyMap)

ReplaceRows(t, rows, indexes, maps, dirty) ==
    /\ table_files' = Replaced(CloseTableFile(table_files, t), t)
    /\ unique_caches' = Without(unique_caches, {t})
    /\ WriteIndexMaps(maps, dirty,
           [i \in IndexesOn(indexes, t) |-> IndexOf(rows, indexes[i].column)])

MappedRows(t, Op(_)) ==
    [i \in DOMAIN RowsOf(t) |-> [RowsOf(t)[i] EXCEPT !.data = Op(@)]]

\* record_migration
RecordMigration(change) ==
    /\ Len(migrations) < MaxMigrations
    /\ migrations' = Append(migrations,
           [id |-> IF migrations = <<>> THEN 1 ELSE migrations[Len(migrations)].id + 1,
            change |-> change])

---------------------------------------------------------------------------------
(* Opening and ending *)

Init ==
    /\ disk = EmptyFiles
    /\ marker = FALSE
    /\ txn_snapshot = NoSnapshot
    /\ catalog = EmptyMap /\ migrations = <<>> /\ index_catalog = EmptyMap
    /\ index_maps = EmptyMap /\ row_id_cursors = EmptyMap
    /\ table_files = AllClosed /\ unique_caches = EmptyMap
    /\ dirty_indexes = {} /\ indexes_clean = FALSE
    /\ txn_dir = FALSE /\ running = FALSE

\* Storage::open. A snapshot left by an unfinished transaction is deleted,
\* not restored. Index files are trusted only when the marker is there.
Open ==
    /\ ~running
    /\ running' = TRUE
    /\ catalog' = disk.catalog
    /\ migrations' = disk.migrations
    /\ index_catalog' = disk.indexes
    /\ txn_snapshot' = NoSnapshot
    /\ marker' = FALSE
    /\ \/ marker /\ index_maps' = LoadedMaps(disk) /\ dirty_indexes' = {}
       \/ ~marker /\ index_maps' = RebuiltMaps(disk) /\ dirty_indexes' = DOMAIN disk.indexes
    /\ txn_dir' = FALSE
    /\ UNCHANGED <<disk, row_id_cursors, table_files, unique_caches, indexes_clean>>

\* The process is gone, and the memory of struct Storage with it.
Forget ==
    /\ running' = FALSE
    /\ catalog' = EmptyMap /\ migrations' = <<>> /\ index_catalog' = EmptyMap
    /\ index_maps' = EmptyMap /\ row_id_cursors' = EmptyMap
    /\ table_files' = AllClosed /\ unique_caches' = EmptyMap
    /\ txn_dir' = FALSE

\* Drop for Storage: the indexes are flushed, also inside a transaction.
Close ==
    /\ running
    /\ disk' = [disk EXCEPT !.index_files = FlushedFiles]
    /\ marker' = TRUE
    /\ dirty_indexes' = {} /\ indexes_clean' = FALSE
    /\ Forget
    /\ UNCHANGED txn_snapshot

\* exit(1) in main.rs, or a kill, between two calls: Drop does not run.
Exit ==
    /\ running
    /\ dirty_indexes' = {} /\ indexes_clean' = FALSE
    /\ Forget
    /\ UNCHANGED <<disk, marker, txn_snapshot>>

---------------------------------------------------------------------------------
(* Transactions *)

\* The files begin_transaction copies: the metadata files, and every file
\* whose name ends with .table or starts with index_.
Copied_NoMigrations(files) == [files EXCEPT !.migrations = <<>>]

Copied_NoTables(files) == [files EXCEPT !.tables = EmptyMap]

Copied(files) == files

BeginTransaction ==
    /\ running /\ ~txn_dir
    /\ table_files' = AllClosed
    /\ FlushIndexes
    /\ txn_snapshot' = Copied(disk')
    /\ txn_dir' = TRUE
    /\ UNCHANGED <<catalog, migrations, index_catalog, index_maps, row_id_cursors,
                   unique_caches, running>>

CommitTransaction ==
    /\ running /\ txn_dir
    /\ txn_dir' = FALSE
    /\ txn_snapshot' = NoSnapshot
    /\ UNCHANGED <<disk, marker, catalog, migrations, index_catalog, index_maps, row_id_cursors,
                   table_files, unique_caches, dirty_indexes, indexes_clean, running>>

\* Every table, index and metadata file is removed and the snapshot's copied
\* back; the marker and indexes_clean are left as they are.
RollbackTransaction ==
    /\ running /\ txn_dir
    /\ txn_dir' = FALSE
    /\ txn_snapshot' = NoSnapshot
    /\ disk' = txn_snapshot
    /\ table_files' = AllClosed
    /\ unique_caches' = EmptyMap
    /\ catalog' = txn_snapshot.catalog
    /\ migrations' = txn_snapshot.migrations
    /\ index_catalog' = txn_snapshot.indexes
    /\ dirty_indexes' = {}
    /\ index_maps' = LoadedMaps(txn_snapshot)
    /\ row_id_cursors' = EmptyMap
    /\ UNCHANGED <<marker, indexes_clean, running>>

---------------------------------------------------------------------------------
(* Schema changes *)

CreateTable(t, columns) ==
    /\ running /\ t \notin DOMAIN catalog
    /\ catalog' = Put(catalog, t, [columns |-> columns, next_row_id |-> 0])
    /\ table_files' = CloseTableFile(table_files, t)
    /\ RecordMigration(Change("CREATE_TABLE", t, columns, {}, {}))
    /\ disk' = [disk EXCEPT !.catalog = catalog', !.migrations = migrations',
                            !.tables = Put(@, t, <<>>)]
    /\ UNCHANGED <<marker, txn_snapshot, index_catalog, index_maps, row_id_cursors,
                   unique_caches, dirty_indexes, indexes_clean, txn_dir, running>>

DropTable(t) ==
    LET dropped == IndexesOn(index_catalog, t) IN
    /\ running /\ t \in DOMAIN catalog
    /\ catalog' = Without(catalog, {t})
    /\ index_catalog' = Without(index_catalog, dropped)
    /\ index_maps' = Without(index_maps, dropped)
    /\ dirty_indexes' = dirty_indexes \ dropped
    /\ table_files' = Replaced(CloseTableFile(table_files, t), t)
    /\ unique_caches' = Without(unique_caches, {t})
    /\ row_id_cursors' = Without(row_id_cursors, {t})
    /\ RecordMigration(Change("DROP_TABLE", t, {}, {}, {}))
    /\ disk' = [disk EXCEPT !.catalog = catalog', !.migrations = migrations',
                            !.indexes = index_catalog', !.tables = Without(@, {t}),
                            !.index_files = Without(@, dropped)]
    /\ UNCHANGED <<marker, txn_snapshot, indexes_clean, txn_dir, running>>

\* One index per column of a table, and index names are unique.
CreateIndex(i, t, c) ==
    /\ running /\ t \in DOMAIN catalog /\ c \in catalog[t].columns
    /\ i \notin DOMAIN index_catalog
    /\ IndexesOnColumn(index_catalog, t, c) = {}
    /\ index_catalog' = Put(index_catalog, i, [table |-> t, column |-> c])
    /\ WriteIndexMaps(index_maps, dirty_indexes, [x \in {i} |-> IndexOf(RowsOf(t), c)])
    /\ RecordMigration(Change("CREATE_INDEX", t, {c}, {}, {i}))
    /\ disk' = [disk EXCEPT !.indexes = index_catalog', !.migrations = migrations']
    /\ UNCHANGED <<txn_snapshot, catalog, row_id_cursors, table_files, unique_caches,
                   txn_dir, running>>

DropIndex(i) ==
    /\ running /\ i \in DOMAIN index_catalog
    /\ index_catalog' = Without(index_catalog, {i})
    /\ index_maps' = Without(index_maps, {i})
    /\ dirty_indexes' = dirty_indexes \ {i}
    /\ RecordMigration(Change("DROP_INDEX", index_catalog[i].table, {}, {}, {i}))
    /\ disk' = [disk EXCEPT !.indexes = index_catalog', !.migrations = migrations',
                            !.index_files = Without(@, {i})]
    /\ UNCHANGED <<marker, txn_snapshot, catalog, row_id_cursors, table_files, unique_caches,
                   indexes_clean, txn_dir, running>>

AddColumn(t, c, default) ==
    LET rows == MappedRows(t, LAMBDA data : WithColumn(data, c, default)) IN
    /\ running /\ t \in DOMAIN catalog /\ c \notin catalog[t].columns
    /\ catalog' = [catalog EXCEPT ![t].columns = @ \cup {c}]
    /\ ReplaceRows(t, rows, index_catalog, index_maps, dirty_indexes)
    /\ RecordMigration(Change("ALTER_TABLE_ADD_COLUMN", t, {c}, {}, {}))
    /\ disk' = [disk EXCEPT !.catalog = catalog', !.migrations = migrations',
                            !.tables = Put(@, t, rows)]
    /\ UNCHANGED <<txn_snapshot, index_catalog, row_id_cursors, txn_dir, running>>

\* The last column of a table cannot be dropped; the indexes on the column are.
DropColumn(t, c) ==
    LET rows == MappedRows(t, LAMBDA data : WithoutColumn(data, c))
        dropped == IndexesOnColumn(index_catalog, t, c)
    IN
    /\ running /\ t \in DOMAIN catalog
    /\ catalog[t].columns # {c} /\ c \in catalog[t].columns
    /\ catalog' = [catalog EXCEPT ![t].columns = @ \ {c}]
    /\ index_catalog' = Without(index_catalog, dropped)
    /\ ReplaceRows(t, rows, index_catalog', Without(index_maps, dropped), dirty_indexes \ dropped)
    /\ RecordMigration(Change("ALTER_TABLE_DROP_COLUMN", t, {c}, {}, {}))
    /\ disk' = [disk EXCEPT !.catalog = catalog', !.migrations = migrations',
                            !.indexes = index_catalog', !.tables = Put(@, t, rows),
                            !.index_files = Without(@, dropped)]
    /\ UNCHANGED <<txn_snapshot, row_id_cursors, txn_dir, running>>

\* The column's index follows it: its definition is renamed and it is rebuilt.
RenamedIndexes(t, old, new) ==
    [i \in DOMAIN index_catalog |->
        IF i \in IndexesOnColumn(index_catalog, t, old)
        THEN [index_catalog[i] EXCEPT !.column = new] ELSE index_catalog[i]]

RenameColumn(t, old, new) ==
    LET rows == MappedRows(t, LAMBDA data : WithRenamed(data, old, new)) IN
    /\ running /\ t \in DOMAIN catalog
    /\ old \in catalog[t].columns /\ new \notin catalog[t].columns
    /\ catalog' = [catalog EXCEPT ![t].columns = (@ \ {old}) \cup {new}]
    /\ index_catalog' = RenamedIndexes(t, old, new)
    /\ ReplaceRows(t, rows, index_catalog', index_maps, dirty_indexes)
    /\ RecordMigration(Change("ALTER_TABLE_RENAME_COLUMN", t, {old}, {new}, {}))
    /\ disk' = [disk EXCEPT !.catalog = catalog', !.migrations = migrations',
                            !.indexes = index_catalog', !.tables = Put(@, t, rows)]
    /\ UNCHANGED <<txn_snapshot, row_id_cursors, txn_dir, running>>

---------------------------------------------------------------------------------
(* Rows *)

HasCursor(t) ==
    t \in DOMAIN row_id_cursors /\ row_id_cursors[t].next < row_id_cursors[t].limit

\* The id the next row of table t gets.
NextRowId(t) == IF HasCursor(t) THEN row_id_cursors[t].next ELSE catalog[t].next_row_id

\* allocate_row_id: ids are reserved in the catalog, a batch at a time, and
\* taken from the batch in memory.
AllocateRowId_NotReserved(t) ==
    IF HasCursor(t)
    THEN /\ row_id_cursors' = [row_id_cursors EXCEPT ![t].next = @ + 1]
         /\ UNCHANGED catalog
    ELSE /\ catalog[t].next_row_id + RowIdBatch <= MaxRowId
         /\ row_id_cursors' = Put(row_id_cursors, t,
                [next |-> catalog[t].next_row_id + 1, limit |-> catalog[t].next_row_id + RowIdBatch])
         /\ UNCHANGED catalog

AllocateRowId_OffByOne(t) ==
    IF HasCursor(t)
    THEN /\ row_id_cursors' = [row_id_cursors EXCEPT ![t].next = @ + 1]
         /\ UNCHANGED catalog
    ELSE /\ catalog[t].next_row_id + RowIdBatch <= MaxRowId
         /\ catalog' = [catalog EXCEPT ![t].next_row_id = @ + RowIdBatch]
         /\ row_id_cursors' = Put(row_id_cursors, t,
                [next |-> catalog[t].next_row_id + 1, limit |-> catalog'[t].next_row_id + 1])

AllocateRowId(t) ==
    IF HasCursor(t)
    THEN /\ row_id_cursors' = [row_id_cursors EXCEPT ![t].next = @ + 1]
         /\ UNCHANGED catalog
    ELSE /\ catalog[t].next_row_id + RowIdBatch <= MaxRowId
         /\ catalog' = [catalog EXCEPT ![t].next_row_id = @ + RowIdBatch]
         /\ row_id_cursors' = Put(row_id_cursors, t,
                [next |-> catalog[t].next_row_id + 1, limit |-> catalog'[t].next_row_id])

\* append_row's index maintenance: the row's locator joins the map of each
\* index of the table, under the value of the index's column.
ExtendedMaps(t, data, locator) ==
    [i \in IndexesOn(index_catalog, t) |->
        [(IF i \in DOMAIN index_maps THEN index_maps[i] ELSE EmptyIndex)
            EXCEPT ![Cell(data, index_catalog[i].column)] = @ \cup {locator}]]

\* note_unique_values: the row's values join the caches the table has
NoteUniqueValues_WithNull(t, data) ==
    [u \in DOMAIN unique_caches |->
        IF u # t THEN unique_caches[u]
        ELSE [c \in DOMAIN unique_caches[u] |-> unique_caches[u][c] \cup {Cell(data, c)}]]

NoteUniqueValues(t, data) ==
    [u \in DOMAIN unique_caches |->
        IF u # t THEN unique_caches[u]
        ELSE [c \in DOMAIN unique_caches[u] |->
                unique_caches[u][c] \cup ({Cell(data, c)} \ {Null})]]

\* append_row: a closed handle is opened on the table's file; a row appended
\* to an orphan goes to a file no one will read.
Insert(t, data) ==
    LET row == [id |-> NextRowId(t), data |-> data]
        locator == [id |-> row.id, pos |-> Len(RowsOf(t)) + 1]
    IN
    /\ running /\ t \in DOMAIN catalog /\ Len(RowsOf(t)) < MaxRows
    /\ AllocateRowId(t)
    /\ table_files' = [table_files EXCEPT ![t] = IF @ = "orphan" THEN "orphan" ELSE "live"]
    /\ disk' = [disk EXCEPT !.catalog = catalog',
                            !.tables = IF table_files[t] = "orphan" THEN @
                                       ELSE Put(@, t, Append(RowsOf(t), row))]
    /\ WriteIndexMaps(index_maps, dirty_indexes, ExtendedMaps(t, data, locator))
    /\ unique_caches' = NoteUniqueValues(t, data)
    /\ UNCHANGED <<txn_snapshot, migrations, index_catalog, txn_dir, running>>

\* unique_value_exists on a column that is not cached: the cache is built.
UniqueValues(rows, c) == {Cell(rows[i].data, c) : i \in DOMAIN rows} \ {Null}

CachedColumns(t) == IF t \in DOMAIN unique_caches THEN unique_caches[t] ELSE EmptyMap

CacheUniqueValues(t, c) ==
    /\ running /\ t \in DOMAIN catalog /\ c \in catalog[t].columns
    /\ c \notin DOMAIN CachedColumns(t)
    /\ unique_caches' = Put(unique_caches, t, Put(CachedColumns(t), c, UniqueValues(RowsOf(t), c)))
    /\ UNCHANGED <<disk, marker, txn_snapshot, catalog, migrations, index_catalog, index_maps,
                   row_id_cursors, table_files, dirty_indexes, indexes_clean, txn_dir, running>>

\* rewrite_rows with the mapper of UPDATE, and with that of DELETE
Update(t, where, assignments) ==
    LET rows == MappedRows(t, LAMBDA data : Updated(data, where, assignments)) IN
    /\ running /\ t \in DOMAIN catalog
    /\ ReplaceRows(t, rows, index_catalog, index_maps, dirty_indexes)
    /\ disk' = [disk EXCEPT !.tables = Put(@, t, rows), !.tmp_rewrite = @ \ {t}]
    /\ UNCHANGED <<txn_snapshot, catalog, migrations, index_catalog, row_id_cursors,
                   txn_dir, running>>

Delete(t, where) ==
    /\ running /\ t \in DOMAIN catalog
    /\ \E rows \in Kept(RowsOf(t), {i \in DOMAIN RowsOf(t) : RowsOf(t)[i].data \notin where}) :
        /\ ReplaceRows(t, rows, index_catalog, index_maps, dirty_indexes)
        /\ disk' = [disk EXCEPT !.tables = Put(@, t, rows), !.tmp_rewrite = @ \ {t}]
    /\ UNCHANGED <<txn_snapshot, catalog, migrations, index_catalog, row_id_cursors,
                   txn_dir, running>>

\* rewrite_rows whose mapper fails on a row (an UPDATE that would store a NULL
\* where none may be): the table keeps its file, the half-written one stays.
UpdateFails(t) ==
    /\ running /\ t \in DOMAIN catalog /\ RowsOf(t) # <<>>
    /\ table_files' = CloseTableFile(table_files, t)
    /\ unique_caches' = Without(unique_caches, {t})
    /\ disk' = [disk EXCEPT !.tmp_rewrite = @ \cup {t}]
    /\ UNCHANGED <<marker, txn_snapshot, catalog, migrations, index_catalog, index_maps,
                   row_id_cursors, dirty_indexes, indexes_clean, txn_dir, running>>

---------------------------------------------------------------------------------

Next ==
    \/ Open \/ Close \/ Exit
    \/ BeginTransaction \/ CommitTransaction \/ RollbackTransaction
    \/ \E i \in IndexNames : DropIndex(i)
    \/ \E t \in Tables :
        \/ \E columns \in (SUBSET Columns) \ {{}} : CreateTable(t, columns)
        \/ DropTable(t)
        \/ UpdateFails(t)
        \/ \E c \in Columns :
            \/ \E i \in IndexNames : CreateIndex(i, t, c)
            \/ \E default \in Val : AddColumn(t, c, default)
            \/ DropColumn(t, c)
            \/ \E new \in Columns : RenameColumn(t, c, new)
            \/ CacheUniqueValues(t, c)
        \/ /\ t \in DOMAIN catalog
           /\ \/ \E data \in [catalog[t].columns -> Val] : Insert(t, data)
              \/ \E where \in SUBSET {RowsOf(t)[i].data : i \in DOMAIN RowsOf(t)} :
                  \/ Delete(t, where)
                  \/ \E assignments \in Assignments(catalog[t].columns) :
                        Update(t, where, assignments)

Spec == Init /\ [][Next]_vars
=================================================================================
