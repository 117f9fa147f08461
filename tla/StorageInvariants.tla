---------------------------- MODULE StorageInvariants ---------------------------
(***************************************************************************)
(* The properties of Storage.tla, and the inductive invariant from which   *)
(* they follow (StorageProofs.tla proves that).                            *)
(***************************************************************************)
EXTENDS Storage

---------------------------------------------------------------------------------
(* What holds of a set of files: those of the directory, or of a snapshot *)

\* Every table has its file, and each row has exactly the table's columns.
RowsWellFormed(files) ==
    /\ DOMAIN files.tables = DOMAIN files.catalog
    /\ \A t \in DOMAIN files.tables : \A i \in DOMAIN files.tables[t] :
           DOMAIN files.tables[t][i].data = files.catalog[t].columns

\* Row ids ascend in file order, below the first id not yet reserved.
RowIdsAscend(files) ==
    \A t \in DOMAIN files.catalog : \A i \in DOMAIN RowsIn(files.tables, t) :
        /\ files.tables[t][i].id < files.catalog[t].next_row_id
        /\ \A j \in DOMAIN files.tables[t] : i < j => files.tables[t][i].id < files.tables[t][j].id

\* An index is on an existing column, and no column has two.
IndexesWellFormed(files) ==
    /\ \A i \in DOMAIN files.indexes :
        /\ files.indexes[i].table \in DOMAIN files.catalog
        /\ files.indexes[i].column \in files.catalog[files.indexes[i].table].columns
    /\ \A i, j \in DOMAIN files.indexes : files.indexes[i] = files.indexes[j] => i = j

IndexFilesExact(files) ==
    \A i \in DOMAIN files.indexes :
        /\ i \in DOMAIN files.index_files
        /\ files.index_files[i] = RebuiltMaps(files)[i]

WellFormed(files) == RowsWellFormed(files) /\ RowIdsAscend(files) /\ IndexesWellFormed(files)

---------------------------------------------------------------------------------
(* The properties *)

\* DDL keeps rows and schema together: every row on disk has exactly the
\* columns the catalog lists, and every index definition names a column that
\* exists, at most one index per column. CREATE/DROP/ALTER write the catalog,
\* the index catalog and the rows in separate saves (storage.rs:298, :439-589).
SchemaAndRowsAgree == RowsWellFormed(disk) /\ IndexesWellFormed(disk)

\* read_rows_filtered at the locators of an index entry (storage.rs:687-737):
\* the positions read, falling back to a scan by id when a locator misses.
PositionsAt(t, locators) ==
    IF \A l \in locators : l.pos \in DOMAIN RowsOf(t) /\ RowsOf(t)[l.pos].id = l.id
    THEN {l.pos : l \in locators}
    ELSE {i \in DOMAIN RowsOf(t) : RowsOf(t)[i].id \in {l.id : l \in locators}}

\* An equality lookup through an index reads exactly the rows a full scan
\* would find, after any sequence of writes, schema changes, rollbacks and
\* restarts (find_indexed_locators storage.rs:416, read_rows_filtered :687).
IndexedReadsAgree ==
    running => \A i \in DOMAIN index_catalog \cap DOMAIN index_maps : \A v \in Val :
        LET t == index_catalog[i].table IN
        PositionsAt(t, index_maps[i][v]) =
            {j \in DOMAIN RowsOf(t) : Cell(RowsOf(t)[j].data, index_catalog[i].column) = v}

\* Whenever the process may stop between two calls, the marker indexes.clean
\* is on disk only if every index file is what a rebuild would produce: open()
\* believes the files when the marker is there (storage.rs:64-70).
CleanMarkerSound == marker => IndexFilesExact(disk)

\* The cache that UNIQUE and PRIMARY KEY checks answer from holds exactly the
\* values in the table (unique_value_exists storage.rs:103, note_unique_values
\* :134), also after updates, deletes, schema changes and rollbacks.
UniqueCacheExact ==
    \A t \in DOMAIN unique_caches : \A c \in DOMAIN unique_caches[t] :
        unique_caches[t][c] = UniqueValues(RowsOf(t), c)

\* The id the next row gets is above every id in the table, and the ids in the
\* table ascend: no two rows share an id, whatever the batches, rollbacks and
\* restarts before (allocate_row_id storage.rs:607). Locators rely on it.
RowIdsFresh ==
    /\ RowIdsAscend(disk)
    /\ running => \A t \in DOMAIN catalog : \A i \in DOMAIN RowsOf(t) :
           RowsOf(t)[i].id < NextRowId(t)

\* No append handle is left open on a file that was removed or replaced: rows
\* written through it would be lost (storage.rs:99, :644-652).
NoOrphanHandle == \A t \in Tables : table_files[t] # "orphan"

\* The id the next row of a table would get never moves back, neither by a
\* restart nor by any call but ROLLBACK: ids a stopped process had reserved
\* are not handed out again (allocate_row_id storage.rs:616-626).
NextIdOf(t) == IF running THEN NextRowId(t) ELSE disk.catalog[t].next_row_id

RowIdsMoveForward ==
    [][\A t \in DOMAIN disk.catalog \cap DOMAIN disk'.catalog :
          NextIdOf(t)' >= NextIdOf(t) \/ RollbackTransaction]_vars

---------------------------------------------------------------------------------
(* Replaying the migration log *)

NoSchema == [schema |-> EmptyMap, indexes |-> EmptyMap]

\* The schema and the indexes `s` after one change
Redo(s, ch) ==
    LET t == ch.table
        i == CHOOSE x \in ch.index : TRUE
        c == CHOOSE x \in ch.columns : TRUE
        new == CHOOSE x \in ch.renamed : TRUE
    IN
    CASE ch.operation = "CREATE_TABLE" -> [s EXCEPT !.schema = Put(@, t, ch.columns)]
      [] ch.operation = "DROP_TABLE" ->
            [s EXCEPT !.schema = Without(@, {t}), !.indexes = Without(@, IndexesOn(@, t))]
      [] ch.operation = "CREATE_INDEX" ->
            [s EXCEPT !.indexes = Put(@, i, [table |-> t, column |-> c])]
      [] ch.operation = "DROP_INDEX" -> [s EXCEPT !.indexes = Without(@, {i})]
      [] ch.operation = "ALTER_TABLE_ADD_COLUMN" -> [s EXCEPT !.schema[t] = @ \cup ch.columns]
      [] ch.operation = "ALTER_TABLE_DROP_COLUMN" ->
            [s EXCEPT !.schema[t] = @ \ ch.columns,
                      !.indexes = Without(@, IndexesOnColumn(@, t, c))]
      [] ch.operation = "ALTER_TABLE_RENAME_COLUMN" ->
            [s EXCEPT !.schema[t] = (@ \ ch.columns) \cup ch.renamed,
                      !.indexes = [x \in DOMAIN @ |->
                          IF x \in IndexesOnColumn(@, t, c)
                          THEN [table |-> t, column |-> new] ELSE @[x]]]

SchemaAfter(log) ==
    LET after[k \in 0..Len(log)] == IF k = 0 THEN NoSchema ELSE Redo(after[k - 1], log[k])
    IN  after[Len(log)]

MigrationsCount(records) == \A k \in DOMAIN records : records[k].id = k

\* The migration log tells the whole history of the schema: its ids count from
\* 1, and replaying it gives the tables, columns and indexes the directory
\* holds, also after rollbacks and restarts (record_migration storage.rs:854;
\* README.md:12, "schema changes are tracked automatically").
MigrationsReplay ==
    /\ MigrationsCount(disk.migrations)
    /\ SchemaAfter([k \in DOMAIN disk.migrations |-> disk.migrations[k].change]) =
           [schema |-> [t \in DOMAIN disk.catalog |-> disk.catalog[t].columns],
            indexes |-> disk.indexes]

---------------------------------------------------------------------------------
(* The inductive invariant *)

\* Every save is made before the call returns.
MetadataSaved ==
    running => /\ catalog = disk.catalog
               /\ migrations = disk.migrations
               /\ index_catalog = disk.indexes

\* The maps in memory are exact; those not dirty are also on disk.
MapsTracked ==
    running =>
        /\ index_maps = RebuiltMaps(disk)
        /\ dirty_indexes \subseteq DOMAIN index_maps
        /\ \A i \in DOMAIN index_maps \ dirty_indexes :
               i \in DOMAIN disk.index_files /\ disk.index_files[i] = index_maps[i]

\* While the process runs the marker is there exactly when indexes_clean says.
MarkerTracked ==
    /\ running => marker = indexes_clean
    /\ indexes_clean => running /\ dirty_indexes = {}

\* A cursor's batch ends where the reserved ids do, and starts above the rows.
CursorsReserved ==
    \A t \in DOMAIN row_id_cursors :
        /\ running /\ t \in DOMAIN catalog
        /\ row_id_cursors[t].next <= row_id_cursors[t].limit
        /\ row_id_cursors[t].limit = catalog[t].next_row_id
        /\ \A i \in DOMAIN RowsOf(t) : RowsOf(t)[i].id < row_id_cursors[t].next

CachesOfTables ==
    \A t \in DOMAIN unique_caches :
        /\ running /\ t \in DOMAIN catalog
        /\ DOMAIN unique_caches[t] \subseteq catalog[t].columns

\* While a transaction is open its snapshot could be put back as it is.
SnapshotSound ==
    txn_dir => /\ running
               /\ WellFormed(txn_snapshot)
               /\ IndexFilesExact(txn_snapshot)

IInv ==
    /\ TypeOK
    /\ WellFormed(disk)
    /\ MetadataSaved
    /\ MapsTracked
    /\ MarkerTracked
    /\ CleanMarkerSound
    /\ CursorsReserved
    /\ CachesOfTables
    /\ UniqueCacheExact
    /\ NoOrphanHandle
    /\ SnapshotSound
=================================================================================
