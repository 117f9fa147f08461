------------------------------ MODULE StorageProofs -----------------------------
(***************************************************************************)
(* Proofs about Storage.tla, for every set of tables, columns, indexes and *)
(* values, every batch size and every bound: its variables keep their      *)
(* types, IInv of StorageInvariants.tla is inductive, and the safety       *)
(* properties of the storage layer follow from it.                         *)
(***************************************************************************)
EXTENDS StorageInvariants, RelationalProofs

---------------------------------------------------------------------------------
(* Rows and index maps are typed *)

LEMMA LocatorIsLocator ==
    ASSUME NEW rows \in Seq(Row), NEW i \in DOMAIN rows
    PROVE  LocatorOf(rows, i) \in Locator
<1>1. rows[i] \in Row /\ i \in Nat
  OBVIOUS
<1>2. rows[i].id \in Nat
  BY <1>1 DEF Row
<1> QED
  BY <1>1, <1>2 DEF LocatorOf, Locator

LEMMA IndexOfIsIndexMap ==
    ASSUME NEW rows \in Seq(Row), NEW c
    PROVE  IndexOf(rows, c) \in IndexMap
  BY LocatorIsLocator DEF IndexOf, IndexMap

LEMMA EmptyIsIndexMap == EmptyIndex \in IndexMap
  BY DEF EmptyIndex, IndexMap

LEMMA RowsInIsSeq ==
    ASSUME NEW tables, IsMap(tables, Tables, Seq(Row)), NEW t
    PROVE  RowsIn(tables, t) \in Seq(Row)
  BY DEF RowsIn, IsMap

LEMMA RebuiltMapsAreMaps ==
    ASSUME NEW files, IsFiles(files)
    PROVE  IsMap(RebuiltMaps(files), IndexNames, IndexMap)
<1>1. \A t : RowsIn(files.tables, t) \in Seq(Row)
  BY RowsInIsSeq DEF IsFiles
<1>2. \A i \in DOMAIN files.indexes : RebuiltMaps(files)[i] \in IndexMap
  BY <1>1, IndexOfIsIndexMap DEF RebuiltMaps
<1>3. DOMAIN RebuiltMaps(files) = DOMAIN files.indexes
  BY DEF RebuiltMaps
<1>4. DOMAIN files.indexes \subseteq IndexNames
  BY DEF IsFiles, IsMap
<1>5. RebuiltMaps(files) \in [DOMAIN files.indexes -> IndexMap]
  BY <1>2 DEF RebuiltMaps
<1> QED
  BY <1>3, <1>4, <1>5 DEF IsMap

LEMMA LoadedMapsAreMaps ==
    ASSUME NEW files, IsFiles(files)
    PROVE  IsMap(LoadedMaps(files), IndexNames, IndexMap)
  BY EmptyIsIndexMap DEF LoadedMaps, IsFiles, IsMap

\* Selecting positions of a sequence of rows, and mapping their data.
LEMMA KeptIsSeq ==
    ASSUME NEW s \in Seq(Row), NEW S \in SUBSET DOMAIN s, NEW r \in Kept(s, S)
    PROVE  r \in Seq(Row)
<1>1. PICK f \in Enumerations(S, Len(s)) : r = [i \in DOMAIN f |-> s[f[i]]]
  BY DEF Kept
<1>2. PICK m \in 0..Len(s) : f \in [1..m -> S]
  BY DEF Enumerations
<1>3. r \in [1..m -> Row]
  BY <1>1, <1>2
<1> QED
  BY <1>3

---------------------------------------------------------------------------------
(* Type correctness *)

LEMMA TypedParts ==
    ASSUME TypeOK
    PROVE  /\ IsFiles(disk)
           /\ IsMap(disk.catalog, Tables, Schema)
           /\ disk.migrations \in Seq(Migration)
           /\ IsMap(disk.indexes, IndexNames, IndexDefinition)
           /\ IsMap(disk.tables, Tables, Seq(Row))
           /\ IsMap(disk.index_files, IndexNames, IndexMap)
           /\ disk.tmp_rewrite \in SUBSET Tables
           /\ \A t : RowsOf(t) \in Seq(Row)
  BY RowsInIsSeq DEF TypeOK, IsFiles, RowsOf

LEMMA RecordedMigrationTyped ==
    ASSUME TypeOK, NEW ch \in Changes, RecordMigration(ch)
    PROVE  migrations' \in Seq(Migration)
<1>1. migrations = <<>> \/ migrations[Len(migrations)] \in Migration
  BY DEF TypeOK
<1>2. (IF migrations = <<>> THEN 1 ELSE migrations[Len(migrations)].id + 1) \in Nat
  BY <1>1 DEF Migration
<1> QED
  BY <1>2 DEF RecordMigration, Migration, TypeOK

LEMMA WriteIndexMapsTyped ==
    ASSUME TypeOK,
           NEW maps, IsMap(maps, IndexNames, IndexMap),
           NEW dirty \in SUBSET IndexNames,
           NEW new, IsMap(new, IndexNames, IndexMap),
           WriteIndexMaps(maps, dirty, new)
    PROVE  /\ IsMap(index_maps', IndexNames, IndexMap)
           /\ dirty_indexes' \subseteq IndexNames
           /\ indexes_clean' \in BOOLEAN
           /\ marker' \in BOOLEAN
<1>1. IsMap(index_maps', IndexNames, IndexMap)
  BY OverrideIsMap DEF WriteIndexMaps
<1>2. dirty_indexes' \subseteq IndexNames
  BY DEF WriteIndexMaps, IsMap
<1> QED
  BY <1>1, <1>2 DEF WriteIndexMaps, TypeOK

LEMMA HandlesTyped ==
    ASSUME TypeOK, NEW t \in Tables
    PROVE  /\ CloseTableFile(table_files, t) \in [Tables -> Handles]
           /\ Replaced(CloseTableFile(table_files, t), t) \in [Tables -> Handles]
  BY DEF TypeOK, CloseTableFile, Replaced, Handles

\* The indexes on a table, rebuilt from rows.
LEMMA RebuiltOnTyped ==
    ASSUME NEW indexes, IsMap(indexes, IndexNames, IndexDefinition), NEW t,
           NEW rows \in Seq(Row)
    PROVE  IsMap([i \in IndexesOn(indexes, t) |-> IndexOf(rows, indexes[i].column)],
                 IndexNames, IndexMap)
  BY IndexOfIsIndexMap DEF IsMap, IndexesOn

LEMMA ReplaceRowsTyped ==
    ASSUME TypeOK, NEW t \in Tables, NEW rows \in Seq(Row),
           NEW indexes, IsMap(indexes, IndexNames, IndexDefinition),
           NEW maps, IsMap(maps, IndexNames, IndexMap),
           NEW dirty \in SUBSET IndexNames,
           ReplaceRows(t, rows, indexes, maps, dirty)
    PROVE  /\ table_files' \in [Tables -> Handles]
           /\ IsMap(unique_caches', Tables, Maps(Columns, SUBSET Values))
           /\ IsMap(index_maps', IndexNames, IndexMap)
           /\ dirty_indexes' \subseteq IndexNames
           /\ indexes_clean' \in BOOLEAN
           /\ marker' \in BOOLEAN
<1>1. table_files' \in [Tables -> Handles]
  BY HandlesTyped DEF ReplaceRows
<1>2. IsMap(unique_caches', Tables, Maps(Columns, SUBSET Values))
  BY WithoutIsMap DEF ReplaceRows, TypeOK
<1> QED
  BY <1>1, <1>2, WriteIndexMapsTyped, RebuiltOnTyped DEF ReplaceRows

LEMMA FlushedFilesTyped ==
    ASSUME TypeOK
    PROVE  IsMap(FlushedFiles, IndexNames, IndexMap)
<1>1. IsMap(Restrict(index_maps, dirty_indexes \cap DOMAIN index_maps), IndexNames, IndexMap)
  BY DEF TypeOK, IsMap, Restrict
<1> QED
  BY <1>1, OverrideIsMap, TypedParts DEF FlushedFiles

LEMMA AddedTyped ==
    ASSUME TypeOK, NEW t, NEW c \in Columns, NEW default \in Val
    PROVE  MappedRows(t, LAMBDA data : WithColumn(data, c, default)) \in Seq(Row)
<1>1. RowsOf(t) \in Seq(Row) /\ \A i \in DOMAIN RowsOf(t) : RowsOf(t)[i] \in Row
  BY TypedParts
<1>2. \A i \in DOMAIN RowsOf(t) : [RowsOf(t)[i] EXCEPT !.data = WithColumn(@, c, default)] \in Row
  BY <1>1, DataMapped DEF Row
<1> QED
  BY <1>1, <1>2 DEF MappedRows

LEMMA DroppedTyped ==
    ASSUME TypeOK, NEW t, NEW c
    PROVE  MappedRows(t, LAMBDA data : WithoutColumn(data, c)) \in Seq(Row)
<1>1. RowsOf(t) \in Seq(Row) /\ \A i \in DOMAIN RowsOf(t) : RowsOf(t)[i] \in Row
  BY TypedParts
<1>2. \A i \in DOMAIN RowsOf(t) : [RowsOf(t)[i] EXCEPT !.data = WithoutColumn(@, c)] \in Row
  BY <1>1, DataMapped DEF Row
<1> QED
  BY <1>1, <1>2 DEF MappedRows

LEMMA RenamedTyped ==
    ASSUME TypeOK, NEW t, NEW old \in Columns, NEW new \in Columns
    PROVE  MappedRows(t, LAMBDA data : WithRenamed(data, old, new)) \in Seq(Row)
<1>1. RowsOf(t) \in Seq(Row) /\ \A i \in DOMAIN RowsOf(t) : RowsOf(t)[i] \in Row
  BY TypedParts
<1>2. \A i \in DOMAIN RowsOf(t) : [RowsOf(t)[i] EXCEPT !.data = WithRenamed(@, old, new)] \in Row
  BY <1>1, DataMapped DEF Row
<1> QED
  BY <1>1, <1>2 DEF MappedRows

LEMMA UpdatedTyped ==
    ASSUME TypeOK, NEW t, NEW where, NEW assignments \in Data
    PROVE  MappedRows(t, LAMBDA data : Updated(data, where, assignments)) \in Seq(Row)
<1>1. RowsOf(t) \in Seq(Row) /\ \A i \in DOMAIN RowsOf(t) : RowsOf(t)[i] \in Row
  BY TypedParts
<1>2. \A i \in DOMAIN RowsOf(t) :
         [RowsOf(t)[i] EXCEPT !.data = Updated(@, where, assignments)] \in Row
  BY <1>1, DataMapped DEF Row
<1> QED
  BY <1>1, <1>2 DEF MappedRows

LEMMA OpenTyped == TypeOK /\ Open => TypeOK'
<1> SUFFICES ASSUME TypeOK, Open PROVE TypeOK'
  OBVIOUS
<1>1. IsMap(index_maps', IndexNames, IndexMap) /\ dirty_indexes' \subseteq IndexNames
  BY TypedParts, LoadedMapsAreMaps, RebuiltMapsAreMaps DEF Open, IsMap
<1> QED
  BY <1>1, TypedParts DEF Open, TypeOK

LEMMA ForgetTyped ==
    ASSUME Forget
    PROVE  /\ IsMap(catalog', Tables, Schema)
           /\ migrations' \in Seq(Migration)
           /\ IsMap(index_catalog', IndexNames, IndexDefinition)
           /\ IsMap(index_maps', IndexNames, IndexMap)
           /\ IsMap(row_id_cursors', Tables, Cursor)
           /\ table_files' \in [Tables -> Handles]
           /\ IsMap(unique_caches', Tables, Maps(Columns, SUBSET Values))
           /\ txn_dir' = FALSE /\ running' \in BOOLEAN
<1>1. <<>> \in Seq(Migration)
  OBVIOUS
<1>2. AllClosed \in [Tables -> Handles]
  BY DEF AllClosed, Handles
<1> QED
  BY <1>1, <1>2, EmptyIsMap DEF Forget

LEMMA FlushedDiskTyped ==
    ASSUME TypeOK
    PROVE  IsFiles([disk EXCEPT !.index_files = FlushedFiles])
  BY FlushedFilesTyped, TypedParts DEF IsFiles

LEMMA EndTyped == TypeOK /\ (Close \/ Exit) => TypeOK'
<1>1. ASSUME TypeOK, Close PROVE TypeOK'
  BY <1>1, ForgetTyped, FlushedDiskTyped DEF Close, TypeOK
<1>2. ASSUME TypeOK, Exit PROVE TypeOK'
  BY <1>2, ForgetTyped DEF Exit, TypeOK
<1> QED
  BY <1>1, <1>2

LEMMA TransactionTyped ==
    TypeOK /\ (BeginTransaction \/ CommitTransaction \/ RollbackTransaction) => TypeOK'
<1>1. ASSUME TypeOK, BeginTransaction PROVE TypeOK'
  BY <1>1, FlushedDiskTyped DEF BeginTransaction, FlushIndexes, Copied, AllClosed, Handles, TypeOK
<1>2. ASSUME TypeOK, CommitTransaction PROVE TypeOK'
  BY <1>2 DEF CommitTransaction, TypeOK
<1>3. ASSUME TypeOK, RollbackTransaction PROVE TypeOK'
  <2>1. IsFiles(txn_snapshot)
    BY <1>3 DEF RollbackTransaction, TypeOK
  <2>2. IsMap(index_maps', IndexNames, IndexMap)
    BY <1>3, <2>1, LoadedMapsAreMaps DEF RollbackTransaction
  <2>3. IsFiles(disk') /\ txn_snapshot' = NoSnapshot
    BY <1>3, <2>1 DEF RollbackTransaction
  <2>4. /\ IsMap(catalog', Tables, Schema)
        /\ migrations' \in Seq(Migration)
        /\ IsMap(index_catalog', IndexNames, IndexDefinition)
    BY <1>3, <2>1 DEF RollbackTransaction, IsFiles
  <2> QED
    BY <1>3, <2>2, <2>3, <2>4, EmptyIsMap
    DEF RollbackTransaction, AllClosed, Handles, TypeOK
<1> QED
  BY <1>1, <1>2, <1>3

LEMMA CreateTableTyped ==
    ASSUME TypeOK, NEW t \in Tables, NEW columns \in SUBSET Columns, CreateTable(t, columns)
    PROVE  TypeOK'
<1>1. IsMap(catalog', Tables, Schema)
  BY PutIsMap DEF TypeOK, CreateTable, Schema
<1>2. migrations' \in Seq(Migration)
  BY ChangeTyped, RecordedMigrationTyped DEF CreateTable, Operations
<1>3. IsMap(Put(disk.tables, t, <<>>), Tables, Seq(Row))
  <2>1. <<>> \in Seq(Row)
    OBVIOUS
  <2> QED
    BY <2>1, TypedParts, PutIsMap
<1>4. IsFiles(disk')
  BY <1>1, <1>2, <1>3, TypedParts DEF CreateTable, IsFiles
<1> QED
  BY <1>1, <1>2, <1>4, HandlesTyped DEF CreateTable, TypeOK

LEMMA DropTableTyped ==
    ASSUME TypeOK, NEW t \in Tables, DropTable(t)
    PROVE  TypeOK'
<1>1. /\ IsMap(catalog', Tables, Schema)
      /\ IsMap(index_catalog', IndexNames, IndexDefinition)
      /\ IsMap(index_maps', IndexNames, IndexMap)
      /\ IsMap(unique_caches', Tables, Maps(Columns, SUBSET Values))
      /\ IsMap(row_id_cursors', Tables, Cursor)
  BY WithoutIsMap DEF TypeOK, DropTable
<1>2. migrations' \in Seq(Migration)
  BY ChangeTyped, RecordedMigrationTyped DEF DropTable, Operations
<1>3. /\ IsMap(Without(disk.tables, {t}), Tables, Seq(Row))
      /\ IsMap(Without(disk.index_files, IndexesOn(index_catalog, t)), IndexNames, IndexMap)
  BY TypedParts, WithoutIsMap
<1>4. IsFiles(disk')
  BY <1>1, <1>2, <1>3, TypedParts DEF DropTable, IsFiles
<1> QED
  BY <1>1, <1>2, <1>4, HandlesTyped DEF DropTable, TypeOK

LEMMA CreateIndexTyped ==
    ASSUME TypeOK, NEW i \in IndexNames, NEW t \in Tables, NEW c \in Columns, CreateIndex(i, t, c)
    PROVE  TypeOK'
<1>1. IsMap(index_catalog', IndexNames, IndexDefinition)
  BY PutIsMap DEF TypeOK, CreateIndex, IndexDefinition
<1>2. IsMap([x \in {i} |-> IndexOf(RowsOf(t), c)], IndexNames, IndexMap)
  BY TypedParts, IndexOfIsIndexMap DEF IsMap
<1>3. /\ IsMap(index_maps', IndexNames, IndexMap)
      /\ dirty_indexes' \subseteq IndexNames
      /\ indexes_clean' \in BOOLEAN
      /\ marker' \in BOOLEAN
  BY <1>2, WriteIndexMapsTyped DEF TypeOK, CreateIndex
<1>4. migrations' \in Seq(Migration)
  BY ChangeTyped, RecordedMigrationTyped DEF CreateIndex, Operations
<1>5. IsFiles(disk')
  BY <1>1, <1>4, TypedParts DEF CreateIndex, IsFiles
<1> QED
  BY <1>1, <1>3, <1>4, <1>5 DEF CreateIndex, TypeOK

LEMMA DropIndexTyped ==
    ASSUME TypeOK, NEW i \in IndexNames, DropIndex(i)
    PROVE  TypeOK'
<1>1. /\ IsMap(index_catalog', IndexNames, IndexDefinition)
      /\ IsMap(index_maps', IndexNames, IndexMap)
      /\ IsMap(Without(disk.index_files, {i}), IndexNames, IndexMap)
  BY WithoutIsMap, TypedParts DEF TypeOK, DropIndex
<1>2. index_catalog[i].table \in Tables
  BY DEF DropIndex, TypeOK, IsMap, IndexDefinition
<1>3. migrations' \in Seq(Migration)
  BY <1>2, ChangeTyped, RecordedMigrationTyped DEF DropIndex, Operations
<1>4. IsFiles(disk')
  BY <1>1, <1>3, TypedParts DEF DropIndex, IsFiles
<1> QED
  BY <1>1, <1>3, <1>4 DEF DropIndex, TypeOK

LEMMA CatalogEdited ==
    ASSUME TypeOK, NEW t \in Tables, NEW columns \in SUBSET Columns
    PROVE  IsMap([catalog EXCEPT ![t].columns = columns], Tables, Schema)
  BY DEF TypeOK, IsMap, Schema

LEMMA AddColumnTyped ==
    ASSUME TypeOK, NEW t \in Tables, NEW c \in Columns, NEW default \in Val,
           AddColumn(t, c, default)
    PROVE  TypeOK'
<1> DEFINE rows == MappedRows(t, LAMBDA data : WithColumn(data, c, default))
<1>1. rows \in Seq(Row)
  BY AddedTyped DEF MappedRows
<1> HIDE DEF rows
<1>2. /\ ReplaceRows(t, rows, index_catalog, index_maps, dirty_indexes)
      /\ disk' = [disk EXCEPT !.catalog = catalog', !.migrations = migrations',
                              !.tables = Put(@, t, rows)]
  BY DEF AddColumn, rows
<1>3. IsMap(catalog', Tables, Schema)
  BY CatalogEdited DEF AddColumn, TypeOK, IsMap, Schema
<1>4. migrations' \in Seq(Migration)
  BY ChangeTyped, RecordedMigrationTyped DEF AddColumn, Operations
<1>5. IsFiles(disk')
  BY <1>1, <1>2, <1>3, <1>4, PutIsMap, TypedParts DEF IsFiles
<1>6. /\ table_files' \in [Tables -> Handles]
      /\ IsMap(unique_caches', Tables, Maps(Columns, SUBSET Values))
      /\ IsMap(index_maps', IndexNames, IndexMap)
      /\ dirty_indexes' \subseteq IndexNames
      /\ indexes_clean' \in BOOLEAN
      /\ marker' \in BOOLEAN
  BY <1>1, <1>2, ReplaceRowsTyped DEF TypeOK
<1> QED
  BY <1>3, <1>4, <1>5, <1>6 DEF AddColumn, TypeOK

LEMMA DropColumnTyped ==
    ASSUME TypeOK, NEW t \in Tables, NEW c \in Columns, DropColumn(t, c)
    PROVE  TypeOK'
<1> DEFINE rows == MappedRows(t, LAMBDA data : WithoutColumn(data, c))
           dropped == IndexesOnColumn(index_catalog, t, c)
<1>1. rows \in Seq(Row)
  BY DroppedTyped DEF MappedRows
<1> HIDE DEF rows, dropped
<1>2. /\ index_catalog' = Without(index_catalog, dropped)
      /\ ReplaceRows(t, rows, index_catalog', Without(index_maps, dropped), dirty_indexes \ dropped)
      /\ disk' = [disk EXCEPT !.catalog = catalog', !.migrations = migrations',
                              !.indexes = index_catalog', !.tables = Put(@, t, rows),
                              !.index_files = Without(@, dropped)]
  BY DEF DropColumn, rows, dropped
<1>3. IsMap(catalog', Tables, Schema)
  BY DEF DropColumn, TypeOK, IsMap, Schema
<1>4. migrations' \in Seq(Migration)
  BY ChangeTyped, RecordedMigrationTyped DEF DropColumn, Operations
<1>5. /\ IsMap(index_catalog', IndexNames, IndexDefinition)
      /\ IsMap(Without(index_maps, dropped), IndexNames, IndexMap)
      /\ IsMap(Without(disk.index_files, dropped), IndexNames, IndexMap)
      /\ dirty_indexes \ dropped \in SUBSET IndexNames
  BY <1>2, WithoutIsMap, TypedParts DEF TypeOK
<1>6. IsFiles(disk')
  BY <1>1, <1>2, <1>3, <1>4, <1>5, PutIsMap, TypedParts DEF IsFiles
<1>7. /\ table_files' \in [Tables -> Handles]
      /\ IsMap(unique_caches', Tables, Maps(Columns, SUBSET Values))
      /\ IsMap(index_maps', IndexNames, IndexMap)
      /\ dirty_indexes' \subseteq IndexNames
      /\ indexes_clean' \in BOOLEAN
      /\ marker' \in BOOLEAN
  BY <1>1, <1>2, <1>5, ReplaceRowsTyped
<1> QED
  BY <1>3, <1>4, <1>5, <1>6, <1>7 DEF DropColumn, TypeOK

LEMMA RenameColumnTyped ==
    ASSUME TypeOK, NEW t \in Tables, NEW old \in Columns, NEW new \in Columns,
           RenameColumn(t, old, new)
    PROVE  TypeOK'
<1> DEFINE rows == MappedRows(t, LAMBDA data : WithRenamed(data, old, new))
<1>1. rows \in Seq(Row)
  BY RenamedTyped DEF MappedRows
<1> HIDE DEF rows
<1>2. /\ index_catalog' = RenamedIndexes(t, old, new)
      /\ ReplaceRows(t, rows, index_catalog', index_maps, dirty_indexes)
      /\ disk' = [disk EXCEPT !.catalog = catalog', !.migrations = migrations',
                              !.indexes = index_catalog', !.tables = Put(@, t, rows)]
  BY DEF RenameColumn, rows
<1>3. IsMap(catalog', Tables, Schema)
  BY DEF RenameColumn, TypeOK, IsMap, Schema
<1>4. migrations' \in Seq(Migration)
  BY ChangeTyped, RecordedMigrationTyped DEF RenameColumn, Operations
<1>5. IsMap(index_catalog', IndexNames, IndexDefinition)
  BY <1>2 DEF RenamedIndexes, TypeOK, IsMap, IndexDefinition
<1>6. IsFiles(disk')
  BY <1>1, <1>2, <1>3, <1>4, <1>5, PutIsMap, TypedParts DEF IsFiles
<1>7. /\ table_files' \in [Tables -> Handles]
      /\ IsMap(unique_caches', Tables, Maps(Columns, SUBSET Values))
      /\ IsMap(index_maps', IndexNames, IndexMap)
      /\ dirty_indexes' \subseteq IndexNames
      /\ indexes_clean' \in BOOLEAN
      /\ marker' \in BOOLEAN
  BY <1>1, <1>2, <1>5, ReplaceRowsTyped DEF TypeOK
<1> QED
  BY <1>3, <1>4, <1>5, <1>6, <1>7 DEF RenameColumn, TypeOK

LEMMA RewriteTyped ==
    ASSUME TypeOK, NEW t \in Tables, NEW rows \in Seq(Row),
           ReplaceRows(t, rows, index_catalog, index_maps, dirty_indexes),
           disk' = [disk EXCEPT !.tables = Put(@, t, rows), !.tmp_rewrite = @ \ {t}],
           UNCHANGED <<txn_snapshot, catalog, migrations, index_catalog, row_id_cursors,
                       txn_dir, running>>
    PROVE  TypeOK'
<1>1. disk.tmp_rewrite \ {t} \in SUBSET Tables
  BY TypedParts
<1>2. IsFiles(disk')
  BY <1>1, PutIsMap, TypedParts DEF IsFiles
<1>3. /\ table_files' \in [Tables -> Handles]
      /\ IsMap(unique_caches', Tables, Maps(Columns, SUBSET Values))
      /\ IsMap(index_maps', IndexNames, IndexMap)
      /\ dirty_indexes' \subseteq IndexNames
      /\ indexes_clean' \in BOOLEAN
      /\ marker' \in BOOLEAN
  BY ReplaceRowsTyped DEF TypeOK
<1> QED
  BY <1>2, <1>3 DEF TypeOK

LEMMA UpdateTyped ==
    ASSUME TypeOK, NEW t \in Tables, NEW where, NEW assignments \in Data,
           Update(t, where, assignments)
    PROVE  TypeOK'
<1> DEFINE rows == MappedRows(t, LAMBDA data : Updated(data, where, assignments))
<1>1. rows \in Seq(Row)
  BY UpdatedTyped DEF MappedRows
<1> HIDE DEF rows
<1> QED
  BY <1>1, RewriteTyped DEF Update, rows

LEMMA DeleteTyped ==
    ASSUME TypeOK, NEW t \in Tables, NEW where, Delete(t, where)
    PROVE  TypeOK'
<1> DEFINE S == {i \in DOMAIN RowsOf(t) : RowsOf(t)[i].data \notin where}
<1>1. PICK rows \in Kept(RowsOf(t), S) :
         /\ ReplaceRows(t, rows, index_catalog, index_maps, dirty_indexes)
         /\ disk' = [disk EXCEPT !.tables = Put(@, t, rows), !.tmp_rewrite = @ \ {t}]
  BY DEF Delete
<1>2. rows \in Seq(Row)
  BY KeptIsSeq, TypedParts
<1> QED
  BY <1>1, <1>2, RewriteTyped DEF Delete

LEMMA UpdateFailsTyped ==
    ASSUME TypeOK, NEW t \in Tables, UpdateFails(t)
    PROVE  TypeOK'
<1>1. disk.tmp_rewrite \cup {t} \in SUBSET Tables
  BY TypedParts
<1>2. IsFiles(disk')
  BY <1>1, TypedParts DEF UpdateFails, IsFiles
<1>3. IsMap(unique_caches', Tables, Maps(Columns, SUBSET Values))
  BY WithoutIsMap DEF UpdateFails, TypeOK
<1> QED
  BY <1>2, <1>3, HandlesTyped DEF UpdateFails, TypeOK

LEMMA CacheTyped ==
    ASSUME TypeOK, NEW t \in Tables, NEW c \in Columns, CacheUniqueValues(t, c)
    PROVE  TypeOK'
<1>1. \A i \in DOMAIN RowsOf(t) : RowsOf(t)[i].data \in Data
  <2>1. \A i \in DOMAIN RowsOf(t) : RowsOf(t)[i] \in Row
    BY TypedParts
  <2> QED
    BY <2>1 DEF Row
<1>2. UniqueValues(RowsOf(t), c) \in SUBSET Values
  BY <1>1, CellIsVal DEF UniqueValues, Val
<1>3. IsMap(CachedColumns(t), Columns, SUBSET Values)
  BY EmptyIsMap, MapsAreMaps DEF CachedColumns, TypeOK, IsMap
<1>4. Put(CachedColumns(t), c, UniqueValues(RowsOf(t), c)) \in Maps(Columns, SUBSET Values)
  BY <1>2, <1>3, PutIsMap, MapsAreMaps
<1>5. IsMap(unique_caches', Tables, Maps(Columns, SUBSET Values))
  BY <1>4, PutIsMap DEF CacheUniqueValues, TypeOK
<1> QED
  BY <1>5 DEF CacheUniqueValues, TypeOK

LEMMA AllocateTyped ==
    ASSUME TypeOK, NEW t \in Tables, t \in DOMAIN catalog, AllocateRowId(t)
    PROVE  /\ IsMap(catalog', Tables, Schema)
           /\ IsMap(row_id_cursors', Tables, Cursor)
           /\ NextRowId(t) \in Nat
<1>1. catalog[t] \in Schema /\ catalog[t].next_row_id \in Nat /\ RowIdBatch \in Nat
  BY BatchAssumption DEF TypeOK, IsMap, Schema
<1>2. CASE HasCursor(t)
  <2>1. row_id_cursors[t] \in Cursor
    BY <1>2 DEF HasCursor, TypeOK, IsMap
  <2>2. row_id_cursors[t].next \in Nat
    BY <2>1 DEF Cursor
  <2>3. [row_id_cursors[t] EXCEPT !.next = @ + 1] \in Cursor
    BY <2>1 DEF Cursor
  <2>4. /\ row_id_cursors' = [row_id_cursors EXCEPT ![t] = [row_id_cursors[t] EXCEPT !.next = @ + 1]]
        /\ UNCHANGED catalog
    BY <1>2 DEF AllocateRowId
  <2>5. IsMap(row_id_cursors', Tables, Cursor)
    BY <2>3, <2>4 DEF TypeOK, IsMap
  <2>6. IsMap(catalog', Tables, Schema)
    BY <2>4 DEF TypeOK
  <2> QED
    BY <1>2, <2>2, <2>5, <2>6 DEF NextRowId
<1>3. CASE ~HasCursor(t)
  <2>1. /\ catalog' = [catalog EXCEPT ![t].next_row_id = @ + RowIdBatch]
        /\ row_id_cursors' = Put(row_id_cursors, t,
               [next |-> catalog[t].next_row_id + 1, limit |-> catalog'[t].next_row_id])
    BY <1>3 DEF AllocateRowId
  <2> DEFINE s == [catalog[t] EXCEPT !.next_row_id = @ + RowIdBatch]
  <2>2. /\ IsMap(catalog', Tables, Schema)
        /\ catalog'[t].next_row_id = catalog[t].next_row_id + RowIdBatch
    <3>1. s \in Schema /\ s.next_row_id = catalog[t].next_row_id + RowIdBatch
      BY <1>1 DEF Schema
    <3>2. catalog' = [catalog EXCEPT ![t] = s]
      BY <2>1
    <3> HIDE DEF s
    <3> QED
      BY <3>1, <3>2 DEF TypeOK, IsMap
  <2>3. [next |-> catalog[t].next_row_id + 1, limit |-> catalog'[t].next_row_id] \in Cursor
    BY <1>1, <2>2 DEF Cursor
  <2> QED
    BY <1>1, <1>3, <2>1, <2>2, <2>3, PutIsMap DEF NextRowId, TypeOK
<1> QED
  BY <1>2, <1>3

LEMMA InsertTyped ==
    ASSUME TypeOK, NEW t \in Tables, t \in DOMAIN catalog,
           NEW data \in [catalog[t].columns -> Val], Insert(t, data)
    PROVE  TypeOK'
<1> DEFINE row == [id |-> NextRowId(t), data |-> data]
           locator == [id |-> NextRowId(t), pos |-> Len(RowsOf(t)) + 1]
<1>1. /\ IsMap(catalog', Tables, Schema)
      /\ IsMap(row_id_cursors', Tables, Cursor)
      /\ NextRowId(t) \in Nat
  BY AllocateTyped DEF Insert
<1>2. data \in Data
  <2>1. catalog[t].columns \in SUBSET Columns
    BY DEF TypeOK, IsMap, Schema
  <2> QED
    BY <2>1 DEF Data, Maps
<1>3. row \in Row
  BY <1>1, <1>2 DEF Row
<1>4. locator \in Locator
  BY <1>1, TypedParts DEF Locator
<1>5. Append(RowsOf(t), row) \in Seq(Row)
  BY <1>3, TypedParts
<1> HIDE DEF row, locator
<1>6. /\ AllocateRowId(t)
      /\ table_files' = [table_files EXCEPT ![t] = IF @ = "orphan" THEN "orphan" ELSE "live"]
      /\ disk' = [disk EXCEPT !.catalog = catalog',
                              !.tables = IF table_files[t] = "orphan" THEN @
                                         ELSE Put(@, t, Append(RowsOf(t), row))]
      /\ WriteIndexMaps(index_maps, dirty_indexes, ExtendedMaps(t, data, locator))
      /\ unique_caches' = NoteUniqueValues(t, data)
      /\ UNCHANGED <<txn_snapshot, migrations, index_catalog, txn_dir, running>>
  BY DEF Insert, row, locator
<1>7. IsMap(Put(disk.tables, t, Append(RowsOf(t), row)), Tables, Seq(Row))
  BY <1>5, PutIsMap, TypedParts
<1>8. IsFiles(disk')
  BY <1>1, <1>6, <1>7, TypedParts DEF IsFiles
<1>9. IsMap(ExtendedMaps(t, data, locator), IndexNames, IndexMap)
  <2>1. \A i \in IndexesOn(index_catalog, t) :
           (IF i \in DOMAIN index_maps THEN index_maps[i] ELSE EmptyIndex) \in IndexMap
    BY EmptyIsIndexMap DEF TypeOK, IsMap
  <2>2. ASSUME NEW i \in IndexesOn(index_catalog, t)
        PROVE  ExtendedMaps(t, data, locator)[i] \in IndexMap
    <3> DEFINE m == IF i \in DOMAIN index_maps THEN index_maps[i] ELSE EmptyIndex
               v == Cell(data, index_catalog[i].column)
    <3>1. m \in IndexMap /\ v \in Val
      BY <1>2, <2>1, CellIsVal
    <3>2. ExtendedMaps(t, data, locator)[i] = [m EXCEPT ![v] = @ \cup {locator}]
      BY DEF ExtendedMaps
    <3> HIDE DEF m, v
    <3> QED
      BY <1>4, <3>1, <3>2 DEF IndexMap
  <2> QED
    BY <2>2 DEF ExtendedMaps, IsMap, IndexesOn, TypeOK
<1>10. IsMap(unique_caches', Tables, Maps(Columns, SUBSET Values))
  <2>1. ASSUME NEW u \in DOMAIN unique_caches
        PROVE  NoteUniqueValues(t, data)[u] \in Maps(Columns, SUBSET Values)
    <3>1. IsMap(unique_caches[u], Columns, SUBSET Values)
      BY MapsAreMaps DEF TypeOK, IsMap
    <3>2. \A c : {Cell(data, c)} \ {Null} \in SUBSET Values
      BY <1>2, CellIsVal DEF Val
    <3>3. IsMap(NoteUniqueValues(t, data)[u], Columns, SUBSET Values)
      BY <3>1, <3>2 DEF NoteUniqueValues, IsMap
    <3> QED
      BY <3>3, MapsAreMaps
  <2> QED
    BY <1>6, <2>1 DEF NoteUniqueValues, IsMap, TypeOK
<1>11. table_files' \in [Tables -> Handles]
  BY <1>6 DEF TypeOK, Handles
<1> QED
  BY <1>1, <1>6, <1>8, <1>9, <1>10, <1>11, WriteIndexMapsTyped DEF TypeOK

LEMMA AssignmentsAreData ==
    ASSUME TypeOK, NEW t \in DOMAIN catalog, NEW assignments \in Assignments(catalog[t].columns)
    PROVE  assignments \in Data
<1>1. catalog[t].columns \in SUBSET Columns
  BY DEF TypeOK, IsMap, Schema
<1> QED
  BY <1>1 DEF Assignments, Data, Maps

\* No call of the storage API, and no end of the process, takes the directory
\* or struct Storage out of its types.
LEMMA TypeOKInductive == TypeOK /\ [Next]_vars => TypeOK'
<1> SUFFICES ASSUME TypeOK, [Next]_vars PROVE TypeOK'
  OBVIOUS
<1>1. CASE Open \/ Close \/ Exit
  BY <1>1, OpenTyped, EndTyped
<1>2. CASE BeginTransaction \/ CommitTransaction \/ RollbackTransaction
  BY <1>2, TransactionTyped
<1>3. CASE \E i \in IndexNames : DropIndex(i)
  BY <1>3, DropIndexTyped
<1>4. ASSUME NEW t \in Tables, NEW columns \in (SUBSET Columns) \ {{}}, CreateTable(t, columns)
      PROVE  TypeOK'
  BY <1>4, CreateTableTyped
<1>5. ASSUME NEW t \in Tables, DropTable(t) \/ UpdateFails(t)
      PROVE  TypeOK'
  BY <1>5, DropTableTyped, UpdateFailsTyped
<1>6. ASSUME NEW t \in Tables, NEW c \in Columns, NEW i \in IndexNames, CreateIndex(i, t, c)
      PROVE  TypeOK'
  BY <1>6, CreateIndexTyped
<1>7. ASSUME NEW t \in Tables, NEW c \in Columns, NEW default \in Val, AddColumn(t, c, default)
      PROVE  TypeOK'
  BY <1>7, AddColumnTyped
<1>8. ASSUME NEW t \in Tables, NEW c \in Columns, DropColumn(t, c) \/ CacheUniqueValues(t, c)
      PROVE  TypeOK'
  BY <1>8, DropColumnTyped, CacheTyped
<1>9. ASSUME NEW t \in Tables, NEW c \in Columns, NEW new \in Columns, RenameColumn(t, c, new)
      PROVE  TypeOK'
  BY <1>9, RenameColumnTyped
<1>10. ASSUME NEW t \in Tables, t \in DOMAIN catalog,
              NEW data \in [catalog[t].columns -> Val], Insert(t, data)
       PROVE  TypeOK'
  BY <1>10, InsertTyped
<1>11. ASSUME NEW t \in Tables, NEW where, Delete(t, where)
       PROVE  TypeOK'
  BY <1>11, DeleteTyped
<1>12. ASSUME NEW t \in Tables, t \in DOMAIN catalog, NEW where,
              NEW assignments \in Assignments(catalog[t].columns), Update(t, where, assignments)
       PROVE  TypeOK'
  BY <1>12, AssignmentsAreData, UpdateTyped
<1>13. CASE UNCHANGED vars
  BY <1>13 DEF vars, memory, TypeOK
<1> QED
  BY <1>1, <1>2, <1>3, <1>4, <1>5, <1>6, <1>7, <1>8, <1>9, <1>10, <1>11, <1>12, <1>13 DEF Next

LEMMA InitTypeOK == Init => TypeOK
<1> SUFFICES ASSUME Init PROVE TypeOK
  OBVIOUS
<1>1. <<>> \in Seq(Migration)
  OBVIOUS
<1>2. IsFiles(EmptyFiles)
  BY <1>1, EmptyIsMap DEF IsFiles, EmptyFiles
<1> QED
  BY <1>1, <1>2, EmptyIsMap DEF Init, TypeOK, AllClosed, Handles

\* The directory and struct Storage keep their types.
THEOREM TypeCorrect == Spec => []TypeOK
<1> QED
  BY InitTypeOK, TypeOKInductive, PTL DEF Spec

---------------------------------------------------------------------------------
(* What the invariant says of a running process *)

LEMMA Running ==
    ASSUME IInv, running
    PROVE  /\ catalog = disk.catalog
           /\ migrations = disk.migrations
           /\ index_catalog = disk.indexes
           /\ DOMAIN disk.tables = DOMAIN catalog
           /\ DOMAIN index_maps = DOMAIN index_catalog
           /\ \A i \in DOMAIN index_catalog :
                  index_maps[i] = IndexOf(RowsOf(index_catalog[i].table), index_catalog[i].column)
           /\ \A t \in DOMAIN catalog : RowsOf(t) = disk.tables[t]
           /\ marker = indexes_clean
           /\ indexes_clean => dirty_indexes = {}
<1>1. DOMAIN disk.tables = DOMAIN disk.catalog
  BY DEF IInv, WellFormed, RowsWellFormed
<1> QED
  BY <1>1 DEF IInv, MetadataSaved, MapsTracked, MarkerTracked, RebuiltMaps, RowsOf, RowsIn

LEMMA InvTracks == IInv => TypeOK /\ MapsTracked /\ MarkerTracked
  BY DEF IInv

LEMMA RebuiltAt ==
    ASSUME NEW files
    PROVE  /\ DOMAIN RebuiltMaps(files) = DOMAIN files.indexes
           /\ \A i \in DOMAIN files.indexes :
                 RebuiltMaps(files)[i] =
                   IndexOf(RowsIn(files.tables, files.indexes[i].table), files.indexes[i].column)
  BY DEF RebuiltMaps

\* When no map is dirty, the index files are exact.
LEMMA CleanFilesExact ==
    ASSUME NEW files, NEW maps, maps = RebuiltMaps(files),
           \A i \in DOMAIN maps : i \in DOMAIN files.index_files /\ files.index_files[i] = maps[i]
    PROVE  IndexFilesExact(files)
  BY RebuiltAt DEF IndexFilesExact

\* Exact index files load as the maps a rebuild would give.
LEMMA ExactFilesLoad ==
    ASSUME NEW files, IndexFilesExact(files)
    PROVE  LoadedMaps(files) = RebuiltMaps(files)
  BY DEF IndexFilesExact, LoadedMaps, RebuiltMaps

---------------------------------------------------------------------------------
(* The parts of the invariant after a step, from what the step writes *)

\* CleanMarkerSound of a process that runs follows from its other parts.
LEMMA CleanMarkerWhileRunning ==
    ASSUME running', MapsTracked', MarkerTracked'
    PROVE  CleanMarkerSound'
<1> SUFFICES ASSUME marker' PROVE IndexFilesExact(disk')
  BY DEF CleanMarkerSound
<1>1. dirty_indexes' = {}
  BY DEF MarkerTracked
<1> QED
  BY <1>1, CleanFilesExact DEF MapsTracked

\* An action that leaves the transaction alone leaves its snapshot sound.
LEMMA SnapshotKept ==
    ASSUME IInv, UNCHANGED <<txn_snapshot, txn_dir, running>>
    PROVE  SnapshotSound'
  BY DEF IInv, SnapshotSound

\* After a flush every index file holds the map in memory.
LEMMA FlushedFilesExact ==
    ASSUME MapsTracked, running
    PROVE  \A i \in DOMAIN index_maps :
              i \in DOMAIN FlushedFiles /\ FlushedFiles[i] = index_maps[i]
<1> DEFINE g == Restrict(index_maps, dirty_indexes \cap DOMAIN index_maps)
<1>1. /\ DOMAIN g = dirty_indexes \cap DOMAIN index_maps
      /\ \A i \in DOMAIN g : g[i] = index_maps[i]
  BY DEF Restrict
<1>2. \A i \in DOMAIN index_maps \ dirty_indexes :
          i \in DOMAIN disk.index_files /\ disk.index_files[i] = index_maps[i]
  BY DEF MapsTracked
<1>3. FlushedFiles = Override(disk.index_files, g)
  BY DEF FlushedFiles
<1> HIDE DEF g
<1>4. /\ DOMAIN FlushedFiles = DOMAIN disk.index_files \cup DOMAIN g
      /\ \A x \in DOMAIN g : FlushedFiles[x] = g[x]
      /\ \A x \in DOMAIN disk.index_files \ DOMAIN g : FlushedFiles[x] = disk.index_files[x]
  BY <1>3 DEF Override
<1> QED
  BY <1>1, <1>2, <1>4

LEMMA FlushedDisk ==
    ASSUME IInv, running, NEW d, d = [disk EXCEPT !.index_files = FlushedFiles]
    PROVE  /\ WellFormed(d)
           /\ d.catalog = disk.catalog /\ d.tables = disk.tables
           /\ d.indexes = disk.indexes /\ d.migrations = disk.migrations
           /\ d.index_files = FlushedFiles
           /\ RebuiltMaps(d) = index_maps
           /\ IndexFilesExact(d)
<1>1. /\ d.catalog = disk.catalog /\ d.tables = disk.tables
      /\ d.indexes = disk.indexes /\ d.migrations = disk.migrations
      /\ d.index_files = FlushedFiles
  BY DEF IInv, TypeOK, IsFiles
<1>2. WellFormed(d)
  BY <1>1 DEF IInv, WellFormed, RowsWellFormed, RowIdsAscend, IndexesWellFormed
<1>3. RebuiltMaps(d) = index_maps
  BY <1>1 DEF IInv, MapsTracked, RebuiltMaps
<1>4. IndexFilesExact(d)
  <2>1. \A i \in DOMAIN index_maps : i \in DOMAIN d.index_files /\ d.index_files[i] = index_maps[i]
    BY <1>1, FlushedFilesExact DEF IInv
  <2> QED
    BY <1>3, <2>1 DEF IndexFilesExact, RebuiltMaps
<1> QED
  BY <1>1, <1>2, <1>3, <1>4

LEMMA ProcessEnds ==
    ASSUME IInv, Close \/ Exit, TypeOK'
    PROVE  IInv'
<1>1. WellFormed(disk')
  <2>1. /\ disk'.catalog = disk.catalog /\ disk'.tables = disk.tables
        /\ disk'.indexes = disk.indexes
    BY DEF Close, Exit, IInv, TypeOK, IsFiles
  <2> QED
    BY <2>1 DEF IInv, WellFormed, RowsWellFormed, RowIdsAscend, IndexesWellFormed
<1>2. CleanMarkerSound'
  <2>1. CASE Exit
    BY <2>1 DEF Exit, IInv, CleanMarkerSound
  <2>2. CASE Close
    <3>1. disk' = [disk EXCEPT !.index_files = FlushedFiles] /\ running
      BY <2>2 DEF Close
    <3>2. IndexFilesExact(disk')
      BY <3>1, FlushedDisk
    <3> QED
      BY <3>2 DEF CleanMarkerSound
  <2> QED
    BY <2>1, <2>2
<1> QED
  BY <1>1, <1>2
  DEF Close, Exit, Forget, IInv, MetadataSaved, MapsTracked, MarkerTracked, CursorsReserved,
      CachesOfTables, UniqueCacheExact, NoOrphanHandle, SnapshotSound, AllClosed, EmptyMap

LEMMA OpenSafe ==
    ASSUME IInv, Open, TypeOK'
    PROVE  IInv'
<1>1. ~indexes_clean /\ DOMAIN row_id_cursors = {} /\ DOMAIN unique_caches = {}
  BY DEF Open, IInv, MarkerTracked, CursorsReserved, CachesOfTables
<1>2. UNCHANGED <<disk, row_id_cursors, table_files, unique_caches, indexes_clean>>
      /\ ~marker' /\ ~txn_dir' /\ running'
  BY DEF Open
<1>3. WellFormed(disk') /\ NoOrphanHandle'
  BY <1>2 DEF IInv, NoOrphanHandle
<1>4. CursorsReserved' /\ CachesOfTables' /\ UniqueCacheExact'
  BY <1>1, <1>2 DEF CursorsReserved, CachesOfTables, UniqueCacheExact
<1>5. MapsTracked'
  <2>1. CASE marker
    <3>1. IndexFilesExact(disk)
      BY <2>1 DEF IInv, CleanMarkerSound
    <3>2. index_maps' = RebuiltMaps(disk) /\ dirty_indexes' = {}
      BY <2>1, <3>1, ExactFilesLoad DEF Open
    <3> QED
      BY <1>2, <3>1, <3>2, RebuiltAt DEF MapsTracked, IndexFilesExact
  <2>2. CASE ~marker
    BY <1>2, <2>2, RebuiltAt DEF Open, MapsTracked
  <2> QED
    BY <2>1, <2>2
<1>6. MarkerTracked'
  <2>1. marker' = FALSE /\ indexes_clean' = FALSE
    BY <1>1, <1>2, TypeOK' DEF Open, TypeOK
  <2> QED
    BY <2>1 DEF MarkerTracked
<1>7. MetadataSaved' /\ CleanMarkerSound' /\ SnapshotSound'
  BY <1>2 DEF Open, MetadataSaved, CleanMarkerSound, SnapshotSound
<1> QED
  BY <1>3, <1>4, <1>5, <1>6, <1>7 DEF IInv

LEMMA TransactionSafe ==
    ASSUME IInv, BeginTransaction \/ CommitTransaction \/ RollbackTransaction, TypeOK'
    PROVE  IInv'
<1>1. CASE BeginTransaction
  <2>1. /\ running /\ running' /\ txn_dir'
        /\ disk' = [disk EXCEPT !.index_files = FlushedFiles]
        /\ txn_snapshot' = disk'
        /\ dirty_indexes' = {} /\ marker' /\ indexes_clean'
        /\ UNCHANGED <<catalog, migrations, index_catalog, index_maps, row_id_cursors,
                       unique_caches>>
    BY <1>1 DEF BeginTransaction, FlushIndexes, Copied
  <2>2. /\ WellFormed(disk')
        /\ disk'.catalog = disk.catalog /\ disk'.tables = disk.tables
        /\ disk'.indexes = disk.indexes /\ disk'.migrations = disk.migrations
        /\ disk'.index_files = FlushedFiles
        /\ RebuiltMaps(disk') = index_maps
        /\ IndexFilesExact(disk')
    BY <2>1, FlushedDisk
  <2>3. MetadataSaved' /\ CleanMarkerSound' /\ SnapshotSound'
    BY <2>1, <2>2 DEF IInv, MetadataSaved, CleanMarkerSound, SnapshotSound
  <2>4. MapsTracked' /\ MarkerTracked'
    BY <2>1, <2>2, FlushedFilesExact DEF IInv, MapsTracked, MarkerTracked
  <2>5. \A t : RowsOf(t)' = RowsOf(t)
    BY <2>2 DEF RowsOf, RowsIn
  <2>6. CursorsReserved' /\ CachesOfTables' /\ UniqueCacheExact'
    BY <2>1, <2>5 DEF IInv, CursorsReserved, CachesOfTables, UniqueCacheExact
  <2>7. NoOrphanHandle'
    BY <1>1 DEF BeginTransaction, AllClosed, NoOrphanHandle
  <2> QED
    BY <2>2, <2>3, <2>4, <2>6, <2>7 DEF IInv
<1>2. CASE CommitTransaction
  BY <1>2 DEF CommitTransaction, IInv, WellFormed, RowsWellFormed, RowIdsAscend,
     IndexesWellFormed, MetadataSaved, MapsTracked, MarkerTracked, CleanMarkerSound,
     CursorsReserved, RowsOf, CachesOfTables, UniqueCacheExact, NoOrphanHandle, SnapshotSound
<1>3. CASE RollbackTransaction
  <2>1. /\ running /\ running' /\ ~txn_dir' /\ UNCHANGED <<marker, indexes_clean>>
        /\ disk' = txn_snapshot
        /\ catalog' = disk'.catalog /\ migrations' = disk'.migrations
        /\ index_catalog' = disk'.indexes
        /\ index_maps' = LoadedMaps(disk') /\ dirty_indexes' = {}
        /\ DOMAIN row_id_cursors' = {} /\ DOMAIN unique_caches' = {}
    BY <1>3 DEF RollbackTransaction, EmptyMap
  <2>2. WellFormed(disk') /\ IndexFilesExact(disk')
    BY <1>3, <2>1 DEF RollbackTransaction, IInv, SnapshotSound
  <2>3. index_maps' = RebuiltMaps(disk')
    BY <2>1, <2>2, ExactFilesLoad
  <2>4. MetadataSaved' /\ CleanMarkerSound' /\ SnapshotSound'
    BY <2>1, <2>2 DEF MetadataSaved, CleanMarkerSound, SnapshotSound
  <2>5. MapsTracked' /\ MarkerTracked'
    BY <2>1, <2>2, <2>3, RebuiltAt DEF IInv, MapsTracked, MarkerTracked, IndexFilesExact
  <2>6. CursorsReserved' /\ CachesOfTables' /\ UniqueCacheExact'
    BY <2>1 DEF CursorsReserved, CachesOfTables, UniqueCacheExact
  <2>7. NoOrphanHandle'
    BY <1>3 DEF RollbackTransaction, AllClosed, NoOrphanHandle
  <2> QED
    BY <2>2, <2>4, <2>5, <2>6, <2>7 DEF IInv
<1> QED
  BY <1>1, <1>2, <1>3

---------------------------------------------------------------------------------
(* Steps of a running process *)

\* The index maps after a call that drops some indexes and writes the maps in
\* `new`, when those are what a rebuild from the new files gives and the rows
\* under the others have not changed.
LEMMA MapsRebuilt ==
    ASSUME TypeOK, MapsTracked, MarkerTracked, running, running',
           NEW dropped, NEW new, NEW maps,
           DOMAIN maps = DOMAIN index_maps \ dropped,
           \A i \in DOMAIN maps : maps[i] = index_maps[i],
           WriteIndexMaps(maps, dirty_indexes \ dropped, new),
           DOMAIN disk'.indexes = (DOMAIN disk.indexes \ dropped) \cup DOMAIN new,
           \A i \in DOMAIN new :
              new[i] = IndexOf(RowsIn(disk'.tables, disk'.indexes[i].table), disk'.indexes[i].column),
           \A i \in DOMAIN disk'.indexes \ DOMAIN new :
              /\ disk'.indexes[i] = disk.indexes[i]
              /\ RowsIn(disk'.tables, disk.indexes[i].table) = RowsOf(disk.indexes[i].table),
           \A i \in DOMAIN disk.index_files \ dropped :
              i \in DOMAIN disk'.index_files /\ disk'.index_files[i] = disk.index_files[i]
    PROVE  MapsTracked' /\ MarkerTracked'
<1>1. /\ DOMAIN index_maps = DOMAIN disk.indexes
      /\ \A i \in DOMAIN index_maps :
            index_maps[i] = IndexOf(RowsOf(disk.indexes[i].table), disk.indexes[i].column)
      /\ dirty_indexes \subseteq DOMAIN index_maps
      /\ \A i \in DOMAIN index_maps \ dirty_indexes :
            i \in DOMAIN disk.index_files /\ disk.index_files[i] = index_maps[i]
  BY DEF MapsTracked, RebuiltMaps, RowsOf
<1>2. /\ DOMAIN index_maps' = DOMAIN maps \cup DOMAIN new
      /\ \A i \in DOMAIN new : index_maps'[i] = new[i]
      /\ \A i \in DOMAIN maps \ DOMAIN new : index_maps'[i] = maps[i]
      /\ index_maps' = [x \in DOMAIN index_maps' |-> index_maps'[x]]
      /\ dirty_indexes' = (dirty_indexes \ dropped) \cup DOMAIN new
  BY DEF WriteIndexMaps, Override
<1>3. index_maps' = RebuiltMaps(disk')
  <2>1. DOMAIN index_maps' = DOMAIN disk'.indexes
    BY <1>1, <1>2
  <2>2. ASSUME NEW i \in DOMAIN disk'.indexes
        PROVE  index_maps'[i] =
                 IndexOf(RowsIn(disk'.tables, disk'.indexes[i].table), disk'.indexes[i].column)
    <3>1. CASE i \in DOMAIN new
      BY <3>1, <1>2
    <3>2. CASE i \notin DOMAIN new
      BY <3>2, <1>1, <1>2, <2>2
    <3> QED
      BY <3>1, <3>2
  <2> QED
    BY <1>2, <2>1, <2>2 DEF RebuiltMaps
<1>4. ASSUME NEW i \in DOMAIN index_maps', i \notin dirty_indexes'
      PROVE  i \in DOMAIN disk'.index_files /\ disk'.index_files[i] = index_maps'[i]
  BY <1>1, <1>2, <1>4
<1>5. MapsTracked'
  <2>1. dirty_indexes' \subseteq DOMAIN index_maps'
    BY <1>1, <1>2
  <2> QED
    BY <1>3, <1>4, <2>1 DEF MapsTracked
<1>6. MarkerTracked'
  BY DEF TypeOK, MarkerTracked, WriteIndexMaps
<1> QED
  BY <1>5, <1>6

\* The part of a call that gives table t the rows `rows` that the indexes see:
\* indexes `dropped` go, and leave the maps `maps`; those on the table may get
\* another column.
IndexesFollow(t, rows, dropped, maps) ==
    /\ running /\ UNCHANGED running
    /\ DOMAIN maps = DOMAIN index_maps \ dropped
    /\ \A i \in DOMAIN maps : maps[i] = index_maps[i]
    /\ ReplaceRows(t, rows, index_catalog', maps, dirty_indexes \ dropped)
    /\ index_catalog = disk.indexes
    /\ DOMAIN index_catalog' = DOMAIN index_catalog \ dropped
    /\ \A i \in DOMAIN index_catalog' :
          /\ index_catalog'[i].table = index_catalog[i].table
          /\ index_catalog[i].table # t => index_catalog'[i] = index_catalog[i]
    /\ disk'.indexes = index_catalog' /\ disk'.tables = Put(disk.tables, t, rows)
    /\ \A i \in DOMAIN disk.index_files \ dropped :
          i \in DOMAIN disk'.index_files /\ disk'.index_files[i] = disk.index_files[i]

LEMMA MapsRewritten ==
    ASSUME TypeOK, MapsTracked, MarkerTracked, NEW t, NEW rows, NEW dropped, NEW maps,
           IndexesFollow(t, rows, dropped, maps)
    PROVE  MapsTracked' /\ MarkerTracked'
<1> USE DEF IndexesFollow
<1> DEFINE new == [i \in IndexesOn(index_catalog', t) |-> IndexOf(rows, index_catalog'[i].column)]
<1>1. WriteIndexMaps(maps, dirty_indexes \ dropped, new)
  BY DEF ReplaceRows
<1>2. /\ RowsIn(disk'.tables, t) = rows
      /\ \A u : u # t => RowsIn(disk'.tables, u) = RowsOf(u)
  BY DEF RowsIn, RowsOf, Put, Override
<1>3. /\ DOMAIN new = IndexesOn(index_catalog', t)
      /\ \A i \in DOMAIN new : new[i] = IndexOf(rows, index_catalog'[i].column)
  OBVIOUS
<1>4. /\ DOMAIN new \subseteq DOMAIN index_catalog'
      /\ \A i \in DOMAIN index_catalog' : i \in DOMAIN new <=> index_catalog'[i].table = t
  BY <1>3 DEF IndexesOn
<1> HIDE DEF new
<1>5. \A i \in DOMAIN new :
         new[i] = IndexOf(RowsIn(disk'.tables, disk'.indexes[i].table), disk'.indexes[i].column)
  BY <1>2, <1>3, <1>4
<1>6. \A i \in DOMAIN disk'.indexes \ DOMAIN new :
         /\ disk'.indexes[i] = disk.indexes[i]
         /\ RowsIn(disk'.tables, disk.indexes[i].table) = RowsOf(disk.indexes[i].table)
  BY <1>2, <1>4
<1>7. DOMAIN disk'.indexes = (DOMAIN disk.indexes \ dropped) \cup DOMAIN new
  BY <1>4
<1>8. /\ TypeOK /\ MapsTracked /\ MarkerTracked /\ running /\ running'
      /\ DOMAIN maps = DOMAIN index_maps \ dropped
      /\ \A i \in DOMAIN maps : maps[i] = index_maps[i]
      /\ \A i \in DOMAIN disk.index_files \ dropped :
            i \in DOMAIN disk'.index_files /\ disk'.index_files[i] = disk.index_files[i]
  OBVIOUS
<1> QED
  BY ONLY <1>1, <1>5, <1>6, <1>7, <1>8, MapsRebuilt

\* An index of the rows of a file to which one row is appended.
LEMMA IndexOfAppended ==
    ASSUME NEW rows \in Seq(Row), NEW row \in Row, NEW c
    PROVE  IndexOf(Append(rows, row), c) =
             [IndexOf(rows, c) EXCEPT ![Cell(row.data, c)] =
                 @ \cup {[id |-> row.id, pos |-> Len(rows) + 1]}]
<1> DEFINE longer == Append(rows, row)
           n == Len(rows) + 1
           there(s, v) == {j \in DOMAIN s : Cell(s[j].data, c) = v}
<1>1. /\ DOMAIN rows = 1..Len(rows) /\ DOMAIN longer = DOMAIN rows \cup {n}
      /\ n \notin DOMAIN rows /\ longer[n] = row
      /\ \A j \in DOMAIN rows : longer[j] = rows[j]
  OBVIOUS
<1>2. row.data \in Data
  BY DEF Row
<1>3. Cell(row.data, c) \in Val
  BY <1>2, CellIsVal
<1> HIDE DEF longer, n
<1>4. ASSUME NEW v
      PROVE  {LocatorOf(longer, i) : i \in there(longer, v)} =
               {LocatorOf(rows, i) : i \in there(rows, v)}
               \cup (IF Cell(row.data, c) = v THEN {LocatorOf(longer, n)} ELSE {})
  <2>1. there(longer, v) = there(rows, v) \cup (IF Cell(row.data, c) = v THEN {n} ELSE {})
    BY <1>1
  <2>2. \A i \in there(rows, v) : LocatorOf(longer, i) = LocatorOf(rows, i)
    BY <1>1 DEF LocatorOf
  <2> QED
    BY <2>1, <2>2
<1>5. LocatorOf(longer, n) = [id |-> row.id, pos |-> n]
  BY <1>1 DEF LocatorOf
<1> QED
  BY <1>3, <1>4, <1>5 DEF IndexOf, longer, n

LEMMA UniqueValuesAppended ==
    ASSUME NEW rows \in Seq(Row), NEW row \in Row, NEW c
    PROVE  UniqueValues(Append(rows, row), c) =
             UniqueValues(rows, c) \cup ({Cell(row.data, c)} \ {Null})
<1> DEFINE longer == Append(rows, row)
           n == Len(rows) + 1
<1>1. /\ DOMAIN longer = DOMAIN rows \cup {n} /\ longer[n] = row
      /\ \A j \in DOMAIN rows : longer[j] = rows[j]
  OBVIOUS
<1> HIDE DEF longer, n
<1>2. {Cell(longer[i].data, c) : i \in DOMAIN longer} =
        {Cell(rows[i].data, c) : i \in DOMAIN rows} \cup {Cell(row.data, c)}
  BY <1>1
<1> QED
  BY <1>2 DEF UniqueValues, longer

\* What the invariant says of one table of a running process.
LEMMA TableRows ==
    ASSUME IInv, running, NEW t \in DOMAIN catalog
    PROVE  /\ t \in Tables /\ catalog[t] \in Schema
           /\ RowsOf(t) \in Seq(Row) /\ t \in DOMAIN disk.tables /\ RowsOf(t) = disk.tables[t]
           /\ \A i \in DOMAIN RowsOf(t) :
                 /\ RowsOf(t)[i].id \in Nat /\ RowsOf(t)[i].data \in Data
                 /\ DOMAIN RowsOf(t)[i].data = catalog[t].columns
                 /\ RowsOf(t)[i].id < catalog[t].next_row_id
                 /\ \A j \in DOMAIN RowsOf(t) : i < j => RowsOf(t)[i].id < RowsOf(t)[j].id
<1>1. t \in Tables /\ catalog[t] \in Schema
  BY DEF IInv, TypeOK, IsMap
<1>2. /\ RowsOf(t) \in Seq(Row) /\ t \in DOMAIN disk.tables
      /\ RowsOf(t) = disk.tables[t] /\ RowsIn(disk.tables, t) = RowsOf(t)
      /\ catalog = disk.catalog
  BY Running, TypedParts DEF IInv, RowsOf
<1>3. \A i \in DOMAIN RowsOf(t) : RowsOf(t)[i] \in Row
  BY <1>2
<1>4. \A i \in DOMAIN RowsOf(t) : RowsOf(t)[i].id \in Nat /\ RowsOf(t)[i].data \in Data
  BY <1>3 DEF Row
<1> QED
  BY <1>1, <1>2, <1>4 DEF IInv, WellFormed, RowsWellFormed, RowIdsAscend

\* The files after a call that gives one table the rows `rows`.
LEMMA OneTableWritten ==
    ASSUME IInv, running, NEW t \in DOMAIN catalog, NEW rows,
           disk'.tables = Put(disk.tables, t, rows),
           DOMAIN disk'.catalog = DOMAIN catalog,
           \A u \in DOMAIN catalog \ {t} : disk'.catalog[u] = catalog[u],
           \A i \in DOMAIN rows :
              /\ DOMAIN rows[i].data = disk'.catalog[t].columns
              /\ rows[i].id < disk'.catalog[t].next_row_id
              /\ \A j \in DOMAIN rows : i < j => rows[i].id < rows[j].id
    PROVE  /\ RowsWellFormed(disk') /\ RowIdsAscend(disk')
           /\ RowsIn(disk'.tables, t) = rows
           /\ RowsOf(t)' = rows
           /\ \A u : u # t => /\ RowsIn(disk'.tables, u) = RowsOf(u)
                              /\ RowsOf(u)' = RowsOf(u)
<1>1. DOMAIN disk.tables = DOMAIN catalog /\ catalog = disk.catalog
  BY Running
<1>2. /\ DOMAIN disk'.tables = DOMAIN catalog
      /\ disk'.tables[t] = rows
      /\ \A u \in DOMAIN catalog : u # t => disk'.tables[u] = disk.tables[u]
  BY <1>1 DEF Put, Override
<1>3. /\ RowsIn(disk'.tables, t) = rows
      /\ \A u : u # t => RowsIn(disk'.tables, u) = RowsOf(u)
  BY <1>1, <1>2 DEF RowsIn, RowsOf
<1>4. RowsWellFormed(disk')
  BY <1>1, <1>2 DEF IInv, WellFormed, RowsWellFormed
<1>5. RowIdsAscend(disk')
  <2> SUFFICES ASSUME NEW u \in DOMAIN disk'.catalog, NEW i \in DOMAIN RowsIn(disk'.tables, u)
               PROVE  /\ disk'.tables[u][i].id < disk'.catalog[u].next_row_id
                      /\ \A j \in DOMAIN disk'.tables[u] :
                            i < j => disk'.tables[u][i].id < disk'.tables[u][j].id
    BY DEF RowIdsAscend
  <2>1. CASE u = t
    BY <2>1, <1>2, <1>3
  <2>2. CASE u # t
    BY <2>2, <1>1, <1>2, <1>3 DEF IInv, WellFormed, RowIdsAscend, RowsOf
  <2> QED
    BY <2>1, <2>2
<1> QED
  BY <1>3, <1>4, <1>5 DEF RowsOf

---------------------------------------------------------------------------------
(* INSERT *)

\* The id handed out is above those in use, and what is left of the batch is
\* above it.
LEMMA Allocated ==
    ASSUME IInv, running, NEW t \in DOMAIN catalog, AllocateRowId(t)
    PROVE  /\ DOMAIN catalog' = DOMAIN catalog
           /\ \A u \in DOMAIN catalog : catalog'[u].columns = catalog[u].columns
           /\ \A u \in DOMAIN catalog \ {t} : catalog'[u] = catalog[u]
           /\ \A i \in DOMAIN RowsOf(t) : RowsOf(t)[i].id < NextRowId(t)
           /\ \A i \in DOMAIN RowsOf(t) : RowsOf(t)[i].id < catalog'[t].next_row_id
           /\ NextRowId(t) \in Nat /\ NextRowId(t) < catalog'[t].next_row_id
           /\ DOMAIN row_id_cursors' = DOMAIN row_id_cursors \cup {t}
           /\ row_id_cursors'[t].next = NextRowId(t) + 1
           /\ row_id_cursors'[t].limit = catalog'[t].next_row_id
           /\ \A u \in DOMAIN row_id_cursors \ {t} : row_id_cursors'[u] = row_id_cursors[u]
<1>1. /\ catalog[t] \in Schema /\ catalog[t].next_row_id \in Nat
      /\ RowIdBatch \in Nat /\ RowIdBatch > 0
  BY BatchAssumption, TableRows DEF Schema
<1>2. \A i \in DOMAIN RowsOf(t) : RowsOf(t)[i].id \in Nat /\ RowsOf(t)[i].id < catalog[t].next_row_id
  BY TableRows
<1>3. CASE HasCursor(t)
  <2>1. t \in DOMAIN row_id_cursors /\ row_id_cursors[t] \in Cursor
    BY <1>3 DEF HasCursor, IInv, TypeOK, IsMap
  <2>2. /\ row_id_cursors[t].next \in Nat /\ row_id_cursors[t].limit \in Nat
        /\ row_id_cursors[t].next < row_id_cursors[t].limit
        /\ row_id_cursors[t].limit = catalog[t].next_row_id
        /\ \A i \in DOMAIN RowsOf(t) : RowsOf(t)[i].id < row_id_cursors[t].next
    BY <1>3, <2>1 DEF HasCursor, Cursor, IInv, CursorsReserved
  <2> DEFINE s == [row_id_cursors[t] EXCEPT !.next = @ + 1]
  <2>3. s.next = row_id_cursors[t].next + 1 /\ s.limit = row_id_cursors[t].limit
    BY <2>1 DEF Cursor
  <2>4. row_id_cursors' = [row_id_cursors EXCEPT ![t] = s] /\ UNCHANGED catalog
    BY <1>3 DEF AllocateRowId
  <2> HIDE DEF s
  <2>5. NextRowId(t) = row_id_cursors[t].next
    BY <1>3 DEF NextRowId
  <2> QED
    BY <1>2, <2>1, <2>2, <2>3, <2>4, <2>5
<1>4. CASE ~HasCursor(t)
  <2> DEFINE s == [catalog[t] EXCEPT !.next_row_id = @ + RowIdBatch]
  <2>1. /\ catalog' = [catalog EXCEPT ![t] = s]
        /\ row_id_cursors' = Put(row_id_cursors, t,
               [next |-> catalog[t].next_row_id + 1, limit |-> catalog'[t].next_row_id])
    BY <1>4 DEF AllocateRowId
  <2>2. s.next_row_id = catalog[t].next_row_id + RowIdBatch /\ s.columns = catalog[t].columns
    BY <1>1 DEF Schema
  <2> HIDE DEF s
  <2>3. /\ DOMAIN catalog' = DOMAIN catalog /\ catalog'[t] = s
        /\ \A u \in DOMAIN catalog \ {t} : catalog'[u] = catalog[u]
    BY <2>1
  <2>4. /\ DOMAIN row_id_cursors' = DOMAIN row_id_cursors \cup {t}
        /\ row_id_cursors'[t] = [next |-> catalog[t].next_row_id + 1, limit |-> s.next_row_id]
        /\ \A u \in DOMAIN row_id_cursors \ {t} : row_id_cursors'[u] = row_id_cursors[u]
    BY <2>1, <2>3 DEF Put, Override
  <2>5. NextRowId(t) = catalog[t].next_row_id
    BY <1>4 DEF NextRowId
  <2>6. \A i \in DOMAIN RowsOf(t) : RowsOf(t)[i].id < s.next_row_id
    BY <1>1, <1>2, <2>2
  <2> QED
    BY <1>1, <1>2, <2>2, <2>3, <2>4, <2>5, <2>6
<1> QED
  BY <1>3, <1>4

LEMMA InsertSafe ==
    ASSUME IInv, NEW t \in Tables, t \in DOMAIN catalog,
           NEW data \in [catalog[t].columns -> Val], Insert(t, data), TypeOK'
    PROVE  IInv'
<1> DEFINE row == [id |-> NextRowId(t), data |-> data]
           locator == [id |-> NextRowId(t), pos |-> Len(RowsOf(t)) + 1]
           rows == Append(RowsOf(t), row)
           new == ExtendedMaps(t, data, locator)
<1>1. /\ running /\ running' /\ AllocateRowId(t)
      /\ UNCHANGED <<txn_snapshot, migrations, index_catalog, txn_dir, running>>
      /\ WriteIndexMaps(index_maps, dirty_indexes, new)
      /\ unique_caches' = NoteUniqueValues(t, data)
  BY DEF Insert
<1>2. /\ DOMAIN catalog' = DOMAIN catalog
      /\ \A u \in DOMAIN catalog : catalog'[u].columns = catalog[u].columns
      /\ \A u \in DOMAIN catalog \ {t} : catalog'[u] = catalog[u]
      /\ \A i \in DOMAIN RowsOf(t) : RowsOf(t)[i].id < NextRowId(t)
      /\ \A i \in DOMAIN RowsOf(t) : RowsOf(t)[i].id < catalog'[t].next_row_id
      /\ NextRowId(t) \in Nat /\ NextRowId(t) < catalog'[t].next_row_id
      /\ DOMAIN row_id_cursors' = DOMAIN row_id_cursors \cup {t}
      /\ row_id_cursors'[t].next = NextRowId(t) + 1
      /\ row_id_cursors'[t].limit = catalog'[t].next_row_id
      /\ \A u \in DOMAIN row_id_cursors \ {t} : row_id_cursors'[u] = row_id_cursors[u]
  BY <1>1, Allocated
<1>3. /\ RowsOf(t) \in Seq(Row) /\ t \in DOMAIN disk.tables /\ RowsOf(t) = disk.tables[t]
      /\ \A i \in DOMAIN RowsOf(t) :
            /\ DOMAIN RowsOf(t)[i].data = catalog[t].columns
            /\ \A j \in DOMAIN RowsOf(t) : i < j => RowsOf(t)[i].id < RowsOf(t)[j].id
  BY <1>1, TableRows
<1>4. row \in Row
  <2>1. catalog[t].columns \in SUBSET Columns
    BY <1>1, TableRows DEF Schema
  <2>2. data \in Data
    BY <2>1 DEF Data, Maps
  <2> QED
    BY <1>2, <2>2 DEF Row
<1>5. /\ row.id = NextRowId(t) /\ row.data = data /\ DOMAIN data = catalog'[t].columns
      /\ catalog'[t].next_row_id \in Nat
  BY <1>2, <1>4 DEF TypeOK, IsMap, Schema
<1>6. /\ disk'.catalog = catalog' /\ disk'.tables = Put(disk.tables, t, rows)
      /\ disk'.indexes = disk.indexes /\ disk'.migrations = disk.migrations
      /\ disk'.index_files = disk.index_files
  <2>1. table_files[t] # "orphan"
    BY DEF IInv, NoOrphanHandle
  <2> QED
    BY <2>1 DEF Insert, IInv, TypeOK, IsFiles
<1> HIDE DEF row, locator
<1>7. /\ DOMAIN rows = DOMAIN RowsOf(t) \cup {Len(RowsOf(t)) + 1}
      /\ DOMAIN RowsOf(t) = 1..Len(RowsOf(t))
      /\ rows[Len(RowsOf(t)) + 1] = row
      /\ \A i \in DOMAIN RowsOf(t) : rows[i] = RowsOf(t)[i]
      /\ rows \in Seq(Row)
  BY <1>3, <1>4
<1> HIDE DEF rows, new
<1>8. \A i \in DOMAIN rows :
         /\ DOMAIN rows[i].data = disk'.catalog[t].columns
         /\ rows[i].id < disk'.catalog[t].next_row_id
         /\ \A j \in DOMAIN rows : i < j => rows[i].id < rows[j].id
  <2>1. \A i \in DOMAIN RowsOf(t) : i \in Nat /\ i < Len(RowsOf(t)) + 1
    BY <1>7, <1>3
  <2>2. ASSUME NEW i \in DOMAIN RowsOf(t)
        PROVE  /\ DOMAIN rows[i].data = disk'.catalog[t].columns
               /\ rows[i].id < disk'.catalog[t].next_row_id
               /\ \A j \in DOMAIN rows : i < j => rows[i].id < rows[j].id
    BY <1>2, <1>3, <1>5, <1>6, <1>7, <2>1
  <2>3. ASSUME NEW i, i = Len(RowsOf(t)) + 1
        PROVE  /\ DOMAIN rows[i].data = disk'.catalog[t].columns
               /\ rows[i].id < disk'.catalog[t].next_row_id
               /\ \A j \in DOMAIN rows : ~(i < j)
    BY <1>2, <1>3, <1>5, <1>6, <1>7, <2>1, <2>3
  <2> QED
    BY <1>7, <2>2, <2>3
<1>9. /\ RowsWellFormed(disk') /\ RowIdsAscend(disk')
      /\ RowsIn(disk'.tables, t) = rows
      /\ RowsOf(t)' = rows
      /\ \A u : u # t => RowsIn(disk'.tables, u) = RowsOf(u) /\ RowsOf(u)' = RowsOf(u)
  BY <1>1, <1>2, <1>6, <1>8, OneTableWritten
<1>10. IndexesWellFormed(disk')
  BY <1>1, <1>2, <1>6, Running DEF IInv, WellFormed, IndexesWellFormed
<1>11. MetadataSaved'
  BY <1>1, <1>6 DEF IInv, MetadataSaved
<1>12. MapsTracked' /\ MarkerTracked'
  <2>1. /\ index_catalog = disk.indexes /\ DOMAIN index_maps = DOMAIN index_catalog
        /\ \A i \in DOMAIN index_catalog : index_maps[i] =
              IndexOf(RowsOf(index_catalog[i].table), index_catalog[i].column)
    BY <1>1, Running
  <2>2. DOMAIN new = IndexesOn(index_catalog, t)
    BY DEF new, ExtendedMaps
  <2>3. ASSUME NEW i \in DOMAIN new
        PROVE  new[i] = IndexOf(RowsIn(disk'.tables, disk'.indexes[i].table), disk'.indexes[i].column)
    <3>1. i \in DOMAIN index_catalog /\ index_catalog[i].table = t
      BY <2>2, <2>3 DEF IndexesOn
    <3>2. new[i] = [IndexOf(RowsOf(t), index_catalog[i].column)
                      EXCEPT ![Cell(data, index_catalog[i].column)] = @ \cup {locator}]
      BY <2>1, <2>2, <3>1 DEF new, ExtendedMaps
    <3>3. locator = [id |-> row.id, pos |-> Len(RowsOf(t)) + 1]
      BY <1>5 DEF locator
    <3>4. new[i] = IndexOf(rows, index_catalog[i].column)
      BY <1>3, <1>4, <1>5, <3>2, <3>3, IndexOfAppended DEF rows
    <3> QED
      BY <1>6, <1>9, <2>1, <3>1, <3>4
  <2>4. \A i \in DOMAIN disk'.indexes \ DOMAIN new :
           /\ disk'.indexes[i] = disk.indexes[i]
           /\ RowsIn(disk'.tables, disk.indexes[i].table) = RowsOf(disk.indexes[i].table)
    BY <1>6, <1>9, <2>1, <2>2 DEF IndexesOn
  <2>5. DOMAIN disk'.indexes = (DOMAIN disk.indexes \ {}) \cup DOMAIN new
    BY <1>6, <2>1, <2>2 DEF IndexesOn
  <2>6. dirty_indexes \ {} = dirty_indexes
    OBVIOUS
  <2> QED
    BY <1>1, <1>6, <2>3, <2>4, <2>5, <2>6, InvTracks, MapsRebuilt
<1>13. CursorsReserved'
  <2> SUFFICES ASSUME NEW u \in DOMAIN row_id_cursors'
               PROVE  /\ u \in DOMAIN catalog'
                      /\ row_id_cursors'[u].next <= row_id_cursors'[u].limit
                      /\ row_id_cursors'[u].limit = catalog'[u].next_row_id
                      /\ \A i \in DOMAIN RowsOf(u)' : RowsOf(u)'[i].id < row_id_cursors'[u].next
    BY <1>1 DEF CursorsReserved
  <2>1. CASE u = t
    <3>1. \A i \in DOMAIN RowsOf(t) : RowsOf(t)[i].id \in Nat
      BY <1>1, TableRows
    <3>2. \A i \in DOMAIN rows : rows[i].id < NextRowId(t) + 1
      BY <1>2, <1>5, <1>7, <3>1
    <3> QED
      BY <1>2, <1>5, <1>9, <2>1, <3>2
  <2>2. CASE u # t
    BY <1>2, <1>9, <2>2 DEF IInv, CursorsReserved
  <2> QED
    BY <2>1, <2>2
<1>14. CachesOfTables'
  BY <1>1, <1>2 DEF IInv, CachesOfTables, NoteUniqueValues
<1>15. UniqueCacheExact'
  <2> SUFFICES ASSUME NEW u \in DOMAIN unique_caches', NEW c \in DOMAIN unique_caches'[u]
               PROVE  unique_caches'[u][c] = UniqueValues(RowsOf(u)', c)
    BY DEF UniqueCacheExact
  <2>1. u \in DOMAIN unique_caches /\ c \in DOMAIN unique_caches[u]
    BY <1>1 DEF NoteUniqueValues
  <2>2. unique_caches[u][c] = UniqueValues(RowsOf(u), c)
    BY <2>1 DEF IInv, UniqueCacheExact
  <2>3. CASE u = t
    <3>1. unique_caches'[u][c] = unique_caches[u][c] \cup ({Cell(data, c)} \ {Null})
      BY <1>1, <2>1, <2>3 DEF NoteUniqueValues
    <3>2. UniqueValues(rows, c) = UniqueValues(RowsOf(t), c) \cup ({Cell(data, c)} \ {Null})
      BY <1>3, <1>4, <1>5, UniqueValuesAppended DEF rows
    <3> QED
      BY <1>9, <2>2, <2>3, <3>1, <3>2
  <2>4. CASE u # t
    BY <1>1, <1>9, <2>1, <2>2, <2>4 DEF NoteUniqueValues
  <2> QED
    BY <2>3, <2>4
<1>16. NoOrphanHandle'
  BY DEF Insert, IInv, NoOrphanHandle
<1>17. SnapshotSound' /\ CleanMarkerSound'
  BY <1>1, <1>12, SnapshotKept, CleanMarkerWhileRunning
<1> QED
  BY <1>9, <1>10, <1>11, <1>12, <1>13, <1>14, <1>15, <1>16, <1>17 DEF IInv, WellFormed

---------------------------------------------------------------------------------
(* Calls that write no index map *)

\* The index maps after a call that drops some indexes, or none.
LEMMA MapsDropped ==
    ASSUME MapsTracked, MarkerTracked, TypeOK', running, running', NEW dropped,
           DOMAIN index_maps' = DOMAIN index_maps \ dropped,
           \A i \in DOMAIN index_maps' : index_maps'[i] = index_maps[i],
           dirty_indexes' = dirty_indexes \ dropped,
           UNCHANGED <<marker, indexes_clean>>,
           DOMAIN disk'.indexes = DOMAIN disk.indexes \ dropped,
           \A i \in DOMAIN disk'.indexes :
              /\ disk'.indexes[i] = disk.indexes[i]
              /\ RowsIn(disk'.tables, disk.indexes[i].table) = RowsOf(disk.indexes[i].table),
           \A i \in DOMAIN disk.index_files \ dropped :
              i \in DOMAIN disk'.index_files /\ disk'.index_files[i] = disk.index_files[i]
    PROVE  MapsTracked' /\ MarkerTracked'
<1>1. /\ DOMAIN index_maps = DOMAIN disk.indexes
      /\ \A i \in DOMAIN index_maps :
            index_maps[i] = IndexOf(RowsOf(disk.indexes[i].table), disk.indexes[i].column)
      /\ dirty_indexes \subseteq DOMAIN index_maps
      /\ \A i \in DOMAIN index_maps \ dirty_indexes :
            i \in DOMAIN disk.index_files /\ disk.index_files[i] = index_maps[i]
  BY DEF MapsTracked, RebuiltMaps, RowsOf
<1>2. index_maps' = [i \in DOMAIN index_maps' |-> index_maps'[i]]
  BY DEF TypeOK, IsMap
<1>3. index_maps' = RebuiltMaps(disk')
  BY <1>1, <1>2 DEF RebuiltMaps
<1>4. MapsTracked'
  BY <1>1, <1>3 DEF MapsTracked
<1> QED
  BY <1>4 DEF MarkerTracked

\* The caches and cursors after a call that forgets some of them and changes
\* no row of the others.
LEMMA CachesKept ==
    ASSUME IInv, running, running', NEW kept,
           kept \subseteq DOMAIN catalog \cap DOMAIN catalog',
           \A u \in kept : catalog'[u] = catalog[u] /\ RowsOf(u)' = RowsOf(u),
           DOMAIN row_id_cursors' \subseteq DOMAIN row_id_cursors \cap kept,
           \A u \in DOMAIN row_id_cursors' : row_id_cursors'[u] = row_id_cursors[u],
           DOMAIN unique_caches' \subseteq DOMAIN unique_caches \cap kept,
           \A u \in DOMAIN unique_caches' : unique_caches'[u] = unique_caches[u]
    PROVE  CursorsReserved' /\ CachesOfTables' /\ UniqueCacheExact'
<1>1. CursorsReserved'
  BY DEF IInv, CursorsReserved
<1>2. CachesOfTables'
  BY DEF IInv, CachesOfTables
<1>3. UniqueCacheExact'
  BY DEF IInv, UniqueCacheExact
<1> QED
  BY <1>1, <1>2, <1>3

LEMMA CacheSafe ==
    ASSUME IInv, NEW t \in Tables, NEW c \in Columns, CacheUniqueValues(t, c), TypeOK'
    PROVE  IInv'
<1> DEFINE cache == Put(CachedColumns(t), c, UniqueValues(RowsOf(t), c))
<1>1. /\ running /\ t \in DOMAIN catalog /\ c \in catalog[t].columns
      /\ unique_caches' = Put(unique_caches, t, cache)
      /\ UNCHANGED <<disk, marker, txn_snapshot, catalog, migrations, index_catalog, index_maps,
                     row_id_cursors, table_files, dirty_indexes, indexes_clean, txn_dir, running>>
  BY DEF CacheUniqueValues
<1>2. /\ DOMAIN cache = DOMAIN CachedColumns(t) \cup {c}
      /\ cache[c] = UniqueValues(RowsOf(t), c)
      /\ \A d \in DOMAIN CachedColumns(t) : d # c => cache[d] = CachedColumns(t)[d]
  BY DEF Put, Override
<1>3. \A d \in DOMAIN CachedColumns(t) :
         CachedColumns(t)[d] = UniqueValues(RowsOf(t), d) /\ d \in catalog[t].columns
  BY DEF CachedColumns, EmptyMap, IInv, UniqueCacheExact, CachesOfTables
<1> HIDE DEF cache
<1>4. /\ DOMAIN unique_caches' = DOMAIN unique_caches \cup {t}
      /\ unique_caches'[t] = cache
      /\ \A u \in DOMAIN unique_caches : u # t => unique_caches'[u] = unique_caches[u]
  BY <1>1 DEF Put, Override
<1>5. \A u : RowsOf(u)' = RowsOf(u)
  BY <1>1 DEF RowsOf
<1>6. UniqueCacheExact'
  BY <1>2, <1>3, <1>4, <1>5 DEF IInv, UniqueCacheExact
<1>7. CachesOfTables'
  BY <1>1, <1>2, <1>3, <1>4 DEF IInv, CachesOfTables
<1>8. CursorsReserved'
  BY <1>1, <1>5 DEF IInv, CursorsReserved
<1>9. WellFormed(disk') /\ MetadataSaved' /\ MapsTracked' /\ MarkerTracked' /\ CleanMarkerSound'
  BY <1>1 DEF IInv, MetadataSaved, MapsTracked, MarkerTracked, CleanMarkerSound
<1>10. NoOrphanHandle' /\ SnapshotSound'
  BY <1>1 DEF IInv, NoOrphanHandle, SnapshotSound
<1> QED
  BY <1>6, <1>7, <1>8, <1>9, <1>10 DEF IInv

LEMMA UpdateFailsSafe ==
    ASSUME IInv, NEW t \in Tables, UpdateFails(t), TypeOK'
    PROVE  IInv'
<1>1. /\ running /\ running' /\ unique_caches' = Without(unique_caches, {t})
      /\ UNCHANGED <<marker, txn_snapshot, catalog, migrations, index_catalog, index_maps,
                     row_id_cursors, dirty_indexes, indexes_clean, txn_dir, running>>
      /\ disk'.catalog = disk.catalog /\ disk'.tables = disk.tables
      /\ disk'.indexes = disk.indexes /\ disk'.migrations = disk.migrations
      /\ disk'.index_files = disk.index_files
  BY DEF UpdateFails, IInv, TypeOK, IsFiles
<1>2. WellFormed(disk')
  BY <1>1 DEF IInv, WellFormed, RowsWellFormed, RowIdsAscend, IndexesWellFormed
<1>3. \A u : RowsOf(u)' = RowsOf(u) /\ RowsIn(disk'.tables, u) = RowsOf(u)
  BY <1>1 DEF RowsOf
<1>4. MetadataSaved' /\ SnapshotSound'
  BY <1>1, SnapshotKept DEF IInv, MetadataSaved
<1>5. MapsTracked' /\ MarkerTracked'
  BY <1>1 DEF IInv, MapsTracked, MarkerTracked, RebuiltMaps
<1>6. CursorsReserved' /\ CachesOfTables' /\ UniqueCacheExact'
  <2>1. /\ DOMAIN unique_caches' \subseteq DOMAIN unique_caches
        /\ \A u \in DOMAIN unique_caches' : unique_caches'[u] = unique_caches[u]
    BY <1>1 DEF Without, Restrict
  <2>2. DOMAIN row_id_cursors \subseteq DOMAIN catalog /\ DOMAIN unique_caches \subseteq DOMAIN catalog
    BY DEF IInv, CursorsReserved, CachesOfTables
  <2> QED
    BY <1>1, <1>3, <2>1, <2>2, CachesKept
<1>7. NoOrphanHandle'
  BY DEF UpdateFails, CloseTableFile, IInv, NoOrphanHandle
<1> QED
  BY <1>2, <1>4, <1>5, <1>6, <1>7, <1>1, CleanMarkerWhileRunning DEF IInv

LEMMA FileReplaced ==
    ASSUME IInv, NEW t \in Tables,
           \/ table_files' = CloseTableFile(table_files, t)
           \/ table_files' = Replaced(CloseTableFile(table_files, t), t)
    PROVE  NoOrphanHandle'
  BY DEF IInv, TypeOK, NoOrphanHandle, CloseTableFile, Replaced

LEMMA CreateTableSafe ==
    ASSUME IInv, NEW t \in Tables, NEW columns \in SUBSET Columns, CreateTable(t, columns), TypeOK'
    PROVE  IInv'
<1>1. /\ running /\ running' /\ t \notin DOMAIN catalog
      /\ catalog' = Put(catalog, t, [columns |-> columns, next_row_id |-> 0])
      /\ UNCHANGED <<marker, txn_snapshot, index_catalog, index_maps, row_id_cursors,
                     unique_caches, dirty_indexes, indexes_clean, txn_dir, running>>
      /\ disk'.catalog = catalog' /\ disk'.migrations = migrations'
      /\ disk'.indexes = disk.indexes /\ disk'.index_files = disk.index_files
      /\ disk'.tables = Put(disk.tables, t, <<>>)
  BY DEF CreateTable, IInv, TypeOK, IsFiles
<1>2. DOMAIN disk.tables = DOMAIN catalog /\ catalog = disk.catalog /\ index_catalog = disk.indexes
  BY <1>1, Running
<1>3. /\ DOMAIN catalog' = DOMAIN catalog \cup {t}
      /\ \A u \in DOMAIN catalog : catalog'[u] = catalog[u]
      /\ DOMAIN disk'.tables = DOMAIN catalog \cup {t}
      /\ disk'.tables[t] = <<>>
      /\ \A u \in DOMAIN catalog : disk'.tables[u] = disk.tables[u]
  BY <1>1, <1>2 DEF Put, Override
<1>4. \A u : RowsIn(disk'.tables, u) = RowsOf(u) /\ RowsOf(u)' = RowsOf(u)
  BY <1>1, <1>2, <1>3 DEF RowsOf, RowsIn
<1>5. WellFormed(disk')
  <2>1. RowsWellFormed(disk')
    BY <1>1, <1>2, <1>3 DEF IInv, WellFormed, RowsWellFormed
  <2>2. RowIdsAscend(disk')
    <3> SUFFICES ASSUME NEW u \in DOMAIN disk'.catalog, NEW i \in DOMAIN RowsIn(disk'.tables, u)
                 PROVE  /\ disk'.tables[u][i].id < disk'.catalog[u].next_row_id
                        /\ \A j \in DOMAIN disk'.tables[u] :
                              i < j => disk'.tables[u][i].id < disk'.tables[u][j].id
      BY DEF RowIdsAscend
    <3>1. u # t
      BY <1>3 DEF RowsIn
    <3> QED
      BY <1>1, <1>2, <1>3, <1>4, <3>1 DEF IInv, WellFormed, RowIdsAscend, RowsOf
  <2>3. IndexesWellFormed(disk')
    BY <1>1, <1>2, <1>3 DEF IInv, WellFormed, IndexesWellFormed
  <2> QED
    BY <2>1, <2>2, <2>3 DEF WellFormed
<1>6. MetadataSaved' /\ SnapshotSound' /\ NoOrphanHandle'
  BY <1>1, <1>2, SnapshotKept, FileReplaced DEF MetadataSaved, CreateTable
<1>7. MapsTracked' /\ MarkerTracked'
  <2>1. dirty_indexes' = dirty_indexes \ {} /\ DOMAIN index_maps = DOMAIN index_maps \ {}
    BY <1>1
  <2> QED
    BY <1>1, <1>4, <2>1, InvTracks, MapsDropped
<1>8. CursorsReserved' /\ CachesOfTables' /\ UniqueCacheExact'
  <2>1. DOMAIN row_id_cursors \subseteq DOMAIN catalog /\ DOMAIN unique_caches \subseteq DOMAIN catalog
    BY DEF IInv, CursorsReserved, CachesOfTables
  <2> QED
    BY <1>1, <1>3, <1>4, <2>1, CachesKept
<1> QED
  BY <1>1, <1>5, <1>6, <1>7, <1>8, CleanMarkerWhileRunning DEF IInv

LEMMA DropTableSafe ==
    ASSUME IInv, NEW t \in Tables, DropTable(t), TypeOK'
    PROVE  IInv'
<1> DEFINE dropped == IndexesOn(index_catalog, t)
<1>1. /\ running /\ running' /\ t \in DOMAIN catalog
      /\ catalog' = Without(catalog, {t})
      /\ index_catalog' = Without(index_catalog, dropped)
      /\ index_maps' = Without(index_maps, dropped)
      /\ dirty_indexes' = dirty_indexes \ dropped
      /\ unique_caches' = Without(unique_caches, {t})
      /\ row_id_cursors' = Without(row_id_cursors, {t})
      /\ UNCHANGED <<marker, txn_snapshot, indexes_clean, txn_dir, running>>
      /\ disk'.catalog = catalog' /\ disk'.migrations = migrations'
      /\ disk'.indexes = index_catalog'
      /\ disk'.index_files = Without(disk.index_files, dropped)
      /\ disk'.tables = Without(disk.tables, {t})
  BY DEF DropTable, IInv, TypeOK, IsFiles
<1>2. DOMAIN disk.tables = DOMAIN catalog /\ catalog = disk.catalog /\ index_catalog = disk.indexes
  BY <1>1, Running
<1>3. \A i \in DOMAIN index_catalog : i \in dropped <=> index_catalog[i].table = t
  BY DEF IndexesOn
<1> HIDE DEF dropped
<1>4. /\ DOMAIN catalog' = DOMAIN catalog \ {t}
      /\ \A u \in DOMAIN catalog' : catalog'[u] = catalog[u]
      /\ DOMAIN disk'.tables = DOMAIN catalog \ {t}
      /\ \A u \in DOMAIN catalog' : disk'.tables[u] = disk.tables[u]
      /\ DOMAIN index_catalog' = DOMAIN index_catalog \ dropped
      /\ \A i \in DOMAIN index_catalog' : index_catalog'[i] = index_catalog[i]
  BY <1>1, <1>2 DEF Without, Restrict
<1>5. \A u : u # t => RowsIn(disk'.tables, u) = RowsOf(u) /\ RowsOf(u)' = RowsOf(u)
  BY <1>1, <1>2, <1>4 DEF RowsOf, RowsIn
<1>6. WellFormed(disk')
  <2>1. RowsWellFormed(disk')
    <3>1. RowsWellFormed(disk)
      BY DEF IInv, WellFormed
    <3>2. /\ disk'.catalog = catalog'
          /\ DOMAIN disk'.tables = DOMAIN disk'.catalog
          /\ \A u \in DOMAIN disk'.catalog :
                /\ u \in DOMAIN disk.tables
                /\ disk'.catalog[u] = disk.catalog[u] /\ disk'.tables[u] = disk.tables[u]
      BY <1>1, <1>2, <1>4
    <3> QED
      BY <3>1, <3>2 DEF RowsWellFormed
  <2>2. RowIdsAscend(disk')
    BY <1>1, <1>2, <1>4, <1>5 DEF IInv, WellFormed, RowIdsAscend, RowsOf
  <2>3. IndexesWellFormed(disk')
    <3>1. IndexesWellFormed(disk)
      BY DEF IInv, WellFormed
    <3>2. /\ disk'.indexes = index_catalog' /\ disk'.catalog = catalog'
          /\ DOMAIN index_catalog' \subseteq DOMAIN disk.indexes
          /\ \A j \in DOMAIN index_catalog' :
                index_catalog'[j] = disk.indexes[j] /\ disk.indexes[j].table # t
          /\ DOMAIN catalog' = DOMAIN disk.catalog \ {t}
          /\ \A u \in DOMAIN catalog' : catalog'[u] = disk.catalog[u]
      BY <1>1, <1>2, <1>3, <1>4
    <3> QED
      BY <3>1, <3>2 DEF IndexesWellFormed
  <2> QED
    BY <2>1, <2>2, <2>3 DEF WellFormed
<1>7. MetadataSaved' /\ SnapshotSound' /\ NoOrphanHandle'
  BY <1>1, SnapshotKept, FileReplaced DEF MetadataSaved, DropTable
<1>8. MapsTracked' /\ MarkerTracked'
  <2>1. /\ DOMAIN index_maps' = DOMAIN index_maps \ dropped
        /\ \A i \in DOMAIN index_maps' : index_maps'[i] = index_maps[i]
        /\ \A i \in DOMAIN disk.index_files \ dropped :
              i \in DOMAIN disk'.index_files /\ disk'.index_files[i] = disk.index_files[i]
    BY <1>1 DEF Without, Restrict
  <2> QED
    BY <1>1, <1>2, <1>3, <1>4, <1>5, <2>1, InvTracks, MapsDropped
<1>9. CursorsReserved' /\ CachesOfTables' /\ UniqueCacheExact'
  <2>1. DOMAIN row_id_cursors \subseteq DOMAIN catalog /\ DOMAIN unique_caches \subseteq DOMAIN catalog
    BY DEF IInv, CursorsReserved, CachesOfTables
  <2>2. /\ DOMAIN row_id_cursors' = DOMAIN row_id_cursors \ {t}
        /\ \A u \in DOMAIN row_id_cursors' : row_id_cursors'[u] = row_id_cursors[u]
        /\ DOMAIN unique_caches' = DOMAIN unique_caches \ {t}
        /\ \A u \in DOMAIN unique_caches' : unique_caches'[u] = unique_caches[u]
    BY <1>1 DEF Without, Restrict
  <2> QED
    BY <1>1, <1>4, <1>5, <2>1, <2>2, CachesKept
<1> QED
  BY <1>1, <1>6, <1>7, <1>8, <1>9, CleanMarkerWhileRunning DEF IInv

LEMMA DropIndexSafe ==
    ASSUME IInv, NEW i \in IndexNames, DropIndex(i), TypeOK'
    PROVE  IInv'
<1>1. /\ running /\ running'
      /\ index_catalog' = Without(index_catalog, {i})
      /\ index_maps' = Without(index_maps, {i})
      /\ dirty_indexes' = dirty_indexes \ {i}
      /\ UNCHANGED <<marker, txn_snapshot, catalog, row_id_cursors, table_files, unique_caches,
                     indexes_clean, txn_dir, running>>
      /\ disk'.catalog = disk.catalog /\ disk'.migrations = migrations'
      /\ disk'.indexes = index_catalog' /\ disk'.tables = disk.tables
      /\ disk'.index_files = Without(disk.index_files, {i})
  BY DEF DropIndex, IInv, TypeOK, IsFiles
<1>2. /\ DOMAIN index_catalog' = DOMAIN index_catalog \ {i}
      /\ \A j \in DOMAIN index_catalog' : index_catalog'[j] = index_catalog[j]
      /\ DOMAIN index_maps' = DOMAIN index_maps \ {i}
      /\ \A j \in DOMAIN index_maps' : index_maps'[j] = index_maps[j]
      /\ \A j \in DOMAIN disk.index_files \ {i} :
            j \in DOMAIN disk'.index_files /\ disk'.index_files[j] = disk.index_files[j]
  BY <1>1 DEF Without, Restrict
<1>3. catalog = disk.catalog /\ index_catalog = disk.indexes
  BY <1>1, Running
<1>4. WellFormed(disk')
  <2>1. RowsWellFormed(disk') /\ RowIdsAscend(disk')
    BY <1>1 DEF IInv, WellFormed, RowsWellFormed, RowIdsAscend
  <2>2. IndexesWellFormed(disk')
    <3>1. IndexesWellFormed(disk)
      BY DEF IInv, WellFormed
    <3>2. /\ disk'.indexes = index_catalog' /\ disk'.catalog = disk.catalog
          /\ DOMAIN index_catalog' \subseteq DOMAIN disk.indexes
          /\ \A j \in DOMAIN index_catalog' : index_catalog'[j] = disk.indexes[j]
      BY <1>1, <1>2, <1>3
    <3> QED
      BY <3>1, <3>2 DEF IndexesWellFormed
  <2> QED
    BY <2>1, <2>2 DEF WellFormed
<1>5. \A u : RowsIn(disk'.tables, u) = RowsOf(u) /\ RowsOf(u)' = RowsOf(u)
  BY <1>1 DEF RowsOf
<1>6. MetadataSaved' /\ SnapshotSound' /\ NoOrphanHandle'
  BY <1>1, <1>3, SnapshotKept DEF IInv, MetadataSaved, NoOrphanHandle
<1>7. MapsTracked' /\ MarkerTracked'
  BY <1>1, <1>2, <1>3, <1>5, InvTracks, MapsDropped
<1>8. CursorsReserved' /\ CachesOfTables' /\ UniqueCacheExact'
  BY <1>1, <1>5 DEF IInv, CursorsReserved, CachesOfTables, UniqueCacheExact
<1> QED
  BY <1>1, <1>4, <1>6, <1>7, <1>8, CleanMarkerWhileRunning DEF IInv

LEMMA CreateIndexSafe ==
    ASSUME IInv, NEW i \in IndexNames, NEW t \in Tables, NEW c \in Columns,
           CreateIndex(i, t, c), TypeOK'
    PROVE  IInv'
<1> DEFINE new == [x \in {i} |-> IndexOf(RowsOf(t), c)]
           definition == [table |-> t, column |-> c]
<1>1. /\ running /\ running' /\ t \in DOMAIN catalog /\ c \in catalog[t].columns
      /\ i \notin DOMAIN index_catalog
      /\ IndexesOnColumn(index_catalog, t, c) = {}
      /\ index_catalog' = Put(index_catalog, i, definition)
      /\ WriteIndexMaps(index_maps, dirty_indexes, new)
      /\ UNCHANGED <<txn_snapshot, catalog, row_id_cursors, table_files, unique_caches,
                     txn_dir, running>>
      /\ disk'.catalog = disk.catalog /\ disk'.migrations = migrations'
      /\ disk'.indexes = index_catalog' /\ disk'.tables = disk.tables
      /\ disk'.index_files = disk.index_files
  BY DEF CreateIndex, IInv, TypeOK, IsFiles
<1>2. definition.table = t /\ definition.column = c
  OBVIOUS
<1>3. \A j \in DOMAIN index_catalog : index_catalog[j] # definition
  BY <1>1, <1>2 DEF IndexesOnColumn, IndexesOn
<1> HIDE DEF definition
<1>4. /\ DOMAIN index_catalog' = DOMAIN index_catalog \cup {i}
      /\ index_catalog'[i] = definition
      /\ \A j \in DOMAIN index_catalog : index_catalog'[j] = index_catalog[j]
      /\ DOMAIN new = {i} /\ new[i] = IndexOf(RowsOf(t), c)
  BY <1>1 DEF Put, Override
<1> HIDE DEF new
<1>5. catalog = disk.catalog /\ index_catalog = disk.indexes
  BY <1>1, Running
<1>6. \A u : RowsIn(disk'.tables, u) = RowsOf(u) /\ RowsOf(u)' = RowsOf(u)
  BY <1>1 DEF RowsOf
<1>7. WellFormed(disk')
  <2>1. RowsWellFormed(disk') /\ RowIdsAscend(disk')
    BY <1>1 DEF IInv, WellFormed, RowsWellFormed, RowIdsAscend
  <2>2. IndexesWellFormed(disk')
    BY <1>1, <1>2, <1>3, <1>4, <1>5 DEF IInv, WellFormed, IndexesWellFormed
  <2> QED
    BY <2>1, <2>2 DEF WellFormed
<1>8. MetadataSaved' /\ SnapshotSound' /\ NoOrphanHandle'
  BY <1>1, <1>5, SnapshotKept DEF IInv, MetadataSaved, NoOrphanHandle
<1>9. MapsTracked' /\ MarkerTracked'
  <2>1. /\ WriteIndexMaps(index_maps, dirty_indexes \ {}, new)
        /\ DOMAIN index_maps = DOMAIN index_maps \ {}
        /\ DOMAIN disk'.indexes = (DOMAIN disk.indexes \ {}) \cup DOMAIN new
        /\ DOMAIN disk.index_files \ {} = DOMAIN disk'.index_files
    <3>1. dirty_indexes \ {} = dirty_indexes
      OBVIOUS
    <3> QED
      BY <1>1, <1>4, <1>5, <3>1
  <2>2. \A j \in DOMAIN new :
           new[j] = IndexOf(RowsIn(disk'.tables, disk'.indexes[j].table), disk'.indexes[j].column)
    BY <1>1, <1>2, <1>4, <1>6
  <2>3. \A j \in DOMAIN disk'.indexes \ DOMAIN new :
           /\ disk'.indexes[j] = disk.indexes[j]
           /\ RowsIn(disk'.tables, disk.indexes[j].table) = RowsOf(disk.indexes[j].table)
    BY <1>1, <1>4, <1>5, <1>6
  <2> QED
    BY <1>1, <2>1, <2>2, <2>3, InvTracks, MapsRebuilt
<1>10. CursorsReserved' /\ CachesOfTables' /\ UniqueCacheExact'
  BY <1>1, <1>6 DEF IInv, CursorsReserved, CachesOfTables, UniqueCacheExact
<1> QED
  BY <1>1, <1>7, <1>8, <1>9, <1>10, CleanMarkerWhileRunning DEF IInv

---------------------------------------------------------------------------------
(* Calls that rewrite a table: ALTER TABLE, UPDATE and DELETE *)

\* Table t is given the rows `rows`, which keep the ids of old ones, in order:
\* `from` says which.
TableRewritten(t, rows, from, dropped, maps) ==
    /\ IndexesFollow(t, rows, dropped, maps)
    /\ t \in DOMAIN catalog /\ rows \in Seq(Row)
    /\ UNCHANGED <<txn_snapshot, txn_dir, row_id_cursors, running>>
    /\ from \in [DOMAIN rows -> DOMAIN RowsOf(t)]
    /\ \A i \in DOMAIN rows :
          /\ DOMAIN rows[i].data = catalog'[t].columns
          /\ rows[i].id = RowsOf(t)[from[i]].id
          /\ \A j \in DOMAIN rows : i < j => from[i] < from[j]
    /\ DOMAIN catalog' = DOMAIN catalog
    /\ \A u \in DOMAIN catalog \ {t} : catalog'[u] = catalog[u]
    /\ catalog'[t].next_row_id = catalog[t].next_row_id
    /\ disk'.catalog = catalog' /\ disk'.migrations = migrations'
    /\ IndexesWellFormed(disk')

LEMMA RowsReplaced ==
    ASSUME IInv, TypeOK', NEW t, NEW rows, NEW from, NEW dropped, NEW maps,
           TableRewritten(t, rows, from, dropped, maps)
    PROVE  IInv'
<1> USE DEF TableRewritten, IndexesFollow
<1>1. /\ table_files' = Replaced(CloseTableFile(table_files, t), t)
      /\ unique_caches' = Without(unique_caches, {t})
  BY DEF ReplaceRows
<1>2. /\ t \in Tables
      /\ \A i \in DOMAIN RowsOf(t) :
            /\ RowsOf(t)[i].id < catalog[t].next_row_id
            /\ \A j \in DOMAIN RowsOf(t) : i < j => RowsOf(t)[i].id < RowsOf(t)[j].id
  BY TableRows
<1>3. /\ RowsWellFormed(disk') /\ RowIdsAscend(disk')
      /\ RowsIn(disk'.tables, t) = rows
      /\ RowsOf(t)' = rows
      /\ \A u : u # t => RowsIn(disk'.tables, u) = RowsOf(u) /\ RowsOf(u)' = RowsOf(u)
  <2>1. \A i \in DOMAIN rows :
           /\ DOMAIN rows[i].data = disk'.catalog[t].columns
           /\ rows[i].id < disk'.catalog[t].next_row_id
           /\ \A j \in DOMAIN rows : i < j => rows[i].id < rows[j].id
    BY <1>2
  <2>2. /\ DOMAIN disk'.catalog = DOMAIN catalog
        /\ \A u \in DOMAIN catalog \ {t} : disk'.catalog[u] = catalog[u]
    OBVIOUS
  <2> QED
    BY <2>1, <2>2, OneTableWritten
<1>4. MapsTracked' /\ MarkerTracked'
  <2>1. IndexesFollow(t, rows, dropped, maps)
    OBVIOUS
  <2>2. TypeOK /\ MapsTracked /\ MarkerTracked
    BY InvTracks
  <2> HIDE DEF TableRewritten, IndexesFollow
  <2> QED
    BY <2>1, <2>2, MapsRewritten
<1>5. CursorsReserved'
  <2> SUFFICES ASSUME NEW u \in DOMAIN row_id_cursors
               PROVE  /\ u \in DOMAIN catalog'
                      /\ row_id_cursors[u].next <= row_id_cursors[u].limit
                      /\ row_id_cursors[u].limit = catalog'[u].next_row_id
                      /\ \A i \in DOMAIN RowsOf(u)' : RowsOf(u)'[i].id < row_id_cursors[u].next
    BY DEF CursorsReserved
  <2>1. /\ u \in DOMAIN catalog
        /\ row_id_cursors[u].next <= row_id_cursors[u].limit
        /\ row_id_cursors[u].limit = catalog[u].next_row_id
        /\ \A i \in DOMAIN RowsOf(u) : RowsOf(u)[i].id < row_id_cursors[u].next
    BY DEF IInv, CursorsReserved
  <2>2. CASE u = t
    BY <1>3, <2>1, <2>2
  <2>3. CASE u # t
    BY <1>3, <2>1, <2>3
  <2> QED
    BY <2>2, <2>3
<1>6. CachesOfTables' /\ UniqueCacheExact'
  <2>1. /\ DOMAIN unique_caches' = DOMAIN unique_caches \ {t}
        /\ \A u \in DOMAIN unique_caches' : unique_caches'[u] = unique_caches[u]
    BY <1>1 DEF Without, Restrict
  <2>2. CachesOfTables'
    BY <2>1 DEF IInv, CachesOfTables
  <2>3. UniqueCacheExact'
    BY <1>3, <2>1 DEF IInv, UniqueCacheExact
  <2> QED
    BY <2>2, <2>3
<1>7. MetadataSaved' /\ SnapshotSound' /\ NoOrphanHandle'
  BY <1>1, <1>2, SnapshotKept, FileReplaced DEF MetadataSaved
<1> QED
  BY <1>3, <1>4, <1>5, <1>6, <1>7, CleanMarkerWhileRunning DEF IInv, WellFormed

\* UPDATE and DELETE leave the schema and the index definitions alone.
LEMMA UnalteredRewriteSafe ==
    ASSUME IInv, TypeOK', running, NEW t \in DOMAIN catalog, NEW rows \in Seq(Row),
           NEW from \in [DOMAIN rows -> DOMAIN RowsOf(t)],
           \A i \in DOMAIN rows :
              /\ DOMAIN rows[i].data = catalog[t].columns
              /\ rows[i].id = RowsOf(t)[from[i]].id
              /\ \A j \in DOMAIN rows : i < j => from[i] < from[j],
           ReplaceRows(t, rows, index_catalog, index_maps, dirty_indexes),
           disk' = [disk EXCEPT !.tables = Put(@, t, rows), !.tmp_rewrite = @ \ {t}],
           UNCHANGED <<txn_snapshot, catalog, migrations, index_catalog, row_id_cursors,
                       txn_dir, running>>
    PROVE  IInv'
<1>1. /\ disk'.catalog = disk.catalog /\ disk'.migrations = disk.migrations
      /\ disk'.indexes = disk.indexes /\ disk'.index_files = disk.index_files
      /\ disk'.tables = Put(disk.tables, t, rows)
  BY DEF IInv, TypeOK, IsFiles
<1>2. catalog = disk.catalog /\ migrations = disk.migrations /\ index_catalog = disk.indexes
  BY Running
<1>3. IndexesWellFormed(disk')
  BY <1>1 DEF IInv, WellFormed, IndexesWellFormed
<1>4. ReplaceRows(t, rows, index_catalog', index_maps, dirty_indexes \ {})
  <2>1. dirty_indexes \ {} = dirty_indexes /\ index_catalog' = index_catalog
    OBVIOUS
  <2> QED
    BY <2>1
<1>5. TableRewritten(t, rows, from, {}, index_maps)
  BY <1>1, <1>2, <1>3, <1>4 DEF TableRewritten, IndexesFollow
<1> QED
  BY <1>5, RowsReplaced

LEMMA UpdateSafe ==
    ASSUME IInv, NEW t \in Tables, t \in DOMAIN catalog, NEW where,
           NEW assignments \in Assignments(catalog[t].columns),
           Update(t, where, assignments), TypeOK'
    PROVE  IInv'
<1> DEFINE rows == MappedRows(t, LAMBDA data : Updated(data, where, assignments))
           from == [i \in DOMAIN RowsOf(t) |-> i]
<1>1. rows \in Seq(Row)
  BY UpdatedTyped, AssignmentsAreData DEF MappedRows, IInv
<1>2. RowsOf(t) \in Seq(Row) /\ \A i \in DOMAIN RowsOf(t) : RowsOf(t)[i] \in Row
  BY TypedParts DEF IInv
<1>3. /\ DOMAIN rows = DOMAIN RowsOf(t)
      /\ \A i \in DOMAIN rows :
            /\ rows[i].id = RowsOf(t)[i].id
            /\ rows[i].data = Updated(RowsOf(t)[i].data, where, assignments)
  BY <1>2 DEF MappedRows, Row
<1>4. /\ running
      /\ ReplaceRows(t, rows, index_catalog, index_maps, dirty_indexes)
      /\ disk' = [disk EXCEPT !.tables = Put(@, t, rows), !.tmp_rewrite = @ \ {t}]
      /\ UNCHANGED <<txn_snapshot, catalog, migrations, index_catalog, row_id_cursors,
                     txn_dir, running>>
  BY DEF Update
<1>5. /\ from \in [DOMAIN RowsOf(t) -> DOMAIN RowsOf(t)]
      /\ \A i \in DOMAIN RowsOf(t) : from[i] = i
  OBVIOUS
<1> HIDE DEF rows, from
<1>6. \A i \in DOMAIN rows :
         /\ DOMAIN rows[i].data = catalog[t].columns
         /\ rows[i].id = RowsOf(t)[from[i]].id
         /\ \A j \in DOMAIN rows : i < j => from[i] < from[j]
  <2>1. \A i \in DOMAIN RowsOf(t) : DOMAIN RowsOf(t)[i].data = catalog[t].columns
    BY <1>4, TableRows
  <2>2. DOMAIN assignments \subseteq catalog[t].columns
    BY DEF Assignments
  <2>3. \A i \in DOMAIN RowsOf(t) :
           DOMAIN Updated(RowsOf(t)[i].data, where, assignments) = catalog[t].columns
    BY <2>1, <2>2 DEF Updated, Override
  <2> QED
    BY <1>3, <1>5, <2>3
<1> QED
  BY <1>1, <1>3, <1>4, <1>5, <1>6, UnalteredRewriteSafe

LEMMA DeleteSafe ==
    ASSUME IInv, NEW t \in Tables, NEW where, Delete(t, where), TypeOK'
    PROVE  IInv'
<1> DEFINE S == {i \in DOMAIN RowsOf(t) : RowsOf(t)[i].data \notin where}
<1>1. PICK rows \in Kept(RowsOf(t), S) :
         /\ ReplaceRows(t, rows, index_catalog, index_maps, dirty_indexes)
         /\ disk' = [disk EXCEPT !.tables = Put(@, t, rows), !.tmp_rewrite = @ \ {t}]
  BY DEF Delete
<1>2. /\ running /\ t \in DOMAIN catalog
      /\ UNCHANGED <<txn_snapshot, catalog, migrations, index_catalog, row_id_cursors,
                     txn_dir, running>>
  BY DEF Delete
<1>3. RowsOf(t) \in Seq(Row) /\ S \in SUBSET DOMAIN RowsOf(t)
  BY TypedParts DEF IInv
<1>4. rows \in Seq(Row)
  BY <1>3, KeptIsSeq
<1> HIDE DEF S
<1>5. PICK from \in Enumerations(S, Len(RowsOf(t))) : rows = [i \in DOMAIN from |-> RowsOf(t)[from[i]]]
  BY DEF Kept
<1>6. PICK m \in 0..Len(RowsOf(t)) : from \in [1..m -> S]
  BY <1>5 DEF Enumerations
<1>7. \A i, j \in DOMAIN from : i < j => from[i] < from[j]
  BY <1>5 DEF Enumerations
<1>8. /\ DOMAIN rows = DOMAIN from
      /\ from \in [DOMAIN rows -> DOMAIN RowsOf(t)]
      /\ \A i \in DOMAIN rows : rows[i] = RowsOf(t)[from[i]]
  BY <1>3, <1>5, <1>6
<1>9. \A i \in DOMAIN rows :
         /\ DOMAIN rows[i].data = catalog[t].columns
         /\ rows[i].id = RowsOf(t)[from[i]].id
         /\ \A j \in DOMAIN rows : i < j => from[i] < from[j]
  BY <1>2, <1>7, <1>8, TableRows
<1> QED
  BY <1>1, <1>2, <1>4, <1>8, <1>9, UnalteredRewriteSafe

\* ALTER TABLE rewrites every row in place: `from` is the identity.
LEMMA AddColumnSafe ==
    ASSUME IInv, NEW t \in Tables, NEW c \in Columns, NEW default \in Val,
           AddColumn(t, c, default), TypeOK'
    PROVE  IInv'
<1> DEFINE rows == MappedRows(t, LAMBDA data : WithColumn(data, c, default))
           s == [catalog[t] EXCEPT !.columns = @ \cup {c}]
<1>1. rows \in Seq(Row)
  BY AddedTyped DEF MappedRows, IInv
<1>2. RowsOf(t) \in Seq(Row) /\ \A i \in DOMAIN RowsOf(t) : RowsOf(t)[i] \in Row
  BY TypedParts DEF IInv
<1>3. /\ DOMAIN rows = DOMAIN RowsOf(t)
      /\ \A i \in DOMAIN rows :
            /\ rows[i].id = RowsOf(t)[i].id
            /\ rows[i].data = WithColumn(RowsOf(t)[i].data, c, default)
  BY <1>2 DEF MappedRows, Row
<1>4. /\ running /\ t \in DOMAIN catalog
      /\ catalog' = [catalog EXCEPT ![t] = s]
      /\ ReplaceRows(t, rows, index_catalog, index_maps, dirty_indexes)
      /\ disk' = [disk EXCEPT !.catalog = catalog', !.migrations = migrations',
                              !.tables = Put(@, t, rows)]
      /\ UNCHANGED <<txn_snapshot, index_catalog, row_id_cursors, txn_dir, running>>
  BY DEF AddColumn
<1> HIDE DEF rows
<1>5. /\ disk'.catalog = catalog' /\ disk'.migrations = migrations'
      /\ disk'.indexes = disk.indexes /\ disk'.index_files = disk.index_files
      /\ disk'.tables = Put(disk.tables, t, rows)
  BY <1>4 DEF IInv, TypeOK, IsFiles
<1>6. catalog = disk.catalog /\ index_catalog = disk.indexes /\ catalog[t] \in Schema
  BY <1>4, Running, TableRows
<1>7. s.columns = catalog[t].columns \cup {c} /\ s.next_row_id = catalog[t].next_row_id
  BY <1>6 DEF Schema
<1> HIDE DEF s
<1>8. /\ DOMAIN catalog' = DOMAIN catalog /\ catalog'[t] = s
      /\ \A u \in DOMAIN catalog \ {t} : catalog'[u] = catalog[u]
  BY <1>4
<1>9. \A i \in DOMAIN rows : DOMAIN rows[i].data = catalog'[t].columns
  <2>1. \A i \in DOMAIN RowsOf(t) : DOMAIN RowsOf(t)[i].data = catalog[t].columns
    BY <1>4, TableRows
  <2> QED
    BY <1>3, <1>7, <1>8, <2>1 DEF WithColumn, Put, Override
<1>10. IndexesWellFormed(disk')
  BY <1>5, <1>6, <1>7, <1>8 DEF IInv, WellFormed, IndexesWellFormed
<1>11. ReplaceRows(t, rows, index_catalog', index_maps, dirty_indexes \ {})
  <2>1. dirty_indexes \ {} = dirty_indexes /\ index_catalog' = index_catalog
    BY <1>4
  <2> QED
    BY <1>4, <2>1
<1>12. /\ DOMAIN index_maps = DOMAIN index_maps \ {}
       /\ DOMAIN index_catalog' = DOMAIN index_catalog \ {}
  BY <1>4
<1> QED
  <2> DEFINE from == [i \in DOMAIN RowsOf(t) |-> i]
  <2>1. /\ from \in [DOMAIN rows -> DOMAIN RowsOf(t)]
        /\ \A i \in DOMAIN rows : from[i] = i
    BY <1>3
  <2> HIDE DEF from
  <2>2. TableRewritten(t, rows, from, {}, index_maps)
    BY <1>1, <1>3, <1>4, <1>5, <1>6, <1>7, <1>8, <1>9, <1>10, <1>11, <1>12, <2>1
    DEF TableRewritten, IndexesFollow
  <2> QED
    BY <2>2, RowsReplaced

LEMMA DropColumnSafe ==
    ASSUME IInv, NEW t \in Tables, NEW c \in Columns, DropColumn(t, c), TypeOK'
    PROVE  IInv'
<1> DEFINE rows == MappedRows(t, LAMBDA data : WithoutColumn(data, c))
           s == [catalog[t] EXCEPT !.columns = @ \ {c}]
           dropped == IndexesOnColumn(index_catalog, t, c)
           maps == Without(index_maps, dropped)
<1>1. rows \in Seq(Row)
  BY DroppedTyped DEF MappedRows, IInv
<1>2. RowsOf(t) \in Seq(Row) /\ \A i \in DOMAIN RowsOf(t) : RowsOf(t)[i] \in Row
  BY TypedParts DEF IInv
<1>3. /\ DOMAIN rows = DOMAIN RowsOf(t)
      /\ \A i \in DOMAIN rows :
            /\ rows[i].id = RowsOf(t)[i].id
            /\ rows[i].data = WithoutColumn(RowsOf(t)[i].data, c)
  BY <1>2 DEF MappedRows, Row
<1>4. \A i \in DOMAIN index_catalog :
         i \in dropped <=> index_catalog[i].table = t /\ index_catalog[i].column = c
  BY DEF IndexesOnColumn, IndexesOn
<1> HIDE DEF rows, dropped
<1>5. /\ running /\ t \in DOMAIN catalog
      /\ catalog' = [catalog EXCEPT ![t] = s]
      /\ index_catalog' = Without(index_catalog, dropped)
      /\ ReplaceRows(t, rows, index_catalog', maps, dirty_indexes \ dropped)
      /\ disk' = [disk EXCEPT !.catalog = catalog', !.migrations = migrations',
                              !.indexes = index_catalog', !.tables = Put(@, t, rows),
                              !.index_files = Without(@, dropped)]
      /\ UNCHANGED <<txn_snapshot, row_id_cursors, txn_dir, running>>
  BY DEF DropColumn, rows, dropped
<1>6. /\ disk'.catalog = catalog' /\ disk'.migrations = migrations'
      /\ disk'.indexes = index_catalog' /\ disk'.tables = Put(disk.tables, t, rows)
      /\ disk'.index_files = Without(disk.index_files, dropped)
  BY <1>5 DEF IInv, TypeOK, IsFiles
<1>7. catalog = disk.catalog /\ index_catalog = disk.indexes /\ catalog[t] \in Schema
  BY <1>5, Running, TableRows
<1>8. s.columns = catalog[t].columns \ {c} /\ s.next_row_id = catalog[t].next_row_id
  BY <1>7 DEF Schema
<1> HIDE DEF s
<1>9. /\ DOMAIN catalog' = DOMAIN catalog /\ catalog'[t] = s
      /\ \A u \in DOMAIN catalog \ {t} : catalog'[u] = catalog[u]
  BY <1>5
<1>10. /\ DOMAIN maps = DOMAIN index_maps \ dropped
       /\ \A i \in DOMAIN maps : maps[i] = index_maps[i]
       /\ DOMAIN index_catalog' = DOMAIN index_catalog \ dropped
       /\ \A i \in DOMAIN index_catalog' : index_catalog'[i] = index_catalog[i]
       /\ \A i \in DOMAIN disk.index_files \ dropped :
             i \in DOMAIN disk'.index_files /\ disk'.index_files[i] = disk.index_files[i]
  BY <1>5, <1>6 DEF Without, Restrict
<1> HIDE DEF maps
<1>11. \A i \in DOMAIN rows : DOMAIN rows[i].data = catalog'[t].columns
  <2>1. \A i \in DOMAIN RowsOf(t) : DOMAIN RowsOf(t)[i].data = catalog[t].columns
    BY <1>5, TableRows
  <2> QED
    BY <1>3, <1>8, <1>9, <2>1 DEF WithoutColumn, Without, Restrict
<1>12. IndexesWellFormed(disk')
  <2>1. IndexesWellFormed(disk)
    BY DEF IInv, WellFormed
  <2>2. /\ DOMAIN disk'.indexes \subseteq DOMAIN disk.indexes
        /\ \A i \in DOMAIN disk'.indexes :
              /\ disk'.indexes[i] = disk.indexes[i]
              /\ ~(disk.indexes[i].table = t /\ disk.indexes[i].column = c)
    BY <1>4, <1>6, <1>7, <1>10
  <2> QED
    BY <1>6, <1>7, <1>8, <1>9, <2>1, <2>2 DEF IndexesWellFormed
<1> QED
  <2> DEFINE from == [i \in DOMAIN RowsOf(t) |-> i]
  <2>1. /\ from \in [DOMAIN rows -> DOMAIN RowsOf(t)]
        /\ \A i \in DOMAIN rows : from[i] = i
    BY <1>3
  <2> HIDE DEF from
  <2>2. TableRewritten(t, rows, from, dropped, maps)
    BY <1>1, <1>3, <1>5, <1>6, <1>7, <1>8, <1>9, <1>10, <1>11, <1>12, <2>1
    DEF TableRewritten, IndexesFollow
  <2> QED
    BY <2>2, RowsReplaced

LEMMA RenameColumnSafe ==
    ASSUME IInv, NEW t \in Tables, NEW old \in Columns, NEW new \in Columns,
           RenameColumn(t, old, new), TypeOK'
    PROVE  IInv'
<1> DEFINE rows == MappedRows(t, LAMBDA data : WithRenamed(data, old, new))
           s == [catalog[t] EXCEPT !.columns = (@ \ {old}) \cup {new}]
<1>1. rows \in Seq(Row)
  BY RenamedTyped DEF MappedRows, IInv
<1>2. RowsOf(t) \in Seq(Row) /\ \A i \in DOMAIN RowsOf(t) : RowsOf(t)[i] \in Row
  BY TypedParts DEF IInv
<1>3. /\ DOMAIN rows = DOMAIN RowsOf(t)
      /\ \A i \in DOMAIN rows :
            /\ rows[i].id = RowsOf(t)[i].id
            /\ rows[i].data = WithRenamed(RowsOf(t)[i].data, old, new)
  BY <1>2 DEF MappedRows, Row
<1> HIDE DEF rows
<1>4. /\ running /\ t \in DOMAIN catalog
      /\ old \in catalog[t].columns /\ new \notin catalog[t].columns
      /\ catalog' = [catalog EXCEPT ![t] = s]
      /\ index_catalog' = RenamedIndexes(t, old, new)
      /\ ReplaceRows(t, rows, index_catalog', index_maps, dirty_indexes)
      /\ disk' = [disk EXCEPT !.catalog = catalog', !.migrations = migrations',
                              !.indexes = index_catalog', !.tables = Put(@, t, rows)]
      /\ UNCHANGED <<txn_snapshot, row_id_cursors, txn_dir, running>>
  BY DEF RenameColumn, rows
<1>5. /\ disk'.catalog = catalog' /\ disk'.migrations = migrations'
      /\ disk'.indexes = index_catalog' /\ disk'.tables = Put(disk.tables, t, rows)
      /\ disk'.index_files = disk.index_files
  BY <1>4 DEF IInv, TypeOK, IsFiles
<1>6. catalog = disk.catalog /\ index_catalog = disk.indexes /\ catalog[t] \in Schema
  BY <1>4, Running, TableRows
<1>7. /\ s.columns = (catalog[t].columns \ {old}) \cup {new}
      /\ s.next_row_id = catalog[t].next_row_id
  BY <1>6 DEF Schema
<1> HIDE DEF s
<1>8. /\ DOMAIN catalog' = DOMAIN catalog /\ catalog'[t] = s
      /\ \A u \in DOMAIN catalog \ {t} : catalog'[u] = catalog[u]
  BY <1>4
<1>9. /\ DOMAIN index_catalog' = DOMAIN index_catalog
      /\ \A i \in DOMAIN index_catalog :
            /\ index_catalog'[i].table = index_catalog[i].table
            /\ index_catalog[i].table = t /\ index_catalog[i].column = old =>
                  index_catalog'[i].column = new
            /\ ~(index_catalog[i].table = t /\ index_catalog[i].column = old) =>
                  index_catalog'[i] = index_catalog[i]
  <2>1. \A i \in DOMAIN index_catalog : index_catalog[i] \in IndexDefinition
    BY DEF IInv, TypeOK, IsMap
  <2>2. \A i \in DOMAIN index_catalog :
           /\ [index_catalog[i] EXCEPT !.column = new].table = index_catalog[i].table
           /\ [index_catalog[i] EXCEPT !.column = new].column = new
    BY <2>1 DEF IndexDefinition
  <2>3. \A i \in DOMAIN index_catalog :
           i \in IndexesOnColumn(index_catalog, t, old) <=>
              index_catalog[i].table = t /\ index_catalog[i].column = old
    BY DEF IndexesOnColumn, IndexesOn
  <2> QED
    BY <1>4, <2>2, <2>3 DEF RenamedIndexes
<1>10. \A i \in DOMAIN rows : DOMAIN rows[i].data = catalog'[t].columns
  <2>1. \A i \in DOMAIN RowsOf(t) : DOMAIN RowsOf(t)[i].data = catalog[t].columns
    BY <1>4, TableRows
  <2>2. \A i \in DOMAIN RowsOf(t) :
           DOMAIN WithRenamed(RowsOf(t)[i].data, old, new) = (catalog[t].columns \ {old}) \cup {new}
    BY <1>4, <2>1 DEF WithRenamed, Put, Override, Without, Restrict
  <2> QED
    BY <1>3, <1>7, <1>8, <2>2
<1>11. IndexesWellFormed(disk')
  <2>1. IndexesWellFormed(disk)
    BY DEF IInv, WellFormed
  <2>2. \A i \in DOMAIN disk'.indexes :
           /\ disk'.indexes[i].table \in DOMAIN disk'.catalog
           /\ disk'.indexes[i].column \in disk'.catalog[disk'.indexes[i].table].columns
    BY <1>5, <1>6, <1>7, <1>8, <1>9, <2>1 DEF IndexesWellFormed
  <2>3. ASSUME NEW i \in DOMAIN index_catalog, NEW j \in DOMAIN index_catalog,
               index_catalog'[i] = index_catalog'[j]
        PROVE  i = j
    <3>1. \A k \in DOMAIN index_catalog :
             index_catalog[k].table = t => index_catalog[k].column # new
      BY <1>4, <1>6, <2>1 DEF IndexesWellFormed
    <3>2. \A k \in DOMAIN index_catalog : index_catalog[k] \in IndexDefinition
      BY DEF IInv, TypeOK, IsMap
    <3>3. index_catalog[i].table = index_catalog[j].table
          /\ index_catalog[i].column = index_catalog[j].column
      BY <1>9, <2>3, <3>1
    <3>4. index_catalog[i] = index_catalog[j]
      BY <3>2, <3>3 DEF IndexDefinition
    <3> QED
      BY <1>6, <2>1, <3>4 DEF IndexesWellFormed
  <2> QED
    BY <1>5, <1>9, <2>2, <2>3 DEF IndexesWellFormed
<1>12. ReplaceRows(t, rows, index_catalog', index_maps, dirty_indexes \ {})
  <2>1. dirty_indexes \ {} = dirty_indexes
    OBVIOUS
  <2> QED
    BY <1>4, <2>1
<1>13. /\ DOMAIN index_maps = DOMAIN index_maps \ {}
       /\ DOMAIN index_catalog' = DOMAIN index_catalog \ {}
  BY <1>9
<1> QED
  <2> DEFINE from == [i \in DOMAIN RowsOf(t) |-> i]
  <2>1. /\ from \in [DOMAIN rows -> DOMAIN RowsOf(t)]
        /\ \A i \in DOMAIN rows : from[i] = i
    BY <1>3
  <2> HIDE DEF from
  <2>2. TableRewritten(t, rows, from, {}, index_maps)
    BY <1>1, <1>3, <1>4, <1>5, <1>6, <1>7, <1>8, <1>9, <1>10, <1>11, <1>12,
       <1>13, <2>1
    DEF TableRewritten, IndexesFollow
  <2> QED
    BY <2>2, RowsReplaced

---------------------------------------------------------------------------------
(* The invariant is inductive *)

LEMMA InitIInv == Init => IInv
<1> SUFFICES ASSUME Init PROVE IInv
  OBVIOUS
<1>1. TypeOK
  BY InitTypeOK
<1>2. /\ disk.catalog = EmptyMap /\ disk.tables = EmptyMap /\ disk.indexes = EmptyMap
      /\ DOMAIN EmptyMap = {}
  BY DEF Init, EmptyFiles, EmptyMap
<1>3. WellFormed(disk)
  BY <1>2 DEF WellFormed, RowsWellFormed, RowIdsAscend, IndexesWellFormed
<1>4. /\ MetadataSaved /\ MapsTracked /\ MarkerTracked /\ CleanMarkerSound /\ CursorsReserved
      /\ CachesOfTables /\ UniqueCacheExact /\ NoOrphanHandle /\ SnapshotSound
  BY DEF Init, EmptyMap, AllClosed, MetadataSaved, MapsTracked, MarkerTracked, CleanMarkerSound,
     CursorsReserved, CachesOfTables, UniqueCacheExact, NoOrphanHandle, SnapshotSound
<1> QED
  BY <1>1, <1>3, <1>4 DEF IInv

LEMMA Stutters ==
    ASSUME IInv, UNCHANGED vars
    PROVE  IInv'
<1>1. \A t : RowsOf(t)' = RowsOf(t)
  BY DEF vars, RowsOf
<1> QED
  BY <1>1 DEF vars, memory, IInv, TypeOK, MetadataSaved, MapsTracked, MarkerTracked, CleanMarkerSound,
     CursorsReserved, CachesOfTables, UniqueCacheExact, NoOrphanHandle, SnapshotSound

LEMMA IInvInductive == IInv /\ [Next]_vars => IInv'
<1> SUFFICES ASSUME IInv, [Next]_vars PROVE IInv'
  OBVIOUS
<1>1. TypeOK'
  BY TypeOKInductive DEF IInv
<1>2. CASE Open \/ Close \/ Exit
  BY <1>1, <1>2, OpenSafe, ProcessEnds
<1>3. CASE BeginTransaction \/ CommitTransaction \/ RollbackTransaction
  BY <1>1, <1>3, TransactionSafe
<1>4. CASE \E i \in IndexNames : DropIndex(i)
  BY <1>1, <1>4, DropIndexSafe
<1>5. ASSUME NEW t \in Tables,
             \/ \E columns \in (SUBSET Columns) \ {{}} : CreateTable(t, columns)
             \/ DropTable(t)
             \/ UpdateFails(t)
      PROVE  IInv'
  BY <1>1, <1>5, CreateTableSafe, DropTableSafe, UpdateFailsSafe
<1>6. ASSUME NEW t \in Tables, NEW c \in Columns,
             \/ \E i \in IndexNames : CreateIndex(i, t, c)
             \/ \E default \in Val : AddColumn(t, c, default)
             \/ DropColumn(t, c)
             \/ \E new \in Columns : RenameColumn(t, c, new)
             \/ CacheUniqueValues(t, c)
      PROVE  IInv'
  <2>1. CASE \E i \in IndexNames : CreateIndex(i, t, c)
    BY <1>1, <2>1, CreateIndexSafe
  <2>2. CASE \E default \in Val : AddColumn(t, c, default)
    BY <1>1, <2>2, AddColumnSafe
  <2>3. CASE DropColumn(t, c)
    BY <1>1, <2>3, DropColumnSafe
  <2>4. CASE \E new \in Columns : RenameColumn(t, c, new)
    BY <1>1, <2>4, RenameColumnSafe
  <2>5. CASE CacheUniqueValues(t, c)
    BY <1>1, <2>5, CacheSafe
  <2> QED
    BY <1>6, <2>1, <2>2, <2>3, <2>4, <2>5
<1>7. ASSUME NEW t \in Tables, t \in DOMAIN catalog,
             \E data \in [catalog[t].columns -> Val] : Insert(t, data)
      PROVE  IInv'
  BY <1>1, <1>7, InsertSafe
<1>8. ASSUME NEW t \in Tables, t \in DOMAIN catalog, NEW where,
             \/ Delete(t, where)
             \/ \E assignments \in Assignments(catalog[t].columns) : Update(t, where, assignments)
      PROVE  IInv'
  BY <1>1, <1>8, DeleteSafe, UpdateSafe
<1>9. CASE UNCHANGED vars
  BY <1>9, Stutters
<1> QED
  BY <1>2, <1>3, <1>4, <1>5, <1>6, <1>7, <1>8, <1>9 DEF Next

---------------------------------------------------------------------------------
(* What follows from it *)

\* After any sequence of calls and ends of the process, the directory and
\* struct Storage are in the relation the code relies on.
THEOREM InvariantHolds == Spec => []IInv
<1> QED
  BY InitIInv, IInvInductive, PTL DEF Spec

\* open() never trusts an index file that a rebuild would not produce
\* (storage.rs:64).
THEOREM CleanMarkerIsSound == Spec => []CleanMarkerSound
<1>1. IInv => CleanMarkerSound
  BY DEF IInv
<1> QED
  BY <1>1, InvariantHolds, PTL

\* UNIQUE and PRIMARY KEY checks answer from the table's current values
\* (storage.rs:103).
THEOREM UniqueCachesAreExact == Spec => []UniqueCacheExact
<1>1. IInv => UniqueCacheExact
  BY DEF IInv
<1> QED
  BY <1>1, InvariantHolds, PTL

\* No row is appended to a file that has been removed or replaced
\* (storage.rs:644).
THEOREM HandlesAreCurrent == Spec => []NoOrphanHandle
<1>1. IInv => NoOrphanHandle
  BY DEF IInv
<1> QED
  BY <1>1, InvariantHolds, PTL

\* Between two calls rows, schema and index definitions agree on disk
\* (storage.rs:265-589).
THEOREM SchemaFitsRows == Spec => []SchemaAndRowsAgree
<1>1. IInv => SchemaAndRowsAgree
  BY DEF IInv, WellFormed, SchemaAndRowsAgree
<1> QED
  BY <1>1, InvariantHolds, PTL

\* Row ids are never reused within a table (storage.rs:607).
THEOREM RowIdsAreFresh == Spec => []RowIdsFresh
<1>1. IInv => RowIdsFresh
  <2> SUFFICES ASSUME IInv PROVE RowIdsFresh
    OBVIOUS
  <2>1. RowIdsAscend(disk)
    BY DEF IInv, WellFormed
  <2>2. ASSUME running, NEW t \in DOMAIN catalog, NEW i \in DOMAIN RowsOf(t)
        PROVE  RowsOf(t)[i].id < NextRowId(t)
    <3>1. RowsOf(t)[i].id < catalog[t].next_row_id
      BY <2>2, TableRows
    <3>2. HasCursor(t) => RowsOf(t)[i].id < row_id_cursors[t].next
      BY DEF HasCursor, IInv, CursorsReserved
    <3> QED
      BY <3>1, <3>2 DEF NextRowId
  <2> QED
    BY <2>1, <2>2 DEF RowIdsFresh
<1> QED
  BY <1>1, InvariantHolds, PTL

\* The positions an index names for a value are those a scan finds.
LEMMA IndexNamesPositions ==
    ASSUME NEW t, NEW c, NEW v \in Val
    PROVE  PositionsAt(t, IndexOf(RowsOf(t), c)[v]) =
             {j \in DOMAIN RowsOf(t) : Cell(RowsOf(t)[j].data, c) = v}
<1> DEFINE there == {j \in DOMAIN RowsOf(t) : Cell(RowsOf(t)[j].data, c) = v}
           locators == {LocatorOf(RowsOf(t), i) : i \in there}
<1>1. IndexOf(RowsOf(t), c)[v] = locators
  BY DEF IndexOf
<1>2. \A i \in there : LocatorOf(RowsOf(t), i).pos = i
                       /\ LocatorOf(RowsOf(t), i).id = RowsOf(t)[i].id
  BY DEF LocatorOf
<1>3. \A l \in locators : l.pos \in DOMAIN RowsOf(t) /\ RowsOf(t)[l.pos].id = l.id
  BY <1>2
<1>4. {l.pos : l \in locators} = there
  BY <1>2
<1> QED
  BY <1>1, <1>3, <1>4 DEF PositionsAt

\* An equality lookup through an index reads the rows a scan would
\* (storage.rs:416, :687).
THEOREM IndexedReadsAreExact == Spec => []IndexedReadsAgree
<1>1. IInv => IndexedReadsAgree
  <2> SUFFICES ASSUME IInv, running,
                      NEW i \in DOMAIN index_catalog \cap DOMAIN index_maps, NEW v \in Val
               PROVE  LET t == index_catalog[i].table IN
                      PositionsAt(t, index_maps[i][v]) =
                        {j \in DOMAIN RowsOf(t) :
                            Cell(RowsOf(t)[j].data, index_catalog[i].column) = v}
    BY DEF IndexedReadsAgree
  <2>1. index_maps[i] = IndexOf(RowsOf(index_catalog[i].table), index_catalog[i].column)
    BY Running
  <2> QED
    BY <2>1, IndexNamesPositions
<1> QED
  BY <1>1, InvariantHolds, PTL

---------------------------------------------------------------------------------
(* Row ids only move forward *)

LEMMA NextIdIsNat ==
    ASSUME IInv, NEW t \in DOMAIN disk.catalog
    PROVE  /\ NextIdOf(t) \in Nat
           /\ disk.catalog[t].next_row_id \in Nat
           /\ NextIdOf(t) <= disk.catalog[t].next_row_id
<1>1. disk.catalog[t] \in Schema
  BY DEF IInv, TypeOK, IsFiles, IsMap
<1>2. disk.catalog[t].next_row_id \in Nat
  BY <1>1 DEF Schema
<1>3. ASSUME running, HasCursor(t)
      PROVE  /\ row_id_cursors[t].next \in Nat
             /\ row_id_cursors[t].next <= disk.catalog[t].next_row_id
  <2>1. row_id_cursors[t] \in Cursor
    BY <1>3 DEF HasCursor, IInv, TypeOK, IsMap
  <2> QED
    BY <1>3, <2>1, Running DEF HasCursor, Cursor, IInv, CursorsReserved
<1>4. running => catalog = disk.catalog
  BY Running
<1> QED
  BY <1>2, <1>3, <1>4 DEF NextIdOf, NextRowId

\* A call that changes neither the reserved ids nor the cursor of a table.
LEMMA NextIdKept ==
    ASSUME IInv, IInv', running, running',
           NEW t \in DOMAIN catalog, t \in DOMAIN catalog',
           catalog'[t].next_row_id = catalog[t].next_row_id,
           t \in DOMAIN row_id_cursors' <=> t \in DOMAIN row_id_cursors,
           t \in DOMAIN row_id_cursors => row_id_cursors'[t] = row_id_cursors[t]
    PROVE  NextIdOf(t)' >= NextIdOf(t)
<1>1. NextIdOf(t)' = NextIdOf(t)
  BY DEF NextIdOf, NextRowId, HasCursor
<1>2. NextIdOf(t) \in Nat
  BY NextIdIsNat, Running
<1> QED
  BY <1>1, <1>2

LEMMA NextIdMovesForward ==
    ASSUME IInv, IInv', Next, ~RollbackTransaction,
           NEW t \in DOMAIN disk.catalog, t \in DOMAIN disk'.catalog
    PROVE  NextIdOf(t)' >= NextIdOf(t)
<1>1. NextIdOf(t) \in Nat /\ disk.catalog[t].next_row_id \in Nat
      /\ NextIdOf(t) <= disk.catalog[t].next_row_id
  BY NextIdIsNat
<1>2. running => t \in DOMAIN catalog /\ catalog = disk.catalog
  BY Running
<1>3. running' => t \in DOMAIN catalog' /\ catalog' = disk'.catalog
  BY DEF IInv, MetadataSaved
<1>4. ASSUME Open
      PROVE  NextIdOf(t)' >= NextIdOf(t)
  <2>1. DOMAIN row_id_cursors = {} /\ ~running
    BY <1>4 DEF Open, IInv, CursorsReserved
  <2>2. running' /\ DOMAIN row_id_cursors' = {} /\ catalog' = disk.catalog
    BY <1>4, <2>1 DEF Open
  <2>3. NextIdOf(t)' = disk.catalog[t].next_row_id
    BY <2>2 DEF NextIdOf, NextRowId, HasCursor
  <2> QED
    BY <1>1, <2>3
<1>5. ASSUME Close \/ Exit
      PROVE  NextIdOf(t)' >= NextIdOf(t)
  <2>1. ~running' /\ disk'.catalog = disk.catalog
    BY <1>5 DEF Close, Exit, Forget, IInv, TypeOK, IsFiles
  <2>2. NextIdOf(t)' = disk.catalog[t].next_row_id
    BY <2>1 DEF NextIdOf
  <2> QED
    BY <1>1, <2>2
<1>6. ASSUME running, running', UNCHANGED row_id_cursors,
             \A u \in DOMAIN catalog \cap DOMAIN catalog' :
                catalog'[u].next_row_id = catalog[u].next_row_id
      PROVE  NextIdOf(t)' >= NextIdOf(t)
  BY <1>2, <1>3, <1>6, NextIdKept
<1>7. ASSUME BeginTransaction \/ CommitTransaction
      PROVE  NextIdOf(t)' >= NextIdOf(t)
  BY <1>6, <1>7 DEF BeginTransaction, CommitTransaction
<1>8. ASSUME NEW u \in Tables, NEW columns, CreateTable(u, columns)
      PROVE  NextIdOf(t)' >= NextIdOf(t)
  <2>1. /\ running /\ running' /\ UNCHANGED row_id_cursors
        /\ u \notin DOMAIN catalog
        /\ catalog' = Put(catalog, u, [columns |-> columns, next_row_id |-> 0])
    BY <1>8 DEF CreateTable
  <2>2. \A x \in DOMAIN catalog : catalog'[x] = catalog[x]
    BY <2>1 DEF Put, Override
  <2> QED
    BY <1>6, <2>1, <2>2
<1>9. ASSUME NEW u \in Tables, DropTable(u)
      PROVE  NextIdOf(t)' >= NextIdOf(t)
  <2>1. /\ running /\ running'
        /\ catalog' = Without(catalog, {u})
        /\ row_id_cursors' = Without(row_id_cursors, {u})
    BY <1>9 DEF DropTable
  <2>2. /\ \A x \in DOMAIN catalog' : x # u /\ catalog'[x] = catalog[x]
        /\ DOMAIN row_id_cursors' = DOMAIN row_id_cursors \ {u}
        /\ \A x \in DOMAIN row_id_cursors' : row_id_cursors'[x] = row_id_cursors[x]
    BY <2>1 DEF Without, Restrict
  <2> QED
    BY <1>2, <1>3, <2>1, <2>2, NextIdKept
<1>10. ASSUME \/ \E i \in IndexNames : DropIndex(i)
              \/ \E u \in Tables : UpdateFails(u)
              \/ \E u \in Tables, c \in Columns : CacheUniqueValues(u, c)
              \/ \E u \in Tables, c \in Columns, i \in IndexNames : CreateIndex(i, u, c)
              \/ \E u, where : Delete(u, where)
              \/ \E u, where, assignments : Update(u, where, assignments)
       PROVE  NextIdOf(t)' >= NextIdOf(t)
  <2>1. running /\ running' /\ UNCHANGED <<row_id_cursors, catalog>>
    <3>1. ASSUME NEW i, DropIndex(i)
          PROVE  running /\ running' /\ UNCHANGED <<row_id_cursors, catalog>>
      BY <3>1 DEF DropIndex
    <3>2. ASSUME NEW u, NEW c, NEW i, UpdateFails(u) \/ CacheUniqueValues(u, c) \/ CreateIndex(i, u, c)
          PROVE  running /\ running' /\ UNCHANGED <<row_id_cursors, catalog>>
      BY <3>2 DEF UpdateFails, CacheUniqueValues, CreateIndex
    <3>3. ASSUME NEW u, NEW where, Delete(u, where)
          PROVE  running /\ running' /\ UNCHANGED <<row_id_cursors, catalog>>
      BY <3>3 DEF Delete
    <3>4. ASSUME NEW u, NEW where, NEW assignments, Update(u, where, assignments)
          PROVE  running /\ running' /\ UNCHANGED <<row_id_cursors, catalog>>
      BY <3>4 DEF Update
    <3> QED
      BY <1>10, <3>1, <3>2, <3>3, <3>4
  <2> QED
    BY <1>6, <2>1
<1>11. ASSUME NEW u \in Tables, NEW c \in Columns,
              \/ \E default \in Val : AddColumn(u, c, default)
              \/ DropColumn(u, c)
              \/ \E new \in Columns : RenameColumn(u, c, new)
       PROVE  NextIdOf(t)' >= NextIdOf(t)
  <2>1. PICK columns : /\ running /\ running' /\ UNCHANGED row_id_cursors /\ u \in DOMAIN catalog
                       /\ catalog' = [catalog EXCEPT ![u].columns = columns]
    <3>1. ASSUME NEW default, AddColumn(u, c, default)
          PROVE  /\ running /\ running' /\ UNCHANGED row_id_cursors /\ u \in DOMAIN catalog
                 /\ catalog' = [catalog EXCEPT ![u].columns = catalog[u].columns \cup {c}]
      BY <3>1 DEF AddColumn
    <3>2. ASSUME DropColumn(u, c)
          PROVE  /\ running /\ running' /\ UNCHANGED row_id_cursors /\ u \in DOMAIN catalog
                 /\ catalog' = [catalog EXCEPT ![u].columns = catalog[u].columns \ {c}]
      BY <3>2 DEF DropColumn
    <3>3. ASSUME NEW new, RenameColumn(u, c, new)
          PROVE  /\ running /\ running' /\ UNCHANGED row_id_cursors /\ u \in DOMAIN catalog
                 /\ catalog' = [catalog EXCEPT ![u].columns = (catalog[u].columns \ {c}) \cup {new}]
      BY <3>3 DEF RenameColumn
    <3> QED
      BY <1>11, <3>1, <3>2, <3>3
  <2>2. catalog[u] \in Schema
    BY <2>1, TableRows
  <2> DEFINE s == [catalog[u] EXCEPT !.columns = columns]
  <2>3. s.next_row_id = catalog[u].next_row_id
    BY <2>2 DEF Schema
  <2>4. catalog' = [catalog EXCEPT ![u] = s]
    BY <2>1
  <2> HIDE DEF s
  <2>5. \A x \in DOMAIN catalog : catalog'[x].next_row_id = catalog[x].next_row_id
    BY <2>3, <2>4
  <2> QED
    BY <1>6, <2>1, <2>5
<1>12. ASSUME NEW u \in Tables, u \in DOMAIN catalog, NEW data, Insert(u, data)
       PROVE  NextIdOf(t)' >= NextIdOf(t)
  <2>1. running /\ running' /\ AllocateRowId(u)
    BY <1>12 DEF Insert
  <2>2. /\ \A x \in DOMAIN catalog \ {u} : catalog'[x] = catalog[x]
        /\ NextRowId(u) \in Nat /\ NextRowId(u) < catalog'[u].next_row_id
        /\ DOMAIN row_id_cursors' = DOMAIN row_id_cursors \cup {u}
        /\ row_id_cursors'[u].next = NextRowId(u) + 1
        /\ \A x \in DOMAIN row_id_cursors \ {u} : row_id_cursors'[x] = row_id_cursors[x]
    BY <1>12, <2>1, Allocated
  <2>3. CASE t = u
    <3>1. catalog'[t].next_row_id \in Nat
      BY <1>3, <2>1 DEF IInv, TypeOK, IsMap, Schema
    <3>2. NextIdOf(t)' = NextRowId(t) + 1 \/ NextIdOf(t)' = catalog'[t].next_row_id
      BY <2>1, <2>2, <2>3 DEF NextIdOf, NextRowId, HasCursor
    <3>3. NextIdOf(t) = NextRowId(t)
      BY <2>1 DEF NextIdOf
    <3> QED
      BY <2>2, <2>3, <3>1, <3>2, <3>3
  <2>4. CASE t # u
    BY <1>2, <1>3, <2>1, <2>2, <2>4, NextIdKept
  <2> QED
    BY <2>3, <2>4
<1> QED
  BY <1>4, <1>5, <1>7, <1>8, <1>9, <1>10, <1>11, <1>12 DEF Next

\* The id the next row of a table gets never moves back, except by ROLLBACK
\* (storage.rs:616).
THEOREM RowIdsOnlyMoveForward == Spec => RowIdsMoveForward
<1>1. IInv /\ IInv' /\ [Next]_vars =>
        [\A t \in DOMAIN disk.catalog \cap DOMAIN disk'.catalog :
            NextIdOf(t)' >= NextIdOf(t) \/ RollbackTransaction]_vars
  BY NextIdMovesForward
<1> QED
  BY <1>1, InvariantHolds, PTL DEF Spec, RowIdsMoveForward
=================================================================================
