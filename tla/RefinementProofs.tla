---------------------------- MODULE RefinementProofs ----------------------------
(***************************************************************************)
(* Storage.tla implements Database.tla, for every set of tables, columns,  *)
(* indexes and values and every bound: each call of storage.rs changes the *)
(* contents as the action of that name in Database.tla says, or not at     *)
(* all.                                                                    *)
(***************************************************************************)
EXTENDS StorageRefinement, StorageProofs

---------------------------------------------------------------------------------
(* The instance of Database has its own copy of what Relational defines *)

LEMMA SameConstants ==
    /\ D!Val = Val
    /\ D!EmptyMap = EmptyMap
    /\ \A columns : D!Assignments(columns) = Assignments(columns)
    /\ \A op, t, columns, renamed, index :
            D!Change(op, t, columns, renamed, index) = Change(op, t, columns, renamed, index)
  BY DEF D!Val, Val, D!EmptyMap, EmptyMap, D!Assignments, Assignments, D!Change, Change

LEMMA SameEdits ==
    /\ \A f, k, v : D!Put(f, k, v) = Put(f, k, v)
    /\ \A f, S : D!Without(f, S) = Without(f, S)
    /\ \A data, c, v : D!WithColumn(data, c, v) = WithColumn(data, c, v)
    /\ \A data, c : D!WithoutColumn(data, c) = WithoutColumn(data, c)
    /\ \A data, old, new : D!WithRenamed(data, old, new) = WithRenamed(data, old, new)
    /\ \A data, where, a : D!Updated(data, where, a) = Updated(data, where, a)
<1>1. \A f, g : D!Override(f, g) = Override(f, g)
  BY DEF D!Override, Override
<1>2. \A f, k, v : D!Put(f, k, v) = Put(f, k, v)
  BY <1>1 DEF D!Put, Put
<1>3. \A f, S : D!Without(f, S) = Without(f, S)
  BY DEF D!Without, Without, D!Restrict, Restrict
<1>4. \A data, old, new : D!WithRenamed(data, old, new) = WithRenamed(data, old, new)
  BY <1>2, <1>3 DEF D!WithRenamed, WithRenamed
<1>5. \A data, where, a : D!Updated(data, where, a) = Updated(data, where, a)
  BY <1>1 DEF D!Updated, Updated
<1> QED
  BY <1>2, <1>3, <1>4, <1>5 DEF D!WithColumn, WithColumn, D!WithoutColumn, WithoutColumn

LEMMA SameIndexes ==
    /\ \A indexes, t : D!IndexesOn(indexes, t) = IndexesOn(indexes, t)
    /\ \A indexes, t, c : D!IndexesOnColumn(indexes, t, c) = IndexesOnColumn(indexes, t, c)
  BY DEF D!IndexesOn, IndexesOn, D!IndexesOnColumn, IndexesOnColumn

LEMMA SameKept ==
    ASSUME NEW s, NEW S
    PROVE  D!Kept(s, S) = Kept(s, S)
<1>1. D!Enumerations(S, Len(s)) = Enumerations(S, Len(s))
  BY DEF D!Enumerations, Enumerations, D!Range, Range
<1> QED
  BY <1>1 DEF D!Kept, Kept

---------------------------------------------------------------------------------
(* The contents that files stand for, part by part *)

SchemaIn(cat) == [t \in DOMAIN cat |-> cat[t].columns]
DataIn(rows) == [i \in DOMAIN rows |-> rows[i].data]
RowsDataIn(tables) == [t \in DOMAIN tables |-> DataIn(tables[t])]
ChangesIn(records) == [k \in DOMAIN records |-> records[k].change]

Contents(files) ==
    [schema |-> SchemaIn(files.catalog), rows |-> RowsDataIn(files.tables),
     indexes |-> files.indexes, log |-> ChangesIn(files.migrations)]

LEMMA ContentsAre ==
    ASSUME NEW files, DOMAIN files.tables = DOMAIN files.catalog
    PROVE  ContentsOf(files) = Contents(files)
  BY DEF ContentsOf, Contents, SchemaIn, RowsDataIn, DataIn, ChangesIn, RowsIn

LEMMA VisibleIsDisk ==
    ASSUME IInv
    PROVE  ContentsOf(Visible) = Contents(disk)
<1>1. Visible = disk
  BY DEF IInv, MetadataSaved, TypeOK, IsFiles, Visible
<1>2. DOMAIN disk.tables = DOMAIN disk.catalog
  BY DEF IInv, WellFormed, RowsWellFormed
<1> QED
  BY <1>1, <1>2, ContentsAre

LEMMA VisibleIsDiskAfter ==
    ASSUME IInv'
    PROVE  ContentsOf(Visible)' = Contents(disk')
<1>1. Visible' = disk'
  BY DEF IInv, MetadataSaved, TypeOK, IsFiles, Visible
<1>2. DOMAIN disk'.tables = DOMAIN disk'.catalog
  BY DEF IInv, WellFormed, RowsWellFormed
<1>3. ContentsOf(disk') = Contents(disk')
  BY <1>2, ContentsAre
<1> QED
  BY <1>1, <1>3

Saved == IF txn_dir THEN ContentsOf(txn_snapshot) ELSE NoSnapshot

LEMMA SnapshotContents ==
    ASSUME IInv, txn_dir
    PROVE  ContentsOf(txn_snapshot) = Contents(txn_snapshot)
<1>1. DOMAIN txn_snapshot.tables = DOMAIN txn_snapshot.catalog
  BY DEF IInv, SnapshotSound, WellFormed, RowsWellFormed
<1> QED
  BY <1>1, ContentsAre

\* The contents of a snapshot are not taken for no transaction.
LEMMA SnapshotIsOne ==
    ASSUME IInv, txn_dir
    PROVE  ContentsOf(txn_snapshot) # NoSnapshot
<1> DEFINE s == txn_snapshot
<1>1. IsFiles(s)
  BY DEF IInv, TypeOK
<1>2. SchemaIn(s.catalog) \in Maps(Tables, SUBSET Columns)
  <2>1. IsMap(SchemaIn(s.catalog), Tables, SUBSET Columns)
    BY <1>1 DEF IsFiles, IsMap, SchemaIn, Schema
  <2> QED
    BY <2>1, MapsAreMaps
<1>3. RowsDataIn(s.tables) \in Maps(Tables, Seq(Data))
  <2>1. ASSUME NEW t \in DOMAIN s.tables
        PROVE  DataIn(s.tables[t]) \in Seq(Data)
    <3>1. s.tables[t] \in Seq(Row)
      BY <1>1 DEF IsFiles, IsMap
    <3>2. \A i \in DOMAIN s.tables[t] : s.tables[t][i] \in Row
      BY <3>1
    <3>3. DataIn(s.tables[t]) \in [DOMAIN s.tables[t] -> Data]
      BY <3>2 DEF DataIn, Row
    <3> QED
      BY <3>1, <3>3, SameLength
  <2>2. IsMap(RowsDataIn(s.tables), Tables, Seq(Data))
    BY <1>1, <2>1 DEF IsFiles, IsMap, RowsDataIn
  <2> QED
    BY <2>2, MapsAreMaps
<1>4. s.indexes \in Maps(IndexNames, IndexDefinition)
  BY <1>1, MapsAreMaps DEF IsFiles
<1>5. ChangesIn(s.migrations) \in Seq(Changes)
  <2>1. s.migrations \in Seq(Migration)
    BY <1>1 DEF IsFiles
  <2>2. \A k \in DOMAIN s.migrations : s.migrations[k] \in Migration
    BY <2>1
  <2>3. ChangesIn(s.migrations) \in [DOMAIN s.migrations -> Changes]
    BY <2>2 DEF ChangesIn, Migration
  <2> QED
    BY <2>1, <2>3, SameLength
<1> QED
  BY <1>2, <1>3, <1>4, <1>5, SnapshotContents, SnapshotAssumption DEF Contents

---------------------------------------------------------------------------------
(* What an edit of the files does to the parts of the contents *)

LEMMA TablePut ==
    ASSUME NEW tables, NEW t, NEW rows
    PROVE  RowsDataIn(Put(tables, t, rows)) = Put(RowsDataIn(tables), t, DataIn(rows))
  BY DEF RowsDataIn, Put, Override

LEMMA TableReplaced ==
    ASSUME NEW tables, NEW t \in DOMAIN tables, NEW rows
    PROVE  RowsDataIn(Put(tables, t, rows)) = [RowsDataIn(tables) EXCEPT ![t] = DataIn(rows)]
  BY DEF RowsDataIn, Put, Override

LEMMA Removed ==
    ASSUME NEW f, NEW S
    PROVE  /\ SchemaIn(Without(f, S)) = Without(SchemaIn(f), S)
           /\ RowsDataIn(Without(f, S)) = Without(RowsDataIn(f), S)
  BY DEF SchemaIn, RowsDataIn, Without, Restrict

LEMMA AppendIsFunction ==
    ASSUME NEW S, NEW s \in Seq(S), NEW x
    PROVE  Append(s, x) = [k \in 1..(Len(s) + 1) |-> Append(s, x)[k]]
<1>1. s \in Seq(S \cup {x}) /\ x \in S \cup {x}
  OBVIOUS
<1>2. Append(s, x) \in Seq(S \cup {x}) /\ Len(Append(s, x)) = Len(s) + 1
  BY <1>1
<1>3. \A T : \A q \in Seq(T) : q \in [1..Len(q) -> T]
  OBVIOUS
<1>4. Append(s, x) \in [1..(Len(s) + 1) -> S \cup {x}]
  <2> DEFINE q == Append(s, x)
  <2> HIDE DEF q
  <2>1. q \in Seq(S \cup {x}) /\ Len(q) = Len(s) + 1
    BY <1>2 DEF q
  <2> QED
    BY <1>3, <2>1 DEF q
<1> QED
  BY <1>4

LEMMA Recorded ==
    ASSUME TypeOK, NEW change, RecordMigration(change)
    PROVE  ChangesIn(migrations') = Append(ChangesIn(migrations), change)
<1> DEFINE id == IF migrations = <<>> THEN 1 ELSE migrations[Len(migrations)].id + 1
           record == [id |-> id, change |-> change]
<1>1. migrations \in Seq(Migration) /\ migrations' = Append(migrations, record)
  BY DEF TypeOK, RecordMigration
<1>2. record.change = change
  OBVIOUS
<1> HIDE DEF record
<1>3. /\ Len(migrations) \in Nat /\ DOMAIN migrations = 1..Len(migrations)
      /\ DOMAIN migrations' = 1..(Len(migrations) + 1)
      /\ \A k \in DOMAIN migrations : migrations'[k] = migrations[k]
      /\ migrations'[Len(migrations) + 1] = record
  BY <1>1
<1>4. /\ DOMAIN ChangesIn(migrations) = 1..Len(migrations)
      /\ ChangesIn(migrations) \in Seq({migrations[k].change : k \in DOMAIN migrations})
      /\ Len(ChangesIn(migrations)) = Len(migrations)
  BY <1>3 DEF ChangesIn
<1>5. /\ DOMAIN Append(ChangesIn(migrations), change) = 1..(Len(migrations) + 1)
      /\ \A k \in 1..Len(migrations) :
            Append(ChangesIn(migrations), change)[k] = migrations[k].change
      /\ Append(ChangesIn(migrations), change)[Len(migrations) + 1] = change
  BY <1>3, <1>4 DEF ChangesIn
<1>6. /\ DOMAIN ChangesIn(migrations') = 1..(Len(migrations) + 1)
      /\ \A k \in 1..(Len(migrations) + 1) : ChangesIn(migrations')[k] = migrations'[k].change
  BY <1>3 DEF ChangesIn
<1>7. \A k \in 1..(Len(migrations) + 1) :
         ChangesIn(migrations')[k] = Append(ChangesIn(migrations), change)[k]
  <2> SUFFICES ASSUME NEW k \in 1..(Len(migrations) + 1)
               PROVE  ChangesIn(migrations')[k] = Append(ChangesIn(migrations), change)[k]
    OBVIOUS
  <2>1. k \in 1..Len(migrations) \/ k = Len(migrations) + 1
    BY <1>3
  <2> QED
    BY <1>2, <1>3, <1>5, <1>6, <2>1
<1>8. ChangesIn(migrations') = [k \in 1..(Len(migrations) + 1) |-> ChangesIn(migrations')[k]]
  BY <1>6 DEF ChangesIn
<1>9. Append(ChangesIn(migrations), change)
        = [k \in 1..(Len(migrations) + 1) |-> Append(ChangesIn(migrations), change)[k]]
  BY <1>4, AppendIsFunction
<1> QED
  BY <1>7, <1>8, <1>9

LEMMA DataOfNothing == DataIn(<<>>) = <<>>
  BY DEF DataIn

LEMMA Parts ==
    ASSUME NEW files
    PROVE  /\ Contents(files).schema = SchemaIn(files.catalog)
           /\ Contents(files).rows = RowsDataIn(files.tables)
           /\ Contents(files).indexes = files.indexes
           /\ Contents(files).log = ChangesIn(files.migrations)
           /\ \A e : /\ e = [schema |-> e.schema, rows |-> e.rows, indexes |-> e.indexes, log |-> e.log]
                     /\ e.schema = SchemaIn(files.catalog) /\ e.rows = RowsDataIn(files.tables)
                     /\ e.indexes = files.indexes /\ e.log = ChangesIn(files.migrations)
                     => e = Contents(files)
  BY DEF Contents

---------------------------------------------------------------------------------
(* Schema changes *)

\* What the files are before and after a call, in terms of the contents.
LEMMA Mapped ==
    ASSUME IInv, IInv'
    PROVE  /\ ContentsOf(Visible) = Contents(disk)
           /\ ContentsOf(Visible)' = Contents(disk')
           /\ UNCHANGED <<txn_snapshot, txn_dir>> => UNCHANGED Saved
  BY VisibleIsDisk, VisibleIsDiskAfter DEF Saved

LEMMA CreateTableImplements ==
    ASSUME IInv, IInv', NEW t, NEW columns, CreateTable(t, columns)
    PROVE  D!CreateTable(t, columns)
<1> DEFINE change == Change("CREATE_TABLE", t, columns, {}, {})
           after == [Contents(disk) EXCEPT
                        !.schema = D!Put(@, t, columns), !.rows = D!Put(@, t, <<>>),
                        !.log = Append(@, D!Change("CREATE_TABLE", t, columns, {}, {}))]
<1>1. running /\ IsFiles(disk) /\ TypeOK
  BY DEF CreateTable, IInv, TypeOK
<1>2. catalog = disk.catalog /\ migrations = disk.migrations
  BY <1>1, Running
<1>3. /\ disk'.catalog = Put(disk.catalog, t, [columns |-> columns, next_row_id |-> 0])
      /\ disk'.tables = Put(disk.tables, t, <<>>)
      /\ disk'.indexes = disk.indexes
      /\ disk'.migrations = migrations'
  BY <1>1, <1>2 DEF CreateTable, IsFiles
<1>4. SchemaIn(disk'.catalog) = Put(SchemaIn(disk.catalog), t, columns)
  BY <1>3 DEF SchemaIn, Put, Override
<1>5. RowsDataIn(disk'.tables) = Put(RowsDataIn(disk.tables), t, <<>>)
  BY <1>3, TablePut, DataOfNothing
<1>6. ChangesIn(disk'.migrations) = Append(ChangesIn(disk.migrations), change)
  BY <1>1, <1>2, <1>3, Recorded DEF CreateTable
<1>7. t \notin DOMAIN SchemaIn(disk.catalog)
  BY <1>2 DEF CreateTable, SchemaIn
<1>8. ASSUME NEW e, e = after
      PROVE  e = Contents(disk')
  BY <1>3, <1>4, <1>5, <1>6, <1>8, SameEdits, SameConstants DEF Contents
<1>9. UNCHANGED Saved
  BY Mapped DEF CreateTable
<1> QED
  BY <1>7, <1>8, <1>9, Mapped, Parts DEF D!CreateTable, D!Exists, Saved

LEMMA DropTableImplements ==
    ASSUME IInv, IInv', NEW t, DropTable(t)
    PROVE  D!DropTable(t)
<1> DEFINE change == Change("DROP_TABLE", t, {}, {}, {})
           after == [Contents(disk) EXCEPT
                        !.schema = D!Without(@, {t}), !.rows = D!Without(@, {t}),
                        !.indexes = D!Without(@, D!IndexesOn(@, t)),
                        !.log = Append(@, D!Change("DROP_TABLE", t, {}, {}, {}))]
<1>1. running /\ IsFiles(disk) /\ TypeOK
  BY DEF DropTable, IInv, TypeOK
<1>2. catalog = disk.catalog /\ migrations = disk.migrations /\ index_catalog = disk.indexes
  BY <1>1, Running
<1>3. /\ disk'.catalog = Without(disk.catalog, {t})
      /\ disk'.tables = Without(disk.tables, {t})
      /\ disk'.indexes = Without(disk.indexes, IndexesOn(disk.indexes, t))
      /\ disk'.migrations = migrations'
  BY <1>1, <1>2 DEF DropTable, IsFiles
<1>4. /\ SchemaIn(disk'.catalog) = Without(SchemaIn(disk.catalog), {t})
      /\ RowsDataIn(disk'.tables) = Without(RowsDataIn(disk.tables), {t})
  BY <1>3, Removed
<1>5. ChangesIn(disk'.migrations) = Append(ChangesIn(disk.migrations), change)
  BY <1>1, <1>2, <1>3, Recorded DEF DropTable
<1>6. t \in DOMAIN SchemaIn(disk.catalog)
  BY <1>2 DEF DropTable, SchemaIn
<1>7. ASSUME NEW e, e = after
      PROVE  e = Contents(disk')
  BY <1>3, <1>4, <1>5, <1>7, SameEdits, SameIndexes, SameConstants DEF Contents
<1>8. UNCHANGED Saved
  BY Mapped DEF DropTable
<1> QED
  BY <1>6, <1>7, <1>8, Mapped, Parts DEF D!DropTable, D!Exists, Saved

LEMMA CreateIndexImplements ==
    ASSUME IInv, IInv', NEW i, NEW t, NEW c, CreateIndex(i, t, c)
    PROVE  D!CreateIndex(i, t, c)
<1> DEFINE change == Change("CREATE_INDEX", t, {c}, {}, {i})
           after == [Contents(disk) EXCEPT
                        !.indexes = D!Put(@, i, [table |-> t, column |-> c]),
                        !.log = Append(@, D!Change("CREATE_INDEX", t, {c}, {}, {i}))]
<1>1. running /\ IsFiles(disk) /\ TypeOK
  BY DEF CreateIndex, IInv, TypeOK
<1>2. catalog = disk.catalog /\ migrations = disk.migrations /\ index_catalog = disk.indexes
  BY <1>1, Running
<1>3. /\ disk'.catalog = disk.catalog /\ disk'.tables = disk.tables
      /\ disk'.indexes = Put(disk.indexes, i, [table |-> t, column |-> c])
      /\ disk'.migrations = migrations'
  BY <1>1, <1>2 DEF CreateIndex, IsFiles
<1>4. ChangesIn(disk'.migrations) = Append(ChangesIn(disk.migrations), change)
  BY <1>1, <1>2, <1>3, Recorded DEF CreateIndex
<1>5. /\ t \in DOMAIN SchemaIn(disk.catalog) /\ c \in SchemaIn(disk.catalog)[t]
      /\ i \notin DOMAIN disk.indexes /\ IndexesOnColumn(disk.indexes, t, c) = {}
  BY <1>2 DEF CreateIndex, SchemaIn
<1>6. ASSUME NEW e, e = after
      PROVE  e = Contents(disk')
  BY <1>3, <1>4, <1>6, SameEdits, SameConstants DEF Contents
<1>7. UNCHANGED Saved
  BY Mapped DEF CreateIndex
<1> QED
  BY <1>5, <1>6, <1>7, Mapped, Parts, SameIndexes DEF D!CreateIndex, D!Exists, Saved

LEMMA DropIndexImplements ==
    ASSUME IInv, IInv', NEW i, DropIndex(i)
    PROVE  D!DropIndex(i)
<1> DEFINE change == Change("DROP_INDEX", disk.indexes[i].table, {}, {}, {i})
           after == [Contents(disk) EXCEPT
                        !.indexes = D!Without(@, {i}),
                        !.log = Append(@, D!Change("DROP_INDEX", Contents(disk).indexes[i].table,
                                                   {}, {}, {i}))]
<1>1. running /\ IsFiles(disk) /\ TypeOK
  BY DEF DropIndex, IInv, TypeOK
<1>2. catalog = disk.catalog /\ migrations = disk.migrations /\ index_catalog = disk.indexes
  BY <1>1, Running
<1>3. /\ disk'.catalog = disk.catalog /\ disk'.tables = disk.tables
      /\ disk'.indexes = Without(disk.indexes, {i})
      /\ disk'.migrations = migrations'
  BY <1>1, <1>2 DEF DropIndex, IsFiles
<1>4. ChangesIn(disk'.migrations) = Append(ChangesIn(disk.migrations), change)
  BY <1>1, <1>2, <1>3, Recorded DEF DropIndex
<1>5. i \in DOMAIN disk.indexes
  BY <1>2 DEF DropIndex
<1>6. ASSUME NEW e, e = after
      PROVE  e = Contents(disk')
  BY <1>3, <1>4, <1>6, SameEdits, SameConstants DEF Contents
<1>7. UNCHANGED Saved
  BY Mapped DEF DropIndex
<1> QED
  BY <1>5, <1>6, <1>7, Mapped, Parts DEF D!DropIndex, Saved

\* A column of one table changes, and with it the data of each of its rows.
LEMMA SchemaEdited ==
    ASSUME IInv, running, NEW t \in DOMAIN catalog, NEW columns
    PROVE  SchemaIn([catalog EXCEPT ![t].columns = columns])
             = [SchemaIn(disk.catalog) EXCEPT ![t] = columns]
<1>1. catalog = disk.catalog
  BY Running
<1>2. catalog[t] \in Schema
  BY DEF IInv, TypeOK, IsMap
<1> QED
  BY <1>1, <1>2 DEF SchemaIn, Schema

LEMMA RowsAt ==
    ASSUME IInv, running, NEW t \in DOMAIN catalog
    PROVE  /\ t \in DOMAIN disk.tables /\ RowsOf(t) = disk.tables[t]
           /\ t \in DOMAIN RowsDataIn(disk.tables)
           /\ RowsDataIn(disk.tables)[t] = DataIn(RowsOf(t))
           /\ DOMAIN DataIn(RowsOf(t)) = DOMAIN RowsOf(t)
           /\ \A i \in DOMAIN RowsOf(t) :
                /\ DataIn(RowsOf(t))[i] = RowsOf(t)[i].data
                /\ \A d : [RowsOf(t)[i] EXCEPT !.data = d].data = d
<1>1. t \in DOMAIN disk.tables /\ RowsOf(t) = disk.tables[t] /\ RowsOf(t) \in Seq(Row)
  BY TableRows
<1>2. \A i \in DOMAIN RowsOf(t) : RowsOf(t)[i] \in Row
  BY <1>1
<1> QED
  BY <1>1, <1>2 DEF RowsDataIn, DataIn, Row

LEMMA AddColumnImplements ==
    ASSUME IInv, IInv', NEW t, NEW c, NEW default, AddColumn(t, c, default)
    PROVE  D!AddColumn(t, c, default)
<1> DEFINE rows == MappedRows(t, LAMBDA data : WithColumn(data, c, default))
           change == Change("ALTER_TABLE_ADD_COLUMN", t, {c}, {}, {})
           after == [Contents(disk) EXCEPT
                        !.schema[t] = @ \cup {c},
                        !.rows[t] = [i \in DOMAIN @ |-> D!WithColumn(@[i], c, default)],
                        !.log = Append(@, D!Change("ALTER_TABLE_ADD_COLUMN", t, {c}, {}, {}))]
<1>1. running /\ IsFiles(disk) /\ TypeOK /\ t \in DOMAIN catalog
  BY DEF AddColumn, IInv, TypeOK
<1>2. catalog = disk.catalog /\ migrations = disk.migrations /\ index_catalog = disk.indexes
  BY <1>1, Running
<1>3. /\ disk'.catalog = [catalog EXCEPT ![t].columns = catalog[t].columns \cup {c}]
      /\ disk'.tables = Put(disk.tables, t, rows)
      /\ disk'.indexes = disk.indexes
      /\ disk'.migrations = migrations'
  BY <1>1, <1>2 DEF AddColumn, IsFiles
<1>4. /\ t \in DOMAIN SchemaIn(disk.catalog) /\ SchemaIn(disk.catalog)[t] = catalog[t].columns
      /\ c \notin SchemaIn(disk.catalog)[t]
  BY <1>1, <1>2 DEF AddColumn, SchemaIn
<1>5. SchemaIn(disk'.catalog) = [SchemaIn(disk.catalog) EXCEPT ![t] = @ \cup {c}]
  <2>1. SchemaIn(disk'.catalog) = [SchemaIn(disk.catalog) EXCEPT ![t] = catalog[t].columns \cup {c}]
    BY <1>1, <1>3, SchemaEdited
  <2> QED
    BY <1>4, <2>1
<1>6. DataIn(rows) = [i \in DOMAIN DataIn(RowsOf(t)) |-> WithColumn(DataIn(RowsOf(t))[i], c, default)]
  BY <1>1, RowsAt DEF MappedRows, DataIn
<1>7. RowsDataIn(disk'.tables) = [RowsDataIn(disk.tables) EXCEPT ![t] = DataIn(rows)]
  BY <1>1, <1>3, RowsAt, TableReplaced
<1>8. ChangesIn(disk'.migrations) = Append(ChangesIn(disk.migrations), change)
  BY <1>1, <1>2, <1>3, Recorded DEF AddColumn
<1> HIDE DEF rows
<1>9. RowsDataIn(disk'.tables)
        = [RowsDataIn(disk.tables) EXCEPT ![t] = [i \in DOMAIN @ |-> D!WithColumn(@[i], c, default)]]
  BY <1>1, <1>6, <1>7, RowsAt, SameEdits
<1>10. ASSUME NEW e, e = after
       PROVE  e = Contents(disk')
  <2>1. e.log = ChangesIn(disk'.migrations) /\ e.indexes = disk'.indexes
    BY <1>3, <1>8, <1>10, SameConstants DEF Contents
  <2>2. e.schema = SchemaIn(disk'.catalog)
    BY <1>5, <1>10 DEF Contents
  <2>3. e.rows = RowsDataIn(disk'.tables)
    BY <1>9, <1>10 DEF Contents
  <2>4. e = [schema |-> e.schema, rows |-> e.rows, indexes |-> e.indexes, log |-> e.log]
    BY <1>10 DEF Contents
  <2> QED
    BY <2>1, <2>2, <2>3, <2>4, Parts
<1>11. UNCHANGED Saved
  BY Mapped DEF AddColumn
<1> QED
  BY <1>4, <1>10, <1>11, Mapped, Parts DEF D!AddColumn, D!Exists, Saved

LEMMA DropColumnImplements ==
    ASSUME IInv, IInv', NEW t, NEW c, DropColumn(t, c)
    PROVE  D!DropColumn(t, c)
<1> DEFINE rows == MappedRows(t, LAMBDA data : WithoutColumn(data, c))
           change == Change("ALTER_TABLE_DROP_COLUMN", t, {c}, {}, {})
           after == [Contents(disk) EXCEPT
                        !.schema[t] = @ \ {c},
                        !.rows[t] = [i \in DOMAIN @ |-> D!WithoutColumn(@[i], c)],
                        !.indexes = D!Without(@, D!IndexesOnColumn(@, t, c)),
                        !.log = Append(@, D!Change("ALTER_TABLE_DROP_COLUMN", t, {c}, {}, {}))]
<1>1. running /\ IsFiles(disk) /\ TypeOK /\ t \in DOMAIN catalog
  BY DEF DropColumn, IInv, TypeOK
<1>2. catalog = disk.catalog /\ migrations = disk.migrations /\ index_catalog = disk.indexes
  BY <1>1, Running
<1>3. /\ disk'.catalog = [catalog EXCEPT ![t].columns = catalog[t].columns \ {c}]
      /\ disk'.tables = Put(disk.tables, t, rows)
      /\ disk'.indexes = Without(disk.indexes, IndexesOnColumn(disk.indexes, t, c))
      /\ disk'.migrations = migrations'
  BY <1>1, <1>2 DEF DropColumn, IsFiles
<1>4. /\ t \in DOMAIN SchemaIn(disk.catalog) /\ SchemaIn(disk.catalog)[t] = catalog[t].columns
      /\ c \in SchemaIn(disk.catalog)[t] /\ SchemaIn(disk.catalog)[t] # {c}
  BY <1>1, <1>2 DEF DropColumn, SchemaIn
<1>5. SchemaIn(disk'.catalog) = [SchemaIn(disk.catalog) EXCEPT ![t] = @ \ {c}]
  <2>1. SchemaIn(disk'.catalog) = [SchemaIn(disk.catalog) EXCEPT ![t] = catalog[t].columns \ {c}]
    BY <1>1, <1>3, SchemaEdited
  <2> QED
    BY <1>4, <2>1
<1>6. DataIn(rows) = [i \in DOMAIN DataIn(RowsOf(t)) |-> WithoutColumn(DataIn(RowsOf(t))[i], c)]
  BY <1>1, RowsAt DEF MappedRows, DataIn
<1>7. RowsDataIn(disk'.tables) = [RowsDataIn(disk.tables) EXCEPT ![t] = DataIn(rows)]
  BY <1>1, <1>3, RowsAt, TableReplaced
<1>8. ChangesIn(disk'.migrations) = Append(ChangesIn(disk.migrations), change)
  BY <1>1, <1>2, <1>3, Recorded DEF DropColumn
<1> HIDE DEF rows
<1>9. RowsDataIn(disk'.tables)
        = [RowsDataIn(disk.tables) EXCEPT ![t] = [i \in DOMAIN @ |-> D!WithoutColumn(@[i], c)]]
  BY <1>1, <1>6, <1>7, RowsAt, SameEdits
<1>10. ASSUME NEW e, e = after
       PROVE  e = Contents(disk')
  <2>1. e.log = ChangesIn(disk'.migrations)
    BY <1>8, <1>10, SameConstants DEF Contents
  <2>2. e.schema = SchemaIn(disk'.catalog)
    BY <1>5, <1>10 DEF Contents
  <2>3. e.rows = RowsDataIn(disk'.tables)
    BY <1>9, <1>10 DEF Contents
  <2>4. e.indexes = disk'.indexes
    BY <1>3, <1>10, SameEdits, SameIndexes DEF Contents
  <2>5. e = [schema |-> e.schema, rows |-> e.rows, indexes |-> e.indexes, log |-> e.log]
    BY <1>10 DEF Contents
  <2> QED
    BY <2>1, <2>2, <2>3, <2>4, <2>5, Parts
<1>11. UNCHANGED Saved
  BY Mapped DEF DropColumn
<1> QED
  BY <1>4, <1>10, <1>11, Mapped, Parts DEF D!DropColumn, D!Exists, Saved

LEMMA RenameColumnImplements ==
    ASSUME IInv, IInv', NEW t, NEW old, NEW new, RenameColumn(t, old, new)
    PROVE  D!RenameColumn(t, old, new)
<1> DEFINE rows == MappedRows(t, LAMBDA data : WithRenamed(data, old, new))
           change == Change("ALTER_TABLE_RENAME_COLUMN", t, {old}, {new}, {})
           after == [Contents(disk) EXCEPT
                        !.schema[t] = (@ \ {old}) \cup {new},
                        !.rows[t] = [i \in DOMAIN @ |-> D!WithRenamed(@[i], old, new)],
                        !.indexes = [i \in DOMAIN @ |->
                            IF i \in D!IndexesOnColumn(@, t, old)
                            THEN [@[i] EXCEPT !.column = new] ELSE @[i]],
                        !.log = Append(@, D!Change("ALTER_TABLE_RENAME_COLUMN", t, {old}, {new}, {}))]
<1>1. running /\ IsFiles(disk) /\ TypeOK /\ t \in DOMAIN catalog
  BY DEF RenameColumn, IInv, TypeOK
<1>2. catalog = disk.catalog /\ migrations = disk.migrations /\ index_catalog = disk.indexes
  BY <1>1, Running
<1>3. /\ disk'.catalog = [catalog EXCEPT ![t].columns = (catalog[t].columns \ {old}) \cup {new}]
      /\ disk'.tables = Put(disk.tables, t, rows)
      /\ disk'.indexes = RenamedIndexes(t, old, new)
      /\ disk'.migrations = migrations'
  BY <1>1, <1>2 DEF RenameColumn, IsFiles
<1>4. /\ t \in DOMAIN SchemaIn(disk.catalog) /\ SchemaIn(disk.catalog)[t] = catalog[t].columns
      /\ old \in SchemaIn(disk.catalog)[t] /\ new \notin SchemaIn(disk.catalog)[t]
  BY <1>1, <1>2 DEF RenameColumn, SchemaIn
<1>5. SchemaIn(disk'.catalog) = [SchemaIn(disk.catalog) EXCEPT ![t] = (@ \ {old}) \cup {new}]
  <2>1. SchemaIn(disk'.catalog)
          = [SchemaIn(disk.catalog) EXCEPT ![t] = (catalog[t].columns \ {old}) \cup {new}]
    BY <1>1, <1>3, SchemaEdited
  <2> QED
    BY <1>4, <2>1
<1>6. DataIn(rows) = [i \in DOMAIN DataIn(RowsOf(t)) |-> WithRenamed(DataIn(RowsOf(t))[i], old, new)]
  BY <1>1, RowsAt DEF MappedRows, DataIn
<1>7. RowsDataIn(disk'.tables) = [RowsDataIn(disk.tables) EXCEPT ![t] = DataIn(rows)]
  BY <1>1, <1>3, RowsAt, TableReplaced
<1>8. ChangesIn(disk'.migrations) = Append(ChangesIn(disk.migrations), change)
  BY <1>1, <1>2, <1>3, Recorded DEF RenameColumn
<1> HIDE DEF rows
<1>9. RowsDataIn(disk'.tables)
        = [RowsDataIn(disk.tables) EXCEPT ![t] = [i \in DOMAIN @ |-> D!WithRenamed(@[i], old, new)]]
  BY <1>1, <1>6, <1>7, RowsAt, SameEdits
<1>10. ASSUME NEW e, e = after
       PROVE  e = Contents(disk')
  <2>1. e.log = ChangesIn(disk'.migrations)
    BY <1>8, <1>10, SameConstants DEF Contents
  <2>2. e.schema = SchemaIn(disk'.catalog)
    BY <1>5, <1>10 DEF Contents
  <2>3. e.rows = RowsDataIn(disk'.tables)
    BY <1>9, <1>10 DEF Contents
  <2>4. e.indexes = disk'.indexes
    BY <1>2, <1>3, <1>10, SameIndexes DEF Contents, RenamedIndexes
  <2>5. e = [schema |-> e.schema, rows |-> e.rows, indexes |-> e.indexes, log |-> e.log]
    BY <1>10 DEF Contents
  <2> QED
    BY <2>1, <2>2, <2>3, <2>4, <2>5, Parts
<1>11. UNCHANGED Saved
  BY Mapped DEF RenameColumn
<1> QED
  BY <1>4, <1>10, <1>11, Mapped, Parts DEF D!RenameColumn, D!Exists, Saved

---------------------------------------------------------------------------------
(* Rows *)

\* A call that only changes the rows of a table.
LEMMA OnlyRows ==
    ASSUME IInv, running, NEW t \in DOMAIN catalog, NEW rows,
           SchemaIn(disk'.catalog) = SchemaIn(disk.catalog),
           disk'.indexes = disk.indexes, disk'.migrations = disk.migrations,
           disk'.tables = Put(disk.tables, t, rows),
           NEW e,
           e = [schema |-> e.schema, rows |-> e.rows, indexes |-> e.indexes, log |-> e.log],
           e.schema = SchemaIn(disk.catalog), e.indexes = disk.indexes,
           e.log = ChangesIn(disk.migrations),
           e.rows = [RowsDataIn(disk.tables) EXCEPT ![t] = DataIn(rows)]
    PROVE  e = Contents(disk')
<1>1. RowsDataIn(disk'.tables) = [RowsDataIn(disk.tables) EXCEPT ![t] = DataIn(rows)]
  BY RowsAt, TableReplaced
<1> QED
  BY <1>1, Parts

LEMMA DataAppended ==
    ASSUME NEW s \in Seq(Row), NEW row
    PROVE  DataIn(Append(s, row)) = Append(DataIn(s), row.data)
<1> DEFINE n == Len(s)
           whole == Append(s, row)
<1>1. n \in Nat /\ DOMAIN s = 1..n
  OBVIOUS
<1>2. /\ DOMAIN whole = 1..(n + 1)
      /\ \A k \in 1..n : whole[k] = s[k]
      /\ whole[n + 1] = row
  BY <1>1
<1>3. /\ DOMAIN DataIn(s) = 1..n
      /\ DataIn(s) \in Seq({s[k].data : k \in DOMAIN s})
      /\ Len(DataIn(s)) = n
  BY <1>1 DEF DataIn
<1>4. /\ \A k \in 1..n : Append(DataIn(s), row.data)[k] = s[k].data
      /\ Append(DataIn(s), row.data)[n + 1] = row.data
  BY <1>1, <1>3 DEF DataIn
<1> HIDE DEF whole
<1>5. /\ DOMAIN DataIn(whole) = 1..(n + 1)
      /\ \A k \in 1..(n + 1) : DataIn(whole)[k] = whole[k].data
  BY <1>2 DEF DataIn
<1>6. \A k \in 1..(n + 1) : DataIn(whole)[k] = Append(DataIn(s), row.data)[k]
  <2> SUFFICES ASSUME NEW k \in 1..(n + 1)
               PROVE  DataIn(whole)[k] = Append(DataIn(s), row.data)[k]
    OBVIOUS
  <2>1. k \in 1..n \/ k = n + 1
    BY <1>1
  <2> QED
    BY <1>2, <1>4, <1>5, <2>1
<1>7. DataIn(whole) = [k \in 1..(n + 1) |-> DataIn(whole)[k]]
  BY <1>5 DEF DataIn
<1>8. Append(DataIn(s), row.data) = [k \in 1..(n + 1) |-> Append(DataIn(s), row.data)[k]]
  BY <1>3, AppendIsFunction
<1> QED
  BY <1>6, <1>7, <1>8 DEF whole

LEMMA InsertImplements ==
    ASSUME IInv, IInv', NEW t \in Tables, NEW data, Insert(t, data)
    PROVE  D!Insert(t, data)
<1> DEFINE row == [id |-> NextRowId(t), data |-> data]
           rows == Append(RowsOf(t), row)
           after == [Contents(disk) EXCEPT !.rows[t] = Append(@, data)]
<1>1. running /\ IsFiles(disk) /\ TypeOK /\ t \in DOMAIN catalog /\ table_files[t] # "orphan"
  BY DEF Insert, IInv, TypeOK, NoOrphanHandle
<1>2. catalog = disk.catalog /\ migrations = disk.migrations /\ index_catalog = disk.indexes
  BY <1>1, Running
<1>3. /\ disk'.catalog = catalog'
      /\ disk'.tables = Put(disk.tables, t, rows)
      /\ disk'.indexes = disk.indexes
      /\ disk'.migrations = disk.migrations
  BY <1>1, <1>2 DEF Insert, IsFiles
<1>4. SchemaIn(catalog') = SchemaIn(catalog)
  <2>1. catalog' = catalog \/ \E n : catalog' = [catalog EXCEPT ![t].next_row_id = n]
    BY DEF Insert, AllocateRowId
  <2>2. catalog[t] \in Schema
    BY <1>1 DEF TypeOK, IsMap
  <2> QED
    BY <2>1, <2>2 DEF SchemaIn, Schema
<1>5. row.data = data /\ RowsOf(t) \in Seq(Row)
  BY <1>1, TableRows
<1> HIDE DEF row
<1>6. DataIn(rows) = Append(DataIn(RowsOf(t)), data)
  BY <1>5, DataAppended
<1>7. t \in DOMAIN SchemaIn(disk.catalog)
  BY <1>1, <1>2 DEF SchemaIn
<1> HIDE DEF rows
<1>8. ASSUME NEW e, e = after
      PROVE  e = Contents(disk')
  <2>1. /\ e.schema = SchemaIn(disk.catalog) /\ e.indexes = disk.indexes
        /\ e.log = ChangesIn(disk.migrations)
        /\ e = [schema |-> e.schema, rows |-> e.rows, indexes |-> e.indexes, log |-> e.log]
    BY <1>8 DEF Contents
  <2>2. e.rows = [RowsDataIn(disk.tables) EXCEPT ![t] = Append(@, data)]
    BY <1>8 DEF Contents
  <2>3. e.rows = [RowsDataIn(disk.tables) EXCEPT ![t] = DataIn(rows)]
    BY <1>1, <1>6, <2>2, RowsAt
  <2> QED
    BY <1>1, <1>2, <1>3, <1>4, <2>1, <2>3, OnlyRows
<1>9. UNCHANGED Saved
  BY Mapped DEF Insert
<1> QED
  BY <1>7, <1>8, <1>9, Mapped, Parts DEF D!Insert, D!Exists, Saved

LEMMA UpdateImplements ==
    ASSUME IInv, IInv', NEW t \in Tables, NEW where, NEW assignments, Update(t, where, assignments)
    PROVE  D!Update(t, where, assignments)
<1> DEFINE rows == MappedRows(t, LAMBDA data : Updated(data, where, assignments))
           after == [Contents(disk) EXCEPT
                        !.rows[t] = [i \in DOMAIN @ |-> D!Updated(@[i], where, assignments)]]
<1>1. running /\ IsFiles(disk) /\ TypeOK /\ t \in DOMAIN catalog
  BY DEF Update, IInv, TypeOK
<1>2. catalog = disk.catalog
  BY <1>1, Running
<1>3. /\ disk'.catalog = disk.catalog
      /\ disk'.tables = Put(disk.tables, t, rows)
      /\ disk'.indexes = disk.indexes
      /\ disk'.migrations = disk.migrations
  BY <1>1 DEF Update, IsFiles
<1>4. DataIn(rows)
        = [i \in DOMAIN DataIn(RowsOf(t)) |-> Updated(DataIn(RowsOf(t))[i], where, assignments)]
  BY <1>1, RowsAt DEF MappedRows, DataIn
<1>5. t \in DOMAIN SchemaIn(disk.catalog)
  BY <1>1, <1>2 DEF SchemaIn
<1> HIDE DEF rows
<1>6. ASSUME NEW e, e = after
      PROVE  e = Contents(disk')
  <2>1. /\ e.schema = SchemaIn(disk.catalog) /\ e.indexes = disk.indexes
        /\ e.log = ChangesIn(disk.migrations)
        /\ e = [schema |-> e.schema, rows |-> e.rows, indexes |-> e.indexes, log |-> e.log]
    BY <1>6 DEF Contents
  <2>2. e.rows = [RowsDataIn(disk.tables) EXCEPT
                    ![t] = [i \in DOMAIN @ |-> D!Updated(@[i], where, assignments)]]
    BY <1>6 DEF Contents
  <2>3. e.rows = [RowsDataIn(disk.tables) EXCEPT ![t] = DataIn(rows)]
    BY <1>1, <1>4, <2>2, RowsAt, SameEdits
  <2> QED
    BY <1>1, <1>3, <2>1, <2>3, OnlyRows
<1>7. UNCHANGED Saved
  BY Mapped DEF Update
<1> QED
  BY <1>5, <1>6, <1>7, Mapped, Parts DEF D!Update, D!Exists, Saved

\* The data of the rows kept are the data kept.
LEMMA DataKept ==
    ASSUME NEW s \in Seq(Row), NEW S \in SUBSET DOMAIN s, NEW r \in Kept(s, S)
    PROVE  DataIn(r) \in Kept(DataIn(s), S)
<1>1. /\ DOMAIN DataIn(s) = DOMAIN s
      /\ \A k \in DOMAIN s : DataIn(s)[k] = s[k].data
  BY DEF DataIn
<1>2. Len(DataIn(s)) = Len(s)
  <2>1. DataIn(s) \in Seq({s[k].data : k \in DOMAIN s})
    BY DEF DataIn
  <2> QED
    BY <1>1, <2>1
<1>3. PICK f \in Enumerations(S, Len(s)) : r = [i \in DOMAIN f |-> s[f[i]]]
  BY DEF Kept
<1>4. PICK m \in 0..Len(s) : f \in [1..m -> S]
  BY <1>3 DEF Enumerations
<1>5. DataIn(r) = [i \in DOMAIN f |-> DataIn(s)[f[i]]]
  BY <1>1, <1>3, <1>4 DEF DataIn
<1> QED
  BY <1>2, <1>3, <1>5 DEF Kept

LEMMA DeleteImplements ==
    ASSUME IInv, IInv', NEW t \in Tables, NEW where, Delete(t, where)
    PROVE  D!Delete(t, where)
<1> DEFINE S == {i \in DOMAIN RowsOf(t) : RowsOf(t)[i].data \notin where}
           datas == DataIn(RowsOf(t))
<1>1. running /\ IsFiles(disk) /\ TypeOK /\ t \in DOMAIN catalog
  BY DEF Delete, IInv, TypeOK
<1>2. catalog = disk.catalog
  BY <1>1, Running
<1>3. PICK rows \in Kept(RowsOf(t), S) :
         disk' = [disk EXCEPT !.tables = Put(@, t, rows), !.tmp_rewrite = @ \ {t}]
  BY DEF Delete
<1>4. /\ disk'.catalog = disk.catalog
      /\ disk'.tables = Put(disk.tables, t, rows)
      /\ disk'.indexes = disk.indexes
      /\ disk'.migrations = disk.migrations
  BY <1>1, <1>3 DEF IsFiles
<1>5. DataIn(rows) \in Kept(datas, S)
  BY <1>1, <1>3, TableRows, DataKept
<1>6. S = {i \in DOMAIN datas : datas[i] \notin where}
  BY <1>1, RowsAt
<1>7. DataIn(rows) \in D!Kept(datas, {i \in DOMAIN datas : datas[i] \notin where})
  BY <1>5, <1>6, SameKept
<1>8. t \in DOMAIN SchemaIn(disk.catalog)
  BY <1>1, <1>2 DEF SchemaIn
<1>9. ASSUME NEW e, e = [Contents(disk) EXCEPT !.rows[t] = DataIn(rows)]
      PROVE  e = Contents(disk')
  <2>1. /\ e.schema = SchemaIn(disk.catalog) /\ e.indexes = disk.indexes
        /\ e.log = ChangesIn(disk.migrations)
        /\ e = [schema |-> e.schema, rows |-> e.rows, indexes |-> e.indexes, log |-> e.log]
    BY <1>9 DEF Contents
  <2>2. e.rows = [RowsDataIn(disk.tables) EXCEPT ![t] = DataIn(rows)]
    BY <1>9 DEF Contents
  <2>3. SchemaIn(disk'.catalog) = SchemaIn(disk.catalog)
    BY <1>4
  <2> HIDE DEF S, datas
  <2> QED
    BY <1>1, <1>4, <2>1, <2>2, <2>3, OnlyRows
<1>10. UNCHANGED Saved
  BY Mapped DEF Delete
<1>11. Contents(disk).rows[t] = datas
  BY <1>1, RowsAt, Parts
<1> HIDE DEF datas, S
<1> QED
  BY <1>7, <1>8, <1>9, <1>10, <1>11, Mapped, Parts DEF D!Delete, D!Exists, Saved

---------------------------------------------------------------------------------
(* Opening, ending and transactions *)

\* Index files, markers and temporary files are no part of the contents.
LEMMA SameContents ==
    ASSUME disk'.catalog = disk.catalog, disk'.tables = disk.tables,
           disk'.indexes = disk.indexes, disk'.migrations = disk.migrations
    PROVE  Contents(disk') = Contents(disk)
  BY DEF Contents

LEMMA Stuttering ==
    ASSUME IInv, IInv', Open \/ (\E t : UpdateFails(t) \/ \E c : CacheUniqueValues(t, c))
    PROVE  UNCHANGED D!vars
<1>1. IsFiles(disk)
  BY DEF IInv, TypeOK
<1>2. Contents(disk') = Contents(disk)
  BY <1>1, SameContents DEF Open, UpdateFails, CacheUniqueValues, IsFiles
<1>3. UNCHANGED Saved
  <2>1. CASE Open
    <3>1. ~txn_dir /\ ~txn_dir'
      BY <2>1 DEF Open, IInv, SnapshotSound
    <3> QED
      BY <3>1 DEF Saved
  <2>2. CASE \E t : UpdateFails(t) \/ \E c : CacheUniqueValues(t, c)
    BY <2>2, Mapped DEF UpdateFails, CacheUniqueValues
  <2> QED
    BY <2>1, <2>2
<1> QED
  BY <1>2, <1>3, Mapped DEF D!vars, Saved

\* Drop and exit(1) leave the statements of an open transaction in place.
LEMMA EndImplements ==
    ASSUME IInv, IInv', Close \/ Exit
    PROVE  D!Commit \/ UNCHANGED D!vars
<1>1. IsFiles(disk)
  BY DEF IInv, TypeOK
<1>2. Contents(disk') = Contents(disk)
  BY <1>1, SameContents DEF Close, Exit, IsFiles
<1>3. ~txn_dir' /\ Saved' = NoSnapshot
  BY DEF Close, Exit, Forget, Saved
<1>4. CASE txn_dir
  <2>1. Saved # NoSnapshot
    BY <1>4, SnapshotIsOne DEF Saved
  <2> QED
    BY <1>2, <1>3, <2>1, Mapped DEF D!Commit, Saved
<1>5. CASE ~txn_dir
  <2>1. UNCHANGED Saved
    BY <1>3, <1>5 DEF Saved
  <2> QED
    BY <1>2, <2>1, Mapped DEF D!vars, Saved
<1> QED
  BY <1>4, <1>5

LEMMA BeginImplements ==
    ASSUME IInv, IInv', BeginTransaction
    PROVE  D!Begin
<1>1. IsFiles(disk)
  BY DEF IInv, TypeOK
<1>2. Contents(disk') = Contents(disk)
  BY <1>1, SameContents DEF BeginTransaction, FlushIndexes, IsFiles
<1>3. Saved = NoSnapshot /\ txn_dir' /\ txn_snapshot' = disk'
  BY DEF BeginTransaction, Saved, Copied
<1>4. DOMAIN disk'.tables = DOMAIN disk'.catalog
  BY DEF IInv, WellFormed, RowsWellFormed
<1>5. ContentsOf(disk') = Contents(disk')
  BY <1>4, ContentsAre
<1>6. Saved' = Contents(disk)
  BY <1>2, <1>3, <1>5 DEF Saved
<1> QED
  BY <1>2, <1>3, <1>6, Mapped DEF D!Begin, Saved

LEMMA CommitImplements ==
    ASSUME IInv, IInv', CommitTransaction
    PROVE  D!Commit
<1>1. Saved # NoSnapshot /\ Saved' = NoSnapshot
  BY SnapshotIsOne DEF CommitTransaction, Saved
<1>2. Contents(disk') = Contents(disk)
  BY DEF CommitTransaction
<1> QED
  BY <1>1, <1>2, Mapped DEF D!Commit, Saved

LEMMA RollbackImplements ==
    ASSUME IInv, IInv', RollbackTransaction
    PROVE  D!Rollback
<1>1. Saved # NoSnapshot /\ Saved' = NoSnapshot
  BY SnapshotIsOne DEF RollbackTransaction, Saved
<1>2. Saved = Contents(txn_snapshot) /\ disk' = txn_snapshot
  BY SnapshotContents DEF RollbackTransaction, Saved
<1> QED
  BY <1>1, <1>2, Mapped DEF D!Rollback, Saved

---------------------------------------------------------------------------------
(* Every step *)

LEMMA InitImplements ==
    ASSUME Init
    PROVE  D!Init
<1>1. /\ disk.catalog = EmptyMap /\ disk.tables = EmptyMap /\ disk.indexes = EmptyMap
      /\ disk.migrations = <<>> /\ Saved = NoSnapshot
  BY DEF Init, EmptyFiles, Saved
<1>2. /\ SchemaIn(EmptyMap) = EmptyMap /\ RowsDataIn(EmptyMap) = EmptyMap /\ ChangesIn(<<>>) = <<>>
  BY DEF SchemaIn, RowsDataIn, ChangesIn, EmptyMap
<1>3. ContentsOf(Visible) = Contents(disk)
  BY InitIInv, VisibleIsDisk
<1> QED
  BY <1>1, <1>2, <1>3, SameConstants DEF D!Init, Contents, Saved

\* The contents of a table that exists.
LEMMA TableContents ==
    ASSUME IInv, running, NEW t \in DOMAIN catalog
    PROVE  /\ t \in DOMAIN ContentsOf(Visible).schema
           /\ ContentsOf(Visible).schema[t] = catalog[t].columns
           /\ D!Range(ContentsOf(Visible).rows[t])
                = {RowsOf(t)[i].data : i \in DOMAIN RowsOf(t)}
<1>1. catalog = disk.catalog
  BY Running
<1>2. ContentsOf(Visible).rows[t] = DataIn(RowsOf(t))
  BY VisibleIsDisk, RowsAt, Parts
<1>3. D!Range(DataIn(RowsOf(t))) = {RowsOf(t)[i].data : i \in DOMAIN RowsOf(t)}
  BY DEF D!Range, DataIn
<1>4. t \in DOMAIN SchemaIn(disk.catalog) /\ SchemaIn(disk.catalog)[t] = catalog[t].columns
  BY <1>1 DEF SchemaIn
<1>5. ContentsOf(Visible).schema = SchemaIn(disk.catalog)
  BY VisibleIsDisk, Parts
<1> QED
  BY <1>2, <1>3, <1>4, <1>5

LEMMA StepImplements ==
    ASSUME IInv, IInv', [Next]_vars
    PROVE  [D!Next]_(D!vars)
<1>1. CASE Open \/ Close \/ Exit
  BY <1>1, Stuttering, EndImplements DEF D!Next
<1>2. CASE BeginTransaction \/ CommitTransaction \/ RollbackTransaction
  BY <1>2, BeginImplements, CommitImplements, RollbackImplements DEF D!Next
<1>3. ASSUME NEW i \in IndexNames, DropIndex(i)
      PROVE  [D!Next]_(D!vars)
  BY <1>3, DropIndexImplements DEF D!Next
<1>4. ASSUME NEW t \in Tables,
             \/ \E columns \in (SUBSET Columns) \ {{}} : CreateTable(t, columns)
             \/ DropTable(t)
             \/ UpdateFails(t)
      PROVE  [D!Next]_(D!vars)
  <2>1. CASE \E columns \in (SUBSET Columns) \ {{}} : CreateTable(t, columns)
    BY <2>1, CreateTableImplements DEF D!Next
  <2>2. CASE DropTable(t)
    BY <2>2, DropTableImplements DEF D!Next
  <2>3. CASE UpdateFails(t)
    BY <2>3, Stuttering
  <2> QED
    BY <1>4, <2>1, <2>2, <2>3
<1>5. ASSUME NEW t \in Tables, NEW c \in Columns,
             \/ \E i \in IndexNames : CreateIndex(i, t, c)
             \/ \E default \in Val : AddColumn(t, c, default)
             \/ DropColumn(t, c)
             \/ \E new \in Columns : RenameColumn(t, c, new)
             \/ CacheUniqueValues(t, c)
      PROVE  [D!Next]_(D!vars)
  <2>1. CASE \E i \in IndexNames : CreateIndex(i, t, c)
    BY <2>1, CreateIndexImplements DEF D!Next
  <2>2. CASE \E default \in Val : AddColumn(t, c, default)
    <3>1. PICK default \in Val : AddColumn(t, c, default)
      BY <2>2
    <3>2. D!AddColumn(t, c, default) /\ default \in D!Val
      BY <3>1, AddColumnImplements, SameConstants
    <3> QED
      BY <3>2 DEF D!Next
  <2>3. CASE DropColumn(t, c)
    BY <2>3, DropColumnImplements DEF D!Next
  <2>4. CASE \E new \in Columns : RenameColumn(t, c, new)
    BY <2>4, RenameColumnImplements DEF D!Next
  <2>5. CASE CacheUniqueValues(t, c)
    BY <2>5, Stuttering
  <2> QED
    BY <1>5, <2>1, <2>2, <2>3, <2>4, <2>5
<1>6. ASSUME NEW t \in Tables, t \in DOMAIN catalog,
             NEW data \in [catalog[t].columns -> Val], Insert(t, data)
      PROVE  [D!Next]_(D!vars)
  <2>1. running
    BY <1>6 DEF Insert
  <2>2. D!Insert(t, data)
    BY <1>6, InsertImplements
  <2>3. D!Exists(t) /\ data \in [ContentsOf(Visible).schema[t] -> D!Val]
    BY <1>6, <2>1, TableContents, SameConstants DEF D!Exists
  <2> QED
    BY <2>2, <2>3 DEF D!Next
<1>7. ASSUME NEW t \in Tables, t \in DOMAIN catalog,
             NEW where \in SUBSET {RowsOf(t)[i].data : i \in DOMAIN RowsOf(t)},
             \/ Delete(t, where)
             \/ \E assignments \in Assignments(catalog[t].columns) : Update(t, where, assignments)
      PROVE  [D!Next]_(D!vars)
  <2>1. running
    BY <1>7 DEF Delete, Update
  <2>2. D!Exists(t) /\ where \in SUBSET D!Range(ContentsOf(Visible).rows[t])
    BY <1>7, <2>1, TableContents DEF D!Exists
  <2>3. CASE Delete(t, where)
    BY <2>2, <2>3, DeleteImplements DEF D!Next
  <2>4. CASE \E assignments \in Assignments(catalog[t].columns) : Update(t, where, assignments)
    <3>1. PICK assignments \in Assignments(catalog[t].columns) : Update(t, where, assignments)
      BY <2>4
    <3>2. assignments \in D!Assignments(ContentsOf(Visible).schema[t])
      BY <1>7, <2>1, <3>1, TableContents, SameConstants
    <3>3. D!Update(t, where, assignments)
      BY <3>1, UpdateImplements
    <3> QED
      BY <2>2, <3>2, <3>3 DEF D!Next
  <2> QED
    BY <1>7, <2>3, <2>4
<1>8. CASE UNCHANGED vars
  BY <1>8 DEF vars, memory, D!vars, Visible
<1> QED
  BY <1>1, <1>2, <1>3, <1>4, <1>5, <1>6, <1>7, <1>8 DEF Next

\* Nothing that storage.rs keeps for speed or safety shows in the contents:
\* row ids, locators, index files, caches, open handles, markers and snapshots
\* change nothing, each call does to the contents exactly what its action in
\* Database.tla says, and ROLLBACK restores all of them (storage.rs:167-263).
THEOREM StorageImplementsDatabase == Spec => ImplementsDatabase
<1>1. Init => D!Init
  BY InitImplements
<1>2. IInv /\ IInv' /\ [Next]_vars => [D!Next]_(D!vars)
  BY StepImplements
<1> QED
  BY <1>1, <1>2, InvariantHolds, PTL DEF Spec, ImplementsDatabase, D!Spec
---------------------------------------------------------------------------------
(* The migration log: what SchemaAfter computes, by induction *)

IsHistory(f, log, n) ==
    f = [k \in 0..n |-> IF k = 0 THEN NoSchema ELSE Redo(f[k - 1], log[k])]

LEMMA HistoriesAgree ==
    ASSUME NEW log, NEW n \in Nat, NEW m \in Nat, n <= m,
           NEW f, IsHistory(f, log, n), NEW g, IsHistory(g, log, m)
    PROVE  \A k \in 0..n : f[k] = g[k]
<1> DEFINE A == {k \in Nat : k <= n => f[k] = g[k]}
<1>1. /\ \A k \in 0..n : f[k] = IF k = 0 THEN NoSchema ELSE Redo(f[k - 1], log[k])
      /\ \A k \in 0..m : g[k] = IF k = 0 THEN NoSchema ELSE Redo(g[k - 1], log[k])
  <2>1. \A k \in 0..n : f[k] = IF k = 0 THEN NoSchema ELSE Redo(f[k - 1], log[k])
    BY Zenon DEF IsHistory
  <2>2. \A k \in 0..m : g[k] = IF k = 0 THEN NoSchema ELSE Redo(g[k - 1], log[k])
    BY Zenon DEF IsHistory
  <2> QED
    BY <2>1, <2>2
<1>2. 0 \in A
  BY <1>1
<1>3. ASSUME NEW k \in Nat, k \in A
      PROVE  k + 1 \in A
  BY <1>1, <1>3
<1> HIDE DEF A
<1>4. Nat \subseteq A
  BY <1>2, <1>3, Induction
<1> QED
  BY <1>4 DEF A

LEMMA HistoryExtended ==
    ASSUME NEW log, NEW n \in Nat, NEW f, IsHistory(f, log, n)
    PROVE  \E g : IsHistory(g, log, n + 1)
<1> DEFINE g == [k \in 0..(n + 1) |-> IF k = n + 1 THEN Redo(f[n], log[n + 1]) ELSE f[k]]
<1>1. \A k \in 0..n : f[k] = IF k = 0 THEN NoSchema ELSE Redo(f[k - 1], log[k])
  BY Zenon DEF IsHistory
<1>2. \A k \in 0..n : g[k] = f[k]
  OBVIOUS
<1>3. g[n + 1] = Redo(f[n], log[n + 1])
  OBVIOUS
<1>4. \A k \in 0..(n + 1) : g[k] = IF k = 0 THEN NoSchema ELSE Redo(g[k - 1], log[k])
  <2> HIDE DEF g
  <2> SUFFICES ASSUME NEW k \in 0..(n + 1)
               PROVE  g[k] = IF k = 0 THEN NoSchema ELSE Redo(g[k - 1], log[k])
    OBVIOUS
  <2>1. CASE k = n + 1
    BY <1>2, <1>3, <2>1
  <2>2. CASE k \in 0..n
    BY <1>1, <1>2, <2>2
  <2> QED
    BY <2>1, <2>2
<1>5. g = [k \in 0..(n + 1) |-> g[k]]
  OBVIOUS
<1> HIDE DEF g
<1>6. IsHistory(g, log, n + 1)
  BY <1>4, <1>5 DEF IsHistory
<1> QED
  BY <1>6

LEMMA HistoriesExist ==
    ASSUME NEW log, NEW n \in Nat
    PROVE  \E f : IsHistory(f, log, n)
<1> DEFINE A == {m \in Nat : \E f : IsHistory(f, log, m)}
<1>1. 0 \in A
  <2> DEFINE f == [k \in 0..0 |-> NoSchema]
  <2>1. f = [k \in 0..0 |-> IF k = 0 THEN NoSchema ELSE Redo(f[k - 1], log[k])]
    BY \A k \in 0..0 : k = 0
  <2> QED
    BY <2>1 DEF IsHistory
<1>2. ASSUME NEW m \in Nat, m \in A
      PROVE  m + 1 \in A
  BY <1>2, HistoryExtended
<1> HIDE DEF A
<1>3. Nat \subseteq A
  BY <1>1, <1>2, Induction
<1> QED
  BY <1>3 DEF A

LEMMA SchemaAfterIs ==
    ASSUME NEW log, Len(log) \in Nat, NEW f, IsHistory(f, log, Len(log))
    PROVE  SchemaAfter(log) = f[Len(log)]
<1> DEFINE g == CHOOSE h : IsHistory(h, log, Len(log))
<1>1. IsHistory(g, log, Len(log))
  BY Zenon
<1>2. SchemaAfter(log) = g[Len(log)]
  BY Zenon DEF SchemaAfter, IsHistory
<1> HIDE DEF g
<1> QED
  BY <1>1, <1>2, HistoriesAgree

LEMMA SchemaAfterNothing == SchemaAfter(<<>>) = NoSchema
<1>1. Len(<<>>) = 0
  OBVIOUS
<1>2. PICK f : IsHistory(f, <<>>, 0)
  BY HistoriesExist
<1>3. SchemaAfter(<<>>) = f[0]
  BY <1>1, <1>2, SchemaAfterIs
<1>4. 0 \in 0..0 /\ f[0] = IF 0 = 0 THEN NoSchema ELSE Redo(f[0 - 1], <<>>[0])
  BY <1>2 DEF IsHistory
<1> QED
  BY <1>3, <1>4

LEMMA SchemaAfterChange ==
    ASSUME NEW S, NEW log \in Seq(S), NEW ch \in S
    PROVE  SchemaAfter(Append(log, ch)) = Redo(SchemaAfter(log), ch)
<1> DEFINE n == Len(log)
           longer == Append(log, ch)
<1>1. /\ n \in Nat /\ Len(longer) = n + 1
      /\ \A k \in 1..n : longer[k] = log[k]
      /\ longer[n + 1] = ch
  OBVIOUS
<1> HIDE DEF longer
<1>2. PICK f : IsHistory(f, longer, n + 1)
  BY <1>1, HistoriesExist
<1>3. PICK g : IsHistory(g, log, n)
  BY <1>1, HistoriesExist
<1>4. \A k \in 0..n : g[k] = IF k = 0 THEN NoSchema ELSE Redo(g[k - 1], log[k])
  BY <1>3, Zenon DEF IsHistory
<1>5. \A k \in 0..n : g[k] = IF k = 0 THEN NoSchema ELSE Redo(g[k - 1], longer[k])
  BY <1>1, <1>4
<1>6. g = [k \in 0..n |-> g[k]]
  BY <1>3, Zenon DEF IsHistory
<1>7. IsHistory(g, longer, n)
  BY <1>5, <1>6 DEF IsHistory
<1>8. \A k \in 0..n : g[k] = f[k]
  BY <1>1, <1>2, <1>7, HistoriesAgree
<1>9. f[n + 1] = Redo(f[n], ch)
  <2>1. \A k \in 0..(n + 1) : f[k] = IF k = 0 THEN NoSchema ELSE Redo(f[k - 1], longer[k])
    BY <1>2, Zenon DEF IsHistory
  <2>2. n + 1 \in 0..(n + 1) /\ n + 1 # 0 /\ (n + 1) - 1 = n
    BY <1>1
  <2> QED
    BY <1>1, <2>1, <2>2
<1>10. SchemaAfter(longer) = f[n + 1]
  BY <1>1, <1>2, SchemaAfterIs
<1>11. SchemaAfter(log) = g[n]
  BY <1>1, <1>3, SchemaAfterIs
<1> QED
  BY <1>1, <1>8, <1>9, <1>10, <1>11 DEF longer
---------------------------------------------------------------------------------
(* The migration log of the contents tells their schema and indexes *)

Described(schema, indexes) == [schema |-> schema, indexes |-> indexes]

Tells(d) == SchemaAfter(d.log) = Described(d.schema, d.indexes)

LEMMA ChangesTyped ==
    ASSUME NEW records \in Seq(Migration)
    PROVE  ChangesIn(records) \in Seq(Changes)
<1>1. \A k \in DOMAIN records : records[k] \in Migration
  OBVIOUS
<1>2. ChangesIn(records) \in [DOMAIN records -> Changes]
  BY <1>1 DEF ChangesIn, Migration
<1> QED
  BY <1>2, SameLength

\* One change, told by one record.
LEMMA Told ==
    ASSUME NEW d, Tells(d), d.log \in Seq(Changes), NEW ch \in Changes,
           NEW e, e.log = Append(d.log, ch),
           Redo(Described(d.schema, d.indexes), ch) = Described(e.schema, e.indexes)
    PROVE  Tells(e)
  BY SchemaAfterChange DEF Tells

LEMMA Chosen ==
    ASSUME NEW x
    PROVE  (CHOOSE y \in {x} : TRUE) = x
  OBVIOUS

\* How each change is redone on a schema and indexes.
LEMMA RedoCreateTable ==
    ASSUME NEW schema, NEW indexes, NEW t, NEW columns
    PROVE  Redo(Described(schema, indexes), Change("CREATE_TABLE", t, columns, {}, {}))
             = Described(Put(schema, t, columns),
                         indexes)
  BY DEF Redo, Change, Described

LEMMA RedoDropTable ==
    ASSUME NEW schema, NEW indexes, NEW t
    PROVE  Redo(Described(schema, indexes), Change("DROP_TABLE", t, {}, {}, {}))
             = Described(Without(schema, {t}),
                         Without(indexes, IndexesOn(indexes, t)))
  BY DEF Redo, Change, Described

LEMMA RedoCreateIndex ==
    ASSUME NEW schema, NEW indexes, NEW t, NEW c, NEW i
    PROVE  Redo(Described(schema, indexes), Change("CREATE_INDEX", t, {c}, {}, {i}))
             = Described(schema,
                         Put(indexes, i, [table |-> t, column |-> c]))
  BY Chosen DEF Redo, Change, Described

LEMMA RedoDropColumn ==
    ASSUME NEW schema, NEW indexes, NEW t, NEW c
    PROVE  Redo(Described(schema, indexes), Change("ALTER_TABLE_DROP_COLUMN", t, {c}, {}, {}))
             = Described([schema EXCEPT ![t] = @ \ {c}],
                         Without(indexes, IndexesOnColumn(indexes, t, c)))
  BY Chosen DEF Redo, Change, Described


LEMMA ContentsTyped ==
    ASSUME IInv
    PROVE  Contents(disk).log \in Seq(Changes)
  BY ChangesTyped, Parts DEF IInv, TypeOK, IsFiles

LEMMA CreateTableTold ==
    ASSUME IInv, IInv', Tells(Contents(disk)), NEW t \in Tables, NEW columns \in SUBSET Columns,
           D!CreateTable(t, columns)
    PROVE  Tells(Contents(disk'))
<1> DEFINE ch == Change("CREATE_TABLE", t, columns, {}, {})
<1>1. ASSUME NEW d, d = Contents(disk), NEW e, e = Contents(disk')
      PROVE  Tells(e)
  <2>1. /\ e.log = Append(d.log, ch) /\ e.schema = Put(d.schema, t, columns)
        /\ e.indexes = d.indexes
    BY <1>1, Mapped, SameConstants, SameEdits DEF D!CreateTable, Contents
  <2>2. ch \in Changes
    BY DEF Change, Changes, Operations
  <2>3. d.log \in Seq(Changes) /\ Tells(d)
    BY <1>1, ContentsTyped
  <2> HIDE DEF ch
  <2>4. Redo(Described(d.schema, d.indexes), ch) = Described(e.schema, e.indexes)
    BY <2>1, RedoCreateTable DEF ch
  <2> QED
    BY <2>1, <2>2, <2>3, <2>4, Told
<1> QED
  BY <1>1

LEMMA DropTableTold ==
    ASSUME IInv, IInv', Tells(Contents(disk)), NEW t \in Tables, D!DropTable(t)
    PROVE  Tells(Contents(disk'))
<1> DEFINE ch == Change("DROP_TABLE", t, {}, {}, {})
<1>1. ASSUME NEW d, d = Contents(disk), NEW e, e = Contents(disk')
      PROVE  Tells(e)
  <2>1. /\ e.log = Append(d.log, ch) /\ e.schema = Without(d.schema, {t})
        /\ e.indexes = Without(d.indexes, IndexesOn(d.indexes, t))
    BY <1>1, Mapped, SameConstants, SameEdits, SameIndexes DEF D!DropTable, Contents
  <2>2. ch \in Changes
    BY DEF Change, Changes, Operations
  <2>3. d.log \in Seq(Changes) /\ Tells(d)
    BY <1>1, ContentsTyped
  <2> HIDE DEF ch
  <2>4. Redo(Described(d.schema, d.indexes), ch) = Described(e.schema, e.indexes)
    BY <2>1, RedoDropTable DEF ch
  <2> QED
    BY <2>1, <2>2, <2>3, <2>4, Told
<1> QED
  BY <1>1

LEMMA CreateIndexTold ==
    ASSUME IInv, IInv', Tells(Contents(disk)), NEW i \in IndexNames, NEW t \in Tables, NEW c \in Columns,
           D!CreateIndex(i, t, c)
    PROVE  Tells(Contents(disk'))
<1> DEFINE ch == Change("CREATE_INDEX", t, {c}, {}, {i})
<1>1. ASSUME NEW d, d = Contents(disk), NEW e, e = Contents(disk')
      PROVE  Tells(e)
  <2>1. /\ e.log = Append(d.log, ch) /\ e.schema = d.schema
        /\ e.indexes = Put(d.indexes, i, [table |-> t, column |-> c])
    BY <1>1, Mapped, SameConstants, SameEdits DEF D!CreateIndex, Contents
  <2>2. ch \in Changes
    BY DEF Change, Changes, Operations
  <2>3. d.log \in Seq(Changes) /\ Tells(d)
    BY <1>1, ContentsTyped
  <2> HIDE DEF ch
  <2>4. Redo(Described(d.schema, d.indexes), ch) = Described(e.schema, e.indexes)
    BY <2>1, RedoCreateIndex DEF ch
  <2> QED
    BY <2>1, <2>2, <2>3, <2>4, Told
<1> QED
  BY <1>1

LEMMA DropIndexTold ==
    ASSUME IInv, IInv', Tells(Contents(disk)), NEW i \in IndexNames, D!DropIndex(i)
    PROVE  Tells(Contents(disk'))
<1> DEFINE t == Contents(disk).indexes[i].table
           ch == Change("DROP_INDEX", t, {}, {}, {i})
<1>1. ASSUME NEW d, d = Contents(disk), NEW e, e = Contents(disk')
      PROVE  Tells(e)
  <2>1. /\ e.log = Append(d.log, ch) /\ e.schema = d.schema
        /\ e.indexes = Without(d.indexes, {i})
    <3>1. e = [d EXCEPT !.indexes = Without(@, {i}), !.log = Append(@, ch)]
      BY <1>1, Mapped, SameConstants, SameEdits DEF D!DropIndex
    <3> HIDE DEF ch
    <3> QED
      BY <1>1, <3>1 DEF Contents
  <2>2. ch \in Changes
    <3>1. i \in DOMAIN Contents(disk).indexes
      BY Mapped DEF D!DropIndex
    <3>2. disk.indexes[i].table \in Tables
      BY <3>1, Parts DEF IInv, TypeOK, IsFiles, IsMap, IndexDefinition
    <3>3. t \in Tables
      BY <3>2, Parts
    <3> QED
      BY <3>3 DEF Change, Changes, Operations
  <2>3. d.log \in Seq(Changes) /\ Tells(d)
    BY <1>1, ContentsTyped
  <2> HIDE DEF ch
  <2>4. Redo(Described(d.schema, d.indexes), ch) = Described(e.schema, e.indexes)
    <3>1. Redo(Described(d.schema, d.indexes), ch)
            = Described(d.schema, Without(d.indexes, {i}))
      BY Chosen DEF Redo, Change, Described, ch
    <3> QED
      BY <2>1, <3>1
  <2> QED
    BY <2>1, <2>2, <2>3, <2>4, Told
<1> QED
  BY <1>1

LEMMA AddColumnTold ==
    ASSUME IInv, IInv', Tells(Contents(disk)), NEW t \in Tables, NEW c \in Columns, NEW default,
           D!AddColumn(t, c, default)
    PROVE  Tells(Contents(disk'))
<1> DEFINE ch == Change("ALTER_TABLE_ADD_COLUMN", t, {c}, {}, {})
<1>1. ASSUME NEW d, d = Contents(disk), NEW e, e = Contents(disk')
      PROVE  Tells(e)
  <2>1. /\ e.log = Append(d.log, ch) /\ e.schema = [d.schema EXCEPT ![t] = @ \cup {c}]
        /\ e.indexes = d.indexes
    BY <1>1, Mapped, SameConstants DEF D!AddColumn, Contents
  <2>2. ch \in Changes
    BY DEF Change, Changes, Operations
  <2>3. d.log \in Seq(Changes) /\ Tells(d)
    BY <1>1, ContentsTyped
  <2> HIDE DEF ch
  <2>4. Redo(Described(d.schema, d.indexes), ch) = Described(e.schema, e.indexes)
    <3>1. Redo(Described(d.schema, d.indexes), ch)
            = Described([d.schema EXCEPT ![t] = @ \cup {c}], d.indexes)
      BY Chosen DEF Redo, Change, Described, ch
    <3> QED
      BY <2>1, <3>1
  <2> QED
    BY <2>1, <2>2, <2>3, <2>4, Told
<1> QED
  BY <1>1

LEMMA DropColumnTold ==
    ASSUME IInv, IInv', Tells(Contents(disk)), NEW t \in Tables, NEW c \in Columns, D!DropColumn(t, c)
    PROVE  Tells(Contents(disk'))
<1> DEFINE ch == Change("ALTER_TABLE_DROP_COLUMN", t, {c}, {}, {})
<1>1. ASSUME NEW d, d = Contents(disk), NEW e, e = Contents(disk')
      PROVE  Tells(e)
  <2>1. /\ e.log = Append(d.log, ch) /\ e.schema = [d.schema EXCEPT ![t] = @ \ {c}]
        /\ e.indexes = Without(d.indexes, IndexesOnColumn(d.indexes, t, c))
    BY <1>1, Mapped, SameConstants, SameEdits, SameIndexes DEF D!DropColumn, Contents
  <2>2. ch \in Changes
    BY DEF Change, Changes, Operations
  <2>3. d.log \in Seq(Changes) /\ Tells(d)
    BY <1>1, ContentsTyped
  <2> HIDE DEF ch
  <2>4. Redo(Described(d.schema, d.indexes), ch) = Described(e.schema, e.indexes)
    BY <2>1, RedoDropColumn DEF ch
  <2> QED
    BY <2>1, <2>2, <2>3, <2>4, Told
<1> QED
  BY <1>1

LEMMA RenameColumnTold ==
    ASSUME IInv, IInv', Tells(Contents(disk)), NEW t \in Tables, NEW old \in Columns, NEW new \in Columns,
           D!RenameColumn(t, old, new)
    PROVE  Tells(Contents(disk'))
<1> DEFINE ch == Change("ALTER_TABLE_RENAME_COLUMN", t, {old}, {new}, {})
           renamed(d) == [x \in DOMAIN d.indexes |->
                            IF x \in IndexesOnColumn(d.indexes, t, old)
                            THEN [table |-> t, column |-> new] ELSE d.indexes[x]]
<1>1. ASSUME NEW d, d = Contents(disk), NEW e, e = Contents(disk')
      PROVE  Tells(e)
  <2>1. /\ e.log = Append(d.log, ch)
        /\ e.schema = [d.schema EXCEPT ![t] = (@ \ {old}) \cup {new}]
    BY <1>1, Mapped, SameConstants DEF D!RenameColumn, Contents
  <2>2. e.indexes = renamed(d)
    <3>1. e.indexes = [x \in DOMAIN d.indexes |->
                          IF x \in IndexesOnColumn(d.indexes, t, old)
                          THEN [d.indexes[x] EXCEPT !.column = new] ELSE d.indexes[x]]
      <4>1. \A x : x \in D!IndexesOnColumn(d.indexes, t, old)
                      <=> x \in IndexesOnColumn(d.indexes, t, old)
        BY SameIndexes
      <4>2. e.indexes = [x \in DOMAIN d.indexes |->
                            IF x \in D!IndexesOnColumn(d.indexes, t, old)
                            THEN [d.indexes[x] EXCEPT !.column = new] ELSE d.indexes[x]]
        <5>1. Contents(disk').indexes = [x \in DOMAIN Contents(disk).indexes |->
                            IF x \in D!IndexesOnColumn(Contents(disk).indexes, t, old)
                            THEN [Contents(disk).indexes[x] EXCEPT !.column = new]
                            ELSE Contents(disk).indexes[x]]
          <6>1. Contents(disk') = [Contents(disk) EXCEPT
                  !.schema[t] = (@ \ {old}) \cup {new},
                  !.rows[t] = [x \in DOMAIN @ |-> D!WithRenamed(@[x], old, new)],
                  !.indexes = [x \in DOMAIN @ |->
                                 IF x \in D!IndexesOnColumn(@, t, old)
                                 THEN [@[x] EXCEPT !.column = new] ELSE @[x]],
                  !.log = Append(@, D!Change("ALTER_TABLE_RENAME_COLUMN", t, {old}, {new}, {}))]
            BY Mapped, Zenon DEF D!RenameColumn
          <6>2. "indexes" \in DOMAIN Contents(disk)
            BY DEF Contents
          <6> QED
            BY <6>1, <6>2
        <5> QED
          BY <1>1, <5>1, Zenon
      <4> QED
        BY <4>1, <4>2
    <3>2. \A x \in IndexesOnColumn(d.indexes, t, old) :
             [d.indexes[x] EXCEPT !.column = new] = [table |-> t, column |-> new]
      <4>1. \A x \in DOMAIN d.indexes : d.indexes[x] \in IndexDefinition
        BY <1>1, Parts DEF IInv, TypeOK, IsFiles, IsMap
      <4> QED
        BY <4>1 DEF IndexesOnColumn, IndexesOn, IndexDefinition
    <3> QED
      BY <3>1, <3>2
  <2>3. ch \in Changes
    BY DEF Change, Changes, Operations
  <2>4. d.log \in Seq(Changes) /\ Tells(d)
    BY <1>1, ContentsTyped
  <2> HIDE DEF ch
  <2>5. Redo(Described(d.schema, d.indexes), ch) = Described(e.schema, e.indexes)
    <3>1. Redo(Described(d.schema, d.indexes), ch)
            = Described([d.schema EXCEPT ![t] = (@ \ {old}) \cup {new}], renamed(d))
      BY Chosen DEF Redo, Change, Described, ch
    <3> QED
      BY <2>1, <2>2, <3>1
  <2> QED
    BY <2>1, <2>3, <2>4, <2>5, Told
<1> QED
  BY <1>1

\* Rows leave no record.
LEMMA RowsTold ==
    ASSUME IInv, IInv', Tells(Contents(disk)), NEW t, NEW rows,
           ContentsOf(Visible)' = [ContentsOf(Visible) EXCEPT !.rows[t] = rows]
    PROVE  Tells(Contents(disk'))
<1>1. ASSUME NEW d, d = Contents(disk), NEW e, e = Contents(disk')
      PROVE  Tells(e)
  <2>1. e.log = d.log /\ e.schema = d.schema /\ e.indexes = d.indexes
    BY <1>1, Mapped DEF Contents
  <2> QED
    BY <1>1, <2>1 DEF Tells
<1> QED
  BY <1>1

LEMMA RowActionsTold ==
    ASSUME IInv, IInv', Tells(Contents(disk)), NEW t, NEW where, NEW assignments, NEW data,
           D!Insert(t, data) \/ D!Update(t, where, assignments) \/ D!Delete(t, where)
    PROVE  Tells(Contents(disk'))
<1>1. \E rows : ContentsOf(Visible)' = [ContentsOf(Visible) EXCEPT !.rows[t] = rows]
  <2>1. CASE D!Insert(t, data)
    BY <2>1 DEF D!Insert
  <2>2. CASE D!Update(t, where, assignments)
    BY <2>2 DEF D!Update
  <2>3. CASE D!Delete(t, where)
    BY <2>3 DEF D!Delete
  <2> QED
    BY <2>1, <2>2, <2>3
<1> QED
  BY <1>1, RowsTold

\* What a transaction has saved tells its history too.
SavedTells == txn_dir => Tells(Contents(txn_snapshot))

LEMMA DatabaseTold ==
    ASSUME IInv, IInv', Tells(Contents(disk)), SavedTells, [D!Next]_(D!vars)
    PROVE  Tells(Contents(disk'))
<1>1. CASE UNCHANGED D!vars
  BY <1>1, Mapped DEF D!vars
<1>2. ASSUME NEW t \in Tables, \E columns \in (SUBSET Columns) \ {{}} : D!CreateTable(t, columns)
      PROVE  Tells(Contents(disk'))
  BY <1>2, SameConstants, CreateTableTold
<1>3. ASSUME NEW t \in Tables, D!DropTable(t)
      PROVE  Tells(Contents(disk'))
  BY <1>3, DropTableTold
<1>4. ASSUME NEW t \in Tables, NEW c \in Columns,
             \/ \E i \in IndexNames : D!CreateIndex(i, t, c)
             \/ \E default \in D!Val : D!AddColumn(t, c, default)
             \/ D!DropColumn(t, c)
             \/ \E new \in Columns : D!RenameColumn(t, c, new)
      PROVE  Tells(Contents(disk'))
  BY <1>4, CreateIndexTold, AddColumnTold, DropColumnTold, RenameColumnTold
<1>5. ASSUME NEW t \in Tables,
             \/ \E data : D!Insert(t, data)
             \/ \E where : \/ D!Delete(t, where)
                           \/ \E assignments : D!Update(t, where, assignments)
      PROVE  Tells(Contents(disk'))
  BY <1>5, RowActionsTold
<1>6. ASSUME NEW i \in IndexNames, D!DropIndex(i)
      PROVE  Tells(Contents(disk'))
  BY <1>6, DropIndexTold
<1>7. CASE D!Begin \/ D!Commit
  BY <1>7, Mapped DEF D!Begin, D!Commit
<1>8. CASE D!Rollback
  <2>1. /\ txn_dir /\ ContentsOf(Visible)' = ContentsOf(txn_snapshot)
    BY <1>8 DEF D!Rollback
  <2>2. Contents(disk') = Contents(txn_snapshot)
    BY <2>1, Mapped, SnapshotContents
  <2> QED
    BY <2>1, <2>2 DEF SavedTells
<1> QED
  BY <1>1, <1>2, <1>3, <1>4, <1>5, <1>6, <1>7, <1>8, Zenon DEF D!Next
---------------------------------------------------------------------------------
(* The inductive invariant of the migration log *)

LEMMA RecordCounts ==
    ASSUME TypeOK, NEW change, RecordMigration(change), MigrationsCount(migrations)
    PROVE  MigrationsCount(migrations')
<1> DEFINE n == Len(migrations)
           id == IF migrations = <<>> THEN 1 ELSE migrations[n].id + 1
           record == [id |-> id, change |-> change]
<1>1. migrations \in Seq(Migration) /\ migrations' = Append(migrations, record)
  BY DEF TypeOK, RecordMigration
<1>2. id = n + 1
  <2>1. CASE migrations = <<>>
    BY <2>1
  <2>2. CASE migrations # <<>>
    <3>1. n \in DOMAIN migrations /\ n \in Nat
      BY <1>1, <2>2
    <3> QED
      BY <2>2, <3>1 DEF MigrationsCount
  <2> QED
    BY <2>1, <2>2
<1>3. record.id = n + 1
  BY <1>2
<1> HIDE DEF record
<1>4. /\ n \in Nat /\ DOMAIN migrations = 1..n /\ DOMAIN migrations' = 1..(n + 1)
      /\ \A k \in DOMAIN migrations : migrations'[k] = migrations[k]
      /\ migrations'[n + 1] = record
  BY <1>1
<1> SUFFICES ASSUME NEW k \in DOMAIN migrations'
             PROVE  migrations'[k].id = k
  BY DEF MigrationsCount
<1>5. k \in DOMAIN migrations \/ k = n + 1
  BY <1>4
<1> QED
  BY <1>3, <1>4, <1>5 DEF MigrationsCount

HistoryInv ==
    /\ Tells(Contents(disk)) /\ SavedTells
    /\ MigrationsCount(disk.migrations)
    /\ txn_dir => MigrationsCount(txn_snapshot.migrations)

\* The log is added to in memory, and saved by the same call.
LEMMA LogChanges ==
    ASSUME IInv, [Next]_vars
    PROVE  \/ disk'.migrations = disk.migrations
           \/ /\ migrations = disk.migrations /\ disk'.migrations = migrations'
              /\ \E change : RecordMigration(change)
           \/ RollbackTransaction
<1>1. IsFiles(disk)
  BY DEF IInv, TypeOK
<1>2. running => migrations = disk.migrations
  BY DEF IInv, MetadataSaved
<1>3. ASSUME NEW t, NEW columns, CreateTable(t, columns)
      PROVE  running /\ disk'.migrations = migrations' /\ \E change : RecordMigration(change)
  BY <1>1, <1>3 DEF CreateTable, IsFiles
<1>4. ASSUME NEW t, DropTable(t)
      PROVE  running /\ disk'.migrations = migrations' /\ \E change : RecordMigration(change)
  BY <1>1, <1>4 DEF DropTable, IsFiles
<1>5. ASSUME NEW i, NEW t, NEW c, CreateIndex(i, t, c)
      PROVE  running /\ disk'.migrations = migrations' /\ \E change : RecordMigration(change)
  BY <1>1, <1>5 DEF CreateIndex, IsFiles
<1>6. ASSUME NEW i, DropIndex(i)
      PROVE  running /\ disk'.migrations = migrations' /\ \E change : RecordMigration(change)
  BY <1>1, <1>6 DEF DropIndex, IsFiles
<1>7. ASSUME NEW t, NEW c, NEW default, AddColumn(t, c, default)
      PROVE  running /\ disk'.migrations = migrations' /\ \E change : RecordMigration(change)
  BY <1>1, <1>7 DEF AddColumn, IsFiles
<1>8. ASSUME NEW t, NEW c, DropColumn(t, c)
      PROVE  running /\ disk'.migrations = migrations' /\ \E change : RecordMigration(change)
  BY <1>1, <1>8 DEF DropColumn, IsFiles
<1>9. ASSUME NEW t, NEW old, NEW new, RenameColumn(t, old, new)
      PROVE  running /\ disk'.migrations = migrations' /\ \E change : RecordMigration(change)
  BY <1>1, <1>9 DEF RenameColumn, IsFiles
<1>10. ASSUME NEW t, NEW data, Insert(t, data)
       PROVE  disk'.migrations = disk.migrations
  BY <1>1, <1>10 DEF Insert, IsFiles
<1>11. ASSUME NEW t, NEW where, Delete(t, where)
       PROVE  disk'.migrations = disk.migrations
  BY <1>1, <1>11 DEF Delete, IsFiles
<1>12. ASSUME NEW t, NEW where, NEW assignments, Update(t, where, assignments)
       PROVE  disk'.migrations = disk.migrations
  BY <1>1, <1>12 DEF Update, IsFiles
<1>13. ASSUME NEW t, UpdateFails(t)
       PROVE  disk'.migrations = disk.migrations
  BY <1>1, <1>13 DEF UpdateFails, IsFiles
<1>14. CASE Open \/ Close \/ Exit \/ BeginTransaction \/ CommitTransaction
            \/ (\E t \in Tables, c \in Columns : CacheUniqueValues(t, c)) \/ UNCHANGED vars
  BY <1>1, <1>14 DEF Open, Close, Exit, BeginTransaction, CommitTransaction, FlushIndexes,
     CacheUniqueValues, vars, IsFiles
<1> QED
  BY <1>2, <1>3, <1>4, <1>5, <1>6, <1>7, <1>8, <1>9, <1>10, <1>11, <1>12, <1>13, <1>14, Zenon
     DEF Next

\* A snapshot is taken by BEGIN, of the files as they are, and stays as it is.
LEMMA SnapshotStays ==
    ASSUME IInv, [Next]_vars, txn_dir'
    PROVE  \/ /\ txn_snapshot' = disk' /\ disk'.migrations = disk.migrations
              /\ BeginTransaction
           \/ txn_dir /\ txn_snapshot' = txn_snapshot
<1>1. CASE BeginTransaction
  BY <1>1 DEF BeginTransaction, FlushIndexes, Copied, IInv, TypeOK, IsFiles
<1>2. Open \/ Close \/ Exit \/ CommitTransaction \/ RollbackTransaction => ~txn_dir'
  <2>1. Open \/ CommitTransaction \/ RollbackTransaction => ~txn_dir'
    BY DEF Open, CommitTransaction, RollbackTransaction
  <2>2. Close \/ Exit => ~txn_dir'
    BY Zenon DEF Close, Exit, Forget
  <2> QED
    BY <2>1, <2>2
<1>3. ASSUME NEW i, DropIndex(i)
      PROVE  txn_dir' = txn_dir /\ txn_snapshot' = txn_snapshot
  BY <1>3 DEF DropIndex
<1>4. ASSUME NEW t,
             \/ \E columns : CreateTable(t, columns)
             \/ DropTable(t)
             \/ \E i, c : CreateIndex(i, t, c)
             \/ \E c, default : AddColumn(t, c, default)
             \/ \E c : DropColumn(t, c)
             \/ \E old, new : RenameColumn(t, old, new)
      PROVE  txn_dir' = txn_dir /\ txn_snapshot' = txn_snapshot
  BY <1>4 DEF CreateTable, DropTable, CreateIndex, AddColumn, DropColumn, RenameColumn
<1>5. ASSUME NEW t,
             \/ \E data : Insert(t, data)
             \/ \E where : \/ Delete(t, where)
                           \/ \E assignments : Update(t, where, assignments)
             \/ UpdateFails(t)
             \/ \E c : CacheUniqueValues(t, c)
      PROVE  txn_dir' = txn_dir /\ txn_snapshot' = txn_snapshot
  BY <1>5 DEF Insert, Delete, Update, UpdateFails, CacheUniqueValues
<1>6. UNCHANGED vars => txn_dir' = txn_dir /\ txn_snapshot' = txn_snapshot
  BY DEF vars, memory
<1> QED
  <2>1. CASE UNCHANGED vars
    BY <1>6, <2>1
  <2>2. CASE Next
    <3>1. \/ BeginTransaction
          \/ Open \/ Close \/ Exit \/ CommitTransaction \/ RollbackTransaction
          \/ txn_dir' = txn_dir /\ txn_snapshot' = txn_snapshot
      BY <1>3, <1>4, <1>5, <2>2, Zenon DEF Next
    <3> QED
      BY <1>1, <1>2, <3>1
  <2> QED
    BY <2>1, <2>2

LEMMA HistoryStep ==
    ASSUME IInv, IInv', HistoryInv, [Next]_vars
    PROVE  HistoryInv'
<1>1. Tells(Contents(disk'))
  BY StepImplements, DatabaseTold DEF HistoryInv
<1>2. MigrationsCount(disk'.migrations)
  <2>1. CASE disk'.migrations = disk.migrations
    BY <2>1 DEF HistoryInv
  <2>2. CASE /\ migrations = disk.migrations /\ disk'.migrations = migrations'
             /\ \E change : RecordMigration(change)
    BY <2>2, RecordCounts DEF HistoryInv, IInv
  <2>3. CASE RollbackTransaction
    BY <2>3 DEF RollbackTransaction, HistoryInv
  <2> QED
    BY <2>1, <2>2, <2>3, LogChanges
<1>3. ASSUME txn_dir'
      PROVE  Tells(Contents(txn_snapshot')) /\ MigrationsCount(txn_snapshot'.migrations)
  BY <1>1, <1>2, <1>3, SnapshotStays DEF HistoryInv, SavedTells
<1> QED
  BY <1>1, <1>2, <1>3 DEF HistoryInv, SavedTells

LEMMA HistoryInit ==
    ASSUME Init
    PROVE  HistoryInv
<1>1. /\ disk.catalog = EmptyMap /\ disk.indexes = EmptyMap /\ disk.migrations = <<>> /\ ~txn_dir
  BY DEF Init, EmptyFiles
<1>2. SchemaIn(EmptyMap) = EmptyMap /\ ChangesIn(<<>>) = <<>>
  BY DEF SchemaIn, ChangesIn, EmptyMap
<1>3. Tells(Contents(disk))
  <2>1. ASSUME NEW d, d = Contents(disk)
        PROVE  Tells(d)
    <3>1. d.log = <<>> /\ d.schema = EmptyMap /\ d.indexes = EmptyMap
      BY <1>1, <1>2, <2>1, Parts
    <3> QED
      BY <3>1, SchemaAfterNothing DEF Tells, Described, NoSchema
  <2> QED
    BY <2>1
<1> QED
  BY <1>1, <1>3 DEF HistoryInv, SavedTells, MigrationsCount

LEMMA HistoryReplays ==
    ASSUME HistoryInv
    PROVE  MigrationsReplay
<1>1. /\ Contents(disk).log = [k \in DOMAIN disk.migrations |-> disk.migrations[k].change]
      /\ Contents(disk).schema = [t \in DOMAIN disk.catalog |-> disk.catalog[t].columns]
      /\ Contents(disk).indexes = disk.indexes
  BY Parts DEF SchemaIn, ChangesIn
<1> QED
  BY <1>1 DEF HistoryInv, MigrationsReplay, Tells, Described

\* The migration log tells the whole history of the schema: its ids count from
\* 1 and replaying its changes gives the tables, columns and indexes on disk,
\* after any calls, rollbacks and restarts (record_migration storage.rs:854).
THEOREM MigrationLogReplays == Spec => []MigrationsReplay
<1>1. Init => HistoryInv
  BY HistoryInit
<1>2. IInv /\ IInv' /\ HistoryInv /\ [Next]_vars => HistoryInv'
  BY HistoryStep
<1>3. HistoryInv => MigrationsReplay
  BY HistoryReplays
<1> QED
  BY <1>1, <1>2, <1>3, InvariantHolds, PTL DEF Spec
=================================================================================
