--------------------------- MODULE CrashSafetyProofs ----------------------------
(***************************************************************************)
(* Row ids, opens and indexes under kills, for every data directory and    *)
(* every number of kills: no id is handed out twice, wherever a call is    *)
(* killed, the directory can be opened, and its indexes are to be trusted, *)
(* unless a kill fell where the code is known to leave them otherwise.     *)
(***************************************************************************)
EXTENDS CrashProofs

---------------------------------------------------------------------------------
(* Rows and ids *)

LEMMA AscendIs ==
    ASSUME NEW d
    PROVE  RowIdsAscend(d) <=>
             \A t \in DOMAIN d.catalog : IdsBelow(RowsIn(d.tables, t), d.catalog[t].next_row_id)
  BY DEF RowIdsAscend, IdsBelow, RowsIn

LEMMA NoRowsBelow == ASSUME NEW n PROVE IdsBelow(<<>>, n)
  BY DEF IdsBelow

\* `new` has some of the rows of `old`, or their ids at least, in their order.
RowsTaken(old, new) ==
    \E from \in [DOMAIN new -> DOMAIN old] :
        \A i \in DOMAIN new :
            /\ new[i].id = old[from[i]].id
            /\ \A j \in DOMAIN new : i < j => from[i] < from[j]

LEMMA TakenBelow ==
    ASSUME NEW old, NEW new, RowsTaken(old, new), NEW n, IdsBelow(old, n)
    PROVE  IdsBelow(new, n)
<1>1. PICK from \in [DOMAIN new -> DOMAIN old] :
        \A i \in DOMAIN new :
            /\ new[i].id = old[from[i]].id
            /\ \A j \in DOMAIN new : i < j => from[i] < from[j]
  BY DEF RowsTaken
<1>2. ASSUME NEW i \in DOMAIN new
      PROVE  /\ new[i].id < n
             /\ \A j \in DOMAIN new : i < j => new[i].id < new[j].id
  <2>1. from[i] \in DOMAIN old /\ new[i].id = old[from[i]].id
    BY <1>1
  <2>2. ASSUME NEW j \in DOMAIN new, i < j
        PROVE  new[i].id < new[j].id
    <3>1. from[j] \in DOMAIN old /\ from[i] < from[j] /\ new[j].id = old[from[j]].id
      BY <1>1, <2>2
    <3> QED
      BY <2>1, <3>1 DEF IdsBelow
  <2> QED
    BY <2>1, <2>2 DEF IdsBelow
<1> QED
  BY <1>2 DEF IdsBelow

\* Rows keep their ids when each is mapped to another in its place.
LEMMA SameIdsTaken ==
    ASSUME NEW old, NEW new, DOMAIN new = DOMAIN old, \A i \in DOMAIN old : new[i].id = old[i].id
    PROVE  RowsTaken(old, new)
<1> DEFINE from == [i \in DOMAIN old |-> i]
<1>1. from \in [DOMAIN new -> DOMAIN old] /\ \A i \in DOMAIN old : from[i] = i
  OBVIOUS
<1> HIDE DEF from
<1> QED
  BY <1>1 DEF RowsTaken

LEMMA SameTaken ==
    ASSUME NEW rows
    PROVE  RowsTaken(rows, rows)
  BY SameIdsTaken

\* What CREATE, ALTER, UPDATE, DELETE ... do to the ids of the rows and to what
\* is reserved: each table has the ids it had, or fewer, or it is new and empty.
IdsKept ==
    /\ \A u \in DOMAIN catalog' :
        \/ /\ u \in DOMAIN catalog /\ catalog'[u].next_row_id = catalog[u].next_row_id
           /\ RowsTaken(RowsOf(u), RowsOf(u)')
        \/ u \notin DOMAIN catalog /\ RowsOf(u)' = <<>>
    /\ \A u \in DOMAIN catalog \ DOMAIN catalog' : RowsOf(u)' = <<>>
    /\ DOMAIN row_id_cursors' \subseteq DOMAIN row_id_cursors \cap DOMAIN catalog'
    /\ \A u \in DOMAIN row_id_cursors' : row_id_cursors'[u] = row_id_cursors[u]
    /\ running /\ running' /\ UNCHANGED <<txn_snapshot, txn_dir>>

StorageFresh ==
    /\ RowIdsAscend(disk) /\ CursorsReserved
    /\ txn_dir => RowIdsAscend(txn_snapshot)

LEMMA KeptFresh ==
    ASSUME MetadataSaved, StorageFresh, IdsKept, MetadataSaved'
    PROVE  StorageFresh'
<1>1. /\ catalog = disk.catalog /\ catalog' = disk'.catalog
      /\ \A u : RowsOf(u) = RowsIn(disk.tables, u)
      /\ \A u : RowsOf(u)' = RowsIn(disk'.tables, u)
  BY DEF MetadataSaved, IdsKept, RowsOf
<1>2. \A u \in DOMAIN catalog : IdsBelow(RowsOf(u), catalog[u].next_row_id)
  BY <1>1, AscendIs DEF StorageFresh
<1>3. ASSUME NEW u \in DOMAIN catalog'
      PROVE  IdsBelow(RowsOf(u)', catalog'[u].next_row_id)
  BY <1>2, TakenBelow, NoRowsBelow DEF IdsKept
<1>4. RowIdsAscend(disk')
  BY <1>1, <1>3, AscendIs
<1>5. ASSUME NEW u \in DOMAIN row_id_cursors'
      PROVE  /\ u \in DOMAIN catalog'
             /\ row_id_cursors'[u].next <= row_id_cursors'[u].limit
             /\ row_id_cursors'[u].limit = catalog'[u].next_row_id
             /\ \A i \in DOMAIN RowsOf(u)' : RowsOf(u)'[i].id < row_id_cursors'[u].next
  <2>1. /\ u \in DOMAIN row_id_cursors /\ u \in DOMAIN catalog' /\ row_id_cursors'[u] = row_id_cursors[u]
    BY DEF IdsKept
  <2>2. /\ u \in DOMAIN catalog
        /\ row_id_cursors[u].next <= row_id_cursors[u].limit
        /\ row_id_cursors[u].limit = catalog[u].next_row_id
        /\ \A i \in DOMAIN RowsOf(u) : RowsOf(u)[i].id < row_id_cursors[u].next
    BY <2>1 DEF StorageFresh, CursorsReserved
  <2>3. catalog'[u].next_row_id = catalog[u].next_row_id /\ RowsTaken(RowsOf(u), RowsOf(u)')
    BY <2>1, <2>2 DEF IdsKept
  <2>4. \A i \in DOMAIN RowsOf(u)' :
           \E k \in DOMAIN RowsOf(u) : RowsOf(u)'[i].id = RowsOf(u)[k].id
    BY <2>3 DEF RowsTaken
  <2> QED
    BY <2>1, <2>2, <2>3, <2>4
<1>6. CursorsReserved'
  BY <1>5 DEF CursorsReserved, IdsKept
<1> QED
  BY <1>4, <1>6 DEF StorageFresh, IdsKept

---------------------------------------------------------------------------------
(* The calls of Storage and the ids *)

LEMMA DiskAfter ==
    ASSUME TypeOK
    PROVE  /\ \A u : RowsOf(u) = RowsIn(disk.tables, u)
           /\ \A u : RowsOf(u)' = RowsIn(disk'.tables, u)
           /\ \A t, rows : RowsIn(Put(disk.tables, t, rows), t) = rows
           /\ \A t, rows, u : u # t => RowsIn(Put(disk.tables, t, rows), u) = RowsOf(u)
           /\ DOMAIN disk.tables \subseteq Tables
  BY DEF RowsOf, RowsIn, Put, Override, TypeOK, IsFiles, IsMap

\* A call that writes the rows of one table, or of none.
LEMMA OneKept ==
    ASSUME TypeOK, CursorsReserved, running, running', UNCHANGED <<txn_snapshot, txn_dir>>,
           DOMAIN row_id_cursors' = DOMAIN row_id_cursors,
           \A u \in DOMAIN row_id_cursors : row_id_cursors'[u] = row_id_cursors[u],
           DOMAIN catalog' = DOMAIN catalog,
           \A u \in DOMAIN catalog : catalog'[u].next_row_id = catalog[u].next_row_id,
           NEW t, NEW rows, RowsTaken(RowsOf(t), rows),
           disk'.tables = disk.tables \/ disk'.tables = Put(disk.tables, t, rows)
    PROVE  IdsKept
<1>1. \A u : RowsOf(u)' = RowsOf(u) \/ (u = t /\ RowsOf(u)' = rows)
  <2>1. CASE disk'.tables = disk.tables
    BY <2>1 DEF RowsOf
  <2>2. CASE disk'.tables = Put(disk.tables, t, rows)
    BY <2>2, DiskAfter DEF RowsOf
  <2> QED
    BY <2>1, <2>2
<1>2. \A u : RowsTaken(RowsOf(u), RowsOf(u)')
  BY <1>1, SameTaken
<1>3. DOMAIN row_id_cursors \subseteq DOMAIN catalog
  BY DEF CursorsReserved
<1> QED
  BY <1>2, <1>3 DEF IdsKept

LEMMA RowsTyped ==
    ASSUME TypeOK, NEW t
    PROVE  RowsOf(t) \in Seq(Row)
  BY TypedParts DEF TypeOK, IsFiles, IsMap, RowsOf, RowsIn

LEMMA RowsAreRows ==
    ASSUME TypeOK, NEW t
    PROVE  \A i \in DOMAIN RowsOf(t) : RowsOf(t)[i] \in Row
  BY RowsTyped

LEMMA CreateTableIds ==
    ASSUME TypeOK, CursorsReserved, NEW t \in Tables, NEW columns, CreateTable(t, columns)
    PROVE  IdsKept
<1>1. /\ running /\ running' /\ UNCHANGED <<txn_snapshot, txn_dir, row_id_cursors>>
      /\ t \notin DOMAIN catalog
      /\ catalog' = Put(catalog, t, [columns |-> columns, next_row_id |-> 0])
      /\ disk'.tables = Put(disk.tables, t, <<>>)
  BY DiskFields DEF CreateTable
<1>2. /\ DOMAIN catalog' = DOMAIN catalog \cup {t}
      /\ \A u \in DOMAIN catalog : catalog'[u] = catalog[u]
  BY <1>1 DEF Put, Override
<1>3. RowsOf(t)' = <<>> /\ \A u : u # t => RowsOf(u)' = RowsOf(u)
  BY <1>1, DiskAfter
<1>4. DOMAIN row_id_cursors \subseteq DOMAIN catalog
  BY DEF CursorsReserved
<1> QED
  BY <1>1, <1>2, <1>3, <1>4, SameTaken DEF IdsKept

LEMMA DropTableIds ==
    ASSUME TypeOK, CursorsReserved, NEW t \in Tables, DropTable(t)
    PROVE  IdsKept
<1>1. /\ running /\ running' /\ UNCHANGED <<txn_snapshot, txn_dir>>
      /\ catalog' = Without(catalog, {t})
      /\ row_id_cursors' = Without(row_id_cursors, {t})
      /\ disk'.tables = Without(disk.tables, {t})
  BY DiskFields DEF DropTable
<1>2. /\ DOMAIN catalog' = DOMAIN catalog \ {t}
      /\ \A u \in DOMAIN catalog' : catalog'[u] = catalog[u]
      /\ DOMAIN row_id_cursors' = DOMAIN row_id_cursors \ {t}
      /\ \A u \in DOMAIN row_id_cursors' : row_id_cursors'[u] = row_id_cursors[u]
  BY <1>1 DEF Without, Restrict
<1>3. RowsOf(t)' = <<>> /\ \A u : u # t => RowsOf(u)' = RowsOf(u)
  BY <1>1 DEF RowsOf, RowsIn, Without, Restrict
<1>4. DOMAIN row_id_cursors \subseteq DOMAIN catalog
  BY DEF CursorsReserved
<1> QED
  BY <1>1, <1>2, <1>3, <1>4, SameTaken DEF IdsKept

LEMMA IndexIds ==
    ASSUME TypeOK, CursorsReserved,
           \/ \E i \in IndexNames : DropIndex(i)
           \/ \E i \in IndexNames, t \in Tables, c \in Columns : CreateIndex(i, t, c)
    PROVE  IdsKept
<1>1. /\ running /\ running' /\ UNCHANGED <<txn_snapshot, txn_dir, row_id_cursors, catalog>>
      /\ disk'.tables = disk.tables
  <2>1. CASE \E i \in IndexNames : DropIndex(i)
    <3>1. PICK i \in IndexNames : DropIndex(i)
      BY <2>1
    <3>2. /\ running /\ running' /\ UNCHANGED <<txn_snapshot, txn_dir, row_id_cursors, catalog>>
          /\ disk' = [disk EXCEPT !.indexes = index_catalog', !.migrations = migrations',
                                  !.index_files = Without(@, {i})]
      BY <3>1 DEF DropIndex
    <3> QED
      BY <3>2, DiskFields
  <2>2. CASE \E i \in IndexNames, t \in Tables, c \in Columns : CreateIndex(i, t, c)
    BY <2>2, DiskFields DEF CreateIndex
  <2> QED
    BY <2>1, <2>2
<1> QED
  BY <1>1, OneKept, SameTaken

LEMMA UpdateFailsIds ==
    ASSUME TypeOK, CursorsReserved, NEW t \in Tables, UpdateFails(t)
    PROVE  IdsKept
<1>1. /\ running /\ running' /\ UNCHANGED <<txn_snapshot, txn_dir, row_id_cursors, catalog>>
      /\ disk'.tables = disk.tables
  BY DiskFields DEF UpdateFails
<1> QED
  BY <1>1, OneKept, SameTaken

LEMMA FailedIds ==
    ASSUME CrashInv, CursorsReserved, NEW name, NEW todo, NEW dropped, FailedCall(name, todo, dropped)
    PROVE  IdsKept
<1>1. /\ running /\ running' /\ UNCHANGED <<txn_snapshot, txn_dir, row_id_cursors>>
      /\ DOMAIN catalog' = DOMAIN catalog
      /\ \A u \in DOMAIN catalog : catalog'[u].next_row_id = catalog[u].next_row_id
      /\ disk'.tables = disk.tables
  BY DiskFields DEF FailedCall, CrashInv
<1>2. \A u : RowsOf(u)' = RowsOf(u)
  BY <1>1 DEF RowsOf
<1>3. DOMAIN row_id_cursors \subseteq DOMAIN catalog
  BY DEF CursorsReserved
<1>4. TypeOK
  BY DEF CrashInv
<1> QED
  BY <1>1, <1>2, <1>3, <1>4, SameTaken DEF IdsKept

LEMMA AddColumnIds ==
    ASSUME TypeOK, CursorsReserved, NEW t \in Tables, NEW c, NEW default, AddColumn(t, c, default)
    PROVE  IdsKept
<1> DEFINE rows == MappedRows(t, LAMBDA data : WithColumn(data, c, default))
<1>1. DOMAIN rows = DOMAIN RowsOf(t) /\ \A i \in DOMAIN rows : rows[i].id = RowsOf(t)[i].id
  BY RowsAreRows DEF MappedRows, Row
<1>2. /\ running /\ running' /\ UNCHANGED <<txn_snapshot, txn_dir, row_id_cursors>>
      /\ t \in DOMAIN catalog /\ catalog' = [catalog EXCEPT ![t].columns = @ \cup {c}]
      /\ disk'.tables = Put(disk.tables, t, rows)
  BY DiskFields DEF AddColumn
<1>3. /\ DOMAIN catalog' = DOMAIN catalog
      /\ \A u \in DOMAIN catalog : catalog'[u].next_row_id = catalog[u].next_row_id
  BY <1>2 DEF TypeOK, IsMap, Schema
<1> HIDE DEF rows
<1> QED
  BY <1>1, <1>2, <1>3, SameIdsTaken, OneKept

LEMMA DropColumnIds ==
    ASSUME TypeOK, CursorsReserved, NEW t \in Tables, NEW c, DropColumn(t, c)
    PROVE  IdsKept
<1> DEFINE rows == MappedRows(t, LAMBDA data : WithoutColumn(data, c))
<1>1. DOMAIN rows = DOMAIN RowsOf(t) /\ \A i \in DOMAIN rows : rows[i].id = RowsOf(t)[i].id
  BY RowsAreRows DEF MappedRows, Row
<1>2. /\ running /\ running' /\ UNCHANGED <<txn_snapshot, txn_dir, row_id_cursors>>
      /\ t \in DOMAIN catalog /\ catalog' = [catalog EXCEPT ![t].columns = @ \ {c}]
      /\ disk'.tables = Put(disk.tables, t, rows)
  BY DiskFields DEF DropColumn
<1>3. /\ DOMAIN catalog' = DOMAIN catalog
      /\ \A u \in DOMAIN catalog : catalog'[u].next_row_id = catalog[u].next_row_id
  BY <1>2 DEF TypeOK, IsMap, Schema
<1> HIDE DEF rows
<1> QED
  BY <1>1, <1>2, <1>3, SameIdsTaken, OneKept

LEMMA RenameColumnIds ==
    ASSUME TypeOK, CursorsReserved, NEW t \in Tables, NEW old, NEW new, RenameColumn(t, old, new)
    PROVE  IdsKept
<1> DEFINE rows == MappedRows(t, LAMBDA data : WithRenamed(data, old, new))
<1>1. DOMAIN rows = DOMAIN RowsOf(t) /\ \A i \in DOMAIN rows : rows[i].id = RowsOf(t)[i].id
  BY RowsAreRows DEF MappedRows, Row
<1>2. /\ running /\ running' /\ UNCHANGED <<txn_snapshot, txn_dir, row_id_cursors>>
      /\ t \in DOMAIN catalog /\ catalog' = [catalog EXCEPT ![t].columns = (@ \ {old}) \cup {new}]
      /\ disk'.tables = Put(disk.tables, t, rows)
  BY DiskFields DEF RenameColumn
<1>3. /\ DOMAIN catalog' = DOMAIN catalog
      /\ \A u \in DOMAIN catalog : catalog'[u].next_row_id = catalog[u].next_row_id
  BY <1>2 DEF TypeOK, IsMap, Schema
<1> HIDE DEF rows
<1> QED
  BY <1>1, <1>2, <1>3, SameIdsTaken, OneKept

LEMMA UpdateIds ==
    ASSUME TypeOK, CursorsReserved, NEW t \in Tables, NEW where, NEW assignments,
           Update(t, where, assignments)
    PROVE  IdsKept
<1> DEFINE rows == MappedRows(t, LAMBDA data : Updated(data, where, assignments))
<1>1. DOMAIN rows = DOMAIN RowsOf(t) /\ \A i \in DOMAIN rows : rows[i].id = RowsOf(t)[i].id
  BY RowsAreRows DEF MappedRows, Row
<1>2. /\ running /\ running' /\ UNCHANGED <<txn_snapshot, txn_dir, row_id_cursors, catalog>>
      /\ disk'.tables = Put(disk.tables, t, rows)
  BY DiskFields DEF Update
<1> HIDE DEF rows
<1> QED
  BY <1>1, <1>2, SameIdsTaken, OneKept

LEMMA DeleteIds ==
    ASSUME TypeOK, CursorsReserved, NEW t \in Tables, NEW where, Delete(t, where)
    PROVE  IdsKept
<1> DEFINE S == {i \in DOMAIN RowsOf(t) : RowsOf(t)[i].data \notin where}
<1>1. PICK rows \in Kept(RowsOf(t), S) :
         disk' = [disk EXCEPT !.tables = Put(@, t, rows), !.tmp_rewrite = @ \ {t}]
  BY DEF Delete
<1>2. /\ running /\ running' /\ UNCHANGED <<txn_snapshot, txn_dir, row_id_cursors, catalog>>
      /\ disk'.tables = Put(disk.tables, t, rows)
  BY <1>1, DiskFields DEF Delete
<1>3. S \subseteq DOMAIN RowsOf(t)
  OBVIOUS
<1> HIDE DEF S
<1>4. PICK from \in Enumerations(S, Len(RowsOf(t))) : rows = [i \in DOMAIN from |-> RowsOf(t)[from[i]]]
  BY <1>1 DEF Kept
<1>5. PICK m \in 0..Len(RowsOf(t)) : from \in [1..m -> S]
  BY DEF Enumerations
<1>6. \A i, j \in DOMAIN from : i < j => from[i] < from[j]
  BY DEF Enumerations
<1>7. /\ DOMAIN rows = DOMAIN from
      /\ from \in [DOMAIN rows -> DOMAIN RowsOf(t)]
      /\ \A i \in DOMAIN rows : rows[i].id = RowsOf(t)[from[i]].id
  BY <1>3, <1>4, <1>5
<1>8. RowsTaken(RowsOf(t), rows)
  BY <1>6, <1>7 DEF RowsTaken
<1> QED
  BY <1>2, <1>8, OneKept

---------------------------------------------------------------------------------
(* INSERT and the ids *)

\* The id handed out is above those in use, and what is left of the batch is
\* above it.
LEMMA IdAllocated ==
    ASSUME TypeOK, CursorsReserved, MetadataSaved, StorageFresh, running,
           NEW t \in DOMAIN catalog, AllocateRowId(t)
    PROVE  /\ DOMAIN catalog' = DOMAIN catalog
           /\ \A u \in DOMAIN catalog \ {t} : catalog'[u] = catalog[u]
           /\ \A i \in DOMAIN RowsOf(t) : RowsOf(t)[i].id < NextRowId(t)
           /\ catalog[t].next_row_id \in Nat /\ catalog'[t].next_row_id \in Nat
           /\ catalog[t].next_row_id <= catalog'[t].next_row_id
           /\ NextRowId(t) \in Nat /\ NextRowId(t) < catalog'[t].next_row_id
           /\ DOMAIN row_id_cursors' = DOMAIN row_id_cursors \cup {t}
           /\ row_id_cursors'[t].next = NextRowId(t) + 1
           /\ row_id_cursors'[t].limit = catalog'[t].next_row_id
           /\ \A u \in DOMAIN row_id_cursors \ {t} : row_id_cursors'[u] = row_id_cursors[u]
           /\ HasCursor(t) => catalog' = catalog
<1>1. /\ catalog[t] \in Schema /\ catalog[t].next_row_id \in Nat
      /\ RowIdBatch \in Nat /\ RowIdBatch > 0
  BY BatchAssumption DEF TypeOK, IsMap, Schema
<1>2. \A i \in DOMAIN RowsOf(t) : RowsOf(t)[i].id < catalog[t].next_row_id
  <2>1. catalog = disk.catalog /\ RowsOf(t) = RowsIn(disk.tables, t)
    BY DEF MetadataSaved, RowsOf
  <2>2. IdsBelow(RowsOf(t), catalog[t].next_row_id)
    BY <2>1, AscendIs DEF StorageFresh
  <2> QED
    BY <2>2 DEF IdsBelow
<1>3. CASE HasCursor(t)
  <2>1. t \in DOMAIN row_id_cursors /\ row_id_cursors[t] \in Cursor
    BY <1>3 DEF HasCursor, TypeOK, IsMap
  <2>2. /\ row_id_cursors[t].next \in Nat /\ row_id_cursors[t].limit \in Nat
        /\ row_id_cursors[t].next < row_id_cursors[t].limit
        /\ row_id_cursors[t].limit = catalog[t].next_row_id
        /\ \A i \in DOMAIN RowsOf(t) : RowsOf(t)[i].id < row_id_cursors[t].next
    BY <1>3, <2>1 DEF HasCursor, Cursor, CursorsReserved
  <2> DEFINE s == [row_id_cursors[t] EXCEPT !.next = @ + 1]
  <2>3. s.next = row_id_cursors[t].next + 1 /\ s.limit = row_id_cursors[t].limit
    BY <2>1 DEF Cursor
  <2>4. row_id_cursors' = [row_id_cursors EXCEPT ![t] = s] /\ UNCHANGED catalog
    BY <1>3 DEF AllocateRowId
  <2> HIDE DEF s
  <2>5. NextRowId(t) = row_id_cursors[t].next
    BY <1>3 DEF NextRowId
  <2>6. /\ DOMAIN row_id_cursors' = DOMAIN row_id_cursors \cup {t} /\ row_id_cursors'[t] = s
        /\ \A u \in DOMAIN row_id_cursors \ {t} : row_id_cursors'[u] = row_id_cursors[u]
    BY <2>1, <2>4
  <2>7. catalog' = catalog
    BY <2>4
  <2>8. NextRowId(t) \in Nat /\ NextRowId(t) < catalog[t].next_row_id
    BY <2>2, <2>5
  <2>9. \A i \in DOMAIN RowsOf(t) : RowsOf(t)[i].id < NextRowId(t)
    BY <2>2, <2>5
  <2>10. row_id_cursors'[t].next = NextRowId(t) + 1 /\ row_id_cursors'[t].limit = catalog'[t].next_row_id
    BY <2>2, <2>3, <2>5, <2>6, <2>7
  <2>11. catalog[t].next_row_id <= catalog'[t].next_row_id /\ catalog'[t].next_row_id \in Nat
    BY <1>1, <2>7
  <2> QED
    BY <1>1, <2>6, <2>7, <2>8, <2>9, <2>10, <2>11
<1>4. CASE ~HasCursor(t)
  <2> DEFINE s == [catalog[t] EXCEPT !.next_row_id = @ + RowIdBatch]
  <2>1. /\ catalog' = [catalog EXCEPT ![t] = s]
        /\ row_id_cursors' = Put(row_id_cursors, t,
               [next |-> catalog[t].next_row_id + 1, limit |-> catalog'[t].next_row_id])
    BY <1>4 DEF AllocateRowId
  <2>2. s.next_row_id = catalog[t].next_row_id + RowIdBatch
    BY <1>1 DEF Schema
  <2> HIDE DEF s
  <2>3. /\ DOMAIN catalog' = DOMAIN catalog /\ catalog'[t] = s
        /\ \A u \in DOMAIN catalog \ {t} : catalog'[u] = catalog[u]
    BY <2>1
  <2>4. /\ DOMAIN row_id_cursors' = DOMAIN row_id_cursors \cup {t}
        /\ row_id_cursors'[t] = [next |-> catalog[t].next_row_id + 1, limit |-> s.next_row_id]
        /\ \A u \in DOMAIN row_id_cursors \ {t} : row_id_cursors'[u] = row_id_cursors[u]
    BY <2>1, <2>3 DEF Put, Override
  <2>5. NextRowId(t) = catalog[t].next_row_id
    BY <1>4 DEF NextRowId
  <2>6. row_id_cursors'[t].next = catalog[t].next_row_id + 1 /\ row_id_cursors'[t].limit = s.next_row_id
    BY <2>4
  <2>7. /\ s.next_row_id \in Nat /\ catalog[t].next_row_id <= s.next_row_id
        /\ catalog[t].next_row_id < s.next_row_id
    BY <1>1, <2>2
  <2> QED
    BY <1>1, <1>2, <1>4, <2>3, <2>4, <2>5, <2>6, <2>7
<1> QED
  BY <1>3, <1>4

\* A row whose id is above the others may come last.
LEMMA AppendedBelow ==
    ASSUME NEW rows \in Seq(Row), NEW row \in Row, NEW next \in Nat, NEW m \in Nat, m <= next,
           IdsBelow(rows, m), \A i \in DOMAIN rows : rows[i].id < row.id, row.id < next
    PROVE  IdsBelow(Append(rows, row), next)
<1> DEFINE new == Append(rows, row)
<1>1. /\ DOMAIN new = 1..(Len(rows) + 1) /\ DOMAIN rows = 1..Len(rows) /\ Len(rows) \in Nat
      /\ new[Len(rows) + 1] = row
      /\ \A i \in 1..Len(rows) : new[i] = rows[i]
  OBVIOUS
<1>2. \A i \in DOMAIN rows : rows[i].id \in Nat
  <2>1. \A i \in DOMAIN rows : rows[i] \in Row
    OBVIOUS
  <2> QED
    BY <2>1 DEF Row
<1>3. row.id \in Nat
  BY DEF Row
<1> HIDE DEF new
<1>4. \A i \in DOMAIN rows : rows[i].id < m
  BY DEF IdsBelow
<1>5. \A i, j \in DOMAIN rows : i < j => rows[i].id < rows[j].id
  BY DEF IdsBelow
<1>6. ASSUME NEW i \in DOMAIN new
      PROVE  /\ new[i].id < next
             /\ \A j \in DOMAIN new : i < j => new[i].id < new[j].id
  <2>1. CASE i = Len(rows) + 1
    BY <1>1, <2>1
  <2>2. CASE i \in 1..Len(rows)
    <3>1. new[i].id = rows[i].id /\ rows[i].id \in Nat /\ rows[i].id < m
      BY <1>1, <1>2, <1>4, <2>2
    <3>2. new[i].id < next
      BY <3>1
    <3>3. ASSUME NEW j \in DOMAIN new, i < j
          PROVE  new[i].id < new[j].id
      <4>1. CASE j = Len(rows) + 1
        BY <1>1, <2>2, <3>1, <4>1
      <4>2. CASE j \in 1..Len(rows)
        BY <1>1, <1>5, <2>2, <3>1, <3>3, <4>2
      <4> QED
        BY <1>1, <4>1, <4>2
    <3> QED
      BY <3>2, <3>3
  <2> QED
    BY <1>1, <2>1, <2>2
<1> QED
  BY <1>6 DEF IdsBelow, new

\* What INSERT leaves of the rows and of the catalog.
LEMMA InsertIds ==
    ASSUME TypeOK, MetadataSaved, NoOrphanHandle, NEW t \in Tables, t \in DOMAIN catalog,
           NEW data \in [catalog[t].columns -> Val], Insert(t, data)
    PROVE  /\ running /\ running' /\ AllocateRowId(t) /\ UNCHANGED <<txn_snapshot, txn_dir>>
           /\ catalog' = disk'.catalog /\ catalog = disk.catalog
           /\ RowsOf(t)' = Append(RowsOf(t), [id |-> NextRowId(t), data |-> data])
           /\ \A u : u # t => RowsOf(u)' = RowsOf(u)
<1>1. /\ running /\ running' /\ AllocateRowId(t) /\ UNCHANGED <<txn_snapshot, txn_dir>>
      /\ table_files[t] # "orphan"
      /\ disk' = [disk EXCEPT !.catalog = catalog',
                              !.tables = Put(@, t, Append(RowsOf(t), [id |-> NextRowId(t), data |-> data]))]
  BY DEF Insert, NoOrphanHandle
<1> DEFINE rows == Append(RowsOf(t), [id |-> NextRowId(t), data |-> data])
<1>2. disk'.tables = Put(disk.tables, t, rows) /\ disk'.catalog = catalog'
  BY <1>1, DiskFields
<1> HIDE DEF rows
<1>3. RowsOf(t)' = rows /\ \A u : u # t => RowsOf(u)' = RowsOf(u)
  BY <1>2, DiskAfter DEF RowsOf
<1> QED
  BY <1>1, <1>2, <1>3 DEF rows, MetadataSaved

LEMMA InsertFresh ==
    ASSUME TypeOK, MetadataSaved, NoOrphanHandle, StorageFresh, NEW t \in Tables, t \in DOMAIN catalog,
           NEW data \in [catalog[t].columns -> Val], Insert(t, data)
    PROVE  StorageFresh'
<1> DEFINE row == [id |-> NextRowId(t), data |-> data]
<1>1. /\ running /\ running' /\ AllocateRowId(t) /\ UNCHANGED <<txn_snapshot, txn_dir>>
      /\ catalog' = disk'.catalog /\ catalog = disk.catalog
      /\ RowsOf(t)' = Append(RowsOf(t), row)
      /\ \A u : u # t => RowsOf(u)' = RowsOf(u)
  BY InsertIds
<1>2. /\ DOMAIN catalog' = DOMAIN catalog
      /\ \A u \in DOMAIN catalog \ {t} : catalog'[u] = catalog[u]
      /\ \A i \in DOMAIN RowsOf(t) : RowsOf(t)[i].id < NextRowId(t)
      /\ catalog[t].next_row_id \in Nat /\ catalog'[t].next_row_id \in Nat
      /\ catalog[t].next_row_id <= catalog'[t].next_row_id
      /\ NextRowId(t) \in Nat /\ NextRowId(t) < catalog'[t].next_row_id
      /\ DOMAIN row_id_cursors' = DOMAIN row_id_cursors \cup {t}
      /\ row_id_cursors'[t].next = NextRowId(t) + 1
      /\ row_id_cursors'[t].limit = catalog'[t].next_row_id
      /\ \A u \in DOMAIN row_id_cursors \ {t} : row_id_cursors'[u] = row_id_cursors[u]
  BY <1>1, IdAllocated DEF StorageFresh
<1>3. RowsOf(t) \in Seq(Row) /\ \A i \in DOMAIN RowsOf(t) : RowsOf(t)[i] \in Row
  BY RowsTyped
<1>4. row \in Row /\ row.id = NextRowId(t)
  <2>1. catalog[t].columns \in SUBSET Columns
    BY DEF TypeOK, IsMap, Schema
  <2>2. data \in Data
    BY <2>1 DEF Data, Maps
  <2> QED
    BY <1>2, <2>2 DEF Row
<1> HIDE DEF row
<1>5. \A u \in DOMAIN catalog : IdsBelow(RowsOf(u), catalog[u].next_row_id)
  BY <1>1, AscendIs DEF StorageFresh, RowsOf
<1>6. IdsBelow(RowsOf(t)', catalog'[t].next_row_id)
  BY <1>1, <1>2, <1>3, <1>4, <1>5, AppendedBelow
<1>7. \A u \in DOMAIN catalog' : IdsBelow(RowsOf(u)', catalog'[u].next_row_id)
  BY <1>1, <1>2, <1>5, <1>6
<1>8. RowIdsAscend(disk')
  BY <1>1, <1>7, AscendIs DEF RowsOf
<1>9. \A i \in DOMAIN RowsOf(t)' : RowsOf(t)'[i].id < row_id_cursors'[t].next
  <2>1. /\ DOMAIN RowsOf(t)' = 1..(Len(RowsOf(t)) + 1) /\ Len(RowsOf(t)) \in Nat
        /\ DOMAIN RowsOf(t) = 1..Len(RowsOf(t))
        /\ RowsOf(t)'[Len(RowsOf(t)) + 1] = row
        /\ \A i \in 1..Len(RowsOf(t)) : RowsOf(t)'[i] = RowsOf(t)[i]
    BY <1>1, <1>3
  <2>2. \A i \in DOMAIN RowsOf(t) : RowsOf(t)[i].id \in Nat
    BY <1>3 DEF Row
  <2> QED
    BY <1>2, <1>4, <2>1, <2>2
<1>10. ASSUME NEW u \in DOMAIN row_id_cursors'
       PROVE  /\ running' /\ u \in DOMAIN catalog'
              /\ row_id_cursors'[u].next <= row_id_cursors'[u].limit
              /\ row_id_cursors'[u].limit = catalog'[u].next_row_id
              /\ \A i \in DOMAIN RowsOf(u)' : RowsOf(u)'[i].id < row_id_cursors'[u].next
  <2>1. CASE u = t
    BY <1>1, <1>2, <1>9, <2>1
  <2>2. CASE u # t
    <3>1. /\ u \in DOMAIN row_id_cursors /\ u \in DOMAIN catalog
          /\ row_id_cursors[u].next <= row_id_cursors[u].limit
          /\ row_id_cursors[u].limit = catalog[u].next_row_id
          /\ \A i \in DOMAIN RowsOf(u) : RowsOf(u)[i].id < row_id_cursors[u].next
      BY <1>2, <2>2 DEF StorageFresh, CursorsReserved
    <3>2. catalog'[u] = catalog[u] /\ row_id_cursors'[u] = row_id_cursors[u] /\ RowsOf(u)' = RowsOf(u)
      BY <1>1, <1>2, <2>2, <3>1
    <3> QED
      BY <1>1, <1>2, <3>1, <3>2
  <2> QED
    BY <2>1, <2>2
<1>11. CursorsReserved'
  BY <1>10 DEF CursorsReserved
<1> QED
  BY <1>1, <1>8, <1>11 DEF StorageFresh

---------------------------------------------------------------------------------
(* Opens, ends and transactions, and the ids *)

\* A call that leaves the rows and what is reserved, and forgets the cursors or not.
LEMMA UntouchedFresh ==
    ASSUME StorageFresh, disk'.catalog = disk.catalog, disk'.tables = disk.tables,
           txn_dir' => txn_snapshot' = disk' \/ (txn_dir /\ txn_snapshot' = txn_snapshot),
           \/ row_id_cursors' = EmptyMap
           \/ DOMAIN row_id_cursors' = {}
           \/ UNCHANGED <<row_id_cursors, catalog, running>>
    PROVE  StorageFresh'
<1>1. RowIdsAscend(disk')
  BY DEF StorageFresh, RowIdsAscend, RowsIn
<1>2. CursorsReserved'
  <2>1. CASE DOMAIN row_id_cursors' = {}
    BY <2>1 DEF CursorsReserved
  <2>2. CASE row_id_cursors' = EmptyMap
    BY <2>1, <2>2 DEF EmptyMap
  <2>3. CASE UNCHANGED <<row_id_cursors, catalog, running>>
    <3>1. \A u : RowsOf(u)' = RowsOf(u)
      BY DEF RowsOf, RowsIn
    <3> QED
      BY <2>3, <3>1 DEF StorageFresh, CursorsReserved
  <2> QED
    BY <2>1, <2>2, <2>3
<1> QED
  BY <1>1, <1>2 DEF StorageFresh

LEMMA OpenFresh ==
    ASSUME TypeOK, StorageFresh, TxnOfProcess, Open \/ OpenFails
    PROVE  StorageFresh' /\ disk'.catalog = disk.catalog /\ disk'.tables = disk.tables
<1>1. DOMAIN row_id_cursors = {} /\ txn_dir' = FALSE /\ row_id_cursors' = row_id_cursors
  <2>1. ~running
    BY DEF Open, OpenFails
  <2>2. DOMAIN row_id_cursors = {}
    BY <2>1 DEF StorageFresh, CursorsReserved
  <2>3. CASE Open
    BY <2>2, <2>3 DEF Open
  <2>4. CASE OpenFails
    <3>1. UNCHANGED memory
      BY <2>4 DEF OpenFails
    <3>2. txn_dir = FALSE
      BY <2>1 DEF TxnOfProcess, TypeOK
    <3> QED
      BY <2>2, <3>1, <3>2 DEF memory
  <2> QED
    BY <2>3, <2>4
<1>2. disk'.catalog = disk.catalog /\ disk'.tables = disk.tables
  BY DiskFields DEF Open, OpenFails
<1> QED
  BY <1>1, <1>2, UntouchedFresh

LEMMA EndFresh ==
    ASSUME TypeOK, StorageFresh, Close \/ Exit
    PROVE  StorageFresh' /\ disk'.catalog = disk.catalog /\ disk'.tables = disk.tables
<1>1. row_id_cursors' = EmptyMap /\ txn_dir' = FALSE
  BY DEF Close, Exit, Forget
<1>2. disk'.catalog = disk.catalog /\ disk'.tables = disk.tables
  BY DiskFields DEF Close, Exit
<1> QED
  BY <1>1, <1>2, UntouchedFresh

LEMMA BeginFresh ==
    ASSUME TypeOK, StorageFresh, BeginTransaction \/ CommitTransaction
    PROVE  StorageFresh' /\ disk'.catalog = disk.catalog /\ disk'.tables = disk.tables
<1>1. /\ UNCHANGED <<row_id_cursors, catalog, running>>
      /\ txn_dir' => txn_snapshot' = disk'
  BY DEF BeginTransaction, CommitTransaction, Copied, TypeOK
<1>2. disk'.catalog = disk.catalog /\ disk'.tables = disk.tables
  <2>1. CASE BeginTransaction
    BY <2>1, DiskFields DEF BeginTransaction, FlushIndexes
  <2>2. CASE CommitTransaction
    BY <2>2 DEF CommitTransaction
  <2> QED
    BY <2>1, <2>2
<1>3. txn_dir' => txn_snapshot' = disk' \/ (txn_dir /\ txn_snapshot' = txn_snapshot)
  BY <1>1
<1>4. StorageFresh'
  BY <1>1, <1>2, <1>3, UntouchedFresh
<1> QED
  BY <1>2, <1>4

LEMMA RollbackFresh ==
    ASSUME StorageFresh, RollbackTransaction
    PROVE  StorageFresh'
<1>1. disk' = txn_snapshot /\ txn_dir /\ txn_dir' = FALSE /\ DOMAIN row_id_cursors' = {}
  BY DEF RollbackTransaction, EmptyMap
<1> QED
  BY <1>1 DEF StorageFresh, CursorsReserved, RowIdsAscend, RowsIn

---------------------------------------------------------------------------------
(* A call starts: the order of its writes *)

\* What a call has to have for its writes to keep the ids below what is reserved.
LEMMA IdsLeadWhenBegun ==
    ASSUME CrashInv, writes = {}, files' = files,
           \A u \in DOMAIN disk'.catalog :
               \/ IdsBelow(RowsIn(disk.tables, u), disk'.catalog[u].next_row_id)
               \/ \A step \in writes' : Alters(step.write, CatalogFile) =>
                    \E other \in writes' :
                        Alters(other.write, TableFile(u)) /\ other.stage < step.stage,
           \A u \in DOMAIN disk.catalog :
               \/ IdsBelow(RowsIn(disk'.tables, u), disk.catalog[u].next_row_id)
               \/ \A step \in writes' : Alters(step.write, TableFile(u)) =>
                    \E other \in writes' :
                        Alters(other.write, CatalogFile) /\ other.stage < step.stage
    PROVE  IdsLead'
<1>1. AsDisk(files') = disk
  BY BeforeCall
<1> QED
  BY <1>1 DEF IdsLead

\* A call that keeps the ids may write in any order, but for a new table.
LEMMA IdsLeadWhenKept ==
    ASSUME CrashInv, writes = {}, files' = files, IdsKept, MetadataSaved', StorageFresh,
           \A u \in DOMAIN catalog' \ DOMAIN catalog :
               \A step \in writes' : Alters(step.write, CatalogFile) =>
                    \E other \in writes' :
                        Alters(other.write, TableFile(u)) /\ other.stage < step.stage
    PROVE  IdsLead' /\ StorageFresh'
<1>1. /\ MetadataSaved /\ catalog = disk.catalog /\ catalog' = disk'.catalog
      /\ \A u : RowsOf(u) = RowsIn(disk.tables, u)
      /\ \A u : RowsOf(u)' = RowsIn(disk'.tables, u)
  BY DEF CrashInv, MetadataSaved, IdsKept, RowsOf
<1>2. \A u \in DOMAIN catalog : IdsBelow(RowsOf(u), catalog[u].next_row_id)
  BY <1>1, AscendIs DEF StorageFresh
<1>3. \A u \in DOMAIN catalog' : u \in DOMAIN catalog => IdsBelow(RowsOf(u), catalog'[u].next_row_id)
  BY <1>2 DEF IdsKept
<1>4. ASSUME NEW u \in DOMAIN catalog
      PROVE  IdsBelow(RowsOf(u)', catalog[u].next_row_id)
  <2>1. CASE u \in DOMAIN catalog'
    <3>1. RowsTaken(RowsOf(u), RowsOf(u)')
      BY <2>1 DEF IdsKept
    <3> QED
      BY <1>2, <3>1, TakenBelow
  <2>2. CASE u \notin DOMAIN catalog'
    BY <2>2, NoRowsBelow DEF IdsKept
  <2> QED
    BY <2>1, <2>2
<1>5. IdsLead'
  BY <1>1, <1>3, <1>4, IdsLeadWhenBegun
<1>6. StorageFresh'
  BY <1>1, KeptFresh
<1> QED
  BY <1>5, <1>6

\* A call that leaves the catalog and the rows may write in any order.
LEMMA IdsLeadWhenUntouched ==
    ASSUME CrashInv, writes = {}, files' = files, RowIdsAscend(disk),
           disk'.catalog = disk.catalog, disk'.tables = disk.tables
    PROVE  IdsLead'
<1>1. \A u \in DOMAIN disk.catalog : IdsBelow(RowsIn(disk.tables, u), disk.catalog[u].next_row_id)
  BY AscendIs
<1> QED
  BY <1>1, IdsLeadWhenBegun

---------------------------------------------------------------------------------
(* The next write, and the ids *)

\* The rows in the file of table t now
RowsThere(t) == RowsIn(AsDisk(files).tables, t)

LEMMA RowsThereIs ==
    ASSUME NEW t \in Tables
    PROVE  /\ RowsThere(t) = IF TableFile(t) \in DOMAIN files THEN files[TableFile(t)].rows ELSE <<>>
           /\ RowsThere(t)' = IF TableFile(t) \in DOMAIN files' THEN files'[TableFile(t)].rows ELSE <<>>
  BY DEF RowsThere, RowsIn, AsDisk

\* The writes of a call put the catalog it leads to, or leave the one there is;
\* a table has the rows it had, or those the call leads to, or its file is away.
LEMMA CatalogAfterWrite ==
    ASSUME NEW step, Writing(step), CrashInv, ~RollingBack
    PROVE  /\ ~Alters(step.write, CatalogFile) => AsDisk(files').catalog = AsDisk(files).catalog
           /\ Alters(step.write, CatalogFile) => AsDisk(files').catalog = disk.catalog
<1>1. /\ StagesOK /\ DirectoryOK(files) /\ IsFiles(disk)
      /\ \A other \in writes : StepFits(other)
  BY DEF CrashInv, StagesOK, TypeOK, WritesLead
<1>2. CatalogFile \in Paths /\ \A t : CatalogFile # TableFile(t) /\ CatalogFile # RewriteFile(t)
  BY PathsAre, PathKinds
<1>3. ASSUME ~Alters(step.write, CatalogFile)
      PROVE  AsDisk(files').catalog = AsDisk(files).catalog
  <2>1. SameFile(CatalogFile)
    BY <1>1, <1>2, <1>3, FilesAfterWrite
  <2>2. \A d : d.catalog = AsDisk(files).catalog => Arrived(files, d, marker, CatalogFile)
    BY ArrivedMetadata
  <2>3. Arrived(files', AsDisk(files), marker, CatalogFile)
    BY <2>1, <2>2, SameArrived
  <2> QED
    BY <2>3, ArrivedMetadata
<1>4. ASSUME Alters(step.write, CatalogFile)
      PROVE  AsDisk(files').catalog = disk.catalog
  <2>1. Arrived(files', disk, marker, CatalogFile)
    BY <1>1, <1>2, <1>4, FilesAfterWrite
  <2> QED
    BY <2>1, ArrivedMetadata
<1> QED
  BY <1>3, <1>4

LEMMA RowsAfterWrite ==
    ASSUME NEW step, Writing(step), CrashInv, ~RollingBack, NEW t \in Tables
    PROVE  /\ ~Alters(step.write, TableFile(t)) => RowsThere(t)' = RowsThere(t)
           /\ Alters(step.write, TableFile(t)) => RowsThere(t)' \in {RowsIn(disk.tables, t), <<>>}
<1>1. /\ StagesOK /\ DirectoryOK(files) /\ IsFiles(disk)
      /\ \A other \in writes : StepFits(other)
      /\ TableFile(t) \in Paths
  BY PathsAre DEF CrashInv, StagesOK, TypeOK, WritesLead
<1>2. ASSUME ~Alters(step.write, TableFile(t))
      PROVE  RowsThere(t)' = RowsThere(t)
  <2>1. SameFile(TableFile(t))
    BY <1>1, <1>2, FilesAfterWrite
  <2> QED
    BY <2>1, SameRows DEF RowsThere
<1>3. ASSUME Alters(step.write, TableFile(t)), Arrived(files', disk, marker, TableFile(t))
      PROVE  RowsThere(t)' = RowsIn(disk.tables, t)
  BY <1>3, ArrivedTable DEF RowsThere, RowsIn
<1>4. ASSUME Alters(step.write, TableFile(t)), NEW u \in Tables,
             TableFile(t) \in {TableFile(u), RewriteFile(u)}, Rename(u) \in Pending'
      PROVE  RowsThere(t)' = <<>>
  <2>1. u = t
    BY <1>4, PathKinds
  <2>2. PICK other \in writes' : other.write = Rename(t)
    BY <1>4, <2>1 DEF Pending
  <2>3. other \in writes /\ other # step /\ StepFits(other)
    BY <1>1, <2>2, PendingAfter
  <2>4. other.write[1] = "rename"
    BY <2>2, RenameOf
  <2>5. ~OthersFit(other)
    BY <2>4, EndIs, CopyIs, SnapshotIs DEF OthersFit
  <2>6. RenamesFit(other)
    BY <2>3, <2>4, <2>5 DEF StepFits
  <2>7. PICK x \in DOMAIN disk.tables \ disk.tmp_rewrite :
            /\ other.write = Rename(x)
            /\ \A o \in writes \ {other} : Alters(o.write, TableFile(x)) => o.write = RemoveFile(TableFile(x))
    BY <2>6 DEF RenamesFit
  <2>8. x = t
    BY <2>2, <2>7, RenameOf
  <2>9. step.write = RemoveFile(TableFile(t)) /\ files' = FilesAfter(step.write)
    BY <1>4, <2>3, <2>7, <2>8 DEF Writing
  <2>10. files' = Without(files, {TableFile(t)})
    BY <2>9, AfterRemove
  <2> QED
    BY <2>10, RowsThereIs DEF Without, Restrict
<1>5. Alters(step.write, TableFile(t)) =>
        \/ Arrived(files', disk, marker, TableFile(t))
        \/ \E u \in Tables : TableFile(t) \in {TableFile(u), RewriteFile(u)} /\ Rename(u) \in Pending'
  BY <1>1, FilesAfterWrite
<1> QED
  BY <1>2, <1>3, <1>4, <1>5

\* Rows that are below the catalog's reserve stay below it.
LEMMA WriteFresh ==
    ASSUME NEW step, Writing(step), CrashInv, ~RollingBack, FreshInv
    PROVE  RowIdsAscend(AsDisk(files')) /\ IdsLead'
<1>1. /\ step \in writes /\ writes' = writes \ {step} /\ disk' = disk
      /\ \A other \in writes : ~(other.stage < step.stage)
  <2>1. ASSUME NEW other \in writes PROVE ~(other.stage < step.stage)
    <3>1. other.stage \in Nat /\ step.stage \in Nat /\ step.stage <= other.stage
      BY DEF Writing, CrashInv
    <3> QED
      BY <3>1
  <2> QED
    BY <2>1 DEF Writing, vars
<1>2. IsFiles(AsDisk(files)) /\ IsFiles(AsDisk(files')) /\ IsFiles(disk)
  <2>1. /\ StagesOK /\ DirectoryOK(files) /\ IsFiles(disk)
        /\ \A other \in writes : StepFits(other)
    BY DEF CrashInv, StagesOK, TypeOK, WritesLead
  <2>2. DirectoryOK(files')
    BY <2>1, FilesAfterWrite
  <2> QED
    BY <2>1, <2>2, AsDiskTyped
<1> DEFINE here == AsDisk(files).catalog
           then == AsDisk(files').catalog
<1>3. /\ DOMAIN here \subseteq Tables /\ DOMAIN then \subseteq Tables /\ DOMAIN disk.catalog \subseteq Tables
  BY <1>2 DEF IsFiles, IsMap
<1>4. /\ ~Alters(step.write, CatalogFile) => then = here
      /\ Alters(step.write, CatalogFile) => then = disk.catalog
  BY CatalogAfterWrite
<1>5. \A t \in Tables :
        /\ ~Alters(step.write, TableFile(t)) => RowsThere(t)' = RowsThere(t)
        /\ Alters(step.write, TableFile(t)) => RowsThere(t)' \in {RowsIn(disk.tables, t), <<>>}
  BY RowsAfterWrite
<1>6. /\ \A t \in DOMAIN here : IdsBelow(RowsThere(t), here[t].next_row_id)
      /\ \A t \in DOMAIN disk.catalog : IdsBelow(RowsIn(disk.tables, t), disk.catalog[t].next_row_id)
  BY AscendIs DEF FreshInv, RowsThere
<1>7. /\ \A s \in writes : Alters(s.write, CatalogFile) =>
            \A t \in DOMAIN disk.catalog :
                \/ IdsBelow(RowsThere(t), disk.catalog[t].next_row_id)
                \/ \E other \in writes : Alters(other.write, TableFile(t)) /\ other.stage < s.stage
      /\ \A s \in writes : \A t \in DOMAIN here :
            Alters(s.write, TableFile(t)) =>
                \/ IdsBelow(RowsIn(disk.tables, t), here[t].next_row_id)
                \/ \E other \in writes : Alters(other.write, CatalogFile) /\ other.stage < s.stage
  BY DEF FreshInv, IdsLead, RowsThere
<1>8. RowIdsAscend(AsDisk(files')) <=> \A t \in DOMAIN then : IdsBelow(RowsThere(t)', then[t].next_row_id)
  BY AscendIs DEF RowsThere
<1>9. IdsLead' <=>
        /\ \A s \in writes' : Alters(s.write, CatalogFile) =>
            \A t \in DOMAIN disk.catalog :
                \/ IdsBelow(RowsThere(t)', disk.catalog[t].next_row_id)
                \/ \E other \in writes' : Alters(other.write, TableFile(t)) /\ other.stage < s.stage
        /\ \A s \in writes' : \A t \in DOMAIN then :
            Alters(s.write, TableFile(t)) =>
                \/ IdsBelow(RowsIn(disk.tables, t), then[t].next_row_id)
                \/ \E other \in writes' : Alters(other.write, CatalogFile) /\ other.stage < s.stage
  BY <1>1 DEF IdsLead, RowsThere
<1> HIDE DEF here, then
<1>10. \A n : IdsBelow(<<>>, n)
  BY NoRowsBelow
<1>11. ASSUME NEW t \in DOMAIN then
       PROVE  IdsBelow(RowsThere(t)', then[t].next_row_id)
  <2>1. t \in Tables
    BY <1>3
  <2>2. CASE Alters(step.write, TableFile(t)) /\ RowsThere(t)' = <<>>
    BY <1>10, <2>2
  <2>3. CASE Alters(step.write, TableFile(t)) /\ RowsThere(t)' = RowsIn(disk.tables, t)
    BY <1>1, <1>4, <1>6, <1>7, <2>3
  <2>4. CASE ~Alters(step.write, TableFile(t))
    BY <1>1, <1>4, <1>5, <1>6, <1>7, <2>1, <2>4
  <2> QED
    BY <1>5, <2>1, <2>2, <2>3, <2>4
<1>12. ASSUME NEW s \in writes', Alters(s.write, CatalogFile), NEW t \in DOMAIN disk.catalog
       PROVE  \/ IdsBelow(RowsThere(t)', disk.catalog[t].next_row_id)
              \/ \E other \in writes' : Alters(other.write, TableFile(t)) /\ other.stage < s.stage
  <2>1. t \in Tables
    BY <1>3
  <2>2. CASE Alters(step.write, TableFile(t))
    BY <1>5, <1>6, <1>10, <2>1, <2>2
  <2>3. CASE ~Alters(step.write, TableFile(t))
    <3>1. RowsThere(t)' = RowsThere(t)
      BY <1>5, <2>1, <2>3
    <3> QED
      BY <1>1, <1>7, <1>12, <2>3, <3>1
  <2> QED
    BY <2>2, <2>3
<1>13. ASSUME NEW s \in writes', NEW t \in DOMAIN then, Alters(s.write, TableFile(t))
       PROVE  \/ IdsBelow(RowsIn(disk.tables, t), then[t].next_row_id)
              \/ \E other \in writes' : Alters(other.write, CatalogFile) /\ other.stage < s.stage
  <2>1. CASE Alters(step.write, CatalogFile)
    BY <1>4, <1>6, <2>1
  <2>2. CASE ~Alters(step.write, CatalogFile)
    BY <1>1, <1>4, <1>7, <1>13, <2>2
  <2> QED
    BY <2>1, <2>2
<1> QED
  BY <1>8, <1>9, <1>11, <1>12, <1>13

\* Some of the files of a directory in which the ids ascend, by their names.
LEMMA SomeFilesAscend ==
    ASSUME NEW fs, NEW gs, RowIdsAscend(AsDisk(gs)),
           \A path \in DOMAIN fs \ {MarkerFile} : path \in DOMAIN gs /\ fs[path] = gs[path]
    PROVE  RowIdsAscend(AsDisk(fs))
<1>1. /\ AsDisk(fs).catalog = Held(fs, CatalogFile, EmptyMap)
      /\ AsDisk(gs).catalog = Held(gs, CatalogFile, EmptyMap)
      /\ CatalogFile # MarkerFile /\ \A t : TableFile(t) # MarkerFile
  BY PathKinds DEF AsDisk
<1>2. DOMAIN EmptyMap = {}
  BY DEF EmptyMap
<1>3. \A t : RowsIn(AsDisk(fs).tables, t) \in {RowsIn(AsDisk(gs).tables, t), <<>>}
  BY <1>1 DEF AsDisk, RowsIn
<1>4. \A t \in DOMAIN AsDisk(gs).catalog :
        IdsBelow(RowsIn(AsDisk(gs).tables, t), AsDisk(gs).catalog[t].next_row_id)
  BY AscendIs
<1>5. ASSUME NEW t \in DOMAIN AsDisk(fs).catalog
      PROVE  IdsBelow(RowsIn(AsDisk(fs).tables, t), AsDisk(fs).catalog[t].next_row_id)
  <2>1. AsDisk(fs).catalog = AsDisk(gs).catalog
    BY <1>1, <1>2, <1>5 DEF Held
  <2>2. IdsBelow(RowsIn(AsDisk(gs).tables, t), AsDisk(fs).catalog[t].next_row_id)
    BY <1>4, <1>5, <2>1
  <2> QED
    BY <1>3, <2>2, NoRowsBelow
<1> QED
  BY <1>5, AscendIs

LEMMA RollbackWriteFresh ==
    ASSUME NEW step, Writing(step), CrashInv, RollingBack, FreshInv
    PROVE  RowIdsAscend(AsDisk(files')) /\ (~RollingBack' => IdsLead')
<1>1. /\ StagesOK /\ RollbackLeads /\ SnapshotOK /\ step \in writes /\ call.name = "rollback"
      /\ call' = IF writes' = {} THEN NoCall ELSE call
      /\ \A other \in writes' : other \in writes
      /\ files' = FilesAfter(step.write) /\ snapshot_files' = SnapshotAfter(step.write)
      /\ RowIdsAscend(AsDisk(files)) /\ RowIdsAscend(disk)
  BY DEF CrashInv, StagesOK, RollingBack, Writing, FreshInv
<1>2. ~RollingBack' => IdsLead'
  <2>1. ~RollingBack' => writes' = {}
    BY <1>1 DEF RollingBack
  <2> QED
    BY <2>1 DEF IdsLead
<1>3. ASSUME NEW path \in Paths \ {MarkerFile}, step.write = RemoveFile(path)
      PROVE  RowIdsAscend(AsDisk(files'))
  <2>1. files' = Without(files, {path})
    BY <1>1, <1>3, AfterRemove
  <2>2. \A p \in DOMAIN files' : p \in DOMAIN files /\ files'[p] = files[p]
    BY <2>1 DEF Without, Restrict
  <2> QED
    BY <1>1, <2>2, SomeFilesAscend
<1>4. ASSUME NEW path \in DOMAIN snapshot_files, step.write = Restore(path)
      PROVE  RowIdsAscend(AsDisk(files'))
  <2>1. RollbackLeads' /\ snapshot_files' = snapshot_files
    BY <1>1, <1>4, RestoreInRollback, AfterRestore
  <2>2. step.stage = 2
    BY <1>1, <1>4, RestoreIs, RollbackStages
  <2>3. \A other \in writes : other.write[1] # "remove"
    <3>1. \A other \in writes : other.stage # 1
      BY <2>2 DEF Writing
    <3> QED
      BY <1>1, <3>1, RollbackStages
  <2>4. \A p : RemoveFile(p) \notin Pending'
    BY <1>1, <2>3, RemoveIs DEF Pending
  <2>5. \A p \in DOMAIN files' \ {MarkerFile} : p \in DOMAIN snapshot_files /\ files'[p] = snapshot_files[p]
    BY <2>1, <2>4 DEF RollbackLeads, Copyable
  <2>6. RowIdsAscend(AsDisk(snapshot_files))
    BY <1>1 DEF RollbackLeads
  <2> QED
    BY <2>5, <2>6, SomeFilesAscend
<1>5. CASE step.write = DropSnapshot
  <2>1. files' = files
    BY <1>1, <1>5, AfterDrop
  <2> QED
    BY <1>1, <1>2, <2>1
<1>6. RollbackStep(step)
  BY <1>1 DEF RollbackLeads
<1>7. CASE step = [stage |-> 3, write |-> DropSnapshot]
  BY <1>5, <1>7
<1> QED
  BY <1>2, <1>3, <1>4, <1>6, <1>7 DEF RollbackStep

LEMMA WriteStepFresh ==
    ASSUME CrashInv, FreshInv, WriteStep
    PROVE  FreshInv'
<1>1. PICK step : Writing(step)
  BY DEF WriteStep, Writing
<1>2. disk' = disk /\ txn_dir' = txn_dir /\ txn_snapshot' = txn_snapshot /\ CursorsReserved'
  BY <1>1 DEF Writing, vars, memory, FreshInv, CursorsReserved, RowsOf
<1>3. RowIdsAscend(AsDisk(files')) /\ (~RollingBack' => IdsLead')
  BY <1>1, WriteFresh, RollbackWriteFresh
<1> QED
  BY <1>2, <1>3 DEF FreshInv

---------------------------------------------------------------------------------
(* Kills, calls and the invariant *)

LEMMA KillFresh ==
    ASSUME FreshInv, Kill
    PROVE  FreshInv'
<1>1. /\ disk' = AsDisk(files) /\ files' = files /\ writes' = {} /\ txn_dir' = FALSE
      /\ row_id_cursors' = EmptyMap
  BY DEF Kill, Forget
<1>2. CursorsReserved'
  BY <1>1 DEF CursorsReserved, EmptyMap
<1> QED
  BY <1>1, <1>2 DEF FreshInv, IdsLead

LEMMA FreshInit == CrashInit => FreshInv
<1> SUFFICES ASSUME CrashInit PROVE FreshInv
  OBVIOUS
<1>1. /\ disk.catalog = EmptyMap /\ files = EmptyMap /\ writes = {} /\ txn_dir = FALSE
      /\ row_id_cursors = EmptyMap
  BY DEF CrashInit, Init, EmptyFiles
<1>2. AsDisk(files).catalog = EmptyMap
  BY <1>1 DEF AsDisk, Held, EmptyMap
<1> QED
  BY <1>1, <1>2 DEF FreshInv, IdsLead, RowIdsAscend, CursorsReserved, EmptyMap

\* What a call has to have for the invariant to hold when it starts.
LEMMA CallFresh ==
    ASSUME CrashInv, FreshInv, writes = {}, files' = files, StorageFresh', ~RollingBack' => IdsLead'
    PROVE  FreshInv'
<1>1. AsDisk(files') = disk
  BY BeforeCall
<1> QED
  BY <1>1 DEF FreshInv, StorageFresh

LEMMA SmallCallsFresh ==
    ASSUME CrashInv, FreshInv,
           \/ OpenCrash \/ OpenFails \/ CloseCrash \/ ExitCrash
           \/ BeginCrash \/ CommitCrash
    PROVE  FreshInv'
<1>1. TypeOK /\ TxnOfProcess /\ StorageFresh
  BY DEF CrashInv, FreshInv, StorageFresh
<1>2. StorageFresh' /\ disk'.catalog = disk.catalog /\ disk'.tables = disk.tables
  BY <1>1, OpenFresh, EndFresh, BeginFresh
  DEF OpenCrash, CloseCrash, ExitCrash, BeginCrash, CommitCrash
<1>3. writes = {} /\ files' = files
  BY DEF OpenCrash, OpenFails, CloseCrash, ExitCrash, BeginCrash, CommitCrash, Begins
<1> QED
  BY <1>1, <1>2, <1>3, IdsLeadWhenUntouched, CallFresh DEF StorageFresh

LEMMA RollbackCrashFresh ==
    ASSUME CrashInv, FreshInv, RollbackCrash
    PROVE  FreshInv'
<1>1. /\ writes = {} /\ files' = files
      /\ writes' # {} => call'.name = "rollback"
  BY DEF RollbackCrash, Begins
<1>2. StorageFresh'
  BY RollbackFresh DEF RollbackCrash, FreshInv, StorageFresh
<1>3. ~RollingBack' => IdsLead'
  BY <1>1 DEF RollingBack, IdsLead
<1> QED
  BY <1>1, <1>2, <1>3, CallFresh

\* The file of a new table is written before the catalog that lists it.
LEMMA CreateTableFresh ==
    ASSUME CrashInv, CrashInv', FreshInv, NEW t \in Tables, NEW columns, CreateTableCrash(t, columns)
    PROVE  FreshInv'
<1> DEFINE first == [stage |-> 1, write |-> WriteFile(TableFile(t), Lines(<<>>))]
<1>1. /\ CreateTable(t, columns) /\ writes = {} /\ files' = files /\ writes' = CreateTableWrites(t)
      /\ TypeOK /\ StorageFresh /\ MetadataSaved'
  BY DEF CreateTableCrash, Begins, CrashInv, FreshInv, StorageFresh
<1>2. IdsKept
  BY <1>1, CreateTableIds DEF StorageFresh
<1>3. first \in writes' /\ first.stage = 1 /\ Alters(first.write, TableFile(t))
  BY <1>1, AltersWrite DEF CreateTableWrites, At
<1>4. ASSUME NEW step \in writes', Alters(step.write, CatalogFile)
      PROVE  1 < step.stage
  <2>1. CASE step \in At(1, {WriteFile(TableFile(t), Lines(<<>>))})
    <3>1. step.write = WriteFile(TableFile(t), Lines(<<>>))
      BY <2>1, StageOf
    <3> QED
      BY <1>4, <3>1, AltersWrite, PathKinds
  <2>2. step \in At(2, SaveCatalog) \/ step \in At(3, SaveMigrations) => 1 < step.stage
    BY StageOf
  <2> QED
    BY <1>1, <2>1, <2>2 DEF CreateTableWrites
<1>5. \A u \in DOMAIN catalog' \ DOMAIN catalog : u = t
  BY <1>1 DEF CreateTable, Put, Override
<1> HIDE DEF first
<1>6. IdsLead' /\ StorageFresh'
  BY <1>1, <1>2, <1>3, <1>4, <1>5, IdsLeadWhenKept
<1> QED
  BY <1>1, <1>6, CallFresh

\* The ids of a batch are reserved in the catalog before a row has one of them.
LEMMA InsertCrashFresh ==
    ASSUME CrashInv, CrashInv', FreshInv, NEW t \in Tables, t \in DOMAIN catalog,
           NEW data \in [catalog[t].columns -> Val], InsertCrash(t, data)
    PROVE  FreshInv'
<1> DEFINE row == [id |-> NextRowId(t), data |-> data]
<1>1. /\ Insert(t, data) /\ writes = {} /\ files' = files /\ writes' = InsertWrites(t, row)
      /\ TypeOK /\ MetadataSaved /\ NoOrphanHandle /\ StorageFresh
  BY DEF InsertCrash, Begins, CrashInv, FreshInv, StorageFresh
<1>2. StorageFresh'
  BY <1>1, InsertFresh
<1>3. /\ running /\ running' /\ AllocateRowId(t)
      /\ catalog' = disk'.catalog /\ catalog = disk.catalog
      /\ \A u : u # t => RowsOf(u)' = RowsOf(u)
  BY <1>1, InsertIds
<1>4. /\ DOMAIN catalog' = DOMAIN catalog
      /\ \A u \in DOMAIN catalog \ {t} : catalog'[u] = catalog[u]
      /\ catalog[t].next_row_id \in Nat /\ catalog'[t].next_row_id \in Nat
      /\ catalog[t].next_row_id <= catalog'[t].next_row_id
      /\ HasCursor(t) => catalog' = catalog
  BY <1>1, <1>3, IdAllocated DEF StorageFresh
<1>5. /\ \A u : RowsOf(u) = RowsIn(disk.tables, u)
      /\ \A u : RowsOf(u)' = RowsIn(disk'.tables, u)
  BY DEF RowsOf
<1>6. /\ \A u \in DOMAIN catalog : IdsBelow(RowsOf(u), catalog[u].next_row_id)
      /\ \A u \in DOMAIN catalog' : IdsBelow(RowsOf(u)', catalog'[u].next_row_id)
  <2>1. RowIdsAscend(disk) /\ RowIdsAscend(disk')
    BY <1>1, <1>2 DEF StorageFresh
  <2>2. \A u \in DOMAIN catalog : IdsBelow(RowsOf(u), catalog[u].next_row_id)
    BY <1>3, <1>5, <2>1, AscendIs
  <2>3. \A u \in DOMAIN disk'.catalog : IdsBelow(RowsIn(disk'.tables, u), disk'.catalog[u].next_row_id)
    BY <2>1, AscendIs
  <2> QED
    BY <1>3, <1>5, <2>2, <2>3
<1>7. \A i \in DOMAIN RowsOf(t) : RowsOf(t)[i].id \in Nat
  <2>1. \A i \in DOMAIN RowsOf(t) : RowsOf(t)[i] \in Row
    BY <1>1, RowsAreRows
  <2> QED
    BY <2>1 DEF Row
<1>8. IdsBelow(RowsOf(t), catalog'[t].next_row_id)
  <2>1. IdsBelow(RowsOf(t), catalog[t].next_row_id)
    BY <1>6
  <2>2. \A i \in DOMAIN RowsOf(t) : RowsOf(t)[i].id < catalog'[t].next_row_id
    BY <1>4, <1>7, <2>1 DEF IdsBelow
  <2> QED
    BY <2>1, <2>2 DEF IdsBelow
<1>9. ASSUME NEW step \in writes', Alters(step.write, TableFile(t)), ~HasCursor(t)
      PROVE  \E other \in writes' : Alters(other.write, CatalogFile) /\ other.stage < step.stage
  <2> DEFINE saved == [stage |-> 1, write |-> WriteFile(CatalogFile, catalog')]
  <2>1. saved \in writes' /\ saved.stage = 1 /\ Alters(saved.write, CatalogFile)
    BY <1>1, <1>9, AltersWrite DEF InsertWrites, At, SaveCatalog
  <2>2. CASE step \in At(1, SaveCatalog)
    <3>1. step.write = WriteFile(CatalogFile, catalog')
      BY <2>2, StageOf DEF SaveCatalog
    <3> QED
      BY <1>9, <3>1, AltersWrite, PathKinds
  <2> HIDE DEF saved, row
  <2>3. /\ step \in At(2, {AppendLine(t, row)}) => 1 < step.stage
        /\ step \in At(3, {EndLine(t)}) => 1 < step.stage
        /\ step \in At(4, ForgetMarker(IndexesOn(index_catalog, t))) => 1 < step.stage
    BY StageOf
  <2>4. step \in At(1, SaveCatalog) \/ 1 < step.stage
    BY <1>1, <1>9, <2>3 DEF InsertWrites
  <2> QED
    BY <2>1, <2>2, <2>4
<1> HIDE DEF row
<1>10. \A u \in DOMAIN disk'.catalog : IdsBelow(RowsIn(disk.tables, u), disk'.catalog[u].next_row_id)
  BY <1>3, <1>4, <1>5, <1>6, <1>8
<1>11. ASSUME NEW u \in DOMAIN disk.catalog
       PROVE  \/ IdsBelow(RowsIn(disk'.tables, u), disk.catalog[u].next_row_id)
              \/ \A step \in writes' : Alters(step.write, TableFile(u)) =>
                    \E other \in writes' :
                        Alters(other.write, CatalogFile) /\ other.stage < step.stage
  <2>1. CASE u # t
    BY <1>3, <1>5, <1>6, <2>1
  <2>2. CASE u = t /\ HasCursor(t)
    BY <1>3, <1>4, <1>5, <1>6, <2>2
  <2>3. CASE u = t /\ ~HasCursor(t)
    BY <1>9, <2>3
  <2> QED
    BY <2>1, <2>2, <2>3
<1>12. IdsLead'
  BY <1>1, <1>10, <1>11, IdsLeadWhenBegun
<1> QED
  BY <1>1, <1>2, <1>12, CallFresh

\* The other calls on a table or an index
LEMMA KeepingCallsFresh ==
    ASSUME CrashInv, CrashInv', FreshInv,
           \/ \E i \in IndexNames : DropIndexCrash(i)
           \/ \E t \in Tables :
                DropTableCrash(t) \/ UpdateFailsCrash(t) \/ Reading(t) \/ FailingToRead(t)
    PROVE  FreshInv'
<1>1. TypeOK /\ StorageFresh /\ CursorsReserved /\ MetadataSaved'
  BY DEF CrashInv, FreshInv, StorageFresh
<1>2. ASSUME IdsKept, DOMAIN catalog' \subseteq DOMAIN catalog, writes = {}, files' = files
      PROVE  FreshInv'
  <2>1. IdsLead' /\ StorageFresh'
    BY <1>1, <1>2, IdsLeadWhenKept
  <2> QED
    BY <1>2, <2>1, CallFresh
<1>3. ASSUME NEW i \in IndexNames, DropIndexCrash(i)
      PROVE  FreshInv'
  <2>1. DropIndex(i) /\ writes = {} /\ files' = files /\ catalog' = catalog
    BY <1>3 DEF DropIndexCrash, Begins, DropIndex
  <2> QED
    BY <1>1, <1>2, <2>1, IndexIds
<1>4. ASSUME NEW t \in Tables, DropTableCrash(t)
      PROVE  FreshInv'
  <2>1. DropTable(t) /\ writes = {} /\ files' = files
    BY <1>4 DEF DropTableCrash, Begins
  <2>2. DOMAIN catalog' \subseteq DOMAIN catalog
    BY <2>1 DEF DropTable, Without, Restrict
  <2> QED
    BY <1>1, <1>2, <2>1, <2>2, DropTableIds
<1>5. ASSUME NEW t \in Tables, NEW c \in Columns, NEW i \in IndexNames, CreateIndexCrash(i, t, c)
      PROVE  FreshInv'
  <2>1. CreateIndex(i, t, c) /\ writes = {} /\ files' = files /\ catalog' = catalog
    BY <1>5 DEF CreateIndexCrash, Begins, CreateIndex
  <2> QED
    BY <1>1, <1>2, <2>1, IndexIds
<1>6. ASSUME NEW t \in Tables, NEW c \in Columns, NEW default \in Val, AddColumnCrash(t, c, default)
      PROVE  FreshInv'
  <2>1. AddColumn(t, c, default) /\ writes = {} /\ files' = files
    BY <1>6 DEF AddColumnCrash, Begins
  <2>2. DOMAIN catalog' = DOMAIN catalog
    BY <2>1 DEF AddColumn
  <2> QED
    BY <1>1, <1>2, <2>1, <2>2, AddColumnIds
<1>7. ASSUME NEW t \in Tables, NEW c \in Columns, DropColumnCrash(t, c)
      PROVE  FreshInv'
  <2>1. DropColumn(t, c) /\ writes = {} /\ files' = files
    BY <1>7 DEF DropColumnCrash, Begins
  <2>2. DOMAIN catalog' = DOMAIN catalog
    BY <2>1 DEF DropColumn
  <2> QED
    BY <1>1, <1>2, <2>1, <2>2, DropColumnIds
<1>8. ASSUME NEW t \in Tables, NEW c \in Columns, NEW new \in Columns, RenameColumnCrash(t, c, new)
      PROVE  FreshInv'
  <2>1. RenameColumn(t, c, new) /\ writes = {} /\ files' = files
    BY <1>8 DEF RenameColumnCrash, Begins
  <2>2. DOMAIN catalog' = DOMAIN catalog
    BY <2>1 DEF RenameColumn
  <2> QED
    BY <1>1, <1>2, <2>1, <2>2, RenameColumnIds
<1>9. ASSUME NEW t \in Tables, UpdateFailsCrash(t)
      PROVE  FreshInv'
  <2>1. UpdateFails(t) /\ writes = {} /\ files' = files /\ catalog' = catalog
    BY <1>9 DEF UpdateFailsCrash, Begins, UpdateFails
  <2> QED
    BY <1>1, <1>2, <2>1, UpdateFailsIds
<1>10. ASSUME NEW t \in Tables, NEW where \in SUBSET {RowsOf(t)[i].data : i \in DOMAIN RowsOf(t)},
              DeleteCrash(t, where)
       PROVE  FreshInv'
  <2>1. Delete(t, where) /\ writes = {} /\ files' = files /\ catalog' = catalog
    BY <1>10 DEF DeleteCrash, Begins, Delete
  <2> QED
    BY <1>1, <1>2, <2>1, DeleteIds
<1>11. ASSUME NEW t \in Tables, t \in DOMAIN catalog,
              NEW where \in SUBSET {RowsOf(t)[i].data : i \in DOMAIN RowsOf(t)},
              NEW assignments \in Assignments(catalog[t].columns), UpdateCrash(t, where, assignments)
       PROVE  FreshInv'
  <2>1. Update(t, where, assignments) /\ writes = {} /\ files' = files /\ catalog' = catalog
    BY <1>11 DEF UpdateCrash, Begins, Update
  <2> QED
    BY <1>1, <1>2, <1>11, <2>1, UpdateIds
<1>12. ASSUME NEW t \in Tables, Reading(t)
       PROVE  FreshInv'
  <2>1. CASE \E c \in Columns :
                \/ \E i \in IndexNames : CreateIndexCrash(i, t, c)
                \/ \E default \in Val : AddColumnCrash(t, c, default)
                \/ DropColumnCrash(t, c)
                \/ \E new \in Columns : RenameColumnCrash(t, c, new)
    BY <1>5, <1>6, <1>7, <1>8, <2>1
  <2> QED
    BY <1>10, <1>11, <1>12, <2>1 DEF Reading
<1>13. ASSUME NEW t \in Tables, FailingToRead(t)
       PROVE  FreshInv'
  <2>1. PICK name, todo, dropped : FailedCall(name, todo, dropped)
    BY <1>13, FailingIs
  <2>2. IdsKept
    BY <1>1, <2>1, FailedIds
  <2>3. DOMAIN catalog' \subseteq DOMAIN catalog /\ writes = {} /\ files' = files
    BY <2>1 DEF FailedCall, Begins
  <2> QED
    BY <1>2, <2>2, <2>3
<1> QED
  BY <1>3, <1>4, <1>9, <1>12, <1>13

LEMMA FreshNextSafe == CrashInv /\ FreshInv /\ [CrashNext]_crash_vars => FreshInv'
<1> SUFFICES ASSUME CrashInv, FreshInv, [CrashNext]_crash_vars PROVE FreshInv'
  OBVIOUS
<1>1. CrashInv'
  BY CrashNextSafe
<1>2. CASE OpenCrash \/ OpenFails \/ CloseCrash \/ ExitCrash \/ BeginCrash \/ CommitCrash
  BY <1>2, SmallCallsFresh
<1>3. CASE RollbackCrash
  BY <1>3, RollbackCrashFresh
<1>4. CASE \E i \in IndexNames : DropIndexCrash(i)
  BY <1>1, <1>4, KeepingCallsFresh
<1>5. ASSUME NEW t \in Tables,
             \/ \E columns \in (SUBSET Columns) \ {{}} : CreateTableCrash(t, columns)
             \/ DropTableCrash(t) \/ UpdateFailsCrash(t) \/ Reading(t) \/ FailingToRead(t)
             \/ t \in DOMAIN catalog /\ \E data \in [catalog[t].columns -> Val] : InsertCrash(t, data)
      PROVE  FreshInv'
  BY <1>1, <1>5, CreateTableFresh, KeepingCallsFresh, InsertCrashFresh
<1>6. CASE WriteStep \/ Kill
  BY <1>6, WriteStepFresh, KillFresh
<1>7. CASE UNCHANGED crash_vars
  <2>1. /\ disk' = disk /\ files' = files /\ writes' = writes /\ call' = call
        /\ catalog' = catalog /\ row_id_cursors' = row_id_cursors /\ running' = running
        /\ txn_dir' = txn_dir /\ txn_snapshot' = txn_snapshot
    BY <1>7 DEF crash_vars, vars, memory
  <2>2. CursorsReserved'
    BY <2>1 DEF FreshInv, CursorsReserved, RowsOf
  <2>3. RollingBack' = RollingBack /\ IdsLead' = IdsLead
    BY <2>1 DEF RollingBack, IdsLead
  <2> QED
    BY <2>1, <2>2, <2>3 DEF FreshInv
<1> QED
  BY <1>2, <1>3, <1>4, <1>5, <1>6, <1>7 DEF CrashNext

LEMMA InvRowIdsFresh == CrashInv /\ FreshInv => RowIdsFreshAfterKills
<1> SUFFICES ASSUME CrashInv, FreshInv PROVE RowIdsFresh
  BY DEF RowIdsFreshAfterKills
<1>1. RowIdsAscend(disk)
  BY DEF FreshInv
<1>2. ASSUME running, NEW t \in DOMAIN catalog, NEW i \in DOMAIN RowsOf(t)
      PROVE  RowsOf(t)[i].id < NextRowId(t)
  <2>1. CASE HasCursor(t)
    BY <1>2, <2>1 DEF HasCursor, NextRowId, FreshInv, CursorsReserved
  <2>2. CASE ~HasCursor(t)
    <3>1. catalog = disk.catalog /\ RowsOf(t) = RowsIn(disk.tables, t)
      BY <1>2 DEF CrashInv, MetadataSaved, RowsOf
    <3>2. IdsBelow(RowsOf(t), catalog[t].next_row_id)
      BY <1>1, <3>1, AscendIs
    <3> QED
      BY <2>2, <3>2 DEF NextRowId, IdsBelow
  <2> QED
    BY <2>1, <2>2
<1> QED
  BY <1>1, <1>2 DEF RowIdsFresh

---------------------------------------------------------------------------------
(* The theorems *)

\* At every moment of every call, not only between calls, the ids in the files
\* of the tables ascend below what the catalog's file reserves: the catalog is
\* saved before the first row of a batch is written (storage.rs:616-634), and a
\* ROLLBACK removes and restores files in an order that keeps it (:219-263).
THEOREM IdsAlwaysReserved == CrashSpec => []FreshInv
<1>1. CrashInit => CrashInv /\ FreshInv
  BY CrashInitSafe, FreshInit
<1>2. CrashInv /\ FreshInv /\ [CrashNext]_crash_vars => (CrashInv /\ FreshInv)'
  BY CrashNextSafe, FreshNextSafe
<1> QED
  BY <1>1, <1>2, PTL DEF CrashSpec

\* No row id is given twice, wherever processes are killed: the next id of each
\* table is above those of all its rows (allocate_row_id, storage.rs:616-634).
THEOREM RowIdsAlwaysFreshAfterKills == CrashSpec => []RowIdsFreshAfterKills
<1> QED
  BY InvRowIdsFresh, CrashInvariantHolds, IdsAlwaysReserved, PTL

---------------------------------------------------------------------------------
(* The next write, and the tables of the indexes *)

LEMMA IndexesAfterWrite ==
    ASSUME NEW step, Writing(step), CrashInv, ~RollingBack
    PROVE  /\ ~Alters(step.write, IndexesFile) => AsDisk(files').indexes = AsDisk(files).indexes
           /\ Alters(step.write, IndexesFile) => AsDisk(files').indexes = disk.indexes
<1>1. /\ StagesOK /\ DirectoryOK(files) /\ IsFiles(disk)
      /\ \A other \in writes : StepFits(other)
  BY DEF CrashInv, StagesOK, TypeOK, WritesLead
<1>2. IndexesFile \in Paths /\ \A t : IndexesFile # TableFile(t) /\ IndexesFile # RewriteFile(t)
  BY PathsAre, PathKinds
<1>3. ASSUME ~Alters(step.write, IndexesFile)
      PROVE  AsDisk(files').indexes = AsDisk(files).indexes
  <2>1. SameFile(IndexesFile)
    BY <1>1, <1>2, <1>3, FilesAfterWrite
  <2>2. Arrived(files, AsDisk(files), marker, IndexesFile)
    BY ArrivedMetadata
  <2>3. Arrived(files', AsDisk(files), marker, IndexesFile)
    BY <2>1, <2>2, SameArrived
  <2> QED
    BY <2>3, ArrivedMetadata
<1>4. ASSUME Alters(step.write, IndexesFile)
      PROVE  AsDisk(files').indexes = disk.indexes
  <2>1. Arrived(files', disk, marker, IndexesFile)
    BY <1>1, <1>2, <1>4, FilesAfterWrite
  <2> QED
    BY <2>1, ArrivedMetadata
<1> QED
  BY <1>3, <1>4

LEMMA WriteKnown ==
    ASSUME NEW step, Writing(step), CrashInv, ~RollingBack,
           Known(disk), Known(AsDisk(files)), KnownLead
    PROVE  Known(AsDisk(files')) /\ KnownLead'
<1>1. /\ step \in writes /\ writes' = writes \ {step} /\ disk' = disk
      /\ \A other \in writes : ~(other.stage < step.stage)
  <2>1. ASSUME NEW other \in writes PROVE ~(other.stage < step.stage)
    <3>1. other.stage \in Nat /\ step.stage \in Nat /\ step.stage <= other.stage
      BY DEF Writing, CrashInv
    <3> QED
      BY <3>1
  <2> QED
    BY <2>1 DEF Writing, vars
<1> DEFINE here == AsDisk(files)
           then == AsDisk(files')
<1>2. /\ ~Alters(step.write, CatalogFile) => then.catalog = here.catalog
      /\ Alters(step.write, CatalogFile) => then.catalog = disk.catalog
      /\ ~Alters(step.write, IndexesFile) => then.indexes = here.indexes
      /\ Alters(step.write, IndexesFile) => then.indexes = disk.indexes
  BY CatalogAfterWrite, IndexesAfterWrite
<1>3. /\ TablesKnown(disk.indexes, disk.catalog) /\ TablesKnown(here.indexes, here.catalog)
      /\ Known(then) <=> TablesKnown(then.indexes, then.catalog)
  BY DEF Known
<1>4. /\ \A s \in writes : Alters(s.write, CatalogFile) =>
            \/ TablesKnown(here.indexes, disk.catalog)
            \/ \E other \in writes : Alters(other.write, IndexesFile) /\ other.stage < s.stage
      /\ \A s \in writes : Alters(s.write, IndexesFile) =>
            \/ TablesKnown(disk.indexes, here.catalog)
            \/ \E other \in writes : Alters(other.write, CatalogFile) /\ other.stage < s.stage
  BY DEF KnownLead
<1>5. KnownLead' <=>
        /\ \A s \in writes' : Alters(s.write, CatalogFile) =>
            \/ TablesKnown(then.indexes, disk.catalog)
            \/ \E other \in writes' : Alters(other.write, IndexesFile) /\ other.stage < s.stage
        /\ \A s \in writes' : Alters(s.write, IndexesFile) =>
            \/ TablesKnown(disk.indexes, then.catalog)
            \/ \E other \in writes' : Alters(other.write, CatalogFile) /\ other.stage < s.stage
  BY <1>1 DEF KnownLead
<1> HIDE DEF here, then
<1>6. TablesKnown(then.indexes, then.catalog)
  <2>1. Alters(step.write, CatalogFile) => TablesKnown(here.indexes, disk.catalog)
    BY <1>1, <1>4
  <2>2. Alters(step.write, IndexesFile) => TablesKnown(disk.indexes, here.catalog)
    BY <1>1, <1>4
  <2> QED
    BY <1>2, <1>3, <2>1, <2>2
<1>7. ASSUME NEW s \in writes', Alters(s.write, CatalogFile)
      PROVE  \/ TablesKnown(then.indexes, disk.catalog)
             \/ \E other \in writes' : Alters(other.write, IndexesFile) /\ other.stage < s.stage
  <2>1. CASE Alters(step.write, IndexesFile)
    BY <1>2, <1>3, <2>1
  <2>2. CASE ~Alters(step.write, IndexesFile)
    BY <1>1, <1>2, <1>4, <1>7, <2>2
  <2> QED
    BY <2>1, <2>2
<1>8. ASSUME NEW s \in writes', Alters(s.write, IndexesFile)
      PROVE  \/ TablesKnown(disk.indexes, then.catalog)
             \/ \E other \in writes' : Alters(other.write, CatalogFile) /\ other.stage < s.stage
  <2>1. CASE Alters(step.write, CatalogFile)
    BY <1>2, <1>3, <2>1
  <2>2. CASE ~Alters(step.write, CatalogFile)
    BY <1>1, <1>2, <1>4, <1>8, <2>2
  <2> QED
    BY <2>1, <2>2
<1> QED
  BY <1>3, <1>5, <1>6, <1>7, <1>8 DEF then

---------------------------------------------------------------------------------
(* The next write, and the lines *)

LEMMA EndsNothing ==
    /\ \A p, c, t : WriteFile(p, c) # EndLine(t)
    /\ \A u, row, t : AppendLine(u, row) # EndLine(t)
    /\ \A u, t : EndLine(u) = EndLine(t) => u = t
<1>1. ASSUME NEW p, NEW c, NEW t PROVE WriteFile(p, c) # EndLine(t)
  <2>1. WriteFile(p, c)[1] = "write" /\ EndLine(t)[1] = "end line"
    BY WriteIs, EndIs
  <2> QED
    BY <2>1
<1>2. ASSUME NEW u, NEW row, NEW t PROVE AppendLine(u, row) # EndLine(t)
  <2>1. AppendLine(u, row)[1] = "append" /\ EndLine(t)[1] = "end line"
    BY AppendIs, EndIs
  <2> QED
    BY <2>1
<1>3. ASSUME NEW u, NEW t, EndLine(u) = EndLine(t) PROVE u = t
  <2>1. EndLine(u)[2] = u /\ EndLine(t)[2] = t
    BY EndIs
  <2> QED
    BY <1>3, <2>1
<1> QED
  BY <1>1, <1>2, <1>3

LEMMA WriteKinds ==
    ASSUME NEW step, StepFits(step)
    PROVE  \/ \E path \in Paths : \E content : step.write = WriteFile(path, content)
           \/ \E path \in Paths : step.write = RemoveFile(path)
           \/ \E t \in DOMAIN disk.tables : step.write = Rename(t)
           \/ \E t \in DOMAIN disk.tables, row \in Row : step.write = AppendLine(t, row)
           \/ \E t \in Tables : step.write = EndLine(t)
           \/ step.write \in {MakeSnapshot, DropSnapshot} \/ \E path : step.write = Copy(path)
<1>1. CASE WritesFit(step)
  BY <1>1 DEF WritesFit
<1>2. CASE RemovesFit(step)
  BY <1>2 DEF RemovesFit
<1>3. CASE RenamesFit(step)
  BY <1>3 DEF RenamesFit
<1>4. CASE AppendsFit(step)
  BY <1>4 DEF AppendsFit
<1>5. CASE OthersFit(step)
  BY <1>5 DEF OthersFit
<1> QED
  BY <1>1, <1>2, <1>3, <1>4, <1>5 DEF StepFits

\* Where the lines in a file of table t are from, after the next write.
LEMMA LinesFrom ==
    ASSUME NEW step, Writing(step), StepFits(step), NEW t \in Tables,
           NEW path, path = TableFile(t) \/ path = RewriteFile(t), path \in DOMAIN files'
    PROVE  \/ path \in DOMAIN files /\ files'[path] = files[path] /\ step.write # EndLine(t)
           \/ step.write = WriteFile(path, files'[path])
           \/ path = TableFile(t) /\ step.write = Rename(t) /\ files'[path] = files[RewriteFile(t)]
           \/ /\ path = TableFile(t)
              /\ \E row : /\ step.write = AppendLine(t, row)
                          /\ files'[path] = Appended(Held(files, path, Lines(<<>>)), row)
           \/ /\ step.write = EndLine(t) /\ path \in DOMAIN files
              /\ \/ path = TableFile(t) /\ files'[path] = [files[path] EXCEPT !.ended = TRUE]
                 \/ path = RewriteFile(t) /\ files'[path] = files[path]
<1>1. files' = FilesAfter(step.write)
  BY DEF Writing
<1>2. \A u : /\ TableFile(u) # RewriteFile(t)
             /\ RewriteFile(u) # TableFile(t)
             /\ TableFile(u) = TableFile(t) => u = t
             /\ RewriteFile(u) = RewriteFile(t) => u = t
  BY PathKinds
<1>3. ASSUME NEW p \in Paths, NEW c, step.write = WriteFile(p, c)
      PROVE  \/ path \in DOMAIN files /\ files'[path] = files[path] /\ step.write # EndLine(t)
             \/ step.write = WriteFile(path, files'[path])
  <2>1. files' = Put(files, p, c)
    BY <1>1, <1>3, AfterWrite
  <2>2. step.write # EndLine(t)
    BY <1>3, EndsNothing
  <2> QED
    BY <1>3, <2>1, <2>2 DEF Put, Override
<1>4. ASSUME NEW p \in Paths, step.write = RemoveFile(p)
      PROVE  path \in DOMAIN files /\ files'[path] = files[path] /\ step.write # EndLine(t)
  <2>1. files' = Without(files, {p})
    BY <1>1, <1>4, AfterRemove
  <2>2. step.write # EndLine(t)
    BY <1>4, RemoveIs, EndIs
  <2> QED
    BY <2>1, <2>2 DEF Without, Restrict
<1>5. ASSUME NEW u, step.write = Rename(u)
      PROVE  \/ path \in DOMAIN files /\ files'[path] = files[path] /\ step.write # EndLine(t)
             \/ path = TableFile(t) /\ step.write = Rename(t) /\ files'[path] = files[RewriteFile(t)]
  <2>1. files' = Put(Without(files, {RewriteFile(u)}), TableFile(u), files[RewriteFile(u)])
    BY <1>1, <1>5, AfterRename DEF Rename
  <2>2. step.write # EndLine(t)
    BY <1>5, RenameOf, EndIs
  <2>3. CASE path = TableFile(u)
    <3>1. u = t /\ files'[path] = files[RewriteFile(u)]
      BY <1>2, <2>1, <2>3 DEF Put, Override
    <3> QED
      BY <1>5, <2>3, <3>1
  <2>4. CASE path # TableFile(u)
    BY <2>1, <2>2, <2>4 DEF Put, Override, Without, Restrict
  <2> QED
    BY <2>3, <2>4
<1>6. ASSUME NEW u, NEW row, step.write = AppendLine(u, row)
      PROVE  \/ path \in DOMAIN files /\ files'[path] = files[path] /\ step.write # EndLine(t)
             \/ /\ path = TableFile(t) /\ step.write = AppendLine(t, row)
                /\ files'[path] = Appended(Held(files, path, Lines(<<>>)), row)
  <2>1. files' = Put(files, TableFile(u), Appended(Held(files, TableFile(u), Lines(<<>>)), row))
    BY <1>1, <1>6, AfterAppend
  <2>2. step.write # EndLine(t)
    BY <1>6, EndsNothing
  <2>3. CASE path = TableFile(u)
    <3>1. u = t /\ files'[path] = Appended(Held(files, path, Lines(<<>>)), row)
      BY <1>2, <2>1, <2>3 DEF Put, Override
    <3> QED
      BY <1>6, <2>3, <3>1
  <2>4. CASE path # TableFile(u)
    BY <2>1, <2>2, <2>4 DEF Put, Override
  <2> QED
    BY <2>3, <2>4
<1>7. ASSUME NEW u \in Tables, step.write = EndLine(u)
      PROVE  \/ path \in DOMAIN files /\ files'[path] = files[path] /\ step.write # EndLine(t)
             \/ /\ step.write = EndLine(t) /\ path \in DOMAIN files
                /\ \/ path = TableFile(t) /\ files'[path] = [files[path] EXCEPT !.ended = TRUE]
                   \/ path = RewriteFile(t) /\ files'[path] = files[path]
  <2>1. files' = [files EXCEPT ![TableFile(u)] = [files[TableFile(u)] EXCEPT !.ended = TRUE]]
    BY <1>1, <1>7, AfterEnd DEF WithLineEnded
  <2>2. path \in DOMAIN files
    BY <2>1
  <2>3. CASE path = TableFile(u)
    <3>1. u = t /\ files'[path] = [files[path] EXCEPT !.ended = TRUE]
      BY <1>2, <2>1, <2>2, <2>3
    <3> QED
      BY <1>7, <2>2, <2>3, <3>1
  <2>4. CASE path # TableFile(u)
    <3>1. files'[path] = files[path]
      BY <2>1, <2>2, <2>4
    <3>2. step.write = EndLine(t) => path = RewriteFile(t)
      BY <1>7, <2>4, EndsNothing
    <3> QED
      BY <2>2, <3>1, <3>2
  <2> QED
    BY <2>3, <2>4
<1>8. ASSUME step.write \in {MakeSnapshot, DropSnapshot} \/ \E p : step.write = Copy(p)
      PROVE  path \in DOMAIN files /\ files'[path] = files[path] /\ step.write # EndLine(t)
  <2>1. files' = files
    BY <1>1, <1>8, AfterMake, AfterDrop, AfterCopy
  <2>2. step.write # EndLine(t)
    BY <1>8, SnapshotIs, CopyIs, EndIs
  <2> QED
    BY <2>1, <2>2
<1> QED
  BY <1>3, <1>4, <1>5, <1>6, <1>7, <1>8, WriteKinds

LEMMA LinesKeptWhole ==
    /\ \A rows : Whole(Lines(rows))
    /\ \A lines \in LinesOf :
          /\ [lines EXCEPT !.ended = TRUE].ended
          /\ [lines EXCEPT !.ended = TRUE].readable = lines.readable
    /\ \A lines, row : lines.readable /\ lines.ended => Appended(lines, row).readable
  BY DEF Whole, Lines, LinesOf, Appended

LEMMA WriteLines ==
    ASSUME NEW step, Writing(step), CrashInv, ~RollingBack, LinesLead
    PROVE  LinesLead'
<1>1. /\ step \in writes /\ writes' = writes \ {step} /\ disk' = disk
      /\ StagesOK /\ DirectoryOK(files) /\ StepFits(step)
      /\ \A other \in writes : StepFits(other)
      /\ \A s, other \in writes : s.stage < other.stage => other # step
  <2>1. ASSUME NEW s \in writes, NEW other \in writes, s.stage < other.stage
        PROVE  other # step
    <3>1. s.stage \in Nat /\ step.stage \in Nat /\ other.stage \in Nat /\ step.stage <= s.stage
      BY <2>1 DEF Writing, CrashInv
    <3> QED
      BY <2>1, <3>1
  <2>2. WritesLead /\ StagesOK /\ DirectoryOK(files)
    BY DEF CrashInv, StagesOK
  <2> QED
    BY <2>1, <2>2 DEF Writing, vars, WritesLead
<1> SUFFICES ASSUME NEW t \in Tables
             PROVE  LinesThere(t)' /\ \A s \in writes' : LinesWritten(s, t)'
  BY DEF LinesLead
<1>2. LinesThere(t) /\ \A s \in writes : LinesWritten(s, t)
  BY DEF LinesLead
<1>3. TableFile(t) # RewriteFile(t) /\ TableFile(t) \in Paths
  BY PathKinds, PathsAre
<1>4. TableFile(t) \in DOMAIN files => files[TableFile(t)] \in LinesOf
  BY <1>1, ContentsOf DEF DirectoryOK
<1>5. RewriteFile(t) \in DOMAIN files' => Whole(files'[RewriteFile(t)])
  <2> SUFFICES ASSUME RewriteFile(t) \in DOMAIN files' PROVE Whole(files'[RewriteFile(t)])
    OBVIOUS
  <2>1. CASE RewriteFile(t) \in DOMAIN files /\ files'[RewriteFile(t)] = files[RewriteFile(t)]
    BY <1>2, <2>1 DEF LinesThere
  <2>2. CASE step.write = WriteFile(RewriteFile(t), files'[RewriteFile(t)])
    BY <1>1, <1>2, <2>2, WriteIs DEF LinesWritten
  <2> QED
    BY <1>1, <1>3, <2>1, <2>2, LinesFrom
<1>6. ASSUME TableFile(t) \in DOMAIN files'
      PROVE  /\ files'[TableFile(t)].readable
             /\ files'[TableFile(t)].ended \/ EndLine(t) \in Pending'
  <2>1. CASE /\ TableFile(t) \in DOMAIN files /\ files'[TableFile(t)] = files[TableFile(t)]
             /\ step.write # EndLine(t)
    <3>1. EndLine(t) \in Pending => EndLine(t) \in Pending'
      BY <2>1, PendingAfter
    <3> QED
      BY <1>2, <2>1, <3>1 DEF LinesThere
  <2>2. CASE step.write = WriteFile(TableFile(t), files'[TableFile(t)])
    BY <1>1, <1>2, <2>2, WriteIs DEF LinesWritten, Whole
  <2>3. CASE step.write = Rename(t) /\ files'[TableFile(t)] = files[RewriteFile(t)]
    <3>1. step.write[1] = "rename"
      BY <2>3, RenameOf
    <3>2. ~OthersFit(step)
      BY <3>1, EndIs, CopyIs, SnapshotIs DEF OthersFit
    <3>3. RenamesFit(step)
      BY <1>1, <3>1, <3>2 DEF StepFits
    <3>4. PICK u \in DOMAIN disk.tables \ disk.tmp_rewrite :
            step.write = Rename(u) /\ RewriteFile(u) \in DOMAIN files
      BY <1>1, <3>3, RenameIsReady
    <3>5. RewriteFile(t) \in DOMAIN files
      BY <2>3, <3>4, RenameOf
    <3> QED
      BY <1>2, <2>3, <3>5 DEF LinesThere, Whole
  <2>4. ASSUME NEW row, step.write = AppendLine(t, row),
               files'[TableFile(t)] = Appended(Held(files, TableFile(t), Lines(<<>>)), row)
        PROVE  files'[TableFile(t)].readable /\ EndLine(t) \in Pending'
    <3>1. /\ TableFile(t) \in DOMAIN files => files[TableFile(t)].ended
          /\ \E other \in writes : other.write = EndLine(t) /\ step.stage < other.stage
      BY <1>1, <1>2, <2>4, AppendIs DEF LinesWritten
    <3>2. EndLine(t) \in Pending'
      <4>1. PICK other \in writes : other.write = EndLine(t) /\ step.stage < other.stage
        BY <3>1
      <4>2. other \in writes'
        BY <1>1, <4>1
      <4> QED
        BY <4>1, <4>2 DEF Pending
    <3>3. /\ Held(files, TableFile(t), Lines(<<>>)).readable
          /\ Held(files, TableFile(t), Lines(<<>>)).ended
      BY <1>2, <3>1, LinesKeptWhole DEF Held, LinesThere, Whole
    <3> QED
      BY <2>4, <3>2, <3>3, LinesKeptWhole
  <2>5. CASE TableFile(t) \in DOMAIN files /\ files'[TableFile(t)] = [files[TableFile(t)] EXCEPT !.ended = TRUE]
    BY <1>2, <1>4, <2>5, LinesKeptWhole DEF LinesThere
  <2> QED
    BY <1>1, <1>3, <1>6, <2>1, <2>2, <2>3, <2>4, <2>5, LinesFrom
<1>7. ASSUME NEW s \in writes', s.write[1] = "append", s.write[2] = t
      PROVE  /\ TableFile(t) \in DOMAIN files' => files'[TableFile(t)].ended
             /\ \E other \in writes' : other.write = EndLine(t) /\ s.stage < other.stage
  <2>1. s \in writes /\ s # step
    BY <1>1
  <2>2. /\ TableFile(t) \in DOMAIN files => files[TableFile(t)].ended
        /\ \E other \in writes : other.write = EndLine(t) /\ s.stage < other.stage
    BY <1>2, <1>7, <2>1 DEF LinesWritten
  <2>3. \E other \in writes' : other.write = EndLine(t) /\ s.stage < other.stage
    BY <1>1, <2>1, <2>2
  <2>4. ~Alters(step.write, TableFile(t))
    <3>1. ~OthersFit(s)
      BY <1>7, EndIs, CopyIs, SnapshotIs DEF OthersFit
    <3>2. AppendsFit(s)
      BY <1>1, <1>7, <2>1, <3>1 DEF StepFits
    <3>3. PICK u \in DOMAIN disk.tables, row \in {s.write[3]} :
            /\ s.write = AppendLine(u, row)
            /\ \A other \in writes : Alters(other.write, TableFile(u)) => other = s
      BY <3>2 DEF AppendsFit
    <3>4. u = t
      BY <1>7, <3>3, AppendIs
    <3> QED
      BY <1>1, <2>1, <3>3, <3>4
  <2>5. ASSUME TableFile(t) \in DOMAIN files'
        PROVE  files'[TableFile(t)].ended
    <3>1. ~Alters(WriteFile(TableFile(t), files'[TableFile(t)]), TableFile(t)) => FALSE
      BY AltersWrite
    <3>2. Alters(Rename(t), TableFile(t)) /\ \A row : Alters(AppendLine(t, row), TableFile(t))
      BY AltersRename, AltersAppend
    <3>3. \/ TableFile(t) \in DOMAIN files /\ files'[TableFile(t)] = files[TableFile(t)]
          \/ /\ TableFile(t) \in DOMAIN files
             /\ files'[TableFile(t)] = [files[TableFile(t)] EXCEPT !.ended = TRUE]
      BY <1>1, <1>3, <2>4, <2>5, <3>1, <3>2, LinesFrom
    <3> QED
      BY <1>4, <2>2, <3>3, LinesKeptWhole
  <2> QED
    BY <2>3, <2>5
<1>8. LinesThere(t)'
  BY <1>5, <1>6 DEF LinesThere
<1>9. ASSUME NEW s \in writes'
      PROVE  LinesWritten(s, t)'
  <2>1. LinesWritten(s, t)
    BY <1>1, <1>2
  <2> QED
    BY <1>7, <1>9, <2>1 DEF LinesWritten
<1> QED
  BY <1>8, <1>9

\* BEGIN copies whole lines: no line is being appended then.
LEMMA SnapshotLines ==
    ASSUME NEW step, Writing(step), CrashInv, ~RollingBack, LinesLead,
           snapshot_files # NoSnapshot => WholeLines(snapshot_files), snapshot_files' # NoSnapshot
    PROVE  WholeLines(snapshot_files')
<1>1. /\ StagesOK /\ DirectoryOK(files) /\ SnapshotOK /\ SnapshotLeads /\ step \in writes
      /\ \A other \in writes : StepFits(other) /\ other.stage \in Nat
      /\ snapshot_files' = SnapshotAfter(step.write) /\ files' = FilesAfter(step.write)
  BY DEF CrashInv, StagesOK, WritesLead, Writing
<1>2. CASE snapshot_files' = snapshot_files
  BY <1>2
<1>3. CASE step.write = MakeSnapshot
  BY <1>1, <1>3, AfterMake DEF WholeLines, EmptyMap
<1>4. ASSUME NEW path, step.write = Copy(path)
      PROVE  WholeLines(snapshot_files')
  <2>1. SnapshotWrite(step.write) /\ step.write # DropSnapshot /\ step.write \in Pending
        /\ step.write # MakeSnapshot
    BY <1>1, <1>4, CopyIs, SnapshotIs DEF SnapshotWrite, Pending
  <2>2. BeginLeads
    BY <1>1, <2>1 DEF SnapshotLeads
  <2>3. \A other \in writes : \A t : other.write # EndLine(t)
    <3>1. ASSUME NEW other \in writes, NEW t, other.write = EndLine(t)
          PROVE  FALSE
      <4>1. other.stage \in Nat /\ BeginStep(other) /\ other.write[1] = "end line"
        BY <1>1, <2>2, <3>1, EndIs DEF BeginLeads
      <4>2. \/ other.write \in {MakeSnapshot, DropSnapshot}
            \/ \E p \in Paths \ {MarkerFile} : other.write = Copy(p)
        BY <4>1, BeginStages
      <4> QED
        BY <4>1, <4>2, SnapshotIs, CopyIs
    <3> QED
      BY <3>1
  <2>4. WholeLines(files)
    <3>1. \A t \in Tables : LinesThere(t) /\ EndLine(t) \notin Pending
      BY <2>3 DEF LinesLead, Pending
    <3> QED
      BY <3>1 DEF LinesThere, Whole, WholeLines
  <2>5. MakeSnapshot \notin Pending
    <3>1. step.stage \in Nat /\ BeginStep(step)
      BY <1>1, <2>2 DEF BeginLeads
    <3>2. ~(step.stage <= 4)
      <4>1. step.stage <= 4 => step.write[1] \in {"write", "drop snapshot", "make snapshot"}
        BY <3>1, BeginStages
      <4>2. step.write[1] = "copy"
        BY <1>4, CopyIs
      <4> QED
        BY <4>1, <4>2
    <3>3. ASSUME NEW other \in writes, other.write = MakeSnapshot
          PROVE  FALSE
      <4>1. other.stage \in Nat /\ BeginStep(other) /\ step.stage <= other.stage
        BY <1>1, <2>2 DEF BeginLeads, Writing
      <4>2. other.stage = 4
        BY <3>3, <4>1, BeginStages
      <4> QED
        BY <3>1, <3>2, <4>1, <4>2
    <3> QED
      BY <3>3 DEF Pending
  <2>6. BeginLeads' /\ MakeSnapshot \notin Pending'
    BY <1>1, <2>2, <2>5, BeginAfterWrite, PendingAfter
  <2>7. snapshot_files # NoSnapshot /\ DOMAIN snapshot_files' \subseteq DOMAIN files'
    BY <2>2, <2>5, <2>6 DEF BeginLeads
  <2>8. files' = files /\ snapshot_files' = Put(snapshot_files, path, files[path])
    BY <1>1, <1>4, AfterCopy
  <2>9. path \in DOMAIN files
    BY <2>7, <2>8 DEF Put, Override
  <2>10. \A p \in DOMAIN snapshot_files' :
            \/ p \in DOMAIN snapshot_files /\ snapshot_files'[p] = snapshot_files[p]
            \/ p \in DOMAIN files /\ snapshot_files'[p] = files[p]
    BY <2>8, <2>9 DEF Put, Override
  <2>11. WholeLines(snapshot_files)
    BY <2>7
  <2> QED
    BY <2>4, <2>10, <2>11 DEF WholeLines
<1>5. CASE step.write = DropSnapshot
  BY <1>1, <1>5, AfterDrop
<1>6. CASE ~SnapshotWrite(step.write)
  BY <1>1, <1>2, <1>6, SnapshotKeptByWrite
<1>7. CASE SnapshotWrite(step.write) /\ step.write \notin {MakeSnapshot, DropSnapshot}
  <2>1. step.write[1] = "copy"
    BY <1>7 DEF SnapshotWrite
  <2>2. \E path : step.write = Copy(path)
    <3>1. StepFits(step)
      BY <1>1
    <3> QED
      BY <1>7, <2>1, <3>1, EndIs DEF StepFits, OthersFit
  <2> QED
    BY <1>4, <2>2
<1> QED
  BY <1>3, <1>5, <1>6, <1>7

---------------------------------------------------------------------------------
(* The next write *)

\* Once all of a snapshot is copied back, the directory is as the snapshot.
LEMMA RollbackDone ==
    ASSUME CrashInv, RollingBack, Pending = {DropSnapshot}
    PROVE  AsDisk(files) = disk
<1>1. RollbackLeads /\ SnapshotOK
  BY DEF CrashInv
<1>2. /\ \A path : RemoveFile(path) \notin Pending
      /\ \A path : Restore(path) \notin Pending
  BY RemoveIs, RestoreIs, SnapshotIs
<1>3. /\ \A path \in Copyable(files) :
            path \in DOMAIN snapshot_files /\ files[path] = snapshot_files[path]
      /\ \A path \in DOMAIN snapshot_files : path \in DOMAIN files /\ files[path] = snapshot_files[path]
      /\ snapshot_files # NoSnapshot /\ AsDisk(snapshot_files) = disk
  BY <1>1, <1>2 DEF RollbackLeads
<1>4. \A path \in Paths \ {MarkerFile} :
        /\ path \in DOMAIN files <=> path \in DOMAIN snapshot_files
        /\ path \in DOMAIN files => files[path] = snapshot_files[path]
  BY <1>3 DEF Copyable
<1> QED
  BY <1>3, <1>4, SameDirectory

LEMMA WholeLead ==
    ASSUME WholeLines(files'), \A step \in writes' : step.write[1] \notin {"write", "append"}
    PROVE  LinesLead'
  BY DEF WholeLines, LinesLead, LinesThere, LinesWritten, Whole

\* While ROLLBACK goes on no line is being written.
LEMMA RollbackLines ==
    ASSUME CrashInv, RollingBack
    PROVE  /\ \A step \in writes : step.write[1] \notin {"write", "append"}
           /\ \A t : EndLine(t) \notin Pending
           /\ \A step \in writes :
                 \/ \E path : step.write = RemoveFile(path)
                 \/ \E path \in DOMAIN snapshot_files : step.write = Restore(path)
                 \/ step.write = DropSnapshot
<1>1. ASSUME NEW step \in writes
      PROVE  \/ \E path : step.write = RemoveFile(path)
             \/ \E path \in DOMAIN snapshot_files : step.write = Restore(path)
             \/ step.write = DropSnapshot
  <2>1. RollbackStep(step)
    BY DEF CrashInv, RollbackLeads
  <2>2. step = [stage |-> 3, write |-> DropSnapshot] => step.write = DropSnapshot
    OBVIOUS
  <2> QED
    BY <2>1, <2>2 DEF RollbackStep
<1>2. \A step \in writes : step.write[1] \in {"remove", "restore", "drop snapshot"}
  BY <1>1, RemoveIs, RestoreIs, SnapshotIs
<1>3. \A t : EndLine(t) \notin Pending
  BY <1>2, EndIs DEF Pending
<1> QED
  BY <1>1, <1>2, <1>3

LEMMA RollbackKeepsLines ==
    ASSUME NEW step, Writing(step), CrashInv, RollingBack, LinesLead, WholeLines(snapshot_files)
    PROVE  LinesLead'
<1>1. step \in writes /\ writes' \subseteq writes /\ files' = FilesAfter(step.write)
  BY DEF Writing
<1>2. WholeLines(files)
  BY RollbackLines DEF LinesLead, LinesThere, WholeLines, Whole
<1>3. WholeLines(files')
  <2>1. ASSUME NEW path, step.write = RemoveFile(path)
        PROVE  WholeLines(files')
    <3>1. files' = Without(files, {path})
      BY <1>1, <2>1, AfterRemove
    <3> QED
      BY <1>2, <3>1 DEF WholeLines, Without, Restrict
  <2>2. ASSUME NEW path \in DOMAIN snapshot_files, step.write = Restore(path)
        PROVE  WholeLines(files')
    <3>1. files' = Put(files, path, snapshot_files[path])
      BY <1>1, <2>2, AfterRestore
    <3>2. \A p \in DOMAIN files' :
            \/ p \in DOMAIN files /\ files'[p] = files[p]
            \/ p \in DOMAIN snapshot_files /\ files'[p] = snapshot_files[p]
      BY <2>2, <3>1 DEF Put, Override
    <3> QED
      BY <1>2, <3>2 DEF WholeLines
  <2>3. ASSUME step.write = DropSnapshot
        PROVE  WholeLines(files')
    BY <1>1, <1>2, <2>3, AfterDrop
  <2> QED
    BY <1>1, <2>1, <2>2, <2>3, RollbackLines
<1>4. \A s \in writes' : s.write[1] \notin {"write", "append"}
  BY <1>1, RollbackLines
<1> QED
  BY <1>3, <1>4, WholeLead

LEMMA RollbackKeepsSnapshot ==
    ASSUME NEW step, Writing(step), CrashInv, RollingBack
    PROVE  snapshot_files' = snapshot_files \/ snapshot_files' = NoSnapshot
<1>1. step \in writes /\ snapshot_files' = SnapshotAfter(step.write)
  BY DEF Writing
<1> QED
  BY <1>1, RollbackLines, AfterRemove, AfterRestore, AfterDrop

LEMMA WriteStepLines ==
    ASSUME CrashInv, LinesInv, WriteStep
    PROVE  LinesInv'
<1>1. PICK step : Writing(step)
  BY DEF WriteStep, Writing
<1>2. harm' = harm
  BY DEF WriteStep
<1> SUFFICES ASSUME "line" \notin harm
             PROVE  /\ snapshot_files' # NoSnapshot => WholeLines(snapshot_files')
                    /\ LinesLead'
  BY <1>2 DEF LinesInv
<1>3. LinesLead /\ (snapshot_files # NoSnapshot => WholeLines(snapshot_files))
  BY DEF LinesInv
<1>4. CASE ~RollingBack
  BY <1>1, <1>3, <1>4, WriteLines, SnapshotLines
<1>5. CASE RollingBack
  <2>1. snapshot_files # NoSnapshot
    BY <1>5 DEF CrashInv, RollbackLeads
  <2> QED
    BY <1>1, <1>3, <1>5, <2>1, RollbackKeepsLines, RollbackKeepsSnapshot
<1> QED
  BY <1>4, <1>5

LEMMA KillLines ==
    ASSUME LinesInv, Kill
    PROVE  LinesInv'
<1>1. /\ harm' = harm \cup Windows /\ writes' = {} /\ files' = files
      /\ snapshot_files' = snapshot_files
  BY DEF Kill
<1> SUFFICES ASSUME "line" \notin harm'
             PROVE  (snapshot_files # NoSnapshot => WholeLines(snapshot_files)) /\ LinesLead'
  BY <1>1 DEF LinesInv
<1>2. "line" \notin harm /\ "line" \notin Windows
  BY <1>1
<1>3. \A t \in Tables : TableFile(t) \in DOMAIN files => files[TableFile(t)].ended
  BY <1>2 DEF Windows
<1>4. LinesLead /\ (snapshot_files # NoSnapshot => WholeLines(snapshot_files))
  BY <1>2 DEF LinesInv
<1>5. WholeLines(files)
  BY <1>3, <1>4 DEF LinesLead, LinesThere, WholeLines, Whole
<1>6. WholeLines(files')
  BY <1>1, <1>5
<1> QED
  BY <1>1, <1>4, <1>6, WholeLead

\* Whatever cannot be read was left by a kill within a line.
LEMMA UnreadableByHarm ==
    ASSUME LinesInv, NEW t \in Tables, Unreadable(t)
    PROVE  "line" \in harm
  BY DEF LinesInv, LinesLead, LinesThere, Unreadable

LEMMA WriteStepOpens ==
    ASSUME CrashInv, OpenInv, WriteStep
    PROVE  OpenInv'
<1>1. PICK step : Writing(step)
  BY DEF WriteStep, Writing
<1>2. /\ disk' = disk /\ txn_dir' = txn_dir /\ txn_snapshot' = txn_snapshot /\ harm' = harm
      /\ step \in writes /\ writes' = writes \ {step} /\ call' = IF writes' = {} THEN NoCall ELSE call
  BY <1>1 DEF Writing, vars, memory, WriteStep
<1>3. LinesInv'
  BY WriteStepLines DEF OpenInv
<1> SUFFICES ASSUME Unharmed
             PROVE  ~RollingBack' => Known(AsDisk(files')) /\ KnownLead'
  <2>1. Unharmed' = Unharmed /\ Known(disk') = Known(disk) /\ Known(txn_snapshot') = Known(txn_snapshot)
    BY <1>2 DEF Unharmed
  <2> QED
    BY <1>2, <1>3, <2>1 DEF OpenInv
<1>4. Known(disk) /\ (~RollingBack => Known(AsDisk(files)) /\ KnownLead)
  BY DEF OpenInv
<1>5. CASE ~RollingBack
  BY <1>1, <1>4, <1>5, WriteKnown
<1>6. CASE RollingBack /\ step.write = DropSnapshot
  <2>1. /\ RollbackLeads /\ StagesOK /\ TypeOK /\ DirectoryOK(files)
    BY <1>6 DEF CrashInv, StagesOK
  <2>2. writes' = {} /\ files' = files
    BY <1>1, <1>6, <2>1, DropInRollback
  <2>3. Pending = {DropSnapshot}
    BY <1>2, <1>6, <2>2 DEF Pending
  <2>4. AsDisk(files) = disk
    BY <1>6, <2>3, RollbackDone
  <2> QED
    BY <1>4, <2>2, <2>4 DEF KnownLead
<1>7. CASE RollingBack /\ step.write # DropSnapshot
  <2>1. RollbackLeads /\ call.name = "rollback"
    BY <1>7 DEF CrashInv, RollingBack
  <2>2. DropSnapshot \in Pending'
    BY <1>1, <1>7, <2>1, PendingAfter DEF RollbackLeads
  <2>3. writes' # {}
    BY <2>2 DEF Pending
  <2> QED
    BY <1>2, <2>1, <2>3 DEF RollingBack
<1> QED
  BY <1>5, <1>6, <1>7

LEMMA KillOpens ==
    ASSUME CrashInv, OpenInv, Kill
    PROVE  OpenInv'
<1>1. /\ writes # {} /\ harm' = harm \cup Windows /\ writes' = {} /\ files' = files
      /\ disk' = AsDisk(files) /\ txn_dir' = FALSE
  BY DEF Kill, Forget
<1>2. LinesInv'
  BY KillLines DEF OpenInv
<1> SUFFICES ASSUME Unharmed'
             PROVE  Known(AsDisk(files))
  <2>1. KnownLead'
    BY <1>1 DEF KnownLead
  <2>2. Known(disk') = Known(AsDisk(files)) /\ Known(AsDisk(files')) = Known(AsDisk(files))
    BY <1>1
  <2> QED
    BY <1>1, <1>2, <2>1, <2>2 DEF OpenInv
<1>3. Unharmed /\ "rollback" \notin Windows
  BY <1>1 DEF Unharmed
<1>4. Known(disk) /\ (~RollingBack => Known(AsDisk(files)))
  BY <1>3 DEF OpenInv
<1>5. ~(call.name = "rollback" /\ Pending # {DropSnapshot})
  BY <1>3 DEF Windows
<1>6. CASE RollingBack
  <2>1. Pending = {DropSnapshot}
    BY <1>5, <1>6 DEF RollingBack
  <2>2. AsDisk(files) = disk
    BY <1>6, <2>1, RollbackDone
  <2> QED
    BY <1>4, <2>2
<1> QED
  BY <1>4, <1>6

LEMMA OpenInit == CrashInit => OpenInv
<1> SUFFICES ASSUME CrashInit PROVE OpenInv
  OBVIOUS
<1>1. /\ disk = EmptyFiles /\ files = EmptyMap /\ writes = {} /\ txn_dir = FALSE
      /\ snapshot_files = NoSnapshot
  BY DEF CrashInit, Init
<1>2. AsDisk(files).indexes = EmptyMap /\ disk.indexes = EmptyMap
  BY <1>1 DEF AsDisk, Held, EmptyMap, EmptyFiles
<1>3. Known(disk) /\ Known(AsDisk(files))
  BY <1>2 DEF Known, TablesKnown, EmptyMap
<1>4. KnownLead /\ LinesLead
  BY <1>1 DEF KnownLead, LinesLead, LinesThere, EmptyMap
<1> QED
  BY <1>1, <1>3, <1>4 DEF OpenInv, LinesInv

LEMMA InvOpenSucceeds == CrashInv /\ OpenInv => OpenSucceeds
<1> SUFFICES ASSUME CrashInv, OpenInv, Settled, Unharmed
             PROVE  Unbuildable = {}
  BY DEF OpenSucceeds, Unharmed
<1>1. Known(disk) /\ LinesInv /\ "line" \notin harm
  BY DEF OpenInv, Unharmed
<1>2. \A i \in DOMAIN disk.indexes : disk.indexes[i].table \in DOMAIN disk.catalog
  BY <1>1 DEF Known, TablesKnown
<1>3. DOMAIN disk.catalog \subseteq Tables
  BY DEF CrashInv, TypeOK, IsFiles, IsMap
<1>4. \A t \in Tables : ~Unreadable(t)
  BY <1>1, UnreadableByHarm
<1> QED
  BY <1>2, <1>3, <1>4 DEF Unbuildable

\* Whatever is pending on a table's file leaves its old rows until the new ones
\* are in it, or beside it.
LEMMA InvNothingLost == CrashInv /\ OpenInv => NothingLost
<1> SUFFICES ASSUME CrashInv, OpenInv, writes # {}, ~RollingBack, "line" \notin harm, NEW t \in Tables
             PROVE  \/ /\ Readable(TableFile(t))
                       /\ RowsIn(AsDisk(files).tables, t) \in
                               {RowsIn(call.before.tables, t), RowsIn(disk.tables, t)}
                    \/ /\ TableFile(t) \notin DOMAIN files /\ RewriteFile(t) \in DOMAIN files
                       /\ Readable(RewriteFile(t))
                       /\ files[RewriteFile(t)].rows = RowsIn(disk.tables, t)
  BY DEF NothingLost, Settled, RollingBack
<1>1. WritesLead /\ BeforeKept /\ TableFile(t) \in Paths
  BY PathsAre DEF CrashInv
<1>2. Readable(TableFile(t)) /\ Readable(RewriteFile(t))
  BY DEF OpenInv, LinesInv, LinesLead, LinesThere, Whole, Readable
<1>3. CASE Arrived(files, disk, marker, TableFile(t))
  <2>1. RowsIn(AsDisk(files).tables, t) = RowsIn(disk.tables, t)
    BY <1>3, ArrivedTable DEF RowsIn
  <2> QED
    BY <1>2, <2>1
<1>4. ASSUME NEW step \in writes, Alters(step.write, TableFile(t)), step.write # Rename(t)
      PROVE  RowsIn(AsDisk(files).tables, t) = RowsIn(call.before.tables, t)
  BY <1>1, <1>4 DEF BeforeKept, RowsKept
<1>5. ASSUME NEW step \in writes, step.write = Rename(t)
      PROVE  \/ RowsIn(AsDisk(files).tables, t) = RowsIn(call.before.tables, t)
             \/ /\ TableFile(t) \notin DOMAIN files /\ RewriteFile(t) \in DOMAIN files
                /\ files[RewriteFile(t)].rows = RowsIn(disk.tables, t)
  <2>1. step.write[1] = "rename" /\ StepFits(step)
    BY <1>1, <1>5, RenameOf DEF WritesLead
  <2>2. RenamesFit(step)
    <3>1. ~OthersFit(step)
      BY <2>1, EndIs, CopyIs, SnapshotIs DEF OthersFit
    <3> QED
      BY <2>1, <3>1 DEF StepFits
  <2>3. PICK u \in DOMAIN disk.tables :
            /\ step.write = Rename(u)
            /\ \/ Aside(u) \in Pending
               \/ RewriteFile(u) \in DOMAIN files /\ files[RewriteFile(u)].rows = disk.tables[u]
            /\ TableFile(u) \in DOMAIN files => RemoveFile(TableFile(u)) \in Pending
    BY <2>2 DEF RenamesFit
  <2>4. u = t
    BY <1>5, <2>3, RenameOf
  <2>5. CASE Aside(t) \in Pending
    <3>1. PICK other \in writes : other.write = Aside(t)
      BY <2>5 DEF Pending
    <3>2. Rename(t) \in Pending
      BY <1>5 DEF Pending
    <3>3. RowsKept(other, t)
      BY <1>1, <2>3, <2>4, <3>1, <3>2 DEF BeforeKept
    <3> QED
      BY <3>3 DEF RowsKept
  <2>6. CASE TableFile(t) \in DOMAIN files
    <3>1. PICK other \in writes : other.write = RemoveFile(TableFile(t))
      BY <2>3, <2>4, <2>6 DEF Pending
    <3>2. Alters(other.write, TableFile(t)) /\ other.write # Rename(t)
      BY <3>1, AltersRemove, RemoveIs, RenameOf
    <3> QED
      BY <1>4, <3>2
  <2>7. CASE /\ TableFile(t) \notin DOMAIN files
             /\ RewriteFile(t) \in DOMAIN files /\ files[RewriteFile(t)].rows = disk.tables[t]
    BY <2>3, <2>4, <2>7 DEF RowsIn
  <2> QED
    BY <2>3, <2>4, <2>5, <2>6, <2>7
<1> QED
  BY <1>1, <1>2, <1>3, <1>4, <1>5 DEF WritesLead, Altered, Pending

---------------------------------------------------------------------------------
(* Calls that start: the tables of the indexes *)

\* A call drops no table, and an index is on a table there was.
TablesStay ==
    /\ DOMAIN disk.catalog \subseteq DOMAIN disk'.catalog
    /\ \A i \in DOMAIN disk'.indexes :
        \/ i \in DOMAIN disk.indexes /\ disk'.indexes[i].table = disk.indexes[i].table
        \/ disk'.indexes[i].table \in DOMAIN disk.catalog

TransactionStays == txn_dir' => txn_snapshot' = disk' \/ (txn_dir /\ txn_snapshot' = txn_snapshot)

LEMMA SameTablesStay ==
    ASSUME disk'.catalog = disk.catalog, disk'.indexes = disk.indexes
    PROVE  TablesStay
  BY DEF TablesStay

LEMMA StayKnown ==
    ASSUME Known(disk), TablesStay
    PROVE  /\ Known(disk') /\ TablesKnown(disk.indexes, disk'.catalog)
           /\ TablesKnown(disk'.indexes, disk.catalog)
  BY DEF Known, TablesKnown, TablesStay

LEMMA OpenStays ==
    ASSUME TypeOK, TxnOfProcess, Open \/ OpenFails
    PROVE  TablesStay /\ TransactionStays
<1>1. disk'.catalog = disk.catalog /\ disk'.indexes = disk.indexes
  BY DiskFields DEF Open, OpenFails
<1>2. ~txn_dir'
  <2>1. CASE Open
    BY <2>1 DEF Open
  <2>2. CASE OpenFails
    <3>1. ~running /\ UNCHANGED memory
      BY <2>2 DEF OpenFails
    <3> QED
      BY <3>1 DEF memory, TxnOfProcess
  <2> QED
    BY <2>1, <2>2
<1> QED
  BY <1>1, <1>2, SameTablesStay DEF TransactionStays

LEMMA EndStays ==
    ASSUME TypeOK, Close \/ Exit
    PROVE  TablesStay /\ TransactionStays
<1>1. disk'.catalog = disk.catalog /\ disk'.indexes = disk.indexes
  BY DiskFields DEF Close, Exit
<1>2. ~txn_dir'
  BY DEF Close, Exit, Forget
<1> QED
  BY <1>1, <1>2, SameTablesStay DEF TransactionStays

LEMMA BeginStays ==
    ASSUME TypeOK, BeginTransaction \/ CommitTransaction
    PROVE  TablesStay /\ TransactionStays
<1>1. disk'.catalog = disk.catalog /\ disk'.indexes = disk.indexes
  <2>1. CASE BeginTransaction
    BY <2>1, DiskFields DEF BeginTransaction, FlushIndexes
  <2>2. CASE CommitTransaction
    BY <2>2 DEF CommitTransaction
  <2> QED
    BY <2>1, <2>2
<1>2. txn_dir' => txn_snapshot' = disk'
  BY DEF BeginTransaction, CommitTransaction, Copied
<1> QED
  BY <1>1, <1>2, SameTablesStay DEF TransactionStays

LEMMA CreateTableStays ==
    ASSUME TypeOK, MetadataSaved, NEW t, NEW columns, CreateTable(t, columns)
    PROVE  TablesStay /\ TransactionStays
<1>1. /\ catalog = disk.catalog /\ index_catalog = disk.indexes
      /\ disk'.catalog = Put(catalog, t, [columns |-> columns, next_row_id |-> 0])
      /\ disk'.indexes = disk.indexes
      /\ UNCHANGED <<txn_snapshot, txn_dir>>
  BY DiskFields DEF CreateTable, MetadataSaved
<1>2. DOMAIN disk.catalog \subseteq DOMAIN disk'.catalog
  BY <1>1 DEF Put, Override
<1> QED
  BY <1>1, <1>2 DEF TablesStay, TransactionStays

LEMMA CreateIndexStays ==
    ASSUME TypeOK, MetadataSaved, NEW i, NEW t, NEW c, CreateIndex(i, t, c)
    PROVE  TablesStay /\ TransactionStays
<1>1. /\ catalog = disk.catalog /\ index_catalog = disk.indexes /\ t \in DOMAIN catalog
      /\ disk'.catalog = disk.catalog
      /\ disk'.indexes = Put(index_catalog, i, [table |-> t, column |-> c])
      /\ UNCHANGED <<txn_snapshot, txn_dir>>
  BY DiskFields DEF CreateIndex, MetadataSaved
<1>2. \A x \in DOMAIN disk'.indexes :
        \/ x \in DOMAIN disk.indexes /\ disk'.indexes[x] = disk.indexes[x]
        \/ disk'.indexes[x].table = t
  BY <1>1 DEF Put, Override
<1> QED
  BY <1>1, <1>2 DEF TablesStay, TransactionStays

LEMMA DropIndexStays ==
    ASSUME TypeOK, MetadataSaved, NEW i, DropIndex(i)
    PROVE  TablesStay /\ TransactionStays
<1>1. /\ index_catalog = disk.indexes /\ disk'.catalog = disk.catalog
      /\ disk'.indexes = Without(index_catalog, {i})
      /\ UNCHANGED <<txn_snapshot, txn_dir>>
  BY DiskFields DEF DropIndex, MetadataSaved
<1>2. \A x \in DOMAIN disk'.indexes : x \in DOMAIN disk.indexes /\ disk'.indexes[x] = disk.indexes[x]
  BY <1>1 DEF Without, Restrict
<1> QED
  BY <1>1, <1>2 DEF TablesStay, TransactionStays

LEMMA ColumnsStay ==
    ASSUME TypeOK, MetadataSaved, NEW t, NEW c, NEW new,
           AddColumn(t, c, new) \/ DropColumn(t, c) \/ RenameColumn(t, c, new)
    PROVE  TablesStay /\ TransactionStays
<1>1. CASE AddColumn(t, c, new)
  <2>1. /\ catalog = disk.catalog /\ disk'.indexes = disk.indexes
        /\ disk'.catalog = [catalog EXCEPT ![t].columns = @ \cup {c}]
        /\ UNCHANGED <<txn_snapshot, txn_dir>>
    BY <1>1, DiskFields DEF AddColumn, MetadataSaved
  <2>2. DOMAIN disk'.catalog = DOMAIN disk.catalog
    BY <2>1
  <2> QED
    BY <2>1, <2>2 DEF TablesStay, TransactionStays
<1>2. CASE DropColumn(t, c)
  <2> DEFINE dropped == IndexesOnColumn(index_catalog, t, c)
  <2>1. /\ catalog = disk.catalog /\ index_catalog = disk.indexes
        /\ disk'.indexes = Without(index_catalog, dropped)
        /\ disk'.catalog = [catalog EXCEPT ![t].columns = @ \ {c}]
        /\ UNCHANGED <<txn_snapshot, txn_dir>>
    BY <1>2, DiskFields DEF DropColumn, MetadataSaved
  <2> HIDE DEF dropped
  <2>2. DOMAIN disk'.catalog = DOMAIN disk.catalog
    BY <2>1
  <2>3. \A x \in DOMAIN disk'.indexes : x \in DOMAIN disk.indexes /\ disk'.indexes[x] = disk.indexes[x]
    BY <2>1 DEF Without, Restrict
  <2> QED
    BY <2>1, <2>2, <2>3 DEF TablesStay, TransactionStays
<1>3. CASE RenameColumn(t, c, new)
  <2>1. /\ catalog = disk.catalog /\ index_catalog = disk.indexes
        /\ disk'.indexes = RenamedIndexes(t, c, new)
        /\ disk'.catalog = [catalog EXCEPT ![t].columns = (@ \ {c}) \cup {new}]
        /\ UNCHANGED <<txn_snapshot, txn_dir>>
    BY <1>3, DiskFields DEF RenameColumn, MetadataSaved
  <2>2. DOMAIN disk'.catalog = DOMAIN disk.catalog
    BY <2>1
  <2>3. \A x \in DOMAIN index_catalog : index_catalog[x] \in IndexDefinition
    BY DEF TypeOK, IsMap
  <2>4. \A x \in DOMAIN disk'.indexes :
            x \in DOMAIN disk.indexes /\ disk'.indexes[x].table = disk.indexes[x].table
    BY <2>1, <2>3 DEF RenamedIndexes, IndexDefinition
  <2> QED
    BY <2>1, <2>2, <2>4 DEF TablesStay, TransactionStays
<1> QED
  BY <1>1, <1>2, <1>3

LEMMA RowsStay ==
    ASSUME TypeOK, MetadataSaved, NEW t,
           \/ \E where, assignments : Update(t, where, assignments)
           \/ \E where : Delete(t, where)
           \/ UpdateFails(t)
    PROVE  TablesStay /\ TransactionStays
<1>1. disk'.catalog = disk.catalog /\ disk'.indexes = disk.indexes /\ UNCHANGED <<txn_snapshot, txn_dir>>
  <2>1. CASE \E where, assignments : Update(t, where, assignments)
    BY <2>1, DiskFields DEF Update
  <2>2. CASE \E where : Delete(t, where)
    BY <2>2, DiskFields DEF Delete
  <2>3. CASE UpdateFails(t)
    BY <2>3, DiskFields DEF UpdateFails
  <2> QED
    BY <2>1, <2>2, <2>3
<1> QED
  BY <1>1, SameTablesStay DEF TransactionStays

LEMMA InsertStays ==
    ASSUME TypeOK, MetadataSaved, NEW t, NEW data, Insert(t, data)
    PROVE  TablesStay /\ TransactionStays
<1>1. /\ catalog = disk.catalog /\ disk'.catalog = catalog' /\ disk'.indexes = disk.indexes
      /\ AllocateRowId(t) /\ UNCHANGED <<txn_snapshot, txn_dir>>
  BY DiskFields DEF Insert, MetadataSaved
<1>2. DOMAIN catalog' = DOMAIN catalog
  BY <1>1 DEF AllocateRowId
<1> QED
  BY <1>1, <1>2 DEF TablesStay, TransactionStays

LEMMA DropTableKnown ==
    ASSUME TypeOK, MetadataSaved, Known(disk), NEW t, DropTable(t)
    PROVE  Known(disk') /\ TablesKnown(disk'.indexes, disk.catalog) /\ TransactionStays
<1> DEFINE dropped == IndexesOn(index_catalog, t)
<1>1. /\ catalog = disk.catalog /\ index_catalog = disk.indexes
      /\ disk'.catalog = Without(catalog, {t}) /\ disk'.indexes = Without(index_catalog, dropped)
      /\ UNCHANGED <<txn_snapshot, txn_dir>>
  BY DiskFields DEF DropTable, MetadataSaved
<1>2. DOMAIN disk'.catalog = DOMAIN disk.catalog \ {t}
  BY <1>1 DEF Without, Restrict
<1>3. \A i \in DOMAIN disk'.indexes :
        i \in DOMAIN disk.indexes /\ disk'.indexes[i] = disk.indexes[i] /\ disk.indexes[i].table # t
  BY <1>1 DEF Without, Restrict, IndexesOn
<1> QED
  BY <1>1, <1>2, <1>3 DEF Known, TablesKnown, TransactionStays

---------------------------------------------------------------------------------
(* Calls that start: their lines *)

\* A write that leaves whole lines where it leaves lines
KeepsLines(w) ==
    /\ w[1] # "append"
    /\ \A t \in Tables :
        w[1] = "write" /\ w[2] \in {TableFile(t), RewriteFile(t)} => Whole(w[3])

AllKeep(todo) == \A step \in todo : KeepsLines(step.write)

LEMMA AtKeeps ==
    ASSUME NEW n, NEW W, \A w \in W : KeepsLines(w)
    PROVE  AllKeep(At(n, W))
  BY StageOf DEF AllKeep

LEMMA WritesKeep ==
    /\ \A path : KeepsLines(RemoveFile(path))
    /\ \A path, rows : KeepsLines(WriteFile(path, Lines(rows)))
    /\ \A content : \A path \in {CatalogFile, MigrationsFile, IndexesFile, MarkerFile} :
            KeepsLines(WriteFile(path, content))
    /\ \A i, content : KeepsLines(WriteFile(IndexFile(i), content))
    /\ \A p, q : KeepsLines(RenameFile(p, q))
    /\ \A path : KeepsLines(Copy(path)) /\ KeepsLines(Restore(path))
    /\ KeepsLines(MakeSnapshot) /\ KeepsLines(DropSnapshot)
<1>1. ASSUME NEW path, NEW content,
             Whole(content) \/ \A t \in Tables : path # TableFile(t) /\ path # RewriteFile(t)
      PROVE  KeepsLines(WriteFile(path, content))
  <2>1. WriteFile(path, content)[1] = "write" /\ WriteFile(path, content)[2] = path
        /\ WriteFile(path, content)[3] = content
    BY WriteIs
  <2> QED
    BY <1>1, <2>1 DEF KeepsLines
<1>2. \A path : KeepsLines(RemoveFile(path))
  BY RemoveIs DEF KeepsLines
<1>3. \A path, rows : KeepsLines(WriteFile(path, Lines(rows)))
  BY <1>1, LinesKeptWhole
<1>4. ASSUME NEW content, NEW path \in {CatalogFile, MigrationsFile, IndexesFile, MarkerFile}
      PROVE  KeepsLines(WriteFile(path, content))
  BY <1>1, PathKinds
<1>5. ASSUME NEW i, NEW content
      PROVE  KeepsLines(WriteFile(IndexFile(i), content))
  BY <1>1, PathKinds
<1>6. ASSUME NEW p, NEW q
      PROVE  KeepsLines(RenameFile(p, q))
  <2>1. RenameFile(p, q)[1] = "rename"
    BY RenameIs
  <2> QED
    BY <2>1 DEF KeepsLines
<1>7. \A path : KeepsLines(Copy(path)) /\ KeepsLines(Restore(path))
  BY CopyIs, RestoreIs DEF KeepsLines
<1>8. KeepsLines(MakeSnapshot) /\ KeepsLines(DropSnapshot)
  BY SnapshotIs DEF KeepsLines
<1> QED
  BY <1>2, <1>3, <1>4, <1>5, <1>6, <1>7, <1>8

LEMMA SavesKeep ==
    ASSUME NEW n
    PROVE  /\ AllKeep(At(n, SaveCatalog)) /\ AllKeep(At(n, SaveMigrations)) /\ AllKeep(At(n, SaveIndexes))
           /\ \A written : AllKeep(At(n, ForgetMarker(written)))
           /\ \A dropped : AllKeep(At(n, RemoveIndexFiles(dropped)))
           /\ \A path : AllKeep(At(n, RemoveIfThere(path)))
           /\ \A path, rows : AllKeep(At(n, {WriteFile(path, Lines(rows))}))
           /\ AllKeep(At(n, DropSnapshotIfThere)) /\ AllKeep(At(n, DirtyMaps))
           /\ AllKeep(At(n, {WriteFile(MarkerFile, TRUE)}))
           /\ \A p, q : AllKeep(At(n, {RenameFile(p, q)}))
           /\ \A condition, path : AllKeep(At(n, DoIf(condition, Copy(path))))
           /\ AllKeep({})
<1>1. \A w \in SaveCatalog \cup SaveMigrations \cup SaveIndexes : KeepsLines(w)
  BY WritesKeep DEF SaveCatalog, SaveMigrations, SaveIndexes
<1>2. ASSUME NEW written PROVE \A w \in ForgetMarker(written) : KeepsLines(w)
  BY WritesKeep DEF ForgetMarker, DoIf
<1>3. ASSUME NEW dropped PROVE \A w \in RemoveIndexFiles(dropped) : KeepsLines(w)
  BY WritesKeep DEF RemoveIndexFiles
<1>4. ASSUME NEW path PROVE \A w \in RemoveIfThere(path) : KeepsLines(w)
  BY WritesKeep DEF RemoveIfThere, DoIf
<1>5. ASSUME NEW path, NEW rows PROVE \A w \in {WriteFile(path, Lines(rows))} : KeepsLines(w)
  BY WritesKeep
<1>6. \A w \in DropSnapshotIfThere : KeepsLines(w)
  BY WritesKeep DEF DropSnapshotIfThere, DoIf
<1>7. \A w \in DirtyMaps : KeepsLines(w)
  BY WritesKeep DEF DirtyMaps
<1>8. \A w \in {WriteFile(MarkerFile, TRUE)} : KeepsLines(w)
  BY WritesKeep
<1>9. ASSUME NEW p, NEW q PROVE \A w \in {RenameFile(p, q)} : KeepsLines(w)
  BY WritesKeep
<1>10. ASSUME NEW condition, NEW path PROVE \A w \in DoIf(condition, Copy(path)) : KeepsLines(w)
  BY WritesKeep DEF DoIf
<1>11. AllKeep(At(n, SaveCatalog)) /\ AllKeep(At(n, SaveMigrations)) /\ AllKeep(At(n, SaveIndexes))
  BY <1>1, AtKeeps
<1>12. /\ \A written : AllKeep(At(n, ForgetMarker(written)))
       /\ \A dropped : AllKeep(At(n, RemoveIndexFiles(dropped)))
       /\ \A path : AllKeep(At(n, RemoveIfThere(path)))
  BY <1>2, <1>3, <1>4, AtKeeps
<1>13. \A path, rows : AllKeep(At(n, {WriteFile(path, Lines(rows))}))
  BY <1>5, AtKeeps
<1>14. AllKeep(At(n, DropSnapshotIfThere)) /\ AllKeep(At(n, DirtyMaps))
       /\ AllKeep(At(n, {WriteFile(MarkerFile, TRUE)}))
  BY <1>6, <1>7, <1>8, AtKeeps
<1>15. \A p, q : AllKeep(At(n, {RenameFile(p, q)}))
  BY <1>9, AtKeeps
<1>16. \A condition, path : AllKeep(At(n, DoIf(condition, Copy(path))))
  BY <1>10, AtKeeps
<1>17. AllKeep({})
  BY DEF AllKeep
<1> QED
  BY <1>11, <1>12, <1>13, <1>14, <1>15, <1>16, <1>17

LEMMA BothKeep ==
    ASSUME NEW S, NEW T, AllKeep(S), AllKeep(T)
    PROVE  AllKeep(S \cup T)
  BY DEF AllKeep

\* What each call has to do keeps lines whole, but for INSERT.
LEMMA CallsKeep ==
    /\ AllKeep(OpenWrites) /\ AllKeep(FlushWrites) /\ AllKeep(BeginWrites) /\ AllKeep(RollbackWrites)
    /\ \A t : /\ AllKeep(RewriteWrites(t)) /\ AllKeep(ReplaceWrites(t))
              /\ AllKeep(CreateTableWrites(t)) /\ AllKeep(DropTableWrites(t))
<1>1. AllKeep(OpenWrites)
  BY SavesKeep, BothKeep DEF OpenWrites
<1>2. AllKeep(FlushWrites)
  BY SavesKeep, BothKeep DEF FlushWrites
<1>3. AllKeep(BeginWrites)
  <2> DEFINE others == {Copy(path) : path \in ToCopy \ Metadata}
  <2>1. AllKeep(At(4, {MakeSnapshot})) /\ AllKeep(At(8, others))
    <3>1. \A w \in {MakeSnapshot} : KeepsLines(w)
      BY WritesKeep
    <3>2. \A w \in others : KeepsLines(w)
      BY WritesKeep
    <3> QED
      BY <3>1, <3>2, AtKeeps
  <2>2. /\ AllKeep(At(3, DropSnapshotIfThere))
        /\ AllKeep(At(5, DoIf(CatalogFile \in ToCopy, Copy(CatalogFile))))
        /\ AllKeep(At(6, DoIf(MigrationsFile \in ToCopy, Copy(MigrationsFile))))
        /\ AllKeep(At(7, DoIf(IndexesFile \in ToCopy, Copy(IndexesFile))))
    BY SavesKeep
  <2> HIDE DEF others
  <2> QED
    BY <1>2, <2>1, <2>2 DEF AllKeep, BeginWrites, others
<1>4. ASSUME NEW t
      PROVE  AllKeep(RewriteWrites(t)) /\ AllKeep(ReplaceWrites(t))
  <2>1. /\ AllKeep(At(1, {WriteFile(RewriteFile(t), Lines(disk'.tables[t]))}))
        /\ AllKeep(At(2, RemoveIfThere(TableFile(t))))
        /\ AllKeep(At(3, {RenameFile(RewriteFile(t), TableFile(t))}))
        /\ AllKeep(At(4, ForgetMarker(IndexesOn(index_catalog, t))))
        /\ AllKeep(At(4, {WriteFile(TableFile(t), Lines(disk'.tables[t]))}))
        /\ AllKeep(At(5, ForgetMarker(IndexesOn(index_catalog', t))))
    BY SavesKeep
  <2> QED
    BY <2>1, BothKeep DEF RewriteWrites, ReplaceWrites
<1>5. ASSUME NEW t
      PROVE  AllKeep(CreateTableWrites(t)) /\ AllKeep(DropTableWrites(t))
  <2>1. /\ AllKeep(At(1, {WriteFile(TableFile(t), Lines(<<>>))}))
        /\ AllKeep(At(2, SaveCatalog)) /\ AllKeep(At(3, SaveMigrations))
        /\ AllKeep(At(1, RemoveIndexFiles(IndexesOn(index_catalog, t))))
        /\ AllKeep(At(2, SaveIndexes)) /\ AllKeep(At(3, RemoveIfThere(TableFile(t))))
        /\ AllKeep(At(4, SaveCatalog)) /\ AllKeep(At(5, SaveMigrations))
    BY SavesKeep
  <2> QED
    BY <2>1, BothKeep DEF CreateTableWrites, DropTableWrites
<1>6. AllKeep(RollbackWrites)
  <2> DEFINE removes == {RemoveFile(path) : path \in Copyable(files)}
             restores == {Restore(path) : path \in DOMAIN snapshot_files}
  <2>1. /\ \A w \in removes : KeepsLines(w)
        /\ \A w \in restores : KeepsLines(w)
        /\ \A w \in {DropSnapshot} : KeepsLines(w)
    BY WritesKeep
  <2> HIDE DEF removes, restores
  <2>2. AllKeep(At(1, removes)) /\ AllKeep(At(2, restores)) /\ AllKeep(At(3, {DropSnapshot}))
    BY <2>1, AtKeeps
  <2> QED
    BY <2>2, BothKeep DEF RollbackWrites, removes, restores
<1> QED
  BY <1>1, <1>2, <1>3, <1>4, <1>5, <1>6

LEMMA LinesLeadWhenKept ==
    ASSUME writes = {}, files' = files, LinesLead, AllKeep(writes')
    PROVE  LinesLead'
<1>1. \A t \in Tables : LinesThere(t)'
  BY DEF LinesLead, LinesThere, Pending
<1>2. \A t \in Tables : \A step \in writes' : LinesWritten(step, t)'
  BY DEF LinesWritten, AllKeep, KeepsLines
<1> QED
  BY <1>1, <1>2 DEF LinesLead

\* The line of a row is appended to whole lines, and its newline follows.
LEMMA InsertLines ==
    ASSUME writes = {}, files' = files, LinesLead, NEW t \in Tables, NEW row,
           writes' = InsertWrites(t, row)
    PROVE  LinesLead'
<1> DEFINE line == [stage |-> 2, write |-> AppendLine(t, row)]
           newline == [stage |-> 3, write |-> EndLine(t)]
<1>1. ASSUME NEW step \in writes'
      PROVE  KeepsLines(step.write) \/ step = line \/ step = newline
  <2>1. /\ AllKeep(At(1, SaveCatalog)) /\ AllKeep(At(1, {}))
        /\ AllKeep(At(4, ForgetMarker(IndexesOn(index_catalog, t))))
    BY SavesKeep DEF At
  <2>2. \/ step \in At(1, SaveCatalog) \/ step \in At(1, {})
        \/ step \in At(4, ForgetMarker(IndexesOn(index_catalog, t)))
        \/ step \in At(2, {AppendLine(t, row)}) \/ step \in At(3, {EndLine(t)})
    BY DEF InsertWrites
  <2>3. /\ step \in At(2, {AppendLine(t, row)}) => step = line
        /\ step \in At(3, {EndLine(t)}) => step = newline
    BY DEF At
  <2> QED
    BY <2>1, <2>2, <2>3 DEF AllKeep
<1>2. newline \in writes'
  BY DEF InsertWrites, At
<1>3. \A u \in Tables : TableFile(u) \in DOMAIN files => files[TableFile(u)].ended
  BY DEF LinesLead, LinesThere, Pending
<1>4. \A u \in Tables : LinesThere(u)'
  BY DEF LinesLead, LinesThere, Pending
<1>5. /\ line.write = AppendLine(t, row) /\ line.stage = 2
      /\ newline.write = EndLine(t) /\ newline.stage = 3
  OBVIOUS
<1> HIDE DEF line, newline
<1>6. ASSUME NEW step \in writes', NEW u \in Tables
      PROVE  LinesWritten(step, u)'
  <2>1. CASE KeepsLines(step.write)
    BY <2>1 DEF KeepsLines, LinesWritten
  <2>2. CASE step = newline
    <3>1. step.write[1] = "end line"
      BY <1>5, <2>2, EndIs
    <3> QED
      BY <3>1 DEF LinesWritten
  <2>3. CASE step = line
    <3>1. step.write[1] = "append" /\ step.write[2] = t /\ step.stage = 2
      BY <1>5, <2>3, AppendIs
    <3>2. \E other \in writes' : other.write = EndLine(t) /\ step.stage < other.stage
      BY <1>2, <1>5, <3>1
    <3> QED
      BY <1>3, <3>1, <3>2 DEF LinesWritten
  <2> QED
    BY <1>1, <2>1, <2>2, <2>3
<1> QED
  BY <1>4, <1>6 DEF LinesLead

---------------------------------------------------------------------------------
(* The calls and the invariant *)

LEMMA CallLines ==
    ASSUME LinesInv, NEW name, NEW todo, Begins(name, todo),
           AllKeep(todo) \/ (LinesLead => LinesLead')
    PROVE  LinesInv'
<1>1. /\ writes = {} /\ writes' = todo /\ files' = files /\ snapshot_files' = snapshot_files
      /\ harm' = harm
  BY DEF Begins
<1>2. LinesLead => LinesLead'
  BY <1>1, LinesLeadWhenKept
<1> QED
  BY <1>1, <1>2 DEF LinesInv

LEMMA CallOpens ==
    ASSUME CrashInv, OpenInv, NEW name, NEW todo, Begins(name, todo),
           AllKeep(todo) \/ (LinesLead => LinesLead'),
           Unharmed => Known(disk') /\ TransactionStays /\ (~RollingBack' => KnownLead')
    PROVE  OpenInv'
<1>1. /\ writes = {} /\ files' = files /\ harm' = harm /\ Unharmed' = Unharmed /\ ~RollingBack
  BY DEF Begins, Unharmed, RollingBack
<1>2. LinesInv'
  BY CallLines DEF OpenInv
<1> SUFFICES ASSUME Unharmed
             PROVE  /\ Known(disk')
                    /\ txn_dir' => Known(txn_snapshot')
                    /\ ~RollingBack' => Known(AsDisk(files')) /\ KnownLead'
  <2>1. /\ Known(disk)' = Known(disk') /\ Known(txn_snapshot)' = Known(txn_snapshot')
        /\ Known(AsDisk(files))' = Known(AsDisk(files'))
    OBVIOUS
  <2> QED
    BY <1>1, <1>2, <2>1 DEF OpenInv
<1>3. (txn_dir => Known(txn_snapshot)) /\ Known(AsDisk(files))
  BY <1>1 DEF OpenInv
<1> QED
  BY <1>1, <1>3 DEF TransactionStays

LEMMA KnownLeadWhenBegun ==
    ASSUME CrashInv, writes = {}, files' = files, TablesKnown(disk'.indexes, disk.catalog),
           \/ TablesKnown(disk.indexes, disk'.catalog)
           \/ \A step \in writes' : Alters(step.write, CatalogFile) =>
                \E other \in writes' : Alters(other.write, IndexesFile) /\ other.stage < step.stage
    PROVE  KnownLead'
<1>1. AsDisk(files') = disk
  BY BeforeCall
<1> QED
  BY <1>1 DEF KnownLead

\* The calls that drop no table
LEMMA StayingCall ==
    ASSUME CrashInv, OpenInv, NEW name, NEW todo, Begins(name, todo), TablesStay, TransactionStays,
           AllKeep(todo) \/ (LinesLead => LinesLead')
    PROVE  OpenInv'
<1>1. writes = {} /\ files' = files
  BY DEF Begins
<1>2. ASSUME Unharmed
      PROVE  Known(disk') /\ KnownLead'
  <2>1. Known(disk)
    BY <1>2 DEF OpenInv
  <2>2. /\ Known(disk') /\ TablesKnown(disk.indexes, disk'.catalog)
        /\ TablesKnown(disk'.indexes, disk.catalog)
    BY <2>1, StayKnown
  <2> QED
    BY <1>1, <2>2, KnownLeadWhenBegun
<1> QED
  BY <1>2, CallOpens

LEMMA SmallCallsOpen ==
    ASSUME CrashInv, OpenInv,
           \/ OpenCrash \/ OpenFails \/ CloseCrash \/ ExitCrash \/ BeginCrash \/ CommitCrash
    PROVE  OpenInv'
<1>1. TypeOK /\ TxnOfProcess
  BY DEF CrashInv
<1>2. CASE OpenCrash
  BY <1>1, <1>2, OpenStays, CallsKeep, StayingCall DEF OpenCrash
<1>3. CASE OpenFails
  <2>1. PICK built \in SUBSET (DOMAIN disk.indexes \ Unbuildable) :
          Begins("open fails",
               At(1, DropSnapshotIfThere)
                   \cup At(2, {WriteFile(IndexFile(i), Restrict(RebuiltMaps(disk), built)[i]) : i \in built})
                   \cup At(3, {WriteFile(MarkerFile, TRUE)}))
    BY <1>3 DEF OpenFails
  <2> DEFINE maps == {WriteFile(IndexFile(i), Restrict(RebuiltMaps(disk), built)[i]) : i \in built}
             todo == At(1, DropSnapshotIfThere) \cup At(2, maps) \cup At(3, {WriteFile(MarkerFile, TRUE)})
  <2>2. \A w \in maps : KeepsLines(w)
    BY WritesKeep
  <2>3. Begins("open fails", todo)
    BY <2>1
  <2> HIDE DEF maps
  <2>4. AllKeep(At(1, DropSnapshotIfThere)) /\ AllKeep(At(2, maps))
        /\ AllKeep(At(3, {WriteFile(MarkerFile, TRUE)}))
    BY <2>2, SavesKeep, AtKeeps
  <2>5. AllKeep(todo)
    BY <2>4, BothKeep
  <2>6. TablesStay /\ TransactionStays
    BY <1>1, <1>3, OpenStays
  <2> HIDE DEF todo
  <2> QED
    BY <2>3, <2>5, <2>6, StayingCall
<1>4. CASE CloseCrash
  BY <1>1, <1>4, EndStays, CallsKeep, StayingCall DEF CloseCrash
<1>5. CASE ExitCrash
  BY <1>1, <1>5, EndStays, SavesKeep, StayingCall DEF ExitCrash
<1>6. CASE BeginCrash
  BY <1>1, <1>6, BeginStays, CallsKeep, StayingCall DEF BeginCrash
<1>7. CASE CommitCrash
  <2>1. \A w \in {DropSnapshot} : KeepsLines(w)
    BY WritesKeep
  <2>2. AllKeep(At(1, {DropSnapshot}))
    BY <2>1, AtKeeps
  <2> QED
    BY <1>1, <1>7, <2>2, BeginStays, StayingCall DEF CommitCrash
<1> QED
  BY <1>2, <1>3, <1>4, <1>5, <1>6, <1>7

LEMMA RollbackCrashOpens ==
    ASSUME CrashInv, OpenInv, RollbackCrash
    PROVE  OpenInv'
<1>1. RollbackTransaction /\ Begins("rollback", RollbackWrites)
  BY DEF RollbackCrash
<1>2. disk' = txn_snapshot /\ txn_dir /\ ~txn_dir'
  BY <1>1 DEF RollbackTransaction
<1>3. writes' # {} /\ call'.name = "rollback"
  <2>1. [stage |-> 3, write |-> DropSnapshot] \in RollbackWrites
    BY DEF RollbackWrites, At
  <2>2. writes' = RollbackWrites /\ writes' # {}
    BY <1>1, <2>1 DEF Begins
  <2> QED
    BY <1>1, <2>2 DEF Begins
<1>4. RollingBack' /\ TransactionStays
  BY <1>2, <1>3 DEF RollingBack, TransactionStays
<1>5. Unharmed => Known(disk')
  BY <1>2 DEF OpenInv
<1> QED
  BY <1>1, <1>4, <1>5, CallsKeep, CallOpens

\* The indexes of a table are gone from the index catalog before the table is
\* gone from the catalog.
LEMMA DropTableOpens ==
    ASSUME CrashInv, OpenInv, NEW t \in Tables, DropTableCrash(t)
    PROVE  OpenInv'
<1> DEFINE saved == [stage |-> 2, write |-> WriteFile(IndexesFile, index_catalog')]
<1>1. /\ DropTable(t) /\ Begins("drop table", DropTableWrites(t)) /\ writes = {}
      /\ files' = files /\ writes' = DropTableWrites(t) /\ TypeOK /\ MetadataSaved /\ ~RollingBack
  BY DEF DropTableCrash, Begins, CrashInv, RollingBack
<1>2. saved \in writes' /\ saved.stage = 2 /\ Alters(saved.write, IndexesFile)
  BY <1>1, AltersWrite DEF DropTableWrites, At, SaveIndexes
<1> HIDE DEF saved
<1>3. ASSUME NEW step \in writes', Alters(step.write, CatalogFile)
      PROVE  2 < step.stage
  <2>1. step \in At(1, RemoveIndexFiles(IndexesOn(index_catalog, t))) => FALSE
    <3>1. ASSUME step \in At(1, RemoveIndexFiles(IndexesOn(index_catalog, t)))
          PROVE  FALSE
      <4>1. \E i : step.write = RemoveFile(IndexFile(i))
        BY <3>1, StageOf DEF RemoveIndexFiles
      <4> QED
        BY <1>3, <4>1, AltersRemove, PathKinds
    <3> QED
      BY <3>1
  <2>2. step \in At(2, SaveIndexes) => FALSE
    <3>1. ASSUME step \in At(2, SaveIndexes)
          PROVE  FALSE
      <4>1. step.write = WriteFile(IndexesFile, index_catalog')
        BY <3>1, StageOf DEF SaveIndexes
      <4> QED
        BY <1>3, <4>1, AltersWrite, PathKinds
    <3> QED
      BY <3>1
  <2>3. /\ step \in At(3, RemoveIfThere(TableFile(t))) => 2 < step.stage
        /\ step \in At(4, SaveCatalog) => 2 < step.stage
        /\ step \in At(5, SaveMigrations) => 2 < step.stage
    BY StageOf
  <2> QED
    BY <1>1, <2>1, <2>2, <2>3 DEF DropTableWrites
<1>4. ASSUME Unharmed
      PROVE  Known(disk') /\ TransactionStays /\ KnownLead'
  <2>1. Known(disk)
    BY <1>4 DEF OpenInv
  <2>2. Known(disk') /\ TablesKnown(disk'.indexes, disk.catalog) /\ TransactionStays
    BY <1>1, <2>1, DropTableKnown
  <2>3. KnownLead'
    BY <1>1, <1>2, <1>3, <2>2, KnownLeadWhenBegun
  <2> QED
    BY <2>2, <2>3
<1> QED
  BY <1>1, <1>4, CallsKeep, CallOpens

LEMMA UpdateFailsOpens ==
    ASSUME CrashInv, OpenInv, NEW t \in Tables, UpdateFailsCrash(t)
    PROVE  OpenInv'
<1>1. TypeOK /\ MetadataSaved
  BY DEF CrashInv
<1>2. UpdateFails(t) /\ Begins("update fails", At(1, {WriteFile(RewriteFile(t), Lines(<<>>))}))
  BY DEF UpdateFailsCrash
<1>3. AllKeep(At(1, {WriteFile(RewriteFile(t), Lines(<<>>))}))
  BY SavesKeep
<1> QED
  BY <1>1, <1>2, <1>3, RowsStay, StayingCall

\* A call fails so only in a directory for which OpenInv says nothing.
LEMMA FailingByHarm ==
    ASSUME CrashInv, LinesInv, NEW t \in Tables, FailingToRead(t)
    PROVE  harm' = harm /\ "line" \in harm
<1>1. Unreadable(t)
  BY DEF FailingToRead, CreateIndexFails, AddColumnFails, DropColumnFails, RenameColumnFails
<1>2. PICK name, todo, dropped : FailedCall(name, todo, dropped)
  BY FailingIs
<1> QED
  BY <1>1, <1>2, UnreadableByHarm DEF FailedCall, Begins

LEMMA ReadingOpens ==
    ASSUME CrashInv, OpenInv, NEW t \in Tables, Reading(t)
    PROVE  OpenInv'
<1>1. TypeOK /\ MetadataSaved
  BY DEF CrashInv
<1>2. ASSUME NEW i, NEW c, CreateIndexCrash(i, t, c)
      PROVE  OpenInv'
  <2> DEFINE todo == At(1, SaveIndexes) \cup At(2, ForgetMarker({i})) \cup At(3, SaveMigrations)
  <2>1. CreateIndex(i, t, c) /\ Begins("create index", todo)
    BY <1>2 DEF CreateIndexCrash
  <2>2. AllKeep(todo)
    BY SavesKeep, BothKeep
  <2> HIDE DEF todo
  <2> QED
    BY <1>1, <2>1, <2>2, CreateIndexStays, StayingCall
<1>3. ASSUME NEW c, NEW default, AddColumnCrash(t, c, default)
      PROVE  OpenInv'
  <2> DEFINE todo == At(1, SaveCatalog) \cup ReplaceWrites(t) \cup At(6, SaveMigrations)
  <2>1. AddColumn(t, c, default) /\ Begins("add column", todo)
    BY <1>3 DEF AddColumnCrash
  <2>2. AllKeep(todo)
    BY SavesKeep, CallsKeep, BothKeep
  <2> HIDE DEF todo
  <2> QED
    BY <1>1, <2>1, <2>2, ColumnsStay, StayingCall
<1>4. ASSUME NEW c, DropColumnCrash(t, c)
      PROVE  OpenInv'
  <2> DEFINE dropped == IndexesOnColumn(index_catalog, t, c)
             saves == IF dropped = {} THEN {} ELSE SaveIndexes
             todo == At(1, SaveCatalog) \cup At(2, RemoveIndexFiles(dropped)) \cup At(3, saves)
                         \cup ReplaceWrites(t) \cup At(6, SaveMigrations)
  <2>1. DropColumn(t, c) /\ Begins("drop column", todo)
    BY <1>4 DEF DropColumnCrash
  <2>2. AllKeep(At(3, saves))
    <3>1. AllKeep(At(3, SaveIndexes))
      BY SavesKeep
    <3>2. AllKeep(At(3, {}))
      BY AtKeeps
    <3> QED
      BY <3>1, <3>2
  <2> HIDE DEF saves, dropped
  <2>3. AllKeep(At(1, SaveCatalog)) /\ AllKeep(At(2, RemoveIndexFiles(dropped)))
        /\ AllKeep(ReplaceWrites(t)) /\ AllKeep(At(6, SaveMigrations))
    BY SavesKeep, CallsKeep
  <2>4. AllKeep(todo)
    BY <2>2, <2>3 DEF AllKeep
  <2> HIDE DEF todo
  <2> QED
    BY <1>1, <2>1, <2>4, ColumnsStay, StayingCall
<1>5. ASSUME NEW c, NEW new, RenameColumnCrash(t, c, new)
      PROVE  OpenInv'
  <2> DEFINE todo == At(1, SaveCatalog) \cup At(2, SaveIndexes)
                         \cup ReplaceWrites(t) \cup At(6, SaveMigrations)
  <2>1. RenameColumn(t, c, new) /\ Begins("rename column", todo)
    BY <1>5 DEF RenameColumnCrash
  <2>2. AllKeep(todo)
    BY SavesKeep, CallsKeep, BothKeep
  <2> HIDE DEF todo
  <2> QED
    BY <1>1, <2>1, <2>2, ColumnsStay, StayingCall
<1>6. ASSUME NEW where, DeleteCrash(t, where) \/ \E assignments : UpdateCrash(t, where, assignments)
      PROVE  OpenInv'
  <2>1. \E name : Begins(name, RewriteWrites(t))
    BY <1>6 DEF DeleteCrash, UpdateCrash
  <2>2. TablesStay /\ TransactionStays
    BY <1>1, <1>6, RowsStay DEF DeleteCrash, UpdateCrash
  <2> QED
    BY <2>1, <2>2, CallsKeep, StayingCall
<1> QED
  BY <1>2, <1>3, <1>4, <1>5, <1>6 DEF Reading

LEMMA OpenNextSafe == CrashInv /\ OpenInv /\ [CrashNext]_crash_vars => OpenInv'
<1> SUFFICES ASSUME CrashInv, OpenInv, [CrashNext]_crash_vars PROVE OpenInv'
  OBVIOUS
<1>1. TypeOK /\ MetadataSaved
  BY DEF CrashInv
<1>2. CASE OpenCrash \/ OpenFails \/ CloseCrash \/ ExitCrash \/ BeginCrash \/ CommitCrash
  BY <1>2, SmallCallsOpen
<1>3. CASE RollbackCrash
  BY <1>3, RollbackCrashOpens
<1>4. ASSUME NEW i, DropIndexCrash(i)
      PROVE  OpenInv'
  <2> DEFINE todo == At(1, RemoveIndexFiles({i})) \cup At(2, SaveIndexes) \cup At(3, SaveMigrations)
  <2>1. DropIndex(i) /\ Begins("drop index", todo)
    BY <1>4 DEF DropIndexCrash
  <2>2. AllKeep(todo)
    BY SavesKeep, BothKeep
  <2> HIDE DEF todo
  <2> QED
    BY <1>1, <2>1, <2>2, DropIndexStays, StayingCall
<1>5. ASSUME NEW t, NEW columns, CreateTableCrash(t, columns)
      PROVE  OpenInv'
  BY <1>1, <1>5, CallsKeep, CreateTableStays, StayingCall DEF CreateTableCrash
<1>6. ASSUME NEW t \in Tables, NEW data, InsertCrash(t, data)
      PROVE  OpenInv'
  <2> DEFINE row == [id |-> NextRowId(t), data |-> data]
  <2>1. Insert(t, data) /\ Begins("insert", InsertWrites(t, row))
    BY <1>6 DEF InsertCrash
  <2> HIDE DEF row
  <2>2. LinesLead => LinesLead'
    BY <2>1, InsertLines DEF Begins
  <2> QED
    BY <1>1, <2>1, <2>2, InsertStays, StayingCall
<1>7. ASSUME NEW t \in Tables,
             \/ \E columns \in (SUBSET Columns) \ {{}} : CreateTableCrash(t, columns)
             \/ DropTableCrash(t) \/ UpdateFailsCrash(t) \/ Reading(t) \/ FailingToRead(t)
             \/ t \in DOMAIN catalog /\ \E data \in [catalog[t].columns -> Val] : InsertCrash(t, data)
      PROVE  OpenInv'
  <2>1. CASE FailingToRead(t)
    <3>1. "line" \in harm'
      BY <2>1, FailingByHarm DEF OpenInv
    <3> QED
      BY <3>1 DEF OpenInv, LinesInv, Unharmed
  <2> QED
    BY <1>5, <1>6, <1>7, <2>1, DropTableOpens, UpdateFailsOpens, ReadingOpens
<1>8. CASE WriteStep \/ Kill
  BY <1>8, WriteStepOpens, KillOpens
<1>9. CASE UNCHANGED crash_vars
  <2>1. /\ disk' = disk /\ files' = files /\ writes' = writes /\ call' = call /\ harm' = harm
        /\ txn_dir' = txn_dir /\ txn_snapshot' = txn_snapshot /\ snapshot_files' = snapshot_files
    BY <1>9 DEF crash_vars, vars, memory
  <2>2. /\ RollingBack' = RollingBack /\ Unharmed' = Unharmed /\ KnownLead' = KnownLead
        /\ LinesLead' = LinesLead
    BY <2>1 DEF RollingBack, Unharmed, KnownLead, LinesLead, LinesThere, LinesWritten, Pending
  <2>3. LinesInv' = LinesInv
    BY <2>1, <2>2 DEF LinesInv
  <2> QED
    BY <2>1, <2>2, <2>3 DEF OpenInv
<1> QED
  BY <1>2, <1>3, <1>4, <1>7, <1>8, <1>9 DEF CrashNext

\* At every moment of every call: in a directory no kill within a line has
\* touched, the tables' files and the snapshot's hold whole lines, but for the
\* line that is being written (storage.rs:652); and if no kill fell into a
\* ROLLBACK either, every index of the index catalog's file is on a table of the
\* catalog's file, because DROP TABLE saves the index catalog before the catalog
\* (:318-332).
THEOREM OpensAlwaysPossible == CrashSpec => []OpenInv
<1>1. CrashInit => CrashInv /\ OpenInv
  BY CrashInitSafe, OpenInit
<1>2. CrashInv /\ OpenInv /\ [CrashNext]_crash_vars => (CrashInv /\ OpenInv)'
  BY CrashNextSafe, OpenNextSafe
<1> QED
  BY <1>1, <1>2, PTL DEF CrashSpec

\* A directory can be opened, wherever processes were killed, unless a kill fell
\* into a ROLLBACK or between a row's line and its newline: the files can be
\* read, and the rebuilding of the indexes finds every table it needs
\* (Storage::open, storage.rs:31-97).
THEOREM OpensAlwaysSucceed == CrashSpec => []OpenSucceeds
<1> QED
  BY InvOpenSucceeds, CrashInvariantHolds, OpensAlwaysPossible, PTL

\* At every moment of every call but ROLLBACK, in a directory where no process has
\* been killed between a row's line and its newline: every table can be read, with
\* its rows as before the call or as after it, or its new file is whole beside it,
\* because rewrite_rows removes the old file only then (storage.rs:806-829).
THEOREM KillsLoseNothing == CrashSpec => []NothingLost
<1> QED
  BY InvNothingLost, CrashInvariantHolds, OpensAlwaysPossible, PTL

---------------------------------------------------------------------------------
(* Index maps after each call *)

\* What a call of a process relies on
MapsKnown ==
    TypeOK /\ MetadataSaved /\ NoOrphanHandle /\ MapsTracked /\ MarkerTracked /\ Known(disk)

\* A call in a process keeps the maps, and leaves the transaction alone.
Tracks ==
    /\ MapsTracked' /\ MarkerTracked'
    /\ running /\ running' /\ UNCHANGED <<txn_snapshot, txn_dir>>

LEMMA CreateTableTracks ==
    ASSUME MapsKnown, TypeOK', NEW t, NEW columns, CreateTable(t, columns)
    PROVE  Tracks
<1>1. /\ running /\ running' /\ t \notin DOMAIN catalog
      /\ UNCHANGED <<marker, txn_snapshot, index_maps, dirty_indexes, indexes_clean, txn_dir>>
      /\ disk'.indexes = disk.indexes /\ disk'.index_files = disk.index_files
      /\ disk'.tables = Put(disk.tables, t, <<>>)
  BY DiskFields DEF CreateTable, MapsKnown
<1>2. \A i \in DOMAIN disk.indexes : disk.indexes[i].table # t
  BY <1>1 DEF MapsKnown, MetadataSaved, Known, TablesKnown
<1>3. \A u : u # t => RowsIn(disk'.tables, u) = RowsOf(u)
  BY <1>1, DiskAfter DEF MapsKnown
<1>4. dirty_indexes' = dirty_indexes \ {} /\ DOMAIN index_maps = DOMAIN index_maps \ {}
  BY <1>1
<1>5. MapsTracked' /\ MarkerTracked'
  BY <1>1, <1>2, <1>3, <1>4, MapsDropped DEF MapsKnown
<1> QED
  BY <1>1, <1>5 DEF Tracks

LEMMA UpdateFailsTracks ==
    ASSUME MapsKnown, TypeOK', NEW t, UpdateFails(t)
    PROVE  Tracks
<1>1. /\ running /\ running'
      /\ UNCHANGED <<marker, txn_snapshot, index_maps, dirty_indexes, indexes_clean, txn_dir>>
      /\ disk'.indexes = disk.indexes /\ disk'.index_files = disk.index_files
      /\ disk'.tables = disk.tables
  BY DiskFields DEF UpdateFails, MapsKnown
<1>2. MapsTracked' /\ MarkerTracked'
  BY <1>1 DEF MapsKnown, MapsTracked, MarkerTracked, RebuiltMaps
<1> QED
  BY <1>1, <1>2 DEF Tracks

LEMMA DropTableTracks ==
    ASSUME MapsKnown, TypeOK', NEW t, DropTable(t)
    PROVE  Tracks
<1> DEFINE dropped == IndexesOn(index_catalog, t)
<1>1. /\ running /\ running'
      /\ index_catalog' = Without(index_catalog, dropped)
      /\ index_maps' = Without(index_maps, dropped)
      /\ dirty_indexes' = dirty_indexes \ dropped
      /\ UNCHANGED <<marker, txn_snapshot, indexes_clean, txn_dir>>
      /\ disk'.indexes = index_catalog'
      /\ disk'.index_files = Without(disk.index_files, dropped)
      /\ disk'.tables = Without(disk.tables, {t})
      /\ index_catalog = disk.indexes
  BY DiskFields DEF DropTable, MapsKnown, MetadataSaved
<1>2. \A i \in DOMAIN index_catalog : i \in dropped <=> index_catalog[i].table = t
  BY DEF IndexesOn
<1> HIDE DEF dropped
<1>3. /\ DOMAIN index_catalog' = DOMAIN index_catalog \ dropped
      /\ \A i \in DOMAIN index_catalog' : index_catalog'[i] = index_catalog[i]
      /\ DOMAIN index_maps' = DOMAIN index_maps \ dropped
      /\ \A i \in DOMAIN index_maps' : index_maps'[i] = index_maps[i]
      /\ \A i \in DOMAIN disk.index_files \ dropped :
            i \in DOMAIN disk'.index_files /\ disk'.index_files[i] = disk.index_files[i]
  BY <1>1 DEF Without, Restrict
<1>4. \A u : u # t => RowsIn(disk'.tables, u) = RowsOf(u)
  BY <1>1 DEF RowsOf, RowsIn, Without, Restrict
<1>5. MapsTracked' /\ MarkerTracked'
  BY <1>1, <1>2, <1>3, <1>4, MapsDropped DEF MapsKnown
<1> QED
  BY <1>1, <1>5 DEF Tracks

LEMMA DropIndexTracks ==
    ASSUME MapsKnown, TypeOK', NEW i, DropIndex(i)
    PROVE  Tracks
<1>1. /\ running /\ running'
      /\ index_catalog' = Without(index_catalog, {i})
      /\ index_maps' = Without(index_maps, {i})
      /\ dirty_indexes' = dirty_indexes \ {i}
      /\ UNCHANGED <<marker, txn_snapshot, indexes_clean, txn_dir>>
      /\ disk'.indexes = index_catalog' /\ disk'.tables = disk.tables
      /\ disk'.index_files = Without(disk.index_files, {i})
      /\ index_catalog = disk.indexes
  BY DiskFields DEF DropIndex, MapsKnown, MetadataSaved
<1>2. /\ DOMAIN index_catalog' = DOMAIN index_catalog \ {i}
      /\ \A j \in DOMAIN index_catalog' : index_catalog'[j] = index_catalog[j]
      /\ DOMAIN index_maps' = DOMAIN index_maps \ {i}
      /\ \A j \in DOMAIN index_maps' : index_maps'[j] = index_maps[j]
      /\ \A j \in DOMAIN disk.index_files \ {i} :
            j \in DOMAIN disk'.index_files /\ disk'.index_files[j] = disk.index_files[j]
  BY <1>1 DEF Without, Restrict
<1>3. \A u : RowsIn(disk'.tables, u) = RowsOf(u)
  BY <1>1 DEF RowsOf
<1>4. MapsTracked' /\ MarkerTracked'
  BY <1>1, <1>2, <1>3, MapsDropped DEF MapsKnown
<1> QED
  BY <1>1, <1>4 DEF Tracks

LEMMA CreateIndexTracks ==
    ASSUME MapsKnown, NEW i, NEW t, NEW c, CreateIndex(i, t, c)
    PROVE  Tracks
<1> DEFINE new == [x \in {i} |-> IndexOf(RowsOf(t), c)]
           definition == [table |-> t, column |-> c]
<1>1. /\ running /\ running'
      /\ i \notin DOMAIN index_catalog
      /\ index_catalog' = Put(index_catalog, i, definition)
      /\ WriteIndexMaps(index_maps, dirty_indexes, new)
      /\ UNCHANGED <<txn_snapshot, txn_dir>>
      /\ disk'.indexes = index_catalog' /\ disk'.tables = disk.tables
      /\ disk'.index_files = disk.index_files
      /\ index_catalog = disk.indexes
  BY DiskFields DEF CreateIndex, MapsKnown, MetadataSaved
<1>2. definition.table = t /\ definition.column = c
  OBVIOUS
<1> HIDE DEF definition
<1>3. /\ DOMAIN index_catalog' = DOMAIN index_catalog \cup {i}
      /\ index_catalog'[i] = definition
      /\ \A j \in DOMAIN index_catalog : index_catalog'[j] = index_catalog[j]
      /\ DOMAIN new = {i} /\ new[i] = IndexOf(RowsOf(t), c)
  BY <1>1 DEF Put, Override
<1> HIDE DEF new
<1>4. \A u : RowsIn(disk'.tables, u) = RowsOf(u)
  BY <1>1 DEF RowsOf
<1>5. /\ WriteIndexMaps(index_maps, dirty_indexes \ {}, new)
      /\ DOMAIN index_maps = DOMAIN index_maps \ {}
      /\ DOMAIN disk'.indexes = (DOMAIN disk.indexes \ {}) \cup DOMAIN new
      /\ DOMAIN disk.index_files \ {} = DOMAIN disk'.index_files
  <2>1. dirty_indexes \ {} = dirty_indexes
    OBVIOUS
  <2> QED
    BY <1>1, <1>3, <2>1
<1>6. \A j \in DOMAIN new :
         new[j] = IndexOf(RowsIn(disk'.tables, disk'.indexes[j].table), disk'.indexes[j].column)
  BY <1>1, <1>2, <1>3, <1>4
<1>7. \A j \in DOMAIN disk'.indexes \ DOMAIN new :
         /\ disk'.indexes[j] = disk.indexes[j]
         /\ RowsIn(disk'.tables, disk.indexes[j].table) = RowsOf(disk.indexes[j].table)
  BY <1>1, <1>3, <1>4
<1>8. MapsTracked' /\ MarkerTracked'
  BY <1>1, <1>5, <1>6, <1>7, MapsRebuilt DEF MapsKnown
<1> QED
  BY <1>1, <1>8 DEF Tracks

\* UPDATE and DELETE leave the index definitions alone.
LEMMA RewriteTracks ==
    ASSUME MapsKnown, running, running', NEW t, NEW rows,
           ReplaceRows(t, rows, index_catalog, index_maps, dirty_indexes),
           disk' = [disk EXCEPT !.tables = Put(@, t, rows), !.tmp_rewrite = @ \ {t}],
           UNCHANGED <<txn_snapshot, index_catalog, txn_dir>>
    PROVE  Tracks
<1>1. /\ disk'.indexes = disk.indexes /\ disk'.index_files = disk.index_files
      /\ disk'.tables = Put(disk.tables, t, rows)
      /\ index_catalog = disk.indexes
  BY DiskFields DEF MapsKnown, MetadataSaved
<1>2. ReplaceRows(t, rows, index_catalog', index_maps, dirty_indexes \ {})
  <2>1. dirty_indexes \ {} = dirty_indexes /\ index_catalog' = index_catalog
    OBVIOUS
  <2> QED
    BY <2>1
<1>3. IndexesFollow(t, rows, {}, index_maps)
  BY <1>1, <1>2 DEF IndexesFollow
<1>4. MapsTracked' /\ MarkerTracked'
  BY <1>3, MapsRewritten DEF MapsKnown
<1> QED
  BY <1>4 DEF Tracks

LEMMA UpdateTracks ==
    ASSUME MapsKnown, NEW t, NEW where, NEW assignments, Update(t, where, assignments)
    PROVE  Tracks
<1> DEFINE rows == MappedRows(t, LAMBDA data : Updated(data, where, assignments))
<1>1. /\ running /\ running'
      /\ ReplaceRows(t, rows, index_catalog, index_maps, dirty_indexes)
      /\ disk' = [disk EXCEPT !.tables = Put(@, t, rows), !.tmp_rewrite = @ \ {t}]
      /\ UNCHANGED <<txn_snapshot, index_catalog, txn_dir>>
  BY DEF Update
<1> HIDE DEF rows
<1> QED
  BY <1>1, RewriteTracks

LEMMA DeleteTracks ==
    ASSUME MapsKnown, NEW t, NEW where, Delete(t, where)
    PROVE  Tracks
<1>1. PICK rows :
         /\ ReplaceRows(t, rows, index_catalog, index_maps, dirty_indexes)
         /\ disk' = [disk EXCEPT !.tables = Put(@, t, rows), !.tmp_rewrite = @ \ {t}]
  BY DEF Delete
<1>2. running /\ running' /\ UNCHANGED <<txn_snapshot, index_catalog, txn_dir>>
  BY DEF Delete
<1> QED
  BY <1>1, <1>2, RewriteTracks

LEMMA AddColumnTracks ==
    ASSUME MapsKnown, NEW t, NEW c, NEW default, AddColumn(t, c, default)
    PROVE  Tracks
<1> DEFINE rows == MappedRows(t, LAMBDA data : WithColumn(data, c, default))
<1>1. /\ running /\ running' /\ UNCHANGED <<txn_snapshot, index_catalog, txn_dir, running>>
      /\ ReplaceRows(t, rows, index_catalog, index_maps, dirty_indexes)
      /\ disk'.tables = Put(disk.tables, t, rows)
      /\ disk'.indexes = disk.indexes /\ disk'.index_files = disk.index_files
      /\ index_catalog = disk.indexes
  BY DiskFields DEF AddColumn, MapsKnown, MetadataSaved
<1> HIDE DEF rows
<1>2. ReplaceRows(t, rows, index_catalog', index_maps, dirty_indexes \ {})
  <2>1. dirty_indexes \ {} = dirty_indexes /\ index_catalog' = index_catalog
    BY <1>1
  <2> QED
    BY <1>1, <2>1
<1>3. IndexesFollow(t, rows, {}, index_maps)
  BY <1>1, <1>2 DEF IndexesFollow
<1>4. MapsTracked' /\ MarkerTracked'
  BY <1>3, MapsRewritten DEF MapsKnown
<1> QED
  BY <1>1, <1>4 DEF Tracks

LEMMA DropColumnTracks ==
    ASSUME MapsKnown, NEW t, NEW c, DropColumn(t, c)
    PROVE  Tracks
<1> DEFINE rows == MappedRows(t, LAMBDA data : WithoutColumn(data, c))
           dropped == IndexesOnColumn(index_catalog, t, c)
           maps == Without(index_maps, dropped)
<1>1. /\ running /\ running' /\ UNCHANGED <<txn_snapshot, txn_dir, running>>
      /\ index_catalog' = Without(index_catalog, dropped)
      /\ ReplaceRows(t, rows, index_catalog', maps, dirty_indexes \ dropped)
      /\ disk'.indexes = index_catalog' /\ disk'.tables = Put(disk.tables, t, rows)
      /\ disk'.index_files = Without(disk.index_files, dropped)
      /\ index_catalog = disk.indexes
  BY DiskFields DEF DropColumn, MapsKnown, MetadataSaved
<1> HIDE DEF rows, dropped
<1>2. /\ DOMAIN maps = DOMAIN index_maps \ dropped
      /\ \A i \in DOMAIN maps : maps[i] = index_maps[i]
      /\ DOMAIN index_catalog' = DOMAIN index_catalog \ dropped
      /\ \A i \in DOMAIN index_catalog' : index_catalog'[i] = index_catalog[i]
      /\ \A i \in DOMAIN disk.index_files \ dropped :
            i \in DOMAIN disk'.index_files /\ disk'.index_files[i] = disk.index_files[i]
  BY <1>1 DEF Without, Restrict
<1> HIDE DEF maps
<1>3. IndexesFollow(t, rows, dropped, maps)
  BY <1>1, <1>2 DEF IndexesFollow
<1>4. MapsTracked' /\ MarkerTracked'
  BY <1>3, MapsRewritten DEF MapsKnown
<1> QED
  BY <1>1, <1>4 DEF Tracks

LEMMA RenameColumnTracks ==
    ASSUME MapsKnown, NEW t, NEW old, NEW new, RenameColumn(t, old, new)
    PROVE  Tracks
<1> DEFINE rows == MappedRows(t, LAMBDA data : WithRenamed(data, old, new))
<1>1. /\ running /\ running' /\ UNCHANGED <<txn_snapshot, txn_dir, running>>
      /\ index_catalog' = RenamedIndexes(t, old, new)
      /\ ReplaceRows(t, rows, index_catalog', index_maps, dirty_indexes)
      /\ disk'.indexes = index_catalog' /\ disk'.tables = Put(disk.tables, t, rows)
      /\ disk'.index_files = disk.index_files
      /\ index_catalog = disk.indexes
  BY DiskFields DEF RenameColumn, MapsKnown, MetadataSaved
<1> HIDE DEF rows
<1>2. /\ DOMAIN index_catalog' = DOMAIN index_catalog
      /\ \A i \in DOMAIN index_catalog :
            /\ index_catalog'[i].table = index_catalog[i].table
            /\ index_catalog[i].table # t => index_catalog'[i] = index_catalog[i]
  <2>1. \A i \in DOMAIN index_catalog : index_catalog[i] \in IndexDefinition
    BY DEF MapsKnown, TypeOK, IsMap
  <2>2. \A i \in DOMAIN index_catalog :
           [index_catalog[i] EXCEPT !.column = new].table = index_catalog[i].table
    BY <2>1 DEF IndexDefinition
  <2>3. \A i \in IndexesOnColumn(index_catalog, t, old) : index_catalog[i].table = t
    BY DEF IndexesOnColumn, IndexesOn
  <2> QED
    BY <1>1, <2>2, <2>3 DEF RenamedIndexes
<1>3. ReplaceRows(t, rows, index_catalog', index_maps, dirty_indexes \ {})
  <2>1. dirty_indexes \ {} = dirty_indexes
    OBVIOUS
  <2> QED
    BY <1>1, <2>1
<1>4. DOMAIN index_maps = DOMAIN index_maps \ {} /\ DOMAIN index_catalog' = DOMAIN index_catalog \ {}
  BY <1>2
<1>5. IndexesFollow(t, rows, {}, index_maps)
  BY <1>1, <1>2, <1>3, <1>4 DEF IndexesFollow
<1>6. MapsTracked' /\ MarkerTracked'
  BY <1>5, MapsRewritten DEF MapsKnown
<1> QED
  BY <1>1, <1>6 DEF Tracks

LEMMA InsertTracks ==
    ASSUME MapsKnown, TypeOK', NEW t \in Tables, t \in DOMAIN catalog,
           NEW data \in [catalog[t].columns -> Val], Insert(t, data)
    PROVE  Tracks
<1> DEFINE row == [id |-> NextRowId(t), data |-> data]
           locator == [id |-> NextRowId(t), pos |-> Len(RowsOf(t)) + 1]
           rows == Append(RowsOf(t), row)
           new == ExtendedMaps(t, data, locator)
<1>1. TypeOK /\ MetadataSaved /\ NoOrphanHandle /\ MapsTracked /\ MarkerTracked
  BY DEF MapsKnown
<1>2. /\ running /\ running' /\ UNCHANGED <<txn_snapshot, txn_dir>>
      /\ RowsOf(t)' = rows /\ \A u : u # t => RowsOf(u)' = RowsOf(u)
  BY <1>1, InsertIds
<1>3. row \in Row /\ RowsOf(t) \in Seq(Row)
  <2>1. NextRowId(t) \in Nat
    <3>1. catalog[t].next_row_id \in Nat
      BY <1>1 DEF TypeOK, IsMap, Schema
    <3>2. HasCursor(t) => row_id_cursors[t].next \in Nat
      BY <1>1 DEF HasCursor, TypeOK, IsMap, Cursor
    <3> QED
      BY <3>1, <3>2 DEF NextRowId
  <2>2. catalog[t].columns \in SUBSET Columns
    BY <1>1 DEF TypeOK, IsMap, Schema
  <2>3. data \in Data
    BY <2>2 DEF Data, Maps
  <2> QED
    BY <1>1, <2>1, <2>3, RowsTyped DEF Row
<1>4. /\ WriteIndexMaps(index_maps, dirty_indexes, new)
      /\ disk'.indexes = disk.indexes /\ disk'.index_files = disk.index_files
      /\ index_catalog = disk.indexes
      /\ \A u : RowsIn(disk'.tables, u) = RowsOf(u)'
  BY <1>1, <1>2, DiskFields DEF Insert, MetadataSaved, RowsOf
<1>5. /\ DOMAIN index_maps = DOMAIN index_catalog
      /\ \A i \in DOMAIN index_catalog : index_maps[i] =
            IndexOf(RowsOf(index_catalog[i].table), index_catalog[i].column)
  BY <1>1, <1>2, <1>4 DEF MapsTracked, RebuiltMaps, RowsOf
<1>6. DOMAIN new = IndexesOn(index_catalog, t)
  BY DEF ExtendedMaps
<1>7. row.id = NextRowId(t) /\ row.data = data
  OBVIOUS
<1> HIDE DEF row
<1>8. ASSUME NEW i \in DOMAIN new
      PROVE  new[i] = IndexOf(RowsIn(disk'.tables, disk'.indexes[i].table), disk'.indexes[i].column)
  <2>1. i \in DOMAIN index_catalog /\ index_catalog[i].table = t
    BY <1>6, <1>8 DEF IndexesOn
  <2>2. new[i] = [IndexOf(RowsOf(t), index_catalog[i].column)
                    EXCEPT ![Cell(data, index_catalog[i].column)] = @ \cup {locator}]
    BY <1>5, <1>6, <2>1 DEF ExtendedMaps
  <2>3. locator = [id |-> row.id, pos |-> Len(RowsOf(t)) + 1]
    BY <1>7
  <2> HIDE DEF locator
  <2>4. new[i] = IndexOf(rows, index_catalog[i].column)
    BY <1>3, <1>7, <2>2, <2>3, IndexOfAppended
  <2> QED
    BY <1>2, <1>4, <2>1, <2>4
<1> HIDE DEF rows, new
<1>9. \A i \in DOMAIN disk'.indexes \ DOMAIN new :
         /\ disk'.indexes[i] = disk.indexes[i]
         /\ RowsIn(disk'.tables, disk.indexes[i].table) = RowsOf(disk.indexes[i].table)
  BY <1>2, <1>4, <1>6 DEF IndexesOn
<1>10. DOMAIN disk'.indexes = (DOMAIN disk.indexes \ {}) \cup DOMAIN new
  BY <1>4, <1>6 DEF IndexesOn
<1>11. WriteIndexMaps(index_maps, dirty_indexes \ {}, new) /\ DOMAIN index_maps = DOMAIN index_maps \ {}
  <2>1. dirty_indexes \ {} = dirty_indexes
    OBVIOUS
  <2> QED
    BY <1>4, <2>1
<1>12. MapsTracked' /\ MarkerTracked'
  BY <1>1, <1>2, <1>4, <1>8, <1>9, <1>10, <1>11, MapsRebuilt
<1> QED
  BY <1>2, <1>12 DEF Tracks

---------------------------------------------------------------------------------
(* IndexInv after a call has started *)

LEMMA TrustedIsUnharmed == Trusted => Unharmed
  BY DEF Trusted, Unharmed

LEMMA CallIndexes ==
    ASSUME NEW name, NEW todo, Begins(name, todo),
           Trusted => /\ MapsTracked' /\ MarkerTracked' /\ CleanMarkerSound'
                      /\ txn_dir' => IndexFilesExact(txn_snapshot')
                      /\ name # "open fails"
                      /\ name \in {"open", "close", "begin", "commit"} => MarkerLead'
    PROVE  IndexInv'
<1>1. /\ Trusted' = Trusted /\ writes' = todo
      /\ writes' # {} => call'.name = name
  BY DEF Begins, Trusted
<1> QED
  BY <1>1 DEF IndexInv

\* The calls that work on the index maps, and may change the files beside them
LEMMA TrackingCall ==
    ASSUME CrashInv, OpenInv, IndexInv, NEW name, NEW todo, Begins(name, todo),
           name \notin {"open", "open fails", "close", "begin", "commit"}, MapsKnown => Tracks
    PROVE  IndexInv'
<1>1. ASSUME Trusted
      PROVE  /\ MapsTracked' /\ MarkerTracked' /\ CleanMarkerSound'
             /\ txn_dir' => IndexFilesExact(txn_snapshot')
  <2>1. MapsKnown
    BY <1>1, TrustedIsUnharmed DEF MapsKnown, CrashInv, OpenInv, IndexInv
  <2>2. MapsTracked' /\ MarkerTracked' /\ running' /\ UNCHANGED <<txn_snapshot, txn_dir>>
    BY <2>1 DEF Tracks
  <2>3. CleanMarkerSound'
    BY <2>2, CleanMarkerWhileRunning
  <2> QED
    BY <1>1, <2>2, <2>3 DEF IndexInv
<1> QED
  BY <1>1, CallIndexes

LEMMA OpenIndexes ==
    ASSUME CrashInv, OpenInv, IndexInv, OpenCrash \/ OpenFails
    PROVE  IndexInv'
<1>1. CASE OpenFails
  <2>1. ~running /\ ~marker /\ Unbuildable # {} /\ \E todo : Begins("open fails", todo)
    BY <1>1 DEF OpenFails
  <2>2. OpenSucceeds
    BY InvOpenSucceeds
  <2>3. ~Trusted
    BY <2>1, <2>2 DEF OpenSucceeds, Settled, Begins, Trusted
  <2> QED
    BY <2>1, <2>3, CallIndexes
<1>2. CASE OpenCrash
  <2>1. Open /\ Begins("open", OpenWrites) /\ writes = {}
        /\ files' = files /\ writes' = OpenWrites
    BY <1>2 DEF OpenCrash, Begins
  <2>2. ASSUME Trusted
        PROVE  /\ MapsTracked' /\ MarkerTracked' /\ CleanMarkerSound' /\ ~txn_dir' /\ MarkerLead'
    <3>1. MapsTracked /\ MarkerTracked /\ CleanMarkerSound
      BY <2>2 DEF IndexInv
    <3>2. /\ disk' = disk /\ marker' = FALSE /\ ~txn_dir' /\ running' /\ ~running
          /\ indexes_clean' = indexes_clean
      BY <2>1 DEF Open
    <3>3. indexes_clean' = FALSE
      BY <3>1, <3>2 DEF MarkerTracked, CrashInv, TypeOK
    <3>4. MarkerTracked' /\ CleanMarkerSound'
      BY <3>2, <3>3 DEF MarkerTracked, CleanMarkerSound
    <3>5. MapsTracked'
      <4>1. CASE marker /\ index_maps' = LoadedMaps(disk) /\ dirty_indexes' = {}
        <5>1. IndexFilesExact(disk)
          BY <3>1, <4>1 DEF CleanMarkerSound
        <5>2. index_maps' = RebuiltMaps(disk)
          BY <4>1, <5>1, ExactFilesLoad
        <5> QED
          BY <3>2, <4>1, <5>1, <5>2, RebuiltAt DEF MapsTracked, IndexFilesExact
      <4>2. CASE index_maps' = RebuiltMaps(disk) /\ dirty_indexes' = DOMAIN disk.indexes
        BY <3>2, <4>2, RebuiltAt DEF MapsTracked
      <4> QED
        BY <2>1, <4>1, <4>2 DEF Open
    <3>6. MarkerFile \in DOMAIN files' => IndexFilesExact(disk')
      BY <2>1, <3>1, <3>2, BeforeCall DEF CleanMarkerSound
    <3>7. ASSUME NEW step \in writes'
          PROVE  step.write = DropSnapshot \/ step.write = RemoveFile(MarkerFile)
      BY <2>1, StageOf DEF OpenWrites, DropSnapshotIfThere, RemoveIfThere, DoIf
    <3>8. /\ \A path : path # MarkerFile =>
                ~Alters(DropSnapshot, path) /\ ~Alters(RemoveFile(MarkerFile), path)
          /\ DropSnapshot # WriteFile(MarkerFile, TRUE)
          /\ RemoveFile(MarkerFile) # WriteFile(MarkerFile, TRUE)
      <4>1. \A path : path # MarkerFile => ~Alters(RemoveFile(MarkerFile), path)
        BY AltersRemove
      <4>2. \A path : ~Alters(DropSnapshot, path)
        BY AltersNothing
      <4>3. /\ WriteFile(MarkerFile, TRUE)[1] = "write" /\ RemoveFile(MarkerFile)[1] = "remove"
            /\ DropSnapshot[1] = "drop snapshot"
        BY WriteIs, RemoveIs, SnapshotIs
      <4> QED
        BY <4>1, <4>2, <4>3
    <3>9. \A step \in writes' :
             /\ step.write # WriteFile(MarkerFile, TRUE)
             /\ \A path \in Paths \ {MarkerFile} : ~Alters(step.write, path)
      BY <3>7, <3>8
    <3>10. MarkerLead'
      BY <3>6, <3>9 DEF MarkerLead, Pending
    <3> QED
      BY <3>2, <3>4, <3>5, <3>10
  <2> QED
    BY <2>1, <2>2, CallIndexes
<1> QED
  BY <1>1, <1>2

\* Once the dirty maps are flushed every index file is exact.
LEMMA FlushedExact ==
    ASSUME MapsTracked, running, disk'.indexes = disk.indexes, disk'.tables = disk.tables,
           disk'.index_files = FlushedFiles
    PROVE  RebuiltMaps(disk') = index_maps /\ IndexFilesExact(disk')
<1>1. RebuiltMaps(disk') = index_maps
  BY DEF MapsTracked, RebuiltMaps
<1>2. \A i \in DOMAIN index_maps :
         i \in DOMAIN disk'.index_files /\ disk'.index_files[i] = index_maps[i]
  BY FlushedFilesExact
<1> QED
  BY <1>1, <1>2, CleanFilesExact

\* The marker comes after the maps, and is there before only if none is dirty.
LEMMA FlushLead ==
    ASSUME CrashInv, MarkerTracked, running, writes = {}, files' = files, IndexFilesExact(disk'),
           \A step \in writes' : step \in FlushWrites \/ (\A path : ~Alters(step.write, path))
    PROVE  MarkerLead'
<1>1. ASSUME NEW step \in writes', NEW path, path # MarkerFile, Alters(step.write, path)
      PROVE  step.stage = 1 /\ MarkerFile \notin DOMAIN files'
  <2>1. step \in FlushWrites
    BY <1>1
  <2>2. ~Alters(WriteFile(MarkerFile, TRUE), path)
    BY <1>1, AltersWrite
  <2>3. step \in At(1, DirtyMaps)
    <3>1. step \in At(2, {WriteFile(MarkerFile, TRUE)}) => step.write = WriteFile(MarkerFile, TRUE)
      BY StageOf
    <3> QED
      BY <1>1, <2>1, <2>2, <3>1 DEF FlushWrites
  <2>4. step.stage = 1 /\ step.write \in DirtyMaps
    BY <2>3, StageOf
  <2>5. dirty_indexes # {}
    BY <2>4 DEF DirtyMaps
  <2>6. marker = (MarkerFile \in DOMAIN files)
    BY BeforeCall
  <2> QED
    BY <2>4, <2>5, <2>6 DEF MarkerTracked
<1>2. ASSUME NEW step \in writes', step.write = WriteFile(MarkerFile, TRUE)
      PROVE  step.stage = 2
  <2>1. Alters(WriteFile(MarkerFile, TRUE), MarkerFile)
    BY AltersWrite
  <2>2. step \in FlushWrites
    BY <1>2, <2>1
  <2>3. ASSUME step \in At(1, DirtyMaps)
        PROVE  FALSE
    <3>1. PICK i : step.write = WriteFile(IndexFile(i), index_maps[i])
      BY <2>3, StageOf DEF DirtyMaps
    <3>2. WriteFile(IndexFile(i), index_maps[i])[2] = IndexFile(i)
          /\ WriteFile(MarkerFile, TRUE)[2] = MarkerFile
      BY WriteIs
    <3>3. IndexFile(i) # MarkerFile
      BY PathKinds
    <3> QED
      BY <1>2, <3>1, <3>2, <3>3
  <2>4. step \in At(2, {WriteFile(MarkerFile, TRUE)})
    BY <2>2, <2>3 DEF FlushWrites
  <2> QED
    BY <2>4, StageOf
<1>3. ASSUME MarkerFile \in DOMAIN files'
      PROVE  \A w \in Pending' : \A path \in Paths \ {MarkerFile} : ~Alters(w, path)
  BY <1>1, <1>3 DEF Pending
<1>4. ASSUME NEW step \in writes', step.write = WriteFile(MarkerFile, TRUE), NEW other \in writes',
             NEW path \in Paths \ {MarkerFile}, Alters(other.write, path)
      PROVE  other.stage < step.stage
  <2>1. step.stage = 2 /\ other.stage = 1
    BY <1>1, <1>2, <1>4
  <2> QED
    BY <2>1
<1> QED
  BY <1>3, <1>4 DEF MarkerLead

LEMMA CloseIndexes ==
    ASSUME CrashInv, OpenInv, IndexInv, CloseCrash
    PROVE  IndexInv'
<1>1. Close /\ Begins("close", FlushWrites) /\ writes = {}
      /\ files' = files /\ writes' = FlushWrites
  BY DEF CloseCrash, Begins
<1>2. ASSUME Trusted
      PROVE  MapsTracked' /\ MarkerTracked' /\ CleanMarkerSound' /\ ~txn_dir' /\ MarkerLead'
  <2>1. MapsTracked /\ MarkerTracked /\ TypeOK
    BY <1>2 DEF IndexInv, CrashInv
  <2>2. /\ running /\ ~running' /\ ~txn_dir' /\ indexes_clean' = FALSE
        /\ disk'.indexes = disk.indexes /\ disk'.tables = disk.tables
        /\ disk'.index_files = FlushedFiles
    BY <1>1, <2>1, DiskFields DEF Close, Forget
  <2>3. IndexFilesExact(disk')
    BY <2>1, <2>2, FlushedExact
  <2>4. MarkerLead'
    BY <1>1, <2>1, <2>2, <2>3, FlushLead
  <2> QED
    BY <2>2, <2>3, <2>4 DEF MapsTracked, MarkerTracked, CleanMarkerSound
<1> QED
  BY <1>1, <1>2, CallIndexes

LEMMA BeginIndexes ==
    ASSUME CrashInv, OpenInv, IndexInv, BeginCrash
    PROVE  IndexInv'
<1>1. BeginTransaction /\ Begins("begin", BeginWrites) /\ writes = {}
      /\ files' = files /\ writes' = BeginWrites
  BY DEF BeginCrash, Begins
<1>2. ASSUME Trusted
      PROVE  /\ MapsTracked' /\ MarkerTracked' /\ CleanMarkerSound' /\ MarkerLead'
             /\ IndexFilesExact(txn_snapshot')
  <2>1. MapsTracked /\ MarkerTracked /\ TypeOK
    BY <1>2 DEF IndexInv, CrashInv
  <2>2. /\ running /\ running' /\ marker' = TRUE /\ indexes_clean' = TRUE /\ dirty_indexes' = {}
        /\ index_maps' = index_maps /\ txn_snapshot' = disk'
        /\ disk'.indexes = disk.indexes /\ disk'.tables = disk.tables
        /\ disk'.index_files = FlushedFiles
    BY <1>1, <2>1, DiskFields DEF BeginTransaction, FlushIndexes, Copied
  <2>3. RebuiltMaps(disk') = index_maps /\ IndexFilesExact(disk')
    BY <2>1, <2>2, FlushedExact
  <2>4. MapsTracked'
    BY <2>2, <2>3, RebuiltAt DEF MapsTracked, IndexFilesExact
  <2>5. ASSUME NEW step \in BeginWrites
        PROVE  step \in FlushWrites \/ (\A path : ~Alters(step.write, path))
    <3>1. CASE step \in FlushWrites
      BY <3>1
    <3>2. CASE step.write = DropSnapshot \/ step.write = MakeSnapshot \/ \E p : step.write = Copy(p)
      BY <3>2, AltersNothing
    <3>3. /\ step \in At(3, DropSnapshotIfThere) => step.write = DropSnapshot
          /\ step \in At(4, {MakeSnapshot}) => step.write = MakeSnapshot
      BY StageOf DEF DropSnapshotIfThere, DoIf
    <3>4. ASSUME NEW n, NEW path, step \in At(n, DoIf(path \in ToCopy, Copy(path)))
          PROVE  step.write = Copy(path)
      BY <3>4, StageOf DEF DoIf
    <3>5. ASSUME step \in At(8, {Copy(path) : path \in ToCopy \ Metadata})
          PROVE  \E p : step.write = Copy(p)
      BY <3>5, StageOf
    <3> QED
      BY <3>1, <3>2, <3>3, <3>4, <3>5 DEF BeginWrites
  <2>6. MarkerLead'
    BY <1>1, <2>1, <2>2, <2>3, <2>5, FlushLead
  <2> QED
    BY <2>2, <2>3, <2>4, <2>6 DEF MarkerTracked, CleanMarkerSound
<1> QED
  BY <1>1, <1>2, CallIndexes

LEMMA CommitIndexes ==
    ASSUME CrashInv, OpenInv, IndexInv, CommitCrash
    PROVE  IndexInv'
<1>1. CommitTransaction /\ Begins("commit", At(1, {DropSnapshot})) /\ writes = {}
      /\ files' = files /\ writes' = At(1, {DropSnapshot})
  BY DEF CommitCrash, Begins
<1>2. ASSUME Trusted
      PROVE  MapsTracked' /\ MarkerTracked' /\ CleanMarkerSound' /\ ~txn_dir' /\ MarkerLead'
  <2>1. MapsTracked /\ MarkerTracked /\ CleanMarkerSound
    BY <1>2 DEF IndexInv
  <2>2. /\ disk' = disk /\ ~txn_dir'
        /\ UNCHANGED <<marker, index_maps, dirty_indexes, indexes_clean, running>>
    BY <1>1 DEF CommitTransaction
  <2>3. MarkerFile \in DOMAIN files' => IndexFilesExact(disk')
    BY <1>1, <2>1, <2>2, BeforeCall DEF CleanMarkerSound
  <2>4. \A step \in writes' : step.write = DropSnapshot
    BY <1>1, StageOf
  <2>5. DropSnapshot # WriteFile(MarkerFile, TRUE) /\ \A path : ~Alters(DropSnapshot, path)
    BY AltersNothing, WriteIs, SnapshotIs
  <2>6. MarkerLead'
    BY <2>3, <2>4, <2>5 DEF MarkerLead, Pending
  <2> QED
    BY <2>1, <2>2, <2>6 DEF MapsTracked, MarkerTracked, CleanMarkerSound
<1> QED
  BY <1>1, <1>2, CallIndexes

LEMMA RollbackIndexes ==
    ASSUME CrashInv, OpenInv, IndexInv, RollbackCrash
    PROVE  IndexInv'
<1>1. RollbackTransaction /\ Begins("rollback", RollbackWrites)
  BY DEF RollbackCrash
<1>2. ASSUME Trusted
      PROVE  MapsTracked' /\ MarkerTracked' /\ CleanMarkerSound' /\ ~txn_dir'
  <2>1. MarkerTracked
    BY <1>2 DEF IndexInv
  <2>2. /\ txn_dir /\ running /\ running' /\ ~txn_dir' /\ disk' = txn_snapshot /\ dirty_indexes' = {}
        /\ index_maps' = LoadedMaps(disk') /\ UNCHANGED <<marker, indexes_clean>>
    BY <1>1 DEF RollbackTransaction
  <2>3. IndexFilesExact(disk')
    BY <1>2, <2>2 DEF IndexInv
  <2>4. index_maps' = RebuiltMaps(disk')
    BY <2>2, <2>3, ExactFilesLoad
  <2>5. MapsTracked'
    BY <2>2, <2>3, <2>4, RebuiltAt DEF MapsTracked, IndexFilesExact
  <2> QED
    BY <2>1, <2>2, <2>3, <2>5 DEF MarkerTracked, CleanMarkerSound
<1> QED
  BY <1>1, <1>2, CallIndexes

LEMMA ExitIndexes ==
    ASSUME CrashInv, OpenInv, IndexInv, ExitCrash
    PROVE  IndexInv'
<1>1. Exit /\ Begins("exit", {})
  BY DEF ExitCrash
<1>2. ASSUME Trusted
      PROVE  MapsTracked' /\ MarkerTracked' /\ CleanMarkerSound' /\ ~txn_dir'
  <2>1. /\ ~running' /\ ~txn_dir' /\ indexes_clean' = FALSE /\ UNCHANGED <<disk, marker>>
    BY <1>1 DEF Exit, Forget
  <2> QED
    BY <1>2, <2>1 DEF IndexInv, MapsTracked, MarkerTracked, CleanMarkerSound
<1> QED
  BY <1>1, <1>2, CallIndexes

---------------------------------------------------------------------------------
(* The next write, a kill, and the indexes *)

\* The marker appears by the write that creates it, and no other.
LEMMA MarkerAppears ==
    ASSUME NEW step, Writing(step), CrashInv, ~RollingBack,
           MarkerFile \in DOMAIN files', MarkerFile \notin DOMAIN files
    PROVE  step.write = WriteFile(MarkerFile, TRUE) /\ marker
<1>1. /\ StagesOK /\ DirectoryOK(files) /\ IsFiles(disk) /\ step \in writes /\ MarkerFile \in Paths
      /\ \A other \in writes : StepFits(other)
  BY PathsAre DEF CrashInv, StagesOK, TypeOK, WritesLead, Writing
<1>2. Alters(step.write, MarkerFile)
  <2>1. ~Alters(step.write, MarkerFile) => SameFile(MarkerFile)
    BY <1>1, FilesAfterWrite
  <2> QED
    BY <2>1 DEF SameFile
<1>3. DirectoryOK(files')
  BY <1>1, FilesAfterWrite
<1>4. \A t : MarkerFile # TableFile(t) /\ MarkerFile # RewriteFile(t)
  BY PathKinds
<1>5. marker
  <2>1. \/ Arrived(files', disk, marker, MarkerFile)
        \/ \E t \in Tables : MarkerFile \in {TableFile(t), RewriteFile(t)} /\ Rename(t) \in Pending'
    BY <1>1, <1>2, FilesAfterWrite
  <2>2. Arrived(files', disk, marker, MarkerFile)
    BY <1>4, <2>1
  <2> QED
    BY <2>2, ArrivedMetadata
<1>6. (\E path : step.write = RemoveFile(path)) \/ \E path, content : step.write = WriteFile(path, content)
  <2>1. \A t : step.write # Rename(t)
    BY <1>2, <1>4, AltersRename
  <2>2. \A t, row : step.write # AppendLine(t, row)
    BY <1>2, <1>4, AltersAppend
  <2>3. /\ \A t : step.write # EndLine(t) 
        /\ \A p : step.write # Copy(p)
        /\ step.write # MakeSnapshot /\ step.write # DropSnapshot
    BY <1>2, AltersNothing
  <2> QED
    BY <1>1, <2>1, <2>2, <2>3, WriteKinds
<1>7. files' = FilesAfter(step.write)
  BY DEF Writing
<1>8. ASSUME NEW path, step.write = RemoveFile(path)
      PROVE  FALSE
  <2>1. path = MarkerFile
    BY <1>2, <1>8, AltersRemove
  <2>2. MarkerFile \notin DOMAIN files'
    BY <1>7, <1>8, <2>1, RemoveLeaves
  <2> QED
    BY <2>2
<1>9. PICK path, content : step.write = WriteFile(path, content)
  BY <1>6, <1>8
<1>10. path = MarkerFile
  BY <1>2, <1>9, AltersWrite
<1>11. files'[MarkerFile] = content
  BY <1>7, <1>9, <1>10, WriteLeaves
<1>12. content = TRUE
  BY <1>3, <1>11, ContentsOf DEF DirectoryOK
<1> QED
  BY <1>5, <1>9, <1>10, <1>12

LEMMA WriteStepIndexes ==
    ASSUME CrashInv, OpenInv, IndexInv, WriteStep
    PROVE  IndexInv'
<1>1. PICK step \in writes : Writing(step)
  BY DEF WriteStep, Writing
<1>2. /\ harm' = harm /\ writes' = writes \ {step} /\ call' = IF writes' = {} THEN NoCall ELSE call
      /\ disk' = disk /\ marker' = marker /\ txn_snapshot' = txn_snapshot /\ txn_dir' = txn_dir
      /\ index_maps' = index_maps /\ dirty_indexes' = dirty_indexes
      /\ indexes_clean' = indexes_clean /\ running' = running
      /\ \A other \in writes : step.stage <= other.stage
  BY <1>1 DEF WriteStep, Writing, vars, memory
<1>3. ASSUME Trusted, writes' # {}, call'.name \in {"open", "close", "begin", "commit"}
      PROVE  MarkerLead'
  <2>1. writes # {} /\ call' = call /\ MarkerLead /\ CleanMarkerSound /\ ~RollingBack
    BY <1>2, <1>3 DEF IndexInv, RollingBack
  <2>2. ASSUME MarkerFile \in DOMAIN files'
        PROVE  IndexFilesExact(disk')
    <3>1. CASE MarkerFile \in DOMAIN files
      BY <1>2, <2>1, <3>1 DEF MarkerLead
    <3>2. CASE MarkerFile \notin DOMAIN files
      <4>1. marker
        BY <1>1, <2>1, <2>2, <3>2, MarkerAppears
      <4> QED
        BY <1>2, <2>1, <4>1 DEF CleanMarkerSound
    <3> QED
      BY <3>1, <3>2
  <2>3. ASSUME MarkerFile \in DOMAIN files', NEW other \in writes', NEW path \in Paths \ {MarkerFile}
        PROVE  ~Alters(other.write, path)
    <3>1. other \in writes /\ step.stage <= other.stage
      BY <1>2
    <3>2. CASE MarkerFile \in DOMAIN files
      BY <2>1, <3>1, <3>2 DEF MarkerLead, Pending
    <3>3. CASE MarkerFile \notin DOMAIN files
      <4>1. step.write = WriteFile(MarkerFile, TRUE)
        BY <1>1, <2>1, <2>3, <3>3, MarkerAppears
      <4>2. Alters(other.write, path) => other.stage < step.stage
        BY <2>1, <3>1, <4>1 DEF MarkerLead
      <4>3. other.stage \in Nat /\ step.stage \in Nat
        BY <3>1 DEF CrashInv
      <4>4. ~(other.stage < step.stage)
        BY <3>1, <4>3
      <4> QED
        BY <4>2, <4>4
    <3> QED
      BY <3>2, <3>3
  <2>4. ASSUME NEW s \in writes', s.write = WriteFile(MarkerFile, TRUE), NEW other \in writes',
               NEW path \in Paths \ {MarkerFile}, Alters(other.write, path)
        PROVE  other.stage < s.stage
    BY <1>2, <2>1, <2>4 DEF MarkerLead
  <2> QED
    BY <2>2, <2>3, <2>4 DEF MarkerLead, Pending
<1>4. ASSUME Trusted
      PROVE  /\ MapsTracked' /\ MarkerTracked' /\ CleanMarkerSound'
             /\ txn_dir' => IndexFilesExact(txn_snapshot')
             /\ writes' # {} => call'.name # "open fails"
  BY <1>2, <1>4 DEF IndexInv, MapsTracked, MarkerTracked, CleanMarkerSound
<1>5. Trusted' = Trusted
  BY <1>2 DEF Trusted
<1> QED
  BY <1>3, <1>4, <1>5 DEF IndexInv

LEMMA ArrivedBeside ==
    ASSUME NEW fs, NEW d, NEW m, NEW n, NEW path, path # MarkerFile, Arrived(fs, d, m, path)
    PROVE  Arrived(fs, d, n, path)
  BY DEF Arrived, Leaves, LeavesNo

\* A kill that leaves the marker, and is not in its window, leaves the files
\* that the call leads to: index files that are exact among them.
LEMMA MarkerLeftSound ==
    ASSUME CrashInv, writes # {}, MarkerLead, ~RollingBack, MarkerFile \in DOMAIN files
    PROVE  IndexFilesExact(AsDisk(files))
<1>1. /\ DirectoryOK(files) /\ IsFiles(disk) /\ WritesLead
  BY DEF CrashInv, TypeOK
<1>2. IndexFilesExact(disk)
  BY DEF MarkerLead
<1>3. ASSUME NEW path \in Paths
      PROVE  Arrived(files, disk, TRUE, path)
  <2>1. CASE path = MarkerFile
    BY <2>1, ArrivedMetadata
  <2>2. CASE path # MarkerFile
    <3>1. ~Altered(path)
      BY <2>2 DEF MarkerLead, Altered
    <3>2. Arrived(files, disk, marker, path)
      BY <1>1, <3>1 DEF WritesLead
    <3> QED
      BY <2>2, <3>2, ArrivedBeside
  <2> QED
    BY <2>1, <2>2
<1>4. AsDisk(files) = disk
  <2>1. TRUE \in BOOLEAN
    OBVIOUS
  <2> QED
    BY <1>1, <1>3, <2>1, AllArrived
<1> QED
  BY <1>2, <1>4

LEMMA KillIndexes ==
    ASSUME CrashInv, OpenInv, IndexInv, Kill
    PROVE  IndexInv'
<1>1. /\ writes # {} /\ writes' = {} /\ harm' = harm \cup Windows
      /\ ~running' /\ ~txn_dir' /\ indexes_clean' = FALSE
      /\ disk' = AsDisk(files) /\ marker' = (MarkerFile \in DOMAIN files)
  BY DEF Kill, Forget
<1>2. ASSUME Trusted', MarkerFile \in DOMAIN files
      PROVE  IndexFilesExact(disk')
  <2>1. Trusted /\ "marker" \notin Windows
    BY <1>1, <1>2 DEF Trusted
  <2>2. call.name \in {"open", "open fails", "close", "begin", "commit"}
    BY <1>2, <2>1 DEF Windows
  <2>3. MarkerLead /\ ~RollingBack
    BY <1>1, <2>1, <2>2 DEF IndexInv, RollingBack
  <2> QED
    BY <1>1, <1>2, <2>3, MarkerLeftSound
<1> QED
  BY <1>1, <1>2 DEF IndexInv, MapsTracked, MarkerTracked, CleanMarkerSound

---------------------------------------------------------------------------------
(* Every step, and the indexes *)

LEMMA ReadingIndexes ==
    ASSUME CrashInv, OpenInv, IndexInv, TypeOK', NEW t, Reading(t)
    PROVE  IndexInv'
<1>1. ASSUME NEW i, NEW c, CreateIndexCrash(i, t, c)
      PROVE  IndexInv'
  <2>1. CreateIndex(i, t, c) /\ \E todo : Begins("create index", todo)
    BY <1>1 DEF CreateIndexCrash
  <2> QED
    BY <2>1, CreateIndexTracks, TrackingCall
<1>2. ASSUME NEW c, NEW default, AddColumnCrash(t, c, default)
      PROVE  IndexInv'
  <2>1. AddColumn(t, c, default) /\ \E todo : Begins("add column", todo)
    BY <1>2 DEF AddColumnCrash
  <2> QED
    BY <2>1, AddColumnTracks, TrackingCall
<1>3. ASSUME NEW c, DropColumnCrash(t, c)
      PROVE  IndexInv'
  <2>1. DropColumn(t, c) /\ \E todo : Begins("drop column", todo)
    BY <1>3 DEF DropColumnCrash
  <2> QED
    BY <2>1, DropColumnTracks, TrackingCall
<1>4. ASSUME NEW c, NEW new, RenameColumnCrash(t, c, new)
      PROVE  IndexInv'
  <2>1. RenameColumn(t, c, new) /\ \E todo : Begins("rename column", todo)
    BY <1>4 DEF RenameColumnCrash
  <2> QED
    BY <2>1, RenameColumnTracks, TrackingCall
<1>5. ASSUME NEW where, DeleteCrash(t, where)
      PROVE  IndexInv'
  <2>1. Delete(t, where) /\ \E todo : Begins("delete", todo)
    BY <1>5 DEF DeleteCrash
  <2> QED
    BY <2>1, DeleteTracks, TrackingCall
<1>6. ASSUME NEW where, NEW assignments, UpdateCrash(t, where, assignments)
      PROVE  IndexInv'
  <2>1. Update(t, where, assignments) /\ \E todo : Begins("update", todo)
    BY <1>6 DEF UpdateCrash
  <2> QED
    BY <2>1, UpdateTracks, TrackingCall
<1> QED
  BY <1>1, <1>2, <1>3, <1>4, <1>5, <1>6 DEF Reading

LEMMA IndexNextSafe == CrashInv /\ OpenInv /\ IndexInv /\ [CrashNext]_crash_vars => IndexInv'
<1> SUFFICES ASSUME CrashInv, OpenInv, IndexInv, [CrashNext]_crash_vars PROVE IndexInv'
  OBVIOUS
<1>1. TypeOK'
  BY CrashNextSafe DEF CrashInv
<1>2. CASE OpenCrash \/ OpenFails \/ CloseCrash \/ ExitCrash \/ BeginCrash \/ CommitCrash \/ RollbackCrash
  BY <1>2, OpenIndexes, CloseIndexes, ExitIndexes, BeginIndexes, CommitIndexes, RollbackIndexes
<1>3. ASSUME NEW i, DropIndexCrash(i)
      PROVE  IndexInv'
  <2>1. DropIndex(i) /\ \E todo : Begins("drop index", todo)
    BY <1>3 DEF DropIndexCrash
  <2> QED
    BY <1>1, <2>1, DropIndexTracks, TrackingCall
<1>4. ASSUME NEW t, NEW columns, CreateTableCrash(t, columns)
      PROVE  IndexInv'
  <2>1. CreateTable(t, columns) /\ \E todo : Begins("create table", todo)
    BY <1>4 DEF CreateTableCrash
  <2> QED
    BY <1>1, <2>1, CreateTableTracks, TrackingCall
<1>5. ASSUME NEW t, DropTableCrash(t)
      PROVE  IndexInv'
  <2>1. DropTable(t) /\ \E todo : Begins("drop table", todo)
    BY <1>5 DEF DropTableCrash
  <2> QED
    BY <1>1, <2>1, DropTableTracks, TrackingCall
<1>6. ASSUME NEW t \in Tables, t \in DOMAIN catalog, NEW data \in [catalog[t].columns -> Val],
             InsertCrash(t, data)
      PROVE  IndexInv'
  <2>1. Insert(t, data) /\ \E todo : Begins("insert", todo)
    BY <1>6 DEF InsertCrash
  <2>2. MapsKnown => Tracks
    BY <1>1, <1>6, <2>1, InsertTracks
  <2> QED
    BY <2>1, <2>2, TrackingCall
<1>7. ASSUME NEW t \in Tables,
             \/ \E columns \in (SUBSET Columns) \ {{}} : CreateTableCrash(t, columns)
             \/ DropTableCrash(t) \/ UpdateFailsCrash(t) \/ Reading(t) \/ FailingToRead(t)
             \/ t \in DOMAIN catalog /\ \E data \in [catalog[t].columns -> Val] : InsertCrash(t, data)
      PROVE  IndexInv'
  <2>1. CASE UpdateFailsCrash(t)
    <3>1. UpdateFails(t) /\ \E todo : Begins("update fails", todo)
      BY <2>1 DEF UpdateFailsCrash
    <3> QED
      BY <1>1, <3>1, UpdateFailsTracks, TrackingCall
  <2>2. CASE FailingToRead(t)
    <3>1. "line" \in harm'
      BY <2>2, FailingByHarm DEF OpenInv
    <3> QED
      BY <3>1 DEF IndexInv, Trusted
  <2> QED
    BY <1>1, <1>4, <1>5, <1>6, <1>7, <2>1, <2>2, ReadingIndexes
<1>8. CASE WriteStep \/ Kill
  BY <1>8, WriteStepIndexes, KillIndexes
<1>9. CASE UNCHANGED crash_vars
  <2>1. /\ disk' = disk /\ files' = files /\ writes' = writes /\ call' = call /\ harm' = harm
        /\ txn_dir' = txn_dir /\ txn_snapshot' = txn_snapshot /\ marker' = marker
        /\ index_maps' = index_maps /\ dirty_indexes' = dirty_indexes
        /\ indexes_clean' = indexes_clean /\ running' = running
    BY <1>9 DEF crash_vars, vars, memory
  <2>2. /\ MapsTracked' = MapsTracked /\ MarkerTracked' = MarkerTracked
        /\ CleanMarkerSound' = CleanMarkerSound /\ Trusted' = Trusted /\ MarkerLead' = MarkerLead
    BY <2>1 DEF MapsTracked, MarkerTracked, CleanMarkerSound, Trusted, MarkerLead, Pending
  <2> QED
    BY <2>1, <2>2 DEF IndexInv
<1> QED
  BY <1>2, <1>3, <1>7, <1>8, <1>9 DEF CrashNext

LEMMA IndexInit == CrashInit => IndexInv
<1> SUFFICES ASSUME CrashInit PROVE IndexInv
  OBVIOUS
<1>1. ~running /\ marker = FALSE /\ indexes_clean = FALSE /\ ~txn_dir /\ writes = {}
  BY DEF CrashInit, Init
<1> QED
  BY <1>1 DEF IndexInv, MapsTracked, MarkerTracked, CleanMarkerSound

LEMMA InvIndexesSound == CrashInv /\ IndexInv => IndexesSoundAfterKills
<1> SUFFICES ASSUME CrashInv, IndexInv, Trusted
             PROVE  IndexedReadsAgree /\ CleanMarkerSound
  BY DEF IndexesSoundAfterKills, Trusted
<1>1. MapsTracked /\ MetadataSaved /\ CleanMarkerSound
  BY DEF IndexInv, CrashInv
<1>2. ASSUME running, NEW i \in DOMAIN index_catalog \cap DOMAIN index_maps, NEW v \in Val
      PROVE  PositionsAt(index_catalog[i].table, index_maps[i][v]) =
               {j \in DOMAIN RowsOf(index_catalog[i].table) :
                   Cell(RowsOf(index_catalog[i].table)[j].data, index_catalog[i].column) = v}
  <2>1. index_maps[i] = IndexOf(RowsOf(index_catalog[i].table), index_catalog[i].column)
    BY <1>1, <1>2, RebuiltAt DEF MapsTracked, MetadataSaved, RowsOf
  <2> QED
    BY <2>1, IndexNamesPositions
<1>3. IndexedReadsAgree
  BY <1>2 DEF IndexedReadsAgree
<1> QED
  BY <1>1, <1>3

\* At every moment of every call, in a directory no kill in the windows "marker",
\* "rollback" and "line" has touched: the maps in memory are exact, those not dirty
\* are on disk, and the calls that change no row have the marker only beside index
\* files that are exact (write_index_map removes it, storage.rs:932-946, and
\* flush_indexes creates it last, :74-83).
THEOREM IndexesAlwaysTracked == CrashSpec => []IndexInv
<1>1. CrashInit => CrashInv /\ OpenInv /\ IndexInv
  BY CrashInitSafe, OpenInit, IndexInit
<1>2. CrashInv /\ OpenInv /\ IndexInv /\ [CrashNext]_crash_vars => (CrashInv /\ OpenInv /\ IndexInv)'
  BY CrashNextSafe, OpenNextSafe, IndexNextSafe
<1> QED
  BY <1>1, <1>2, PTL DEF CrashSpec

\* Wherever processes were killed, but for those windows, a lookup through an
\* index reads exactly the rows a scan finds, and the marker that is left is to be
\* trusted by the next open (Storage::open, storage.rs:64-70; find_indexed_locators,
\* :416).
THEOREM IndexesAlwaysSoundAfterKills == CrashSpec => []IndexesSoundAfterKills
<1> QED
  BY InvIndexesSound, CrashInvariantHolds, IndexesAlwaysTracked, PTL
=================================================================================
