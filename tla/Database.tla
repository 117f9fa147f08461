-------------------------------- MODULE Database --------------------------------
(***************************************************************************)
(* What FluxDB's storage promises: tables of rows, indexes that are only   *)
(* definitions (an answer never depends on them), a log of the schema      *)
(* changes, and transactions that a ROLLBACK undoes as a whole.            *)
(*                                                                         *)
(* No file, cache, locator, row id or marker appears here. Storage.tla     *)
(* implements this specification (StorageRefinement.tla).                  *)
(***************************************************************************)
EXTENDS Relational

CONSTANT NoTransaction

VARIABLES
    db,      \* the current contents
    saved    \* the contents at BEGIN, or NoTransaction

vars == <<db, saved>>

\* schema: the columns of each table; rows: each table's rows, in order;
\* indexes: the index definitions; log: the schema changes, in order.
IsContents(d) ==
    /\ d = [schema |-> d.schema, rows |-> d.rows, indexes |-> d.indexes, log |-> d.log]
    /\ IsMap(d.schema, Tables, SUBSET Columns)
    /\ IsMap(d.rows, Tables, Seq(Data))
    /\ IsMap(d.indexes, IndexNames, IndexDefinition)
    /\ d.log \in Seq(Changes)

TypeOK == IsContents(db) /\ (saved # NoTransaction => IsContents(saved))

Init ==
    /\ db = [schema |-> EmptyMap, rows |-> EmptyMap, indexes |-> EmptyMap, log |-> <<>>]
    /\ saved = NoTransaction

Exists(t) == t \in DOMAIN db.schema

CreateTable(t, columns) ==
    /\ ~Exists(t)
    /\ db' = [db EXCEPT !.schema = Put(@, t, columns), !.rows = Put(@, t, <<>>),
                        !.log = Append(@, Change("CREATE_TABLE", t, columns, {}, {}))]
    /\ UNCHANGED saved

DropTable(t) ==
    /\ Exists(t)
    /\ db' = [db EXCEPT !.schema = Without(@, {t}), !.rows = Without(@, {t}),
                        !.indexes = Without(@, IndexesOn(@, t)),
                        !.log = Append(@, Change("DROP_TABLE", t, {}, {}, {}))]
    /\ UNCHANGED saved

CreateIndex(i, t, c) ==
    /\ Exists(t) /\ c \in db.schema[t]
    /\ i \notin DOMAIN db.indexes /\ IndexesOnColumn(db.indexes, t, c) = {}
    /\ db' = [db EXCEPT !.indexes = Put(@, i, [table |-> t, column |-> c]),
                        !.log = Append(@, Change("CREATE_INDEX", t, {c}, {}, {i}))]
    /\ UNCHANGED saved

DropIndex(i) ==
    /\ i \in DOMAIN db.indexes
    /\ db' = [db EXCEPT !.indexes = Without(@, {i}),
                        !.log = Append(@, Change("DROP_INDEX", db.indexes[i].table, {}, {}, {i}))]
    /\ UNCHANGED saved

AddColumn(t, c, default) ==
    /\ Exists(t) /\ c \notin db.schema[t]
    /\ db' = [db EXCEPT
        !.schema[t] = @ \cup {c},
        !.rows[t] = [i \in DOMAIN @ |-> WithColumn(@[i], c, default)],
        !.log = Append(@, Change("ALTER_TABLE_ADD_COLUMN", t, {c}, {}, {}))]
    /\ UNCHANGED saved

DropColumn(t, c) ==
    /\ Exists(t) /\ c \in db.schema[t] /\ db.schema[t] # {c}
    /\ db' = [db EXCEPT
        !.schema[t] = @ \ {c},
        !.rows[t] = [i \in DOMAIN @ |-> WithoutColumn(@[i], c)],
        !.indexes = Without(@, IndexesOnColumn(@, t, c)),
        !.log = Append(@, Change("ALTER_TABLE_DROP_COLUMN", t, {c}, {}, {}))]
    /\ UNCHANGED saved

RenameColumn(t, old, new) ==
    /\ Exists(t) /\ old \in db.schema[t] /\ new \notin db.schema[t]
    /\ db' = [db EXCEPT
        !.schema[t] = (@ \ {old}) \cup {new},
        !.rows[t] = [i \in DOMAIN @ |-> WithRenamed(@[i], old, new)],
        !.indexes = [i \in DOMAIN @ |->
                        IF i \in IndexesOnColumn(@, t, old) THEN [@[i] EXCEPT !.column = new] ELSE @[i]],
        !.log = Append(@, Change("ALTER_TABLE_RENAME_COLUMN", t, {old}, {new}, {}))]
    /\ UNCHANGED saved

Insert(t, data) ==
    /\ Exists(t)
    /\ db' = [db EXCEPT !.rows[t] = Append(@, data)]
    /\ UNCHANGED saved

Update(t, where, assignments) ==
    /\ Exists(t)
    /\ db' = [db EXCEPT !.rows[t] = [i \in DOMAIN @ |-> Updated(@[i], where, assignments)]]
    /\ UNCHANGED saved

Delete(t, where) ==
    /\ Exists(t)
    /\ \E rows \in Kept(db.rows[t], {i \in DOMAIN db.rows[t] : db.rows[t][i] \notin where}) :
           db' = [db EXCEPT !.rows[t] = rows]
    /\ UNCHANGED saved

Begin ==
    /\ saved = NoTransaction
    /\ saved' = db
    /\ UNCHANGED db

\* COMMIT, and also the end of the process inside a transaction: the next
\* open() deletes the snapshot, so what the transaction had done stays.
Commit ==
    /\ saved # NoTransaction
    /\ saved' = NoTransaction
    /\ UNCHANGED db

Rollback ==
    /\ saved # NoTransaction
    /\ db' = saved
    /\ saved' = NoTransaction

Next ==
    \/ \E t \in Tables :
        \/ \E columns \in (SUBSET Columns) \ {{}} : CreateTable(t, columns)
        \/ DropTable(t)
        \/ \E c \in Columns :
            \/ \E i \in IndexNames : CreateIndex(i, t, c)
            \/ \E default \in Val : AddColumn(t, c, default)
            \/ DropColumn(t, c)
            \/ \E new \in Columns : RenameColumn(t, c, new)
        \/ /\ Exists(t)
           /\ \/ \E data \in [db.schema[t] -> Val] : Insert(t, data)
              \/ \E where \in SUBSET Range(db.rows[t]) :
                  \/ Delete(t, where)
                  \/ \E assignments \in Assignments(db.schema[t]) : Update(t, where, assignments)
    \/ \E i \in IndexNames : DropIndex(i)
    \/ Begin \/ Commit \/ Rollback

Spec == Init /\ [][Next]_vars
=================================================================================
