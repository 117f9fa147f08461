---------------------------- MODULE StorageRefinement ---------------------------
(***************************************************************************)
(* Storage.tla implements Database.tla: files, locators, row ids, caches,  *)
(* markers and snapshots never show through in what the database contains. *)
(***************************************************************************)
EXTENDS StorageInvariants

\* The contents a set of files stands for: row ids are dropped.
ContentsOf(files) ==
    [schema |-> [t \in DOMAIN files.catalog |-> files.catalog[t].columns],
     rows |-> [t \in DOMAIN files.catalog |->
                  [i \in DOMAIN RowsIn(files.tables, t) |-> files.tables[t][i].data]],
     indexes |-> files.indexes,
     log |-> [k \in DOMAIN files.migrations |-> files.migrations[k].change]]

\* What stands for "no snapshot" is not itself the contents of a snapshot.
ASSUME SnapshotAssumption ==
    NoSnapshot \notin [schema : Maps(Tables, SUBSET Columns), rows : Maps(Tables, Seq(Data)),
                       indexes : Maps(IndexNames, IndexDefinition), log : Seq(Changes)]

\* A running process answers from the metadata in its memory.
Visible ==
    IF running
    THEN [disk EXCEPT !.catalog = catalog, !.migrations = migrations, !.indexes = index_catalog]
    ELSE disk

D == INSTANCE Database WITH
        NoTransaction <- NoSnapshot,
        db <- ContentsOf(Visible),
        saved <- IF txn_dir THEN ContentsOf(txn_snapshot) ELSE NoSnapshot

\* Every call of storage.rs changes the contents as Database's action of that
\* name says or not at all; ROLLBACK restores exactly the contents at BEGIN
\* (storage.rs:167-263), and a restart changes nothing but to end an open
\* transaction, whose statements stay.
ImplementsDatabase == D!Spec
=================================================================================
