------------------------------ MODULE StorageCrash ------------------------------
(***************************************************************************)
(* The writes inside a call of storage.rs, one at a time, and a process    *)
(* that is killed between any two of them.                                 *)
(*                                                                         *)
(* A call of Storage.tla computes at once what struct Storage holds and    *)
(* what the directory will hold (`disk`, `marker`, `txn_snapshot`). Here   *)
(* the call only starts then: `files` is what the directory holds now and  *)
(* `writes` is what the call still has to do to it. A kill keeps `files`   *)
(* and nothing else.                                                       *)
(*                                                                         *)
(* Each write is one system call, one atomic_write, whose effect is that   *)
(* of its rename, the copy of one file, or the file that rewrite_rows      *)
(* writes aside. What the operating system has accepted but not yet put on *)
(* the medium is not lost. The calls that only fill the cache of unique    *)
(* values write nothing and are left out.                                  *)
(***************************************************************************)
EXTENDS StorageInvariants

CONSTANTS
    NoCall,     \* no call is being executed
    MaxKills,   \* bound: kills inside a call
    MaxLater    \* bound: calls after a kill, other than opens

VARIABLES
    files,          \* the data directory: its paths and what each holds
    snapshot_files, \* the same of .txn_snapshot, or NoSnapshot
    writes,         \* what the call has left to do: writes with their stages,
                    \* those of one stage in any order
    call,           \* its name, and `disk` when it started; or NoCall
    harm,           \* the windows of harm in which a kill has fallen
    kills,          \* how many kills there were
    later           \* how many of those calls there were since

crash_vars == <<vars, files, snapshot_files, writes, call, harm, kills, later>>

---------------------------------------------------------------------------------
(* The data directory *)

CatalogFile == <<"catalog.enc">>
MigrationsFile == <<"migrations.enc">>
IndexesFile == <<"indexes.enc">>
MarkerFile == <<"indexes.clean">>
TableFile(t) == <<"table", t>>
RewriteFile(t) == <<"tmp_rewrite", t>>
IndexFile(i) == <<"index", i>>

\* The lines of a table: its rows, whether the last line has its newline, and
\* whether every line can be read back.
Lines(rows) == [rows |-> rows, ended |-> TRUE, readable |-> TRUE]

Held(fs, path, default) == IF path \in DOMAIN fs THEN fs[path] ELSE default

\* The record of Storage.tla for a directory with these files
AsDisk(fs) ==
    [catalog |-> Held(fs, CatalogFile, EmptyMap),
     migrations |-> Held(fs, MigrationsFile, <<>>),
     indexes |-> Held(fs, IndexesFile, EmptyMap),
     tables |-> [t \in {u \in Tables : TableFile(u) \in DOMAIN fs} |-> fs[TableFile(t)].rows],
     index_files |->
        [i \in {x \in IndexNames : IndexFile(x) \in DOMAIN fs} |-> fs[IndexFile(i)]],
     tmp_rewrite |-> {t \in Tables : RewriteFile(t) \in DOMAIN fs}]

AsSnapshot(fs) == IF fs = NoSnapshot THEN NoSnapshot ELSE AsDisk(fs)

\* What BEGIN copies and ROLLBACK removes: all but the marker
Copyable(fs) == DOMAIN fs \ {MarkerFile}

Metadata == {CatalogFile, MigrationsFile, IndexesFile}

---------------------------------------------------------------------------------
(* Single writes *)

WriteFile(path, content) == <<"write", path, content>>
RemoveFile(path) == <<"remove", path>>
RenameFile(from, to) == <<"rename", from, to>>
AppendLine(t, row) == <<"append", t, row>>
EndLine(t) == <<"end line", t>>
MakeSnapshot == <<"make snapshot">>
DropSnapshot == <<"drop snapshot">>
Copy(path) == <<"copy", path>>
Restore(path) == <<"restore", path>>

\* writeln!(file, "{encrypted}"): the line, then its newline. Without the
\* newline of the line before, both become one line that cannot be decrypted.
Appended(lines, row) ==
    [rows |-> Append(lines.rows, row), ended |-> FALSE,
     readable |-> lines.readable /\ lines.ended]

WithLineEnded(t) == [files EXCEPT ![TableFile(t)].ended = TRUE]

FilesAfter(w) ==
    CASE w[1] = "write" -> Put(files, w[2], w[3])
      [] w[1] = "remove" -> Without(files, {w[2]})
      [] w[1] = "rename" -> Put(Without(files, {w[2]}), w[3], files[w[2]])
      [] w[1] = "append" ->
            Put(files, TableFile(w[2]), Appended(Held(files, TableFile(w[2]), Lines(<<>>)), w[3]))
      [] w[1] = "end line" -> WithLineEnded(w[2])
      [] w[1] = "restore" -> Put(files, w[2], snapshot_files[w[2]])
      [] OTHER -> files

SnapshotAfter(w) ==
    CASE w[1] = "make snapshot" -> EmptyMap
      [] w[1] = "copy" -> Put(snapshot_files, w[2], files[w[2]])
      [] w[1] = "drop snapshot" -> NoSnapshot
      [] OTHER -> snapshot_files

\* The writes of one stage of a call, which come after those of earlier stages.
At(stage, todo) == {[stage |-> stage, write |-> w] : w \in todo}

DoIf(condition, write) == IF condition THEN {write} ELSE {}

RemoveIfThere(path) == DoIf(path \in DOMAIN files, RemoveFile(path))

SaveCatalog == {WriteFile(CatalogFile, catalog')}
SaveMigrations == {WriteFile(MigrationsFile, migrations')}
SaveIndexes == {WriteFile(IndexesFile, index_catalog')}

RemoveIndexFiles(dropped) ==
    {RemoveFile(IndexFile(i)) : i \in {x \in dropped : IndexFile(x) \in DOMAIN files}}

\* write_index_map: the marker is removed by the first map that is written
ForgetMarker(written) ==
    DoIf(indexes_clean /\ written # {} /\ MarkerFile \in DOMAIN files, RemoveFile(MarkerFile))

\* flush_indexes: the dirty maps, in any order, then the marker
DirtyMaps == {WriteFile(IndexFile(i), index_maps[i]) : i \in dirty_indexes \cap DOMAIN index_maps}

FlushWrites_MarkerFirst == At(1, {WriteFile(MarkerFile, TRUE)}) \cup At(2, DirtyMaps)

FlushWrites == At(1, DirtyMaps) \cup At(2, {WriteFile(MarkerFile, TRUE)})

\* rewrite_rows: the new file is written aside, the old one removed
RewriteWrites_RemovedFirst(t) ==
    At(1, RemoveIfThere(TableFile(t)))
        \cup At(2, {WriteFile(RewriteFile(t), Lines(disk'.tables[t]))})
        \cup At(3, {RenameFile(RewriteFile(t), TableFile(t))})
        \cup At(4, ForgetMarker(IndexesOn(index_catalog, t)))

RewriteWrites(t) ==
    At(1, {WriteFile(RewriteFile(t), Lines(disk'.tables[t]))})
        \cup At(2, RemoveIfThere(TableFile(t)))
        \cup At(3, {RenameFile(RewriteFile(t), TableFile(t))})
        \cup At(4, ForgetMarker(IndexesOn(index_catalog, t)))

\* write_stored_rows, after an ALTER TABLE has saved what it changes of the metadata
ReplaceWrites(t) ==
    At(4, {WriteFile(TableFile(t), Lines(disk'.tables[t]))})
        \cup At(5, ForgetMarker(IndexesOn(index_catalog', t)))

---------------------------------------------------------------------------------
(* Calls *)

Opening == {"open", "open fails"}

\* A call starts: Storage's action of that name (conjoined before this one)
\* says where it leads, `todo` by which writes.
Begins(name, todo) ==
    /\ writes = {}
    /\ writes' = todo
    /\ call' = IF todo = {} THEN NoCall ELSE [name |-> name, before |-> disk]
    /\ name \in Opening \/ later < MaxLater
    /\ later' = IF name \in Opening \/ kills = 0 THEN later ELSE later + 1
    /\ UNCHANGED <<files, snapshot_files, harm, kills>>

\* A line that cannot be decrypted: whatever reads the table fails.
Unreadable(t) == TableFile(t) \in DOMAIN files /\ ~files[TableFile(t)].readable

\* rebuild_index fails on these: the table is unknown or unreadable.
Unbuildable ==
    {i \in DOMAIN disk.indexes :
        disk.indexes[i].table \notin DOMAIN disk.catalog \/ Unreadable(disk.indexes[i].table)}

DropSnapshotIfThere == DoIf(snapshot_files # NoSnapshot, DropSnapshot)

OpenWrites == At(1, DropSnapshotIfThere) \cup At(2, RemoveIfThere(MarkerFile))

OpenCrash ==
    /\ marker \/ Unbuildable = {}
    /\ Open
    /\ Begins("open", OpenWrites)

\* Storage::open that fails in rebuild_all_indexes: the half-built Storage is
\* dropped, which flushes the maps built so far and creates the marker.
OpenFails_NoMarker ==
    /\ ~running /\ ~marker /\ Unbuildable # {}
    /\ \E built \in SUBSET (DOMAIN disk.indexes \ Unbuildable) :
        LET maps == Restrict(RebuiltMaps(disk), built) IN
        /\ disk' = [disk EXCEPT !.index_files = Override(@, maps)]
        /\ txn_snapshot' = NoSnapshot
        /\ Begins("open fails",
               At(1, DropSnapshotIfThere)
                   \cup At(2, {WriteFile(IndexFile(i), maps[i]) : i \in built}))
    /\ UNCHANGED <<marker, memory>>

OpenFails ==
    /\ ~running /\ ~marker /\ Unbuildable # {}
    /\ \E built \in SUBSET (DOMAIN disk.indexes \ Unbuildable) :
        LET maps == Restrict(RebuiltMaps(disk), built) IN
        /\ disk' = [disk EXCEPT !.index_files = Override(@, maps)]
        /\ marker' = TRUE
        /\ txn_snapshot' = NoSnapshot
        /\ Begins("open fails",
               At(1, DropSnapshotIfThere)
                   \cup At(2, {WriteFile(IndexFile(i), maps[i]) : i \in built})
                   \cup At(3, {WriteFile(MarkerFile, TRUE)}))
    /\ UNCHANGED memory

CloseCrash == Close /\ Begins("close", FlushWrites)

ExitCrash == Exit /\ Begins("exit", {})

\* What there is to copy once begin_transaction has flushed the indexes
ToCopy ==
    (DOMAIN files \cup {IndexFile(i) : i \in dirty_indexes \cap DOMAIN index_maps}) \ {MarkerFile}

BeginWrites ==
    FlushWrites
        \cup At(3, DropSnapshotIfThere)
        \cup At(4, {MakeSnapshot})
        \cup At(5, DoIf(CatalogFile \in ToCopy, Copy(CatalogFile)))
        \cup At(6, DoIf(MigrationsFile \in ToCopy, Copy(MigrationsFile)))
        \cup At(7, DoIf(IndexesFile \in ToCopy, Copy(IndexesFile)))
        \cup At(8, {Copy(path) : path \in ToCopy \ Metadata})

BeginCrash == BeginTransaction /\ Begins("begin", BeginWrites)

CommitCrash == CommitTransaction /\ Begins("commit", At(1, {DropSnapshot}))

\* The files are removed, then the snapshot's are copied back.
RollbackWrites_SnapshotFirst ==
    At(1, {RemoveFile(path) : path \in Copyable(files)})
        \cup At(2, {DropSnapshot})
        \cup At(3, {WriteFile(path, snapshot_files[path]) : path \in DOMAIN snapshot_files})

RollbackWrites_NotCleared ==
    At(1, {Restore(path) : path \in DOMAIN snapshot_files}) \cup At(2, {DropSnapshot})

RollbackWrites ==
    At(1, {RemoveFile(path) : path \in Copyable(files)})
        \cup At(2, {Restore(path) : path \in DOMAIN snapshot_files})
        \cup At(3, {DropSnapshot})

RollbackCrash == RollbackTransaction /\ Begins("rollback", RollbackWrites)

\* create_table
CreateTableWrites_RecordedFirst(t) ==
    At(1, SaveMigrations)
        \cup At(2, {WriteFile(TableFile(t), Lines(<<>>))})
        \cup At(3, SaveCatalog)

CreateTableWrites(t) ==
    At(1, {WriteFile(TableFile(t), Lines(<<>>))})
        \cup At(2, SaveCatalog)
        \cup At(3, SaveMigrations)

CreateTableCrash(t, columns) ==
    CreateTable(t, columns) /\ Begins("create table", CreateTableWrites(t))

\* drop_table
DropTableWrites_CatalogFirst(t) ==
    At(1, SaveCatalog)
        \cup At(2, RemoveIndexFiles(IndexesOn(index_catalog, t)))
        \cup At(3, SaveIndexes)
        \cup At(4, RemoveIfThere(TableFile(t)))
        \cup At(5, SaveMigrations)

DropTableWrites(t) ==
    At(1, RemoveIndexFiles(IndexesOn(index_catalog, t)))
        \cup At(2, SaveIndexes)
        \cup At(3, RemoveIfThere(TableFile(t)))
        \cup At(4, SaveCatalog)
        \cup At(5, SaveMigrations)

DropTableCrash(t) == DropTable(t) /\ Begins("drop table", DropTableWrites(t))

CreateIndexCrash(i, t, c) ==
    /\ CreateIndex(i, t, c)
    /\ Begins("create index",
           At(1, SaveIndexes) \cup At(2, ForgetMarker({i})) \cup At(3, SaveMigrations))

DropIndexCrash(i) ==
    /\ DropIndex(i)
    /\ Begins("drop index",
           At(1, RemoveIndexFiles({i})) \cup At(2, SaveIndexes) \cup At(3, SaveMigrations))

AddColumnCrash(t, c, default) ==
    /\ AddColumn(t, c, default)
    /\ Begins("add column", At(1, SaveCatalog) \cup ReplaceWrites(t) \cup At(6, SaveMigrations))

DropColumnCrash(t, c) ==
    LET dropped == IndexesOnColumn(index_catalog, t, c) IN
    /\ DropColumn(t, c)
    /\ Begins("drop column",
           At(1, SaveCatalog)
               \cup At(2, RemoveIndexFiles(dropped))
               \cup At(3, IF dropped = {} THEN {} ELSE SaveIndexes)
               \cup ReplaceWrites(t) \cup At(6, SaveMigrations))

RenameColumnCrash(t, old, new) ==
    /\ RenameColumn(t, old, new)
    /\ Begins("rename column",
           At(1, SaveCatalog) \cup At(2, SaveIndexes)
               \cup ReplaceWrites(t) \cup At(6, SaveMigrations))

\* append_row: the catalog only when a batch of row ids is reserved
InsertWrites_RowFirst(t, row) ==
    At(1, {AppendLine(t, row)}) \cup At(2, {EndLine(t)})
        \cup At(3, IF HasCursor(t) THEN {} ELSE SaveCatalog)
        \cup At(4, ForgetMarker(IndexesOn(index_catalog, t)))

InsertWrites(t, row) ==
    At(1, IF HasCursor(t) THEN {} ELSE SaveCatalog)
        \cup At(2, {AppendLine(t, row)}) \cup At(3, {EndLine(t)})
        \cup At(4, ForgetMarker(IndexesOn(index_catalog, t)))

InsertCrash(t, data) ==
    Insert(t, data) /\ Begins("insert", InsertWrites(t, [id |-> NextRowId(t), data |-> data]))

UpdateCrash(t, where, assignments) ==
    Update(t, where, assignments) /\ Begins("update", RewriteWrites(t))

DeleteCrash(t, where) == Delete(t, where) /\ Begins("delete", RewriteWrites(t))

\* rewrite_rows also fails, for an UPDATE or a DELETE, on a line it cannot decrypt.
UpdateFailsCrash(t) ==
    UpdateFails(t) /\ Begins("update fails", At(1, {WriteFile(RewriteFile(t), Lines(<<>>))}))

---------------------------------------------------------------------------------
(* Calls that fail because the table is unreadable, with what they have saved *)

\* create_index: the definition is saved, then rebuild_index fails.
CreateIndexFails(i, t, c) ==
    /\ running /\ Unreadable(t) /\ t \in DOMAIN catalog /\ c \in catalog[t].columns
    /\ i \notin DOMAIN index_catalog
    /\ IndexesOnColumn(index_catalog, t, c) = {}
    /\ index_catalog' = Put(index_catalog, i, [table |-> t, column |-> c])
    /\ disk' = [disk EXCEPT !.indexes = index_catalog']
    /\ Begins("create index fails", At(1, SaveIndexes))
    /\ UNCHANGED <<marker, txn_snapshot, catalog, migrations, index_maps, row_id_cursors,
                   table_files, unique_caches, dirty_indexes, indexes_clean, txn_dir, running>>

\* add_column: the catalog is saved, then read_stored_rows fails, here and below.
AddColumnFails(t, c) ==
    /\ running /\ Unreadable(t) /\ t \in DOMAIN catalog /\ c \notin catalog[t].columns
    /\ catalog' = [catalog EXCEPT ![t].columns = @ \cup {c}]
    /\ disk' = [disk EXCEPT !.catalog = catalog']
    /\ Begins("add column fails", At(1, SaveCatalog))
    /\ UNCHANGED <<marker, txn_snapshot, migrations, index_catalog, index_maps, row_id_cursors,
                   table_files, unique_caches, dirty_indexes, indexes_clean, txn_dir, running>>

\* drop_column: the indexes on the column are gone by then.
DropColumnFails(t, c) ==
    LET dropped == IndexesOnColumn(index_catalog, t, c) IN
    /\ running /\ Unreadable(t) /\ t \in DOMAIN catalog
    /\ catalog[t].columns # {c} /\ c \in catalog[t].columns
    /\ catalog' = [catalog EXCEPT ![t].columns = @ \ {c}]
    /\ index_catalog' = Without(index_catalog, dropped)
    /\ index_maps' = Without(index_maps, dropped)
    /\ dirty_indexes' = dirty_indexes \ dropped
    /\ disk' = [disk EXCEPT !.catalog = catalog', !.indexes = index_catalog',
                            !.index_files = Without(@, dropped)]
    /\ Begins("drop column fails",
           At(1, SaveCatalog)
               \cup At(2, RemoveIndexFiles(dropped))
               \cup At(3, IF dropped = {} THEN {} ELSE SaveIndexes))
    /\ UNCHANGED <<marker, txn_snapshot, migrations, row_id_cursors, table_files, unique_caches,
                   indexes_clean, txn_dir, running>>

\* rename_column: the index definitions are renamed by then.
RenameColumnFails(t, old, new) ==
    /\ running /\ Unreadable(t) /\ t \in DOMAIN catalog
    /\ old \in catalog[t].columns /\ new \notin catalog[t].columns
    /\ catalog' = [catalog EXCEPT ![t].columns = (@ \ {old}) \cup {new}]
    /\ index_catalog' = RenamedIndexes(t, old, new)
    /\ disk' = [disk EXCEPT !.catalog = catalog', !.indexes = index_catalog']
    /\ Begins("rename column fails", At(1, SaveCatalog) \cup At(2, SaveIndexes))
    /\ UNCHANGED <<marker, txn_snapshot, migrations, index_maps, row_id_cursors, table_files,
                   unique_caches, dirty_indexes, indexes_clean, txn_dir, running>>

---------------------------------------------------------------------------------
(* The next write, and a kill before it *)

WriteStep ==
    /\ \E step \in writes :
        /\ \A other \in writes : step.stage <= other.stage
        /\ files' = FilesAfter(step.write)
        /\ snapshot_files' = SnapshotAfter(step.write)
        /\ writes' = writes \ {step}
    /\ call' = IF writes' = {} THEN NoCall ELSE call
    /\ UNCHANGED <<vars, harm, kills, later>>

Pending == {step.write : step \in writes}

\* The windows in which a kill does harm that a restart does not repair:
\*   rollback  some files are removed or not yet copied back
\*   line      a row's line has no newline yet
\*   rewrite   the table's file is removed and its successor not renamed
\*   marker    a call that changes the files runs while indexes.clean is there
Windows ==
    {window \in {"rollback", "line", "rewrite", "marker"} :
        CASE window = "rollback" -> call.name = "rollback" /\ Pending # {DropSnapshot}
          [] window = "line" ->
                \E t \in Tables : TableFile(t) \in DOMAIN files /\ ~files[TableFile(t)].ended
          [] window = "rewrite" ->
                \E t \in Tables : RenameFile(RewriteFile(t), TableFile(t)) \in Pending
                                  /\ TableFile(t) \notin DOMAIN files
          [] window = "marker" ->
                MarkerFile \in DOMAIN files
                /\ call.name \notin {"open", "open fails", "close", "begin", "commit"}}

Kill ==
    /\ writes # {} /\ kills < MaxKills
    /\ kills' = kills + 1 /\ later' = 0
    /\ harm' = harm \cup Windows
    /\ writes' = {} /\ call' = NoCall
    /\ Forget
    /\ dirty_indexes' = {} /\ indexes_clean' = FALSE
    /\ disk' = AsDisk(files)
    /\ marker' = (MarkerFile \in DOMAIN files)
    /\ txn_snapshot' = AsSnapshot(snapshot_files)
    /\ UNCHANGED <<files, snapshot_files>>

---------------------------------------------------------------------------------

CrashInit ==
    /\ Init
    /\ files = EmptyMap /\ snapshot_files = NoSnapshot
    /\ writes = {} /\ call = NoCall
    /\ harm = {} /\ kills = 0 /\ later = 0

\* The calls that read the rows of table t, and the same where it is unreadable
Reading(t) ==
    \/ \E c \in Columns :
        \/ \E i \in IndexNames : CreateIndexCrash(i, t, c)
        \/ \E default \in Val : AddColumnCrash(t, c, default)
        \/ DropColumnCrash(t, c)
        \/ \E new \in Columns : RenameColumnCrash(t, c, new)
    \/ /\ t \in DOMAIN catalog
       /\ \E where \in SUBSET {RowsOf(t)[i].data : i \in DOMAIN RowsOf(t)} :
            \/ DeleteCrash(t, where)
            \/ \E assignments \in Assignments(catalog[t].columns) :
                    UpdateCrash(t, where, assignments)

FailingToRead(t) ==
    \E c \in Columns :
        \/ \E i \in IndexNames : CreateIndexFails(i, t, c)
        \/ AddColumnFails(t, c)
        \/ DropColumnFails(t, c)
        \/ \E new \in Columns : RenameColumnFails(t, c, new)

CrashNext ==
    \/ OpenCrash \/ OpenFails \/ CloseCrash \/ ExitCrash
    \/ BeginCrash \/ CommitCrash \/ RollbackCrash
    \/ \E i \in IndexNames : DropIndexCrash(i)
    \/ \E t \in Tables :
        \/ \E columns \in (SUBSET Columns) \ {{}} : CreateTableCrash(t, columns)
        \/ DropTableCrash(t)
        \/ t \in DOMAIN catalog /\ \E data \in [catalog[t].columns -> Val] : InsertCrash(t, data)
        \/ UpdateFailsCrash(t)
        \/ ~Unreadable(t) /\ Reading(t)
        \/ FailingToRead(t)
    \/ WriteStep
    \/ Kill

CrashSpec == CrashInit /\ [][CrashNext]_crash_vars

---------------------------------------------------------------------------------
(* The properties *)

Settled == writes = {}

\* The writes of a call, done to the end, leave the files as the call of
\* Storage.tla says: no file is forgotten, none is saved before it has its
\* final content, and a snapshot is whole once BEGIN returns.
WritesAddUp ==
    Settled => /\ AsDisk(files) = disk
               /\ marker = (MarkerFile \in DOMAIN files)
               /\ txn_snapshot = AsSnapshot(snapshot_files)

\* Wherever a call is killed, every table can be read, and its rows are as they
\* were before the call or as they are after it; between the two steps at the end
\* of rewrite_rows (storage.rs:825-829) the table has no file, and they are in the
\* file written aside. Two cases are left out: a kill inside ROLLBACK, which
\* RollbackCanBeRedone is about, and a directory in which a process has been
\* killed between a row's line and its newline. There the next row appended makes
\* one line of both, which cannot be decrypted (:652, :771): both are lost, and
\* every call that reads the table fails.
Readable(path) == path \in DOMAIN files => files[path].readable

NothingLost ==
    ~Settled /\ call.name # "rollback" /\ "line" \notin harm =>
        \A t \in Tables :
            \/ /\ Readable(TableFile(t))
               /\ RowsIn(AsDisk(files).tables, t) \in
                       {RowsIn(call.before.tables, t), RowsIn(disk.tables, t)}
            \/ /\ TableFile(t) \notin DOMAIN files /\ RewriteFile(t) \in DOMAIN files
               /\ Readable(RewriteFile(t))
               /\ files[RewriteFile(t)].rows = RowsIn(disk.tables, t)

\* While ROLLBACK removes and copies files, the whole of what it goes back to is
\* in the snapshot until it is in the directory (storage.rs:219-263): a kill
\* leaves enough to begin anew.
RollbackCanBeRedone ==
    ~Settled /\ call.name = "rollback" =>
        AsDisk(files) = disk \/ AsSnapshot(snapshot_files) = disk

\* A schema change is recorded last: a kill may leave a change that no record
\* tells of, never a record of a change that is not in the catalog, the index
\* catalog and the rows (record_migration storage.rs:854, called at :286, :333,
\* :387, :473 and below).
RecordedChangesAreWhole ==
    ~Settled /\ call.name # "rollback"
             /\ AsDisk(files).migrations # call.before.migrations => AsDisk(files) = disk

\* Row ids stay unique whatever a kill interrupts: the catalog that reserves a
\* batch is saved before the first row of the batch is written
\* (storage.rs:616-631, :634).
RowIdsFreshAfterKills == Settled => RowIdsFresh

\* The marker indexes.clean that a kill leaves is to be trusted, and indexed
\* reads agree with scans after the restart, but for kills in the windows
\* "marker" and "rollback", and once an open has failed on a broken line.
IndexesSoundAfterKills ==
    Settled /\ harm \cap {"marker", "rollback", "line"} = {} =>
        IndexedReadsAgree /\ CleanMarkerSound

\* A directory can be opened unless a kill fell into a ROLLBACK or between a
\* row's line and its newline (storage.rs:85-97, :652).
OpenSucceeds ==
    ~running /\ Settled /\ ~marker /\ Unbuildable # {} =>
        harm \cap {"rollback", "line"} # {}

\* What the test stale_index_is_rebuilt_after_unclean_shutdown (engine.rs:2366)
\* says of one unclean shutdown: afterwards indexed reads see every row. As in the
\* test, CREATE INDEX was carried through, and the files a restart reads are whole:
\* no kill fell into a ROLLBACK or between a row's line and its newline.
Recorded(i) ==
    \E k \in DOMAIN migrations :
        migrations[k].change.operation = "CREATE_INDEX" /\ i \in migrations[k].change.index

StaleIndexesRebuilt ==
    /\ Settled /\ harm \cap {"rollback", "line"} = {}
    /\ \A i \in DOMAIN index_catalog : Recorded(i)
    => IndexedReadsAgree

\* Someone who keeps starting FluxDB gets it open: an open() that fails leaves
\* the marker behind, and with it the next one trusts the index files
\* (storage.rs:64-70, :990-994).
CanBeOpened == ~running ~> (running /\ Settled)

CrashFairness == WF_crash_vars(OpenCrash) /\ WF_crash_vars(OpenFails) /\ WF_crash_vars(WriteStep)

FairCrashSpec == CrashSpec /\ CrashFairness
=================================================================================
