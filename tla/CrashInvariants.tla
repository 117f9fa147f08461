----------------------------- MODULE CrashInvariants ----------------------------
(***************************************************************************)
(* The inductive invariants of StorageCrash.tla (proved in CrashProofs.tla *)
(* and CrashSafetyProofs.tla): what the files and the writes still to be   *)
(* done have to do with where the call leads, at every point at which a    *)
(* kill may fall.                                                          *)
(***************************************************************************)
EXTENDS StorageCrash

---------------------------------------------------------------------------------
(* Types *)

Paths ==
    Metadata \cup {MarkerFile}
        \cup {TableFile(t) : t \in Tables} \cup {RewriteFile(t) : t \in Tables}
        \cup {IndexFile(i) : i \in IndexNames}

LinesOf == [rows : Seq(Row), ended : BOOLEAN, readable : BOOLEAN]

ContentOK(path, content) ==
    /\ path = CatalogFile => IsMap(content, Tables, Schema)
    /\ path = MigrationsFile => content \in Seq(Migration)
    /\ path = IndexesFile => IsMap(content, IndexNames, IndexDefinition)
    /\ path = MarkerFile => content = TRUE
    /\ \A t \in Tables : path \in {TableFile(t), RewriteFile(t)} => content \in LinesOf
    /\ \A i \in IndexNames : path = IndexFile(i) => content \in IndexMap

Contents ==
    Maps(Tables, Schema) \cup Seq(Migration) \cup Maps(IndexNames, IndexDefinition)
        \cup LinesOf \cup IndexMap \cup {TRUE}

\* What stands for "no snapshot" is not a directory.
ASSUME DirectoryAssumption == \A D \in SUBSET Paths : NoSnapshot \notin [D -> Contents]

DirectoryOK(fs) ==
    /\ DOMAIN fs \subseteq Paths /\ fs = [path \in DOMAIN fs |-> fs[path]]
    /\ \A path \in DOMAIN fs : ContentOK(path, fs[path])

SnapshotOK ==
    snapshot_files # NoSnapshot => DirectoryOK(snapshot_files) /\ MarkerFile \notin DOMAIN snapshot_files

---------------------------------------------------------------------------------
(* Where a call leads: a directory `d` and a marker `m` *)

\* There is to be a file `path` that holds `content`.
Leaves(d, m, path, content) ==
    \/ path = CatalogFile /\ content = d.catalog
    \/ path = MigrationsFile /\ content = d.migrations
    \/ path = IndexesFile /\ content = d.indexes
    \/ path = MarkerFile /\ m
    \/ \E i \in DOMAIN d.index_files : path = IndexFile(i) /\ content = d.index_files[i]
    \/ \E t \in DOMAIN d.tables : path = TableFile(t) /\ content.rows = d.tables[t]
    \/ \E t \in d.tmp_rewrite : path = RewriteFile(t)

\* There is to be no file `path`. Metadata that is empty may have no file.
LeavesNo(d, m, path) ==
    \/ path = CatalogFile /\ d.catalog = EmptyMap
    \/ path = MigrationsFile /\ d.migrations = <<>>
    \/ path = IndexesFile /\ d.indexes = EmptyMap
    \/ path = MarkerFile /\ ~m
    \/ \E i \in IndexNames \ DOMAIN d.index_files : path = IndexFile(i)
    \/ \E t \in Tables \ DOMAIN d.tables : path = TableFile(t)
    \/ \E t \in Tables \ d.tmp_rewrite : path = RewriteFile(t)

Arrived(fs, d, m, path) ==
    IF path \in DOMAIN fs THEN Leaves(d, m, path, fs[path]) ELSE LeavesNo(d, m, path)

Rename(t) == RenameFile(RewriteFile(t), TableFile(t))

Aside(t) == WriteFile(RewriteFile(t), Lines(disk.tables[t]))

Alters(w, path) ==
    \/ w[1] \in {"write", "remove", "restore"} /\ w[2] = path
    \/ w[1] = "rename" /\ path \in {w[2], w[3]}
    \/ w[1] = "append" /\ path = TableFile(w[2])

Altered(path) == \E w \in Pending : Alters(w, path)

---------------------------------------------------------------------------------
(* Every call but ROLLBACK *)

RollingBack == writes # {} /\ call.name = "rollback"

WritesFit(step) ==
    \E path \in Paths, content \in {step.write[3]} :
        /\ step.write = WriteFile(path, content) /\ ContentOK(path, content)
        /\ \/ Leaves(disk, marker, path, content)
           \/ \E t \in DOMAIN disk.tables : step.write = Aside(t) /\ Rename(t) \in Pending

RemovesFit(step) ==
    \E path \in Paths :
        /\ step.write = RemoveFile(path)
        /\ \/ LeavesNo(disk, marker, path)
           \/ \E t \in Tables : path = TableFile(t) /\ Rename(t) \in Pending

\* The file is renamed after it is written and the old one is removed.
RenamesFit(step) ==
    \E t \in DOMAIN disk.tables \ disk.tmp_rewrite :
        /\ step.write = Rename(t)
        /\ \/ Aside(t) \in Pending
           \/ RewriteFile(t) \in DOMAIN files /\ files[RewriteFile(t)].rows = disk.tables[t]
        /\ TableFile(t) \in DOMAIN files => RemoveFile(TableFile(t)) \in Pending
        /\ \A other \in writes \ {step} :
            /\ Alters(other.write, TableFile(t)) =>
                    other.write = RemoveFile(TableFile(t)) /\ other.stage < step.stage
            /\ Alters(other.write, RewriteFile(t)) =>
                    other.write = Aside(t) /\ other.stage < step.stage

AppendsFit(step) ==
    \E t \in DOMAIN disk.tables, row \in {step.write[3]} :
        /\ step.write = AppendLine(t, row) /\ row \in Row
        /\ disk.tables[t] = Append(RowsIn(AsDisk(files).tables, t), row)
        /\ \A other \in writes : Alters(other.write, TableFile(t)) => other = step

OthersFit(step) ==
    \/ \E t \in Tables : step.write = EndLine(t)
    \/ step.write \in {MakeSnapshot, DropSnapshot}
    \/ \E path \in Paths \ {MarkerFile} : step.write = Copy(path)

\* What the writes to be done are, and that they lead to where the call does.
StepFits(step) ==
    \/ step.write[1] = "write" /\ WritesFit(step)
    \/ step.write[1] = "remove" /\ RemovesFit(step)
    \/ step.write[1] = "rename" /\ RenamesFit(step)
    \/ step.write[1] = "append" /\ AppendsFit(step)
    \/ OthersFit(step)

WritesLead ==
    /\ \A step \in writes : StepFits(step)
    /\ \A path \in Paths : Arrived(files, disk, marker, path) \/ Altered(path)

---------------------------------------------------------------------------------
(* Snapshots *)

SnapshotWrite(w) == w \in {MakeSnapshot, DropSnapshot} \/ w[1] = "copy"

\* BEGIN copies the directory after the flush, into a new snapshot.
ToBeThere(path) == path \in DOMAIN files \/ \E w \in Pending : w[1] = "write" /\ w[2] = path

BeginStep(step) ==
    \/ step.stage <= 2 /\ step.write[1] = "write"
    \/ step.stage = 3 /\ step.write = DropSnapshot
    \/ step.stage = 4 /\ step.write = MakeSnapshot
    \/ /\ step.stage >= 5
       /\ \E path \in Paths \ {MarkerFile} : step.write = Copy(path) /\ ToBeThere(path)

BeginLeads ==
    /\ txn_snapshot = disk /\ txn_dir
    /\ \A step \in writes : BeginStep(step)
    /\ MakeSnapshot \in Pending =>
        \A path \in Paths \ {MarkerFile} : ToBeThere(path) => Copy(path) \in Pending
    /\ MakeSnapshot \notin Pending =>
        /\ snapshot_files # NoSnapshot /\ DOMAIN snapshot_files \subseteq DOMAIN files
        /\ \A step \in writes : step.stage >= 5
        /\ \A path \in Copyable(files) :
            \/ Copy(path) \in Pending
            \/ path \in DOMAIN snapshot_files /\ snapshot_files[path] = files[path]

SnapshotLeads ==
    IF writes # {} /\ call.name = "begin" THEN BeginLeads
    ELSE /\ \A w \in Pending : SnapshotWrite(w) => w = DropSnapshot
         /\ DropSnapshot \in Pending => txn_snapshot = NoSnapshot /\ ~txn_dir
         /\ DropSnapshot \notin Pending =>
                txn_snapshot = AsSnapshot(snapshot_files) /\ (txn_dir => snapshot_files # NoSnapshot)

---------------------------------------------------------------------------------
(* ROLLBACK *)

RollbackStep(step) ==
    \/ step.stage = 1 /\ \E path \in Paths \ {MarkerFile} : step.write = RemoveFile(path)
    \/ step.stage = 2 /\ \E path \in DOMAIN snapshot_files : step.write = Restore(path)
    \/ step = [stage |-> 3, write |-> DropSnapshot]

RollbackLeads ==
    /\ snapshot_files # NoSnapshot /\ AsDisk(snapshot_files) = disk
    /\ txn_snapshot = NoSnapshot /\ ~txn_dir
    /\ marker = (MarkerFile \in DOMAIN files)
    /\ \A step \in writes : RollbackStep(step)
    /\ DropSnapshot \in Pending
    /\ \A path \in Copyable(files) :
        \/ RemoveFile(path) \in Pending
        \/ path \in DOMAIN snapshot_files /\ files[path] = snapshot_files[path]
    /\ \A path \in DOMAIN snapshot_files :
        \/ Restore(path) \in Pending
        \/ path \in DOMAIN files /\ files[path] = snapshot_files[path]
    /\ \A step \in writes : step.stage = 1 =>
            \A path \in DOMAIN snapshot_files : Restore(path) \in Pending

---------------------------------------------------------------------------------
(* What was there before the call *)

\* A table's rows stay where they are until its first write is done.
RowsKept(step, t) ==
    /\ RowsIn(AsDisk(files).tables, t) = RowsIn(call.before.tables, t)
    /\ \A other \in writes :
        Alters(other.write, TableFile(t)) => other = step \/ step.stage < other.stage

\* The log of the migrations is saved last.
BeforeKept ==
    /\ AsDisk(files).migrations = call.before.migrations
    /\ \A step, other \in writes :
        Alters(step.write, MigrationsFile) => other = step \/ other.stage < step.stage
    /\ \A step \in writes : \A t \in Tables :
        \/ Alters(step.write, TableFile(t)) /\ step.write # Rename(t)
        \/ t \in DOMAIN disk.tables /\ step.write = Aside(t) /\ Rename(t) \in Pending
        => RowsKept(step, t)

---------------------------------------------------------------------------------

\* A transaction goes on in a process.
TxnOfProcess == txn_dir => running

CrashInv ==
    /\ TypeOK /\ MetadataSaved /\ NoOrphanHandle /\ TxnOfProcess
    /\ DirectoryOK(files) /\ SnapshotOK
    /\ \A step \in writes : step.stage \in Nat
    /\ IF RollingBack THEN RollbackLeads ELSE WritesLead /\ SnapshotLeads
    /\ writes # {} /\ ~RollingBack => BeforeKept

---------------------------------------------------------------------------------
(* Row ids *)

\* The ids ascend, below one that is not yet given.
IdsBelow(rows, next) ==
    \A i \in DOMAIN rows :
        /\ rows[i].id < next
        /\ \A j \in DOMAIN rows : i < j => rows[i].id < rows[j].id

\* A catalog is saved when the rows there are fit it, and rows when the catalog
\* does: the one the call leads to meets the other as it was before only if they
\* fit, or if a write of an earlier stage replaces that one first.
IdsLead ==
    /\ \A step \in writes : Alters(step.write, CatalogFile) =>
        \A t \in DOMAIN disk.catalog :
            \/ IdsBelow(RowsIn(AsDisk(files).tables, t), disk.catalog[t].next_row_id)
            \/ \E other \in writes :
                    Alters(other.write, TableFile(t)) /\ other.stage < step.stage
    /\ \A step \in writes : \A t \in DOMAIN AsDisk(files).catalog :
        Alters(step.write, TableFile(t)) =>
            \/ IdsBelow(RowsIn(disk.tables, t), AsDisk(files).catalog[t].next_row_id)
            \/ \E other \in writes :
                    Alters(other.write, CatalogFile) /\ other.stage < step.stage

FreshInv ==
    /\ RowIdsAscend(AsDisk(files)) /\ RowIdsAscend(disk)
    /\ txn_dir => RowIdsAscend(txn_snapshot)
    /\ CursorsReserved
    /\ ~RollingBack => IdsLead

---------------------------------------------------------------------------------
(* What an open needs *)

Whole(lines) == lines.ended /\ lines.readable

WholeLines(fs) ==
    \A t \in Tables : \A path \in {TableFile(t), RewriteFile(t)} \cap DOMAIN fs : Whole(fs[path])

\* A line is appended to whole lines, and its newline follows.
LinesThere(t) ==
    /\ RewriteFile(t) \in DOMAIN files => Whole(files[RewriteFile(t)])
    /\ TableFile(t) \in DOMAIN files =>
        /\ files[TableFile(t)].readable
        /\ files[TableFile(t)].ended \/ EndLine(t) \in Pending

LinesWritten(step, t) ==
    /\ step.write[1] = "write" /\ step.write[2] \in {TableFile(t), RewriteFile(t)} =>
            Whole(step.write[3])
    /\ step.write[1] = "append" /\ step.write[2] = t =>
            /\ TableFile(t) \in DOMAIN files => files[TableFile(t)].ended
            /\ \E other \in writes : other.write = EndLine(t) /\ step.stage < other.stage

LinesLead == \A t \in Tables : LinesThere(t) /\ \A step \in writes : LinesWritten(step, t)

\* In a directory that a kill within a line has not touched
LinesInv ==
    "line" \notin harm =>
        /\ snapshot_files # NoSnapshot => WholeLines(snapshot_files)
        /\ LinesLead

\* A directory that a kill in a ROLLBACK, or within a line, has not touched
Unharmed == harm \cap {"rollback", "line"} = {}

TablesKnown(indexes, known) == \A i \in DOMAIN indexes : indexes[i].table \in DOMAIN known

Known(d) == TablesKnown(d.indexes, d.catalog)

\* As with the ids: the catalog that is saved knows the tables of the indexes,
\* and the indexes that are saved are on tables known by then.
KnownLead ==
    /\ \A step \in writes : Alters(step.write, CatalogFile) =>
        \/ TablesKnown(AsDisk(files).indexes, disk.catalog)
        \/ \E other \in writes : Alters(other.write, IndexesFile) /\ other.stage < step.stage
    /\ \A step \in writes : Alters(step.write, IndexesFile) =>
        \/ TablesKnown(disk.indexes, AsDisk(files).catalog)
        \/ \E other \in writes : Alters(other.write, CatalogFile) /\ other.stage < step.stage

OpenInv ==
    /\ LinesInv
    /\ Unharmed =>
        /\ Known(disk)
        /\ txn_dir => Known(txn_snapshot)
        /\ ~RollingBack => Known(AsDisk(files)) /\ KnownLead

---------------------------------------------------------------------------------
(* Indexes *)

\* A directory in which, besides, no kill found the marker beside a change
Trusted == harm \cap {"marker", "rollback", "line"} = {}

\* A call that changes nothing the index files depend on removes the marker, if
\* at all, before it writes any of them, and creates it when all are written.
MarkerLead ==
    /\ MarkerFile \in DOMAIN files =>
        /\ IndexFilesExact(disk)
        /\ \A w \in Pending : \A path \in Paths \ {MarkerFile} : ~Alters(w, path)
    /\ \A step \in writes : step.write = WriteFile(MarkerFile, TRUE) =>
        \A other \in writes : \A path \in Paths \ {MarkerFile} :
            Alters(other.write, path) => other.stage < step.stage

IndexInv ==
    Trusted =>
        /\ MapsTracked /\ MarkerTracked /\ CleanMarkerSound
        /\ txn_dir => IndexFilesExact(txn_snapshot)
        /\ writes # {} => call.name # "open fails"
        /\ writes # {} /\ call.name \in {"open", "close", "begin", "commit"} => MarkerLead
=================================================================================
