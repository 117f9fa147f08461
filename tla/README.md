# FluxDB: specification, model checking and proofs

FluxDB (`src/`) is a small embedded SQL database in Rust: one process opens a
data directory, logs a user in, and executes statements synchronously on one
thread. This directory specifies it in TLA+, model-checks the specification
with TLC on small instances and proves its most important invariants with
TLAPS for every instance. A definition whose name ends in an underscore and a
phrase, as `RollbackWrites_NotCleared`, is no part of the specification: it is
the definition before the underscore with a plausible fault, which a property
then has to catch.

## 1. The system

| component | source | state it keeps | operations |
|---|---|---|---|
| storage | `storage.rs` | the data directory: `catalog.enc`, `migrations.enc`, `indexes.enc`, one `<t>.table` file of encrypted lines per table, one `index_<i>.enc` file per index, the marker `indexes.clean`, the transaction snapshot `.txn_snapshot`; in memory: catalog, migrations, index catalog, index maps, row-id cursors, append handles, unique caches, dirty set, `indexes_clean`, `txn_dir` | open, drop, begin/commit/rollback, create/drop table, create/drop index, add/drop/rename column, append row, rewrite rows, unique-value lookup, reads |
| engine: constraints | `engine.rs:28-475, 774-1083` | none of its own: the constraints are in the catalog | one method per statement; checks, then a call of storage |
| engine: queries | `engine.rs:477-772, 831-901, 1085-1683` | none (pure functions of rows) | filters, subqueries, joins, aggregates, grouping, ordering, index candidates |
| parser | `parser.rs`, `ast.rs` | none (pure) | text to statements |
| session | `main.rs`, `security.rs` (AuthManager, Role, AuditLogger) | `security/users.enc`, `security/audit.log`; in memory the user store, the identity, the command line | bootstrap, login, add user, execute a script or a REPL, log each statement |
| encryption | `security.rs` (CryptoManager) | the key | encrypt and decrypt a line or a file |
| types, errors | `types.rs`, `error.rs`, `lib.rs` | none | data types |

**Interaction.** `main.rs` owns the process: it opens the user store, then an
`Engine` with the user's identity. `Engine::execute_statement` asks the role,
runs the statement, then logs it. A statement reads through `Storage`
(`read_rows`, `read_rows_filtered`, `find_indexed_locators`,
`unique_value_exists`), checks its constraints on what it read, and makes one
mutating call. `Storage` is the only component that touches table, index and
metadata files. There are no callbacks but the row mapper that `UPDATE` and
`DELETE` pass to `rewrite_rows`, which may fail in the middle of a rewrite.

**What is hard here.** Nothing runs concurrently inside the process. What can
go wrong are *pieces of derived state that must follow the table file through
every operation* (index maps, index files, the clean marker, unique caches,
row-id cursors, locators, append handles), *rollback*, which replaces the files
under all of them, *the end of the process* (with `Drop`, or without: `main.rs`
calls `exit(1)` when a script fails), *multi-step statements* (several saves,
remove-then-rename), and *checks made on the rows before a statement* that are
about the rows after it. In a query it is the *optimisations that must not
show* (candidates from an index, a subquery run once, the table of `LIKE`), values
of several types in one comparison, and a parser that searches a text for
keywords instead of reading it from left to right.

**What makes each component correct.**
- storage: an answer never depends on an index, a cache or a restart; row ids
  are unique; schema, rows, index definitions and migration log agree; a
  ROLLBACK restores the contents at BEGIN exactly; a kill in the middle of a
  call other than ROLLBACK loses no row and leaves a directory that can be opened,
  but for a kill between a row's line and its newline (section 6).
- engine: after every statement the declared constraints hold.
- queries: the result is that of the textbook definition over the full rows.
- parser: a statement is read as it is meant, and a broken one is refused.
- session: a role bounds what its sessions can change; accounts are granted by
  admins only and kept; the audit log accounts for what was done.

## 2. The modules

| module | models | composed with |
|---|---|---|
| `Maps` | `BTreeMap` insert/remove, filtering a `Vec` by position | |
| `Relational` | values, row data, index definitions, migration records, what ALTER and UPDATE do to one row | EXTENDS `Maps` |
| `Database` | what storage promises: contents (`db`) and the contents at BEGIN (`saved`), no files, caches or ids | EXTENDS `Relational` |
| `Storage` | `storage.rs`, one action per call | EXTENDS `Relational` |
| `StorageInvariants` | its properties and the inductive invariant `IInv` | EXTENDS `Storage` |
| `StorageRefinement` | the mapping from `Storage` to `Database` | INSTANCE `Database` |
| `StorageProofs` | TLAPS proofs about `Storage` | EXTENDS `StorageInvariants`, `RelationalProofs` |
| `RefinementProofs` | TLAPS proof that `Storage` implements `Database` | EXTENDS `StorageRefinement`, `StorageProofs` |
| `Engine` | the statements of `engine.rs` that write, with their checks | `storage == INSTANCE Database` |
| `EngineProofs` | TLAPS proofs about `Engine` | EXTENDS `Engine`, `RelationalProofs` |
| `RelationalProofs` | lemmas about maps and rows for the other proof modules | EXTENDS `Relational` |
| `Session` | `main.rs`, users, roles and audit of `security.rs` | `storage == INSTANCE Database` |
| `SessionProofs` | TLAPS proofs about `Session` | EXTENDS `Session` |
| `StorageCrash` | the single writes of every call of `storage.rs`, a kill between any two, and the next `open` | EXTENDS `StorageInvariants` |
| `CrashInvariants` | its inductive invariants `CrashInv`, `FreshInv`, `OpenInv` and `IndexInv` | EXTENDS `StorageCrash` |
| `CrashProofs`, `CrashSafetyProofs` | TLAPS proofs about `StorageCrash` | EXTEND `CrashInvariants`, `StorageProofs` |
| `Syntax` | `ast.rs` and the values of `types.rs` | |
| `Parser` | `parser.rs`, from tokens to statements | EXTENDS `Syntax` |
| `Grammar` | how a statement is written, after the SQL reference: what the parser is held against | EXTENDS `Parser` |
| `Query` | how `engine.rs` evaluates a statement on rows, and a session that asks one after the other | EXTENDS `Grammar` |
| `QueryProperties` | what the answers have to be | EXTENDS `Query` |
| `QueryProofs` | TLAPS proofs about `Query` and the operators it is built from | EXTENDS `QueryProperties` |
| `MCStorage`, `MCStorageCrash`, `MCEngine`, `MCSession`, `MCQuery` | symmetry sets and inputs for TLC | |

`Engine` and `Session` use storage through `Database`, which the run
`storage_refinement` shows `Storage` to implement: what they rely on is what
storage provides.

### Storage

Each action is a whole call of `storage.rs`. The files a snapshot copies are the
record `disk`; `marker` is `indexes.clean`; `txn_snapshot` is the snapshot
directory; every other variable has the name of the field of `struct Storage`.
`running` says whether there is a `Storage`. `Open`, `Close` (`Drop`) and `Exit`
(the process ends between two calls without `Drop`) make restarts. A row's line
is its position in the table's sequence, so a locator is `(id, position)`; an
index map takes each value to a set of locators. `table_files` abstracts each
append handle to closed, open on the table's file (`live`), or open on a file
that was removed or replaced (`orphan`): rows appended to an orphan are lost,
which is why `rewrite_rows`, `drop_table`, ... close it first. `UpdateFails` is
`rewrite_rows` whose mapper returns an error on some row: the caches are already
dropped and the half-written `<t>.tmp_rewrite.table` stays.

Abstracted: encryption and JSON (what is written is read back), byte offsets
(positions), column types and constraints (payload that storage stores and never
reads), time stamps, I/O errors.

### Storage, write by write

`StorageCrash` takes the calls of `Storage` apart. A call starts as the action of
`Storage` of that name, which says what `struct Storage` holds afterwards and what
the directory will hold (`disk`, `marker`, `txn_snapshot`); conjoined are the
writes with which the code gets there (`CreateTableWrites`, `InsertWrites`,
`RewriteWrites`, ...), each computed from the code's own order and conditions
and not from the result. `writes` is what is left of it: a set of writes with
their stages, those of one stage in any order. `WriteStep` does a write of the
first stage that is left to `files` (or, inside
BEGIN and ROLLBACK, to `snapshot_files`); `Kill` ends the process before any of
them and makes `files` all there is. `WritesAddUp` says that the writes, done to
the end, give what the action promised, and so ties the two levels together.

The writes are those the code makes: a line and its newline are two
(`writeln!`), `atomic_write` is one (the rename is what counts; what it leaves
aside when killed before, nothing reads), `rewrite_rows` writes aside, removes
and renames, BEGIN and ROLLBACK copy or remove file by file in any order that
`read_dir` and the maps allow (a set of writes). A row whose newline is missing
swallows the next one: both become one line that cannot be decrypted
(`readable`), and what reads the table fails. `OpenFails` is an `open` that fails
in `rebuild_all_indexes`: the half-built `Storage` is dropped, which flushes what
was built and creates the marker. `CreateIndexFails`, `AddColumnFails`,
`DropColumnFails` and `RenameColumnFails` are the calls that save the index catalog
or the catalog first and then fail on such a line (`storage.rs:375, 461, 501, 564`):
what they have saved stays, in memory and on disk, and is not recorded. An UPDATE or
DELETE fails there with `UpdateFailsCrash`.

`harm` records in which *windows* kills have fallen: `rollback` (files removed or
not yet copied back), `line` (no newline yet), `rewrite` (the table's file is
gone, its successor not yet renamed) and `marker` (a call that changes files
runs while the marker is still there). They are the windows in which a kill does
harm that a restart does not repair; the properties say what holds without
them, and so also that there are no others.

### Engine

A statement is its checks, in the order and over the rows the code reads,
conjoined with the storage action it calls; `constraints` is the part of the
catalog (`ColumnSchema.constraints`) that `Database` does not keep. A refused
statement changes nothing that `Database` shows and is therefore not a step. A
WHERE clause is the set of row contents it is true of: OR of ANDs of `=` and
`IS NULL` can name any such set. What statements may be issued is an input:
`Declarations` (columns of CREATE TABLE), `AddedDeclarations` (ADD COLUMN),
`Alterable` (columns that are dropped or renamed), `UsesTransactions`.

### Session

A process goes through `opened` (user store read), `saving` (inside
`AuthManager::save`, after `users.enc` was removed and before the rename),
`adding` (`--add-user`), `ready`, `executed` (statement done, not yet logged),
and `stopped`. `cli` is the command line, one of `Invocations`. Standard input is
a file or a pipe: `read_password` takes all of it the first time. A process
may be killed in the phases `KilledIn`.

### Parser and queries

`Syntax` has the statements of `ast.rs` as records and tuples. `Parser` translates
`parser.rs` function by function onto sequences of tokens: it looks for keywords
and symbols outside parentheses and cuts the text there, as the code does. A
`Result` is a set of at most one element. A filter is a sequence (OR) of sequences
(AND) of conditions: `FilterExpr` allows other trees, but `parse_or_expr` and
`parse_and_expr`, which alone make them, nest AND below OR and know no parentheses.
What the code does by recursion, a recursive function does here: `Selects` is what
`parse_select` makes of every text inside a text, and `AnswersInside` what the
subqueries of a statement answer, those nested deeper first. `Query` translates the evaluation in
`engine.rs`: coercion, comparison, LIKE, the candidates of an index, subqueries,
joins, aggregates, groups, order and pages, and the rows INSERT, UPDATE and
DELETE leave. Sums wrap at `IntWidth` bits. Where `sort_by` is given a comparison
that is no order (NULL equals everything), the answer is any permutation.

`QueryNext` asks one text after the other (`Ask`, `Prompt`): the state is the rows
and the indexes that earlier statements left. `Script` is the set of statements,
`Broken` that of texts that are none. The properties do not repeat the code's
definitions: they say what a filter means (`Meant`, with LIKE as its wildcards and
IN as a partner row), what a chain of joins is, how groups add up, and compare
the answer with it. `Grammar` writes each statement in two spellings (`Spellings`):
with INNER JOIN, `!=`, INT, TEXT, BOOL and ASC, and with bare JOIN, `<>`, INTEGER,
STRING, BOOLEAN and no ASC. It leaves out the qualified columns of `README.md:76`,
which the parser refuses (section 6).

## 3. The runs

| run | asks | bound |
|---|---|---|
| `storage_rows` | do index maps, index files, marker, unique caches, row ids and handles follow the rows through writes, failed updates, transactions and restarts? | 1 table, 1 column, 2 values and NULL, 1 index, 3 rows, batches of 2 ids, 4 ids, 2 migrations |
| `storage_schema` | do rows, schema, index definitions and migration log stay in step under ALTER, DROP, ROLLBACK? | 1 table, 2 columns, 2 indexes, 1 row, 4 migrations |
| `storage_refinement` | does storage do what `Database` says, and is `IInv` true? | 2 tables, 1 column, 2 indexes, 1 row each, 3 migrations |
| `storage_crash` | wherever a call is killed: is a row lost or unreadable (but for the cases `NothingLost` names), is a recorded schema change half made, is an id handed out twice, is the marker to be trusted, does the directory open? | 1 table, 2 columns, NULL only, 1 index, 2 rows, batches of 1, 3 migrations, 1 kill, 2 calls after it |
| `storage_reopen` | liveness: does whoever keeps starting FluxDB get the directory open? | 1 table, 1 column, 1 index, 2 rows, batches of 2, 2 migrations, 1 kill, 2 calls after it |
| `storage_crash_stale_index` | violation: see section 6 | as `storage_crash` |
| `engine_rows` | do the constraints hold after every INSERT, UPDATE, DELETE? | 2 tables, 2 columns, 4 declarations, 2 values and NULL, 2 rows each |
| `engine_alter` | do foreign keys survive DROP, ALTER and ROLLBACK, and is `IInv` true? | 2 tables, 1 row each, 1 index, 4 migrations |
| `engine_self_reference`, `engine_rename` | violations: see section 6 | |
| `sessions` | what can a session of each role change, who gets an account, is it kept, does the audit log account for it? | 3 users, 2 passwords, three roles, 15 command lines, 10 kinds of statements, 1 table, 1 row, 3 audit entries, 2 migrations |
| `queries` | are statements read as they are meant, and answered as they mean? | 59 statements in two spellings and 13 broken texts, 3 tables, 3 rows in all, integers of 4 bits |

**Why the bounds are enough.** Two index names and two columns are what a
duplicate or a rename needs; two tables are what one operation leaking into
another table's state, or a foreign key, needs. Three rows are what a position
that shifts after a delete in the middle needs; a batch of two ids with four ids
in all makes a batch run out, be reserved again after a restart, and be taken
back by a rollback. Values differ only by equality in storage and in the checks,
so two values and NULL distinguish equal, different and absent. One kill falls
between any two writes of any call, and the two calls after it are what an
append to a broken line, or a write that trusts a stale marker, needs; what a
kill does depends on which files are written, not on the values in them. In
`queries`, three rows are a join of three tables, two rows of one group beside
another, or a page in the middle; the statements have each clause, and each
clause with NULL, with a literal of the wrong type and below AND and OR; with
four bits, sums of three numbers leave the range. Every bound is a
named constant (`MaxRows`, `MaxRowId`, `MaxMigrations`, `MaxAudit`, `MaxKills`,
`MaxLater`, `IntWidth`) in a guard; how deep subqueries are nested
(`MaxNesting`) bounds the statements, not the steps. Values, columns, indexes and tables are
symmetric in `Storage` and `StorageCrash`, values in `Engine`; the run with a
liveness property uses no symmetry.

**Deadlock** is checked in `queries`, where the next statement can always be
asked. It is not checked in the others: the bounds stop a behaviour, and the
real process may stop at any point.

**Fairness.** `storage_reopen` assumes `CrashFairness`: a process that is inside a
call goes on with it (`WriteStep`: every call is synchronous and returns), and
someone starts FluxDB again when it does not run (`OpenCrash`, `OpenFails`). No
other call and no kill is fair. Elsewhere no liveness property is stated:
nothing in the code schedules, retries or waits, so there is nothing that must
*eventually* happen but what the user asks next.

## 4. The properties

Storage: `IndexedReadsAgree` (an indexed equality lookup reads exactly the rows a
scan finds), `CleanMarkerSound` (whenever the process may stop between two calls,
the marker is there only if every index file is exact), `UniqueCacheExact`,
`RowIdsFresh`, `NoOrphanHandle`, `SchemaAndRowsAgree`, `MigrationsReplay` (the
log, replayed, gives the present schema), `RowIdsMoveForward` (an action
property: no id is ever handed out twice, except after ROLLBACK), and
`ImplementsDatabase`.

Storage under kills: `WritesAddUp`; `NothingLost` (every table can be read and its
rows are somewhere in the directory, as before the call or as after it; left out are
ROLLBACK, which the next property is about, and directories in which a kill fell
between a line and its newline, where the row and the next one are lost);
`RollbackCanBeRedone` (what ROLLBACK goes back to is whole in the snapshot until
it is whole in the directory); `RecordedChangesAreWhole` (no migration record of
a change that is not made); `RowIdsFreshAfterKills`; `IndexesSoundAfterKills` and
`OpenSucceeds` (outside the named windows a kill never leaves a marker that is
not to be trusted, nor a directory that does not open); `CanBeOpened` (a liveness
property: an `open` that fails leaves the marker with which the next one
succeeds, at the price of indexes that were not rebuilt); and, of the test's
words and violated, `StaleIndexesRebuilt`.

Engine: `NotNullHolds`, `UniqueHolds`, `ReferencesHold` (every value in a column
that references another table is held there), `ReferencesResolve` (a REFERENCES
target exists).

Session: `RolesRespected` (an action property; the case to think of is ROLLBACK
in a `read_write` session after an admin's process ended inside a transaction),
`AccountsGranted`, `SomeAdmin`, `AccountsSurvive`, `AuditExplainsSchema` (replaying
the log's successful entries predicts the number of migrations).

Queries: `ReadAsWritten` (the parser reads what `Grammar` writes, in both spellings,
and refuses the broken texts), `TypedCells` (coercion), `IndexInvisible`
(a WHERE yields exactly the rows it means, with and without an index),
`LikeMeansWildcards`, `SubqueryIsSemiJoin`, `JoinIsProduct` (each combination of
rows once, every cell in its own column, for tables whose names are apart:
`NamesApart`), `GroupsAddUp` (but for sums that leave the range), `PagesInOrder` (a page is
the right piece of a sorted permutation of the rows, ties as in the table).

## 5. The proofs

`StorageProofs` proves `Spec => []TypeOK`, `Spec => []IInv` and from that `CleanMarkerSound`, `UniqueCacheExact`,
`NoOrphanHandle`, `SchemaAndRowsAgree`, `RowIdsFresh`, `IndexedReadsAgree` and
`RowIdsMoveForward`, for any sets of tables, columns, index names and values, any
batch size and any bounds. The assumptions are those named in the modules
(`NullAssumption`, `BatchAssumption`, `BoundAssumption`).

None of these properties is inductive. That the marker is sound after `Drop`
needs that what is flushed, the dirty maps, is all that is not yet in the files
(`MapsTracked`), and that a marker on disk is known to the process
(`MarkerTracked`: otherwise a write would not remove it). That a lookup is
exact needs that the maps are exact, that ids identify rows (`RowIdsAscend`) and
that every index is on a column that exists. That ids are fresh needs that a
cursor's batch ends where the reserved ids do and starts above every row
(`CursorsReserved`). And everything must hold *of the snapshot* while a
transaction is open, because ROLLBACK makes it the directory (`SnapshotSound`).
`IInv` is the conjunction; each action is shown to preserve each conjunct that
it can disturb.

`RefinementProofs` proves `Spec => ImplementsDatabase`: every call of `storage.rs`
does to the contents what the action of its name in `Database` says, or nothing,
for any sets and bounds. Three facts of `IInv` carry it. What the process has in
memory is what is on disk (`MetadataSaved`), so that the contents are those of
the files; a row is never written through a handle on a file that was replaced
(`NoOrphanHandle`: such an INSERT would be a lost one); and a snapshot is a whole
directory (`SnapshotSound`), so that ROLLBACK finds the contents at BEGIN in it.
Each action has a lemma, which takes the contents apart into columns, rows,
indexes and log. The one new assumption, `SnapshotAssumption`, says that the mark
for "no snapshot" is not itself the contents of a snapshot.

From the refinement follows `Spec => []MigrationsReplay`: each action of
`Database` appends one record to the log, and redoing it takes the schema before
the action to the schema after it; ROLLBACK goes back to a log and a schema that
agreed at BEGIN (`HistoryInv`). What replaying a log computes is a recursive
function on the log's positions. The facts the argument needs, that it is that of
the shorter log and then one `Redo` (`SchemaAfterChange`), are proved by
induction, as the least position at which they would fail.

`EngineProofs` proves `Spec => []TypeOK`, `[]NotNullHolds`, `[]UniqueHolds`,
`[]ReferencesHold` and `[]ReferencesResolve` for any tables, columns, values,
declarations and bounds, with or without transactions. Each is under the
assumption `CarefulScripts`: no statement drops or renames a column that a
declaration references, and ADD COLUMN declares no constraint. Without it
`ReferencesHold` is false (`engine_rename`), and `NotNullHolds` and `UniqueHolds`
are (section 6). The other assumption, `NoTransactionAssumption`, says that the
mark for "no transaction" is not itself a database.

The invariant `IInv` says the same of the contents at BEGIN as of the present
ones, since ROLLBACK restores them, and ties constraints to rows: each row has
exactly its table's columns, and no reference names a column that statements
alter. The argument has two lemmas: `RowsWritten`, for a statement that replaces
the rows of one table by rows that meet its constraints and still hold every
key its children use (INSERT, UPDATE, DELETE), and `TableAltered`, for a statement
whose columns each come, with their cells and constraints, from an old one (ADD,
DROP, RENAME COLUMN). `INSTANCE Database` has its own copies of the operators of
`Relational`; the module starts by proving them equal.

`SessionProofs` proves `Spec => []TypeOK`, `[]SomeAdmin`, `RolesRespected` and
`AccountsGranted` for any users, passwords, command lines, statements and bounds,
killed in any phase, and `[]AccountsSurvive` under the assumption
`NeverKilledSaving`: no process is killed while it replaces `users.enc`
(`"saving" \notin KilledIn`), which is when the code loses every account. The
other assumption, `SessionAssumption`, says that the mark for "none" is no user,
command line, identity or audit entry.

`RolesRespected` does not follow from the guards of a step: ROLLBACK is allowed to
`read_write` and goes back to the contents at BEGIN, which an admin's session
may have left behind. The invariant `SessionInv` bounds it
(`TransactionsBounded`): a transaction is open only while a session answers
statements, never in a `read_only` one, and in a `read_write` one the contents at
BEGIN have the schema, indexes and log of the present ones, so that going back to
them changes rows and nothing else; that rests on `open` ending what an earlier
process left (`EndOfTransaction`). Its other parts are that the store in memory is the user
file but in the middle of a save (`StoreCurrent`), that the identity is an
account of it with its role (`LoggedInKnown`), that a phase fits its command line
(`CommandLine`), and that a store that is not empty has an admin (`HasAdmin`).
`AccountsSurvive` needs `KeptInv`: the accounts of the log are in the store and in
the file, with their roles.

`[]AuditExplainsSchema` is proved under `NeverKilledUnlogged`: no process is killed
between a statement and its entry (`"executed" \notin KilledIn`), which is when
the log misses what was done. `AuditInv` adds the statement that is executed and
not yet logged, and the contents at BEGIN, whose number of migrations the log
must tell as well (`Replay`, along the log, as for the migrations above).

`CrashProofs` proves `CrashSpec => []CrashInv` and from it `WritesAddUp`,
`RollbackCanBeRedone` and `RecordedChangesAreWhole`, for any sets,
any number of kills and any calls after them. The properties speak of the end of
a call or of what a kill finds, and none says how far a call is. `CrashInv` does,
at every write:
- *the writes lead there* (`WritesLead`): every path either already is as the call
  will leave it, or a write to be done alters it; and each such write puts there
  what the call leaves, or something that a rename to be done still waits for;
- *the snapshot* (`SnapshotLeads`): in BEGIN, every file to be copied is copied as it
  is now or has its copy to be done; elsewhere it is as `Storage` says, or is
  about to be dropped;
- *what was there before* (`BeforeKept`): a table's rows are those from before the
  call until the first write to its file; the log is the last file written;
- *ROLLBACK* (`RollbackLeads`): no file is copied back before all are removed, a
  file that is not to be removed is already as in the snapshot, and the snapshot
  is dropped last.

That a call's writes lead to where its action does is shown call by call; that
a write keeps it, once for all calls. `DirectoryAssumption` says that the mark for
"no snapshot" is not a directory.

`CrashSafetyProofs` proves `[]FreshInv` and from it `RowIdsFreshAfterKills`. Ids have
to ascend below the catalog's reserve in the files at every moment of a call,
where the catalog's file may be old and the table's new or the other way round:
`IdsLead` says that each of the two fits the other as it was before the call,
unless a write of an earlier stage replaces that one first. INSERT, which moves
both, is the call whose order matters (catalog first), and CREATE TABLE (file
first).

It also proves `[]OpenInv` and from it `OpenSucceeds` and `NothingLost`. An `open` without the marker
rebuilds every index, and fails on an index whose table the catalog does not have and on
a table with a line nobody can read. `OpenInv` says:
- in a directory that no kill in a ROLLBACK or within a line has touched, *tables of indexes are known* (`Known`): in the files as the last call left them, in
  the snapshot, and at every write of a call, where the file of the catalog and
  that of the indexes are saved at different times: `KnownLead` says that each
  fits the other as it was before the call, unless the other is saved first (DROP
  TABLE saves the indexes first, which is why a kill in it is harmless);
- in one that no kill within a line has touched, *lines are whole* (`LinesInv`, of
  `WholeLines` and `LinesLead`): an INSERT appends to lines that all
  ended, and while its own line has not, the write of its newline is still to be
  done; a rewrite puts whole lines into its temporary file, and a snapshot is of whole lines.

In a ROLLBACK the first is not claimed: that is the window `harm` records. The second
is, since the files ROLLBACK copies back are whole; with `BeforeKept` of `CrashInv`,
and with what the temporary file of a rewrite holds when the old file is removed
(`RenamesFit`), it gives `NothingLost`.

Last, it proves `[]IndexInv` and from it `IndexesSoundAfterKills`. The next `open`
believes every index file if it finds the marker, so a kill must never leave the
marker beside a file that is out of date. `IndexInv` says of a directory that no
kill in the windows "marker", "rollback" and "line" has touched:
- *maps and marker are tracked*, as in `IInv`, and the snapshot's index files are exact;
- *no `open` fails*, by `OpenInv`: one that did would create the marker without
  having built every map;
- *the marker leads* (`MarkerLead`), in the calls that the window "marker" does not
  cover, because they change no row and no definition (`open`, `close`, BEGIN,
  COMMIT): while the marker is there, no other file is still to be altered and the
  index files the call leads to are exact; and the marker is created in a later
  stage than every index file.

A kill in such a call then either finds no marker, and the next `open` rebuilds,
or finds the files just as the call leads to them. That each call keeps the maps
exact is shown from `MapsTracked`, `MetadataSaved`, `NoOrphanHandle` and `Known`
alone (`MapsKnown`), since after kills the rest of `IInv` need not hold; the lemmas
of `StorageProofs` about maps are stated so that both invariants use them.
TLC checked `CrashInv`, `FreshInv`, `OpenInv` and `IndexInv` on the instance of
`storage_crash` before they were proved.

`QueryProofs` proves `QuerySpec => []TypedCells` for any tables, columns, rows and
statements: whatever literals INSERT and UPDATE are given, and whatever the parser
makes of a text, a cell has the type of its column or is NULL. The invariant adds
that the rows of a table are a sequence; most of the work is in the parser, whose
lists have to be shown to be lists (`ReadLists`), since UPDATE pairs columns and
values by their place.

It also proves what a WHERE yields. `IndexInvisible`, `LikeMeansWildcards` and
`SubqueryIsSemiJoin` say, each of some filters, that `SELECT *` is answered with the
rows the filter means, in the order of the table; `PagesInOrder` says in which order
and which of them where there is ORDER BY, LIMIT and OFFSET. All follow from one
invariant, `RightAnswers` (every `SELECT *` is answered with a page of the rows it
means), and hold for any tables, rows, indexes, values, widths of integers, filters and depth of
subqueries. Each theorem has the premise `[]ReadAsWritten`, the property TLC checks:
what a statement means is said of the statement that was asked, so it has to be
the one that was read. The argument goes along the code:
- *literals*: a literal that spells a value of its column's type is compared as that
  value (`FittingCoerced`); two values look the same when printed just if they are
  the same after `coerce_value` (`PrintedAndParsed`, `DecimalsDiffer`: `parse::<i64>`
  undoes what `Display` prints, by induction on the number);
- *LIKE*: the table of prefixes says of each pair of prefixes whether the pattern
  can be laid over the text (`LikeMatchesWildcards`, by induction on the pair);
- *indexes*: a row that meets the filter meets the equality whose rows the index
  yields (`FetchedAll`), which under OR is no longer so;
- *subqueries*: their values in the place of the subquery make the condition true
  of the rows with a partner (`SubqueryMeaning`), if they are answered right, and
  they are, the innermost ones first (`SubqueriesAnswered`, by induction on how deep
  they are not nested);
- *the statement*: fetching, filtering and projecting then leaves the rows that are
  meant, each once and in order (`SelectMeaning`), and there is nothing else the
  statement can be answered with, an error included (`AnswersMeaning`, `SomePage`);
- *order and pages*: values of one type other than NULL are in a strict order
  (`ValuesOrdered`; of texts `TextsOrdered`), so the first column that tells rows
  apart orders them up to ties (`FirstApartOrders`, `KeysOrder`); made strict by the
  places of the rows it gives each row a rank of its own (`StablyOrders`,
  `RanksPermute`), and the rows sorted by it are a permutation in which ties stay
  as they were (`OrderedPermutes`), of which the page is a piece (`PageCut`). With
  NULL among the cells that are compared the permutation is any.
Rows must hold values for this (`ValuedTables`), which literals do that are values
(`ScriptAssumption`) and coercion keeps (`WrittenValued`).

Of GROUP BY it proves `GroupsPartRows`, a fact about the operator `GroupsOf` for any
rows and columns: every row is in the group of its key, a group has all rows of one
key in the order of the table, none is empty, and no two share a key. The positions
at which a key occurs first are what makes groups distinct.

Only model-checked: `ReadAsWritten` (what the parser makes of the text the grammar
derives is induction over that text), `JoinIsProduct` and `GroupsAddUp` (what a fold
over joins or rows accumulates is induction over them). Out of the prover's
reach: ENABLED, and the liveness property `CanBeOpened`.

## 6. Where the code does not do what it says

- `engine_self_reference`: `UPDATE t SET id = 7, parent = 5 WHERE id = 5` in a table
  with `parent INT REFERENCES t(id)` is accepted: the parent 5 is looked up in the
  rows before the update, and the children of 5 are looked for there too, where
  there are none. Afterwards the row references 5, which no row holds.
- `engine_rename`: RENAME COLUMN and DROP COLUMN of a referenced column are not
  refused, and `REFERENCES t(old)` stays declared: children keep values that
  nothing matches, and the parent's rows can then be deleted.
- `storage_crash_stale_index`: `append_row` writes a row's line at once, and removes
  `indexes.clean` only afterwards. In the trace, CREATE TABLE and CREATE INDEX are
  carried through, BEGIN flushes the index and creates the marker, and an INSERT is
  killed after its line and newline and before the marker is removed. The next
  `open` trusts the index file, which misses the row. The test
  `stale_index_is_rebuilt_after_unclean_shutdown` (`engine.rs:2366`) removes the
  marker itself and so cannot see it.

What kills in the other windows do (`storage_crash`): in `line`, the next row is
lost with the one before, `open` fails once if the table has an index, and then
succeeds with indexes that were not rebuilt (`storage_reopen`); in `rewrite`, the
table reads as empty, its rows are in `<t>.tmp_rewrite.table`; in `rollback`, the
directory is a mixture, and the next `open` deletes the snapshot.

Met while modelling, without a run of its own:

- `ADD COLUMN ... UNIQUE DEFAULT v` and `ADD COLUMN ... NOT NULL` are accepted on a
  table with rows and break the constraint they declare (`AddedDeclarations`).
- `fluxdb --bootstrap-admin admin --user admin --password-stdin` (`README.md:38`)
  reads stdin to its end for the bootstrap; the login then finds it empty.
- An UPDATE that fails on NOT NULL leaves `<t>.tmp_rewrite.table`, which every later
  snapshot copies.
- A process killed while a user is being added, between the removal of `users.enc`
  and the rename (`security.rs:190-192`), loses every account (`AccountsSurvive` with
  `"saving"` in `KilledIn`).
- Statements are logged after they took effect (`README.md:10` says every query is
  logged): a process killed in between leaves no entry (`AuditExplainsSchema` with
  `"executed"` in `KilledIn`).
- `SELECT users.id, ...` as `README.md:76` writes it is refused (`parser.rs:1230`): a
  name with a dot is no identifier. The column of a joined table is written
  `orders_id`. `Grammar` leaves the form out.
- A column `<table>_<column>` of a joined table takes the place of one of that name
  that is there already (`engine.rs:512-523, 554`), though `README.md:123` gives the
  prefix to tell them apart: `SELECT * FROM orders JOIN users ON orders.id = users.id`
  with `orders (users_id, id)` shows the user's id in both columns `users_id`.
  `JoinIsProduct` excludes it (`NamesApart`).
- ORDER BY a column that is not in the answer is skipped without an error
  (`engine.rs:627`). With NULL among its values the comparison is no order.
- The last clauses are found in any order, but only cut off in one: LIMIT before
  ORDER BY is dropped silently.
- A table joined with itself is looked up under the names of its second occurrence
  (`engine.rs:519` overwrites the map of names), so an ON condition does not find the
  columns of the first; joined a third time, the columns of the second are overwritten.

## 7. Not modelled

- Encryption: a pure function on bytes; what is written is read back.
- In the parser: quotes, case, white space, comments and the separation of
  statements by semicolons, and positions in a text that is not ASCII. In the
  answers: the output of SHOW and DESCRIBE, and the wording of messages.
- I/O errors, and the loss of power: a kill ends the process, and what the
  operating system has accepted is not lost.
- Two processes on one data directory: the code takes no lock; nothing promises
  that this works.
- Constraints and indexes together with the values of queries: `Engine` has the
  checks with conditions as sets of rows, `Query` the conditions themselves, on
  tables without constraints.
- Benchmarks and tests.

## 8. What is done and what is left

1. `Maps`, `Relational`, `Database`, `Storage` with properties, refinement and
   proofs of both: **done**.
2. `Engine` with its constraints, proofs of them: **done**.
3. `Session`, proofs of roles and accounts: **done**.
4. `StorageCrash`: **done**, with proofs of every invariant of `storage_crash` for any
   number of kills.
5. `Parser` and `Query`: **done**, with proofs of types, filters, LIKE, subqueries, order
   and pages, and of how GROUP BY parts the rows; those of joins and of what is added
   up in a group are left.
6. Left: errors of single writes, which return to a `Storage` that goes on.
