--------------------------------- MODULE Engine ---------------------------------
(***************************************************************************)
(* engine.rs: the statements that write, with the checks Engine makes      *)
(* before it calls storage. The storage is used through what it promises,  *)
(* Database.tla, which Storage.tla implements.                             *)
(*                                                                         *)
(* A statement that is refused changes nothing, so it is no step here: a   *)
(* guard stands for each early Err. Values have been coerced to their      *)
(* column's type; columns are of one type, so the check that a REFERENCES  *)
(* target has the type of its column never fails.                          *)
(***************************************************************************)
EXTENDS Relational

CONSTANTS
    NoTransaction,
    Declarations,       \* what CREATE TABLE statements may declare of a column
    AddedDeclarations,  \* what ADD COLUMN statements may declare of one
    Alterable,          \* the columns that statements drop or rename
    UsesTransactions,   \* whether statements include BEGIN
    MaxRows,            \* bound: rows in a table
    MaxMigrations       \* bound: migration records

VARIABLES
    db, saved,          \* the storage, see Database.tla
    constraints,        \* the declaration of each column of each table
    saved_constraints   \* those at BEGIN

vars == <<db, saved, constraints, saved_constraints>>

storage == INSTANCE Database

\* A column's constraints (ColumnSchema.constraints).
Declaration ==
    [primary_key : BOOLEAN, not_null : BOOLEAN, unique : BOOLEAN,
     references : SUBSET [table : Tables, column : Columns]]

Unconstrained ==
    [primary_key |-> FALSE, not_null |-> FALSE, unique |-> FALSE, references |-> {}]

\* ADD COLUMN does not accept PRIMARY KEY.
ASSUME DeclarationAssumption ==
    /\ Declarations \subseteq Declaration
    /\ AddedDeclarations \subseteq {d \in Declaration : ~d.primary_key}
    /\ Alterable \subseteq Columns
    /\ UsesTransactions \in BOOLEAN
    /\ {MaxRows, MaxMigrations} \subseteq Nat

ASSUME NoTransactionAssumption ==
    NoTransaction \notin [schema : Maps(Tables, SUBSET Columns), rows : Maps(Tables, Seq(Data)),
                          indexes : Maps(IndexNames, IndexDefinition), log : Seq(Changes)]

---------------------------------------------------------------------------------
(* What the checks look at *)

\* The columns of t that may hold no NULL, and those that may hold no value
\* twice, by the constraints `cons`.
Mandatory(cons, t) ==
    {c \in DOMAIN cons[t] : cons[t][c].not_null \/ cons[t][c].primary_key}

Distinct(cons, t) ==
    {c \in DOMAIN cons[t] : cons[t][c].unique \/ cons[t][c].primary_key}

\* The values some row of table t of contents d holds in column c; row.get(c)
\* is None for a column the row does not have.
HeldIn(d, t, c) ==
    IF t \notin DOMAIN d.rows THEN {}
    ELSE {data[c] : data \in {r \in Range(d.rows[t]) : c \in DOMAIN r}}

\* referencing_columns: the columns, of any table, declared to reference
\* `parent`, each with the column of `parent` it references.
ReferencingColumns(parent) ==
    {ref \in [table : DOMAIN constraints, column : Columns, parent_column : Columns] :
        /\ ref.column \in DOMAIN constraints[ref.table]
        /\ [table |-> parent, column |-> ref.parent_column]
                \in constraints[ref.table][ref.column].references}

\* A non-null value put in column c of t has a match where c references.
HasParents(t, c, v) ==
    v # Null => \A r \in constraints[t][c].references : v \in HeldIn(db, r.table, r.column)

MigrationBound == Len(db.log) < MaxMigrations

---------------------------------------------------------------------------------
(* Schema statements *)

\* A REFERENCES target of a new table t is a column of t or one that exists.
TargetExists(t, columns, r) ==
    IF r.table = t THEN r.column \in columns
    ELSE r.table \in DOMAIN db.schema /\ r.column \in db.schema[r.table]

CreateTable(t, declared) ==
    /\ MigrationBound
    /\ DOMAIN declared # {}
    /\ \A c, d \in DOMAIN declared : declared[c].primary_key /\ declared[d].primary_key => c = d
    /\ \A c \in DOMAIN declared : \A r \in declared[c].references :
           TargetExists(t, DOMAIN declared, r)
    /\ storage!CreateTable(t, DOMAIN declared)
    /\ constraints' = Put(constraints, t, declared)
    /\ UNCHANGED saved_constraints

\* Refused while a column of another table references t, whatever its rows.
DropTable_Unchecked(t) ==
    /\ MigrationBound
    /\ storage!DropTable(t)
    /\ constraints' = Without(constraints, {t})
    /\ UNCHANGED saved_constraints

DropTable_KeepsConstraints(t) ==
    /\ MigrationBound
    /\ \A ref \in ReferencingColumns(t) : ref.table = t
    /\ storage!DropTable(t)
    /\ UNCHANGED <<constraints, saved_constraints>>

DropTable(t) ==
    /\ MigrationBound
    /\ \A ref \in ReferencingColumns(t) : ref.table = t
    /\ storage!DropTable(t)
    /\ constraints' = Without(constraints, {t})
    /\ UNCHANGED saved_constraints

\* The three ALTER TABLE statements check no constraint, neither of the rows
\* there are nor of the columns that reference the table.
AddColumn(t, c, declared, default) ==
    /\ MigrationBound
    /\ storage!AddColumn(t, c, default)
    /\ constraints' = [constraints EXCEPT ![t] = Put(@, c, declared)]
    /\ UNCHANGED saved_constraints

DropColumn(t, c) ==
    /\ MigrationBound
    /\ storage!DropColumn(t, c)
    /\ constraints' = [constraints EXCEPT ![t] = Without(@, {c})]
    /\ UNCHANGED saved_constraints

\* The constraints of the column go with it to its new name.
RenameColumn(t, old, new) ==
    /\ MigrationBound
    /\ storage!RenameColumn(t, old, new)
    /\ constraints' = [constraints EXCEPT ![t] = WithRenamed(@, old, new)]
    /\ UNCHANGED saved_constraints

CreateIndex(i, t, c) ==
    /\ MigrationBound
    /\ storage!CreateIndex(i, t, c)
    /\ UNCHANGED <<constraints, saved_constraints>>

DropIndex(i) ==
    /\ MigrationBound
    /\ storage!DropIndex(i)
    /\ UNCHANGED <<constraints, saved_constraints>>

---------------------------------------------------------------------------------
(* Row statements *)

Insert(t, data) ==
    /\ t \in DOMAIN db.rows /\ Len(db.rows[t]) < MaxRows
    /\ \A c \in Mandatory(constraints, t) : data[c] # Null
    /\ \A c \in Distinct(constraints, t) : data[c] # Null => data[c] \notin HeldIn(db, t, c)
    /\ \A c \in DOMAIN constraints[t] : HasParents(t, c, data[c])
    /\ storage!Insert(t, data)
    /\ UNCHANGED <<constraints, saved_constraints>>

\* The values assigned have their parents among the rows before the update.
AssignedHaveParents(t, assignments) ==
    \A c \in DOMAIN assignments : HasParents(t, c, assignments[c])

\* check_referencing_children_on_update: a key that the update would change is
\* not held by a referencing column, even if another row keeps that key.
KeysChangedUnreferenced(t, where, assignments) ==
    \A ref \in ReferencingColumns(t) : ref.parent_column \in DOMAIN assignments =>
        \A data \in where : ref.parent_column \in DOMAIN data =>
            \/ data[ref.parent_column] \in {Null, assignments[ref.parent_column]}
            \/ data[ref.parent_column] \notin HeldIn(db, ref.table, ref.column)

\* check_unique_constraints_for_update, over the rows as they will be.
StaysDistinct_MatchedOnly(t, where, assignments) ==
    \A c \in Distinct(constraints, t) \cap DOMAIN assignments : \A i, j \in DOMAIN db.rows[t] :
        {db.rows[t][i], db.rows[t][j]} \subseteq where /\ assignments[c] # Null => i = j

StaysDistinct(t, where, assignments) ==
    \A c \in Distinct(constraints, t) \cap DOMAIN assignments : \A i, j \in DOMAIN db.rows[t] :
        LET v == Updated(db.rows[t][i], where, assignments)[c] IN
        v # Null /\ v = Updated(db.rows[t][j], where, assignments)[c] => i = j

\* The check made on each row rewritten: a NULL assigned to a mandatory column.
NoNullAssigned_NotNullOnly(t, where, assignments) ==
    where # {} => \A c \in DOMAIN assignments :
        constraints[t][c].not_null => assignments[c] # Null

NoNullAssigned(t, where, assignments) ==
    where # {} => \A c \in Mandatory(constraints, t) \cap DOMAIN assignments : assignments[c] # Null

\* `where` is the set of those rows of t the WHERE clause is true of.
Update(t, where, assignments) ==
    /\ AssignedHaveParents(t, assignments)
    /\ KeysChangedUnreferenced(t, where, assignments)
    /\ StaysDistinct(t, where, assignments)
    /\ NoNullAssigned(t, where, assignments)
    /\ storage!Update(t, where, assignments)
    /\ UNCHANGED <<constraints, saved_constraints>>

\* A key that no row keeps is not held by a referencing column: the rows of t
\* itself count as referencing even when they are deleted too.
KeysDeletedUnreferenced_Survivor(t, where) ==
    \A ref \in ReferencingColumns(t) : \A data \in where : ref.parent_column \in DOMAIN data =>
        LET key == data[ref.parent_column] IN
        \/ key = Null
        \/ \E r \in Range(db.rows[t]) : ref.parent_column \in DOMAIN r /\ r[ref.parent_column] = key
        \/ key \notin HeldIn(db, ref.table, ref.column)

KeysDeletedUnreferenced(t, where) ==
    \A ref \in ReferencingColumns(t) : \A data \in where : ref.parent_column \in DOMAIN data =>
        LET key == data[ref.parent_column] IN
        \/ key = Null
        \/ \E r \in Range(db.rows[t]) \ where :
               ref.parent_column \in DOMAIN r /\ r[ref.parent_column] = key
        \/ key \notin HeldIn(db, ref.table, ref.column)

Delete(t, where) ==
    /\ KeysDeletedUnreferenced(t, where)
    /\ storage!Delete(t, where)
    /\ UNCHANGED <<constraints, saved_constraints>>

---------------------------------------------------------------------------------
(* Transactions: the constraints are part of the catalog a snapshot holds *)

BeginTransaction ==
    /\ UsesTransactions
    /\ storage!Begin
    /\ saved_constraints' = constraints
    /\ UNCHANGED constraints

\* Also the end of the process inside a transaction.
CommitTransaction ==
    /\ storage!Commit
    /\ saved_constraints' = EmptyMap
    /\ UNCHANGED constraints

RollbackTransaction_KeepsConstraints ==
    /\ storage!Rollback
    /\ saved_constraints' = EmptyMap
    /\ UNCHANGED constraints

RollbackTransaction ==
    /\ storage!Rollback
    /\ constraints' = saved_constraints
    /\ saved_constraints' = EmptyMap

---------------------------------------------------------------------------------

Init ==
    /\ storage!Init
    /\ constraints = EmptyMap
    /\ saved_constraints = EmptyMap

SchemaStatement(t) ==
    \/ \E columns \in SUBSET Columns : \E declared \in [columns -> Declarations] :
           CreateTable(t, declared)
    \/ DropTable(t)
    \/ \E c \in Columns :
        \/ \E i \in IndexNames : CreateIndex(i, t, c)
        \/ \E declared \in AddedDeclarations, default \in Val : AddColumn(t, c, declared, default)
    \/ \E c \in Alterable :
        \/ DropColumn(t, c)
        \/ \E new \in Columns : RenameColumn(t, c, new)

RowStatement(t) ==
    /\ t \in DOMAIN db.rows
    /\ \/ \E data \in [db.schema[t] -> Val] : Insert(t, data)
       \/ \E where \in SUBSET Range(db.rows[t]) :
            \/ Delete(t, where)
            \/ \E assignments \in Assignments(db.schema[t]) : Update(t, where, assignments)

Next ==
    \/ \E t \in Tables : SchemaStatement(t) \/ RowStatement(t)
    \/ \E i \in IndexNames : DropIndex(i)
    \/ BeginTransaction \/ CommitTransaction \/ RollbackTransaction

Spec == Init /\ [][Next]_vars

---------------------------------------------------------------------------------
(* The properties *)

\* The constraints cover exactly the tables and columns there are, now and in
\* what a ROLLBACK would restore.
Declared(d, cons) ==
    /\ DOMAIN cons = DOMAIN d.schema
    /\ \A t \in DOMAIN cons : cons[t] \in [d.schema[t] -> Declaration]

TypeOK ==
    /\ storage!TypeOK
    /\ Declared(db, constraints)
    /\ IF saved = NoTransaction THEN saved_constraints = EmptyMap
       ELSE Declared(saved, saved_constraints)

\* What holds of contents d under constraints cons.
NotNullIn(d, cons) ==
    \A t \in DOMAIN cons : \A i \in DOMAIN d.rows[t] : \A c \in Mandatory(cons, t) :
        Cell(d.rows[t][i], c) # Null

UniqueIn(d, cons) ==
    \A t \in DOMAIN cons : \A i, j \in DOMAIN d.rows[t] : \A c \in Distinct(cons, t) :
        Cell(d.rows[t][i], c) # Null /\ Cell(d.rows[t][i], c) = Cell(d.rows[t][j], c) => i = j

Matched(d, t, c, r) ==
    \A i \in DOMAIN d.rows[t] :
        Cell(d.rows[t][i], c) \in HeldIn(d, r.table, r.column) \cup {Null}

ReferencesIn(d, cons) ==
    \A t \in DOMAIN cons : \A c \in DOMAIN cons[t] : \A r \in cons[t][c].references :
        r.table # t => Matched(d, t, c, r)

ResolveIn(d, cons) ==
    \A t \in DOMAIN cons : \A c \in DOMAIN cons[t] : \A r \in cons[t][c].references :
        r.table \in DOMAIN d.schema /\ r.column \in d.schema[r.table]

\* No row ever holds NULL in a NOT NULL or PRIMARY KEY column, whatever
\* INSERTs, UPDATEs and ROLLBACKs came before (engine.rs:1002, :455).
NotNullHolds == NotNullIn(db, constraints)

\* No two rows hold the same value in a UNIQUE or PRIMARY KEY column, also
\* after an UPDATE of many rows at once (engine.rs:1026, :1036-1083).
UniqueHolds == UniqueIn(db, constraints)

\* A value in a column that references another table is held by the column it
\* references. This is what the restrict semantics of README.md:103 amount to:
\* inserting or updating a child needs a parent, and a parent in use is
\* neither deleted nor given another key (engine.rs:903, :952, :785-817).
ReferencesHold == ReferencesIn(db, constraints)

\* The same of the references of a table to itself.
SelfReferencesHold ==
    \A t \in DOMAIN constraints : \A c \in DOMAIN constraints[t] :
        \A r \in constraints[t][c].references : r.table = t => Matched(db, t, c, r)

\* Every REFERENCES names a column that exists: the target of a reference is
\* never dropped under it (engine.rs:184-228, :248-258), nor put back without
\* it by a ROLLBACK.
ReferencesResolve == ResolveIn(db, constraints)

---------------------------------------------------------------------------------
(* The inductive invariant *)

\* The statements of the schema that leave references alone: none drops or
\* renames a column that a reference names, and none adds a column with a
\* constraint that the rows there are may not meet.
CarefulScripts ==
    /\ \A declared \in Declarations : \A r \in declared.references : r.column \notin Alterable
    /\ AddedDeclarations \subseteq {Unconstrained}

\* Each row has exactly the columns of its table.
RowsFit(d) ==
    /\ DOMAIN d.rows = DOMAIN d.schema
    /\ \A t \in DOMAIN d.rows : \A i \in DOMAIN d.rows[t] : DOMAIN d.rows[t][i] = d.schema[t]

\* No reference names a column that statements drop or rename.
ReferencesStay(cons) ==
    \A t \in DOMAIN cons : \A c \in DOMAIN cons[t] : \A r \in cons[t][c].references :
        r.column \notin Alterable

Shaped(d, cons) ==
    /\ storage!IsContents(d)
    /\ Declared(d, cons)
    /\ RowsFit(d)
    /\ ReferencesStay(cons)
    /\ ResolveIn(d, cons)

Sound(d, cons) ==
    Shaped(d, cons) /\ NotNullIn(d, cons) /\ UniqueIn(d, cons) /\ ReferencesIn(d, cons)

IInv ==
    /\ Sound(db, constraints)
    /\ IF saved = NoTransaction THEN saved_constraints = EmptyMap
       ELSE Sound(saved, saved_constraints)
=================================================================================
