------------------------------- MODULE Relational -------------------------------
(***************************************************************************)
(* The vocabulary shared by the specification of what the database         *)
(* promises (Database) and of how storage.rs keeps it (Storage): values,   *)
(* row data, index definitions and migration records (src/types.rs).       *)
(*                                                                         *)
(* Column types and constraints are payload here: storage.rs stores them   *)
(* and never looks at them.                                                *)
(***************************************************************************)
EXTENDS Integers, Sequences, FiniteSets, Functions, Maps

CONSTANTS
    Tables,      \* table names
    Columns,     \* column names
    IndexNames,  \* index names
    Values,      \* the values a cell may hold, other than NULL
    Null         \* Value::Null

ASSUME NullAssumption == Null \notin Values

Val == Values \cup {Null}

\* A row's data: a map from column names to values (type Row).
Data == Maps(Columns, Val)

\* row.get(column).unwrap_or(Value::Null)
Cell(data, c) == IF c \in DOMAIN data THEN data[c] ELSE Null

IndexDefinition == [table : Tables, column : Columns]

\* The indexes of catalog `indexes` on table t, and those on column c of it.
IndexesOn(indexes, t) == {i \in DOMAIN indexes : indexes[i].table = t}

IndexesOnColumn(indexes, t, c) ==
    {i \in IndexesOn(indexes, t) : indexes[i].column = c}

\* `operation` of a migration record.
Operations == {"CREATE_TABLE", "DROP_TABLE", "CREATE_INDEX", "DROP_INDEX",
               "ALTER_TABLE_ADD_COLUMN", "ALTER_TABLE_DROP_COLUMN",
               "ALTER_TABLE_RENAME_COLUMN"}

\* What a migration record says was done, apart from its id. The text of
\* `details` names the columns and the index concerned.
Change(op, t, columns, renamed, index) ==
    [operation |-> op, table |-> t, columns |-> columns,
     renamed |-> renamed, index |-> index]

Changes == [operation : Operations, table : Tables, columns : SUBSET Columns,
            renamed : SUBSET Columns, index : SUBSET IndexNames]

\* ALTER TABLE on one row's data.
WithColumn(data, c, default) == Put(data, c, default)

WithoutColumn(data, c) == Without(data, {c})

WithRenamed_KeepsOld(data, old, new) ==
    IF old \in DOMAIN data THEN Put(data, new, data[old]) ELSE data

WithRenamed(data, old, new) ==
    IF old \in DOMAIN data THEN Put(Without(data, {old}), new, data[old]) ELSE data

\* UPDATE: the assignments are written over the rows the WHERE clause matches.
\* A WHERE clause is the set of row data it is true of.
Updated(data, where, assignments) ==
    IF data \in where THEN Override(data, assignments) ELSE data

\* The assignments an UPDATE of a table with these columns may make.
Assignments(columns) ==
    UNION {[S -> Val] : S \in (SUBSET columns) \ {{}}}
=================================================================================
