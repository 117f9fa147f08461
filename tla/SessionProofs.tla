------------------------------ MODULE SessionProofs ------------------------------
(***************************************************************************)
(* Proofs about Session.tla, for every set of users, command lines and     *)
(* statements and every bound: what a role may change, who gets an         *)
(* account, and that accounts are kept.                                    *)
(***************************************************************************)
EXTENDS Session, RelationalProofs

---------------------------------------------------------------------------------
(* The instance of Database has its own copy of what Relational defines *)

LEMMA SameVal == storage!Val = Val
  BY DEF storage!Val, Val

LEMMA SameData == storage!Data = Data
  BY SameVal DEF storage!Data, storage!Maps, Data, Maps

LEMMA SameChanges == storage!Changes = Changes
  BY DEF storage!Changes, Changes, storage!Operations, Operations

LEMMA SameIndexDefinition == storage!IndexDefinition = IndexDefinition
  BY DEF storage!IndexDefinition, IndexDefinition

LEMMA SameIsMap ==
    ASSUME NEW f, NEW S, NEW T
    PROVE  storage!IsMap(f, S, T) <=> IsMap(f, S, T)
  BY DEF storage!IsMap, IsMap

LEMMA SameEdits ==
    /\ \A f, k, v : storage!Put(f, k, v) = Put(f, k, v)
    /\ \A f, D : storage!Without(f, D) = Without(f, D)
    /\ \A data, c, v : storage!WithColumn(data, c, v) = WithColumn(data, c, v)
    /\ \A data, c : storage!WithoutColumn(data, c) = WithoutColumn(data, c)
    /\ \A data, old, new : storage!WithRenamed(data, old, new) = WithRenamed(data, old, new)
    /\ \A data, where, a : storage!Updated(data, where, a) = Updated(data, where, a)
<1>1. \A f, g : storage!Override(f, g) = Override(f, g)
  BY DEF storage!Override, Override
<1>2. \A f, k, v : storage!Put(f, k, v) = Put(f, k, v)
  BY <1>1 DEF storage!Put, Put
<1>3. \A f, D : storage!Without(f, D) = Without(f, D)
  BY DEF storage!Without, Without, storage!Restrict, Restrict
<1>4. \A data, old, new : storage!WithRenamed(data, old, new) = WithRenamed(data, old, new)
  BY <1>2, <1>3 DEF storage!WithRenamed, WithRenamed
<1>5. \A data, where, a : storage!Updated(data, where, a) = Updated(data, where, a)
  BY <1>1 DEF storage!Updated, Updated
<1> QED
  BY <1>2, <1>3, <1>4, <1>5
  DEF storage!WithColumn, WithColumn, storage!WithoutColumn, WithoutColumn

LEMMA SameKept ==
    ASSUME NEW s, NEW S
    PROVE  storage!Kept(s, S) = Kept(s, S)
<1>1. storage!Enumerations(S, Len(s)) = Enumerations(S, Len(s))
  BY DEF storage!Enumerations, Enumerations, storage!Range, Range
<1> QED
  BY <1>1 DEF storage!Kept, Kept

LEMMA ContentsAre ==
    ASSUME NEW d
    PROVE  storage!IsContents(d) <=>
             /\ d = [schema |-> d.schema, rows |-> d.rows, indexes |-> d.indexes, log |-> d.log]
             /\ IsMap(d.schema, Tables, SUBSET Columns)
             /\ IsMap(d.rows, Tables, Seq(Data))
             /\ IsMap(d.indexes, IndexNames, IndexDefinition)
             /\ d.log \in Seq(Changes)
  BY SameData, SameChanges, SameIndexDefinition, SameIsMap DEF storage!IsContents

---------------------------------------------------------------------------------
(* Statements keep the contents well formed *)

\* A record of four well formed parts is contents.
LEMMA NewContents ==
    ASSUME NEW schema, NEW rows, NEW indexes, NEW log,
           IsMap(schema, Tables, SUBSET Columns), IsMap(rows, Tables, Seq(Data)),
           IsMap(indexes, IndexNames, IndexDefinition), log \in Seq(Changes)
    PROVE  storage!IsContents([schema |-> schema, rows |-> rows, indexes |-> indexes, log |-> log])
  BY ContentsAre

LEMMA Parts ==
    ASSUME storage!IsContents(db)
    PROVE  /\ db = [schema |-> db.schema, rows |-> db.rows, indexes |-> db.indexes, log |-> db.log]
           /\ IsMap(db.schema, Tables, SUBSET Columns)
           /\ IsMap(db.rows, Tables, Seq(Data))
           /\ IsMap(db.indexes, IndexNames, IndexDefinition)
           /\ db.log \in Seq(Changes)
  BY ContentsAre

\* The rows of one table with other row data in the same places.
LEMMA RowsReplaced ==
    ASSUME NEW rows, IsMap(rows, Tables, Seq(Data)), NEW t,
           NEW new, t \in DOMAIN rows => new \in [DOMAIN rows[t] -> Data]
    PROVE  IsMap([rows EXCEPT ![t] = new], Tables, Seq(Data))
<1>1. t \in DOMAIN rows => rows[t] \in Seq(Data)
  BY DEF IsMap
<1>2. t \in DOMAIN rows => new \in Seq(Data)
  BY <1>1, SameLength
<1> QED
  BY <1>2 DEF IsMap

LEMMA ChangeLogged ==
    ASSUME storage!IsContents(db), NEW op \in Operations, NEW t \in Tables,
           NEW columns \in SUBSET Columns, NEW renamed \in SUBSET Columns,
           NEW index \in SUBSET IndexNames
    PROVE  Append(db.log, storage!Change(op, t, columns, renamed, index)) \in Seq(Changes)
<1>1. storage!Change(op, t, columns, renamed, index) = Change(op, t, columns, renamed, index)
  BY DEF storage!Change, Change
<1>2. Change(op, t, columns, renamed, index) \in Changes
  BY ChangeTyped
<1> QED
  BY <1>1, <1>2, Parts

LEMMA CreateTableTyped ==
    ASSUME storage!IsContents(db), NEW t \in Tables, NEW columns \in SUBSET Columns,
           storage!CreateTable(t, columns)
    PROVE  storage!IsContents(db') /\ saved' = saved
<1>1. db' = [schema |-> Put(db.schema, t, columns), rows |-> Put(db.rows, t, <<>>),
             indexes |-> db.indexes,
             log |-> Append(db.log, storage!Change("CREATE_TABLE", t, columns, {}, {}))]
  BY Parts, SameEdits DEF storage!CreateTable
<1>2. IsMap(Put(db.schema, t, columns), Tables, SUBSET Columns)
  BY Parts, PutIsMap
<1>3. IsMap(Put(db.rows, t, <<>>), Tables, Seq(Data))
  <2>1. <<>> \in Seq(Data)
    OBVIOUS
  <2> QED
    BY <2>1, Parts, PutIsMap
<1>4. Append(db.log, storage!Change("CREATE_TABLE", t, columns, {}, {})) \in Seq(Changes)
  BY ChangeLogged DEF Operations
<1>9. saved' = saved
  BY DEF storage!CreateTable
<1> QED
  BY <1>1, <1>2, <1>3, <1>4, Parts, NewContents, <1>9

LEMMA DropTableTyped ==
    ASSUME storage!IsContents(db), NEW t \in Tables, storage!DropTable(t)
    PROVE  storage!IsContents(db') /\ saved' = saved
<1>1. db' = [schema |-> Without(db.schema, {t}), rows |-> Without(db.rows, {t}),
             indexes |-> Without(db.indexes, storage!IndexesOn(db.indexes, t)),
             log |-> Append(db.log, storage!Change("DROP_TABLE", t, {}, {}, {}))]
  BY Parts, SameEdits DEF storage!DropTable
<1>2. /\ IsMap(Without(db.schema, {t}), Tables, SUBSET Columns)
      /\ IsMap(Without(db.rows, {t}), Tables, Seq(Data))
      /\ IsMap(Without(db.indexes, storage!IndexesOn(db.indexes, t)), IndexNames, IndexDefinition)
  BY Parts, WithoutIsMap
<1>3. Append(db.log, storage!Change("DROP_TABLE", t, {}, {}, {})) \in Seq(Changes)
  BY ChangeLogged DEF Operations
<1>9. saved' = saved
  BY DEF storage!DropTable
<1> QED
  BY <1>1, <1>2, <1>3, NewContents, <1>9

LEMMA CreateIndexTyped ==
    ASSUME storage!IsContents(db), NEW t \in Tables, NEW i \in IndexNames, NEW c \in Columns,
           storage!CreateIndex(i, t, c)
    PROVE  storage!IsContents(db') /\ saved' = saved
<1>1. db' = [schema |-> db.schema, rows |-> db.rows,
             indexes |-> Put(db.indexes, i, [table |-> t, column |-> c]),
             log |-> Append(db.log, storage!Change("CREATE_INDEX", t, {c}, {}, {i}))]
  BY Parts, SameEdits DEF storage!CreateIndex
<1>2. IsMap(Put(db.indexes, i, [table |-> t, column |-> c]), IndexNames, IndexDefinition)
  <2>1. [table |-> t, column |-> c] \in IndexDefinition
    BY DEF IndexDefinition
  <2> QED
    BY <2>1, Parts, PutIsMap
<1>3. Append(db.log, storage!Change("CREATE_INDEX", t, {c}, {}, {i})) \in Seq(Changes)
  BY ChangeLogged DEF Operations
<1>9. saved' = saved
  BY DEF storage!CreateIndex
<1> QED
  BY <1>1, <1>2, <1>3, Parts, NewContents, <1>9

LEMMA DropIndexTyped ==
    ASSUME storage!IsContents(db), NEW i \in IndexNames, storage!DropIndex(i)
    PROVE  storage!IsContents(db') /\ saved' = saved
<1>1. i \in DOMAIN db.indexes /\ db.indexes[i].table \in Tables
  BY Parts DEF storage!DropIndex, IsMap, IndexDefinition
<1>2. db' = [schema |-> db.schema, rows |-> db.rows, indexes |-> Without(db.indexes, {i}),
             log |-> Append(db.log, storage!Change("DROP_INDEX", db.indexes[i].table, {}, {}, {i}))]
  BY Parts, SameEdits DEF storage!DropIndex
<1>3. IsMap(Without(db.indexes, {i}), IndexNames, IndexDefinition)
  BY Parts, WithoutIsMap
<1>4. Append(db.log, storage!Change("DROP_INDEX", db.indexes[i].table, {}, {}, {i})) \in Seq(Changes)
  BY <1>1, ChangeLogged DEF Operations
<1>9. saved' = saved
  BY DEF storage!DropIndex
<1> QED
  BY <1>2, <1>3, <1>4, Parts, NewContents, <1>9

\* The columns of a table and its rows after an ALTER TABLE.
LEMMA Altered ==
    ASSUME storage!IsContents(db), NEW t \in DOMAIN db.schema,
           NEW columns \in SUBSET Columns, NEW new,
           t \in DOMAIN db.rows => new \in [DOMAIN db.rows[t] -> Data],
           NEW indexes, IsMap(indexes, IndexNames, IndexDefinition), NEW log \in Seq(Changes),
           db' = [schema |-> [db.schema EXCEPT ![t] = columns], rows |-> [db.rows EXCEPT ![t] = new],
                  indexes |-> indexes, log |-> log]
    PROVE  storage!IsContents(db')
<1>1. IsMap([db.schema EXCEPT ![t] = columns], Tables, SUBSET Columns)
  BY Parts DEF IsMap
<1>2. IsMap([db.rows EXCEPT ![t] = new], Tables, Seq(Data))
  BY Parts, RowsReplaced
<1> QED
  BY <1>1, <1>2, ContentsAre

LEMMA RowTyped ==
    ASSUME storage!IsContents(db), NEW t \in DOMAIN db.rows
    PROVE  db.rows[t] \in Seq(Data) /\ \A i \in DOMAIN db.rows[t] : db.rows[t][i] \in Data
<1>1. db.rows[t] \in Seq(Data)
  BY Parts DEF IsMap
<1> QED
  BY <1>1

LEMMA AddColumnTyped ==
    ASSUME storage!IsContents(db), NEW t \in Tables, NEW c \in Columns, NEW default \in Val,
           storage!AddColumn(t, c, default)
    PROVE  storage!IsContents(db') /\ saved' = saved
<1> DEFINE new == [i \in DOMAIN db.rows[t] |-> WithColumn(db.rows[t][i], c, default)]
           log == Append(db.log, storage!Change("ALTER_TABLE_ADD_COLUMN", t, {c}, {}, {}))
<1>1. t \in DOMAIN db.schema /\ db.schema[t] \cup {c} \in SUBSET Columns
  BY Parts DEF storage!AddColumn, storage!Exists, IsMap
<1>2. db' = [schema |-> [db.schema EXCEPT ![t] = db.schema[t] \cup {c}],
             rows |-> [db.rows EXCEPT ![t] = new], indexes |-> db.indexes, log |-> log]
  BY Parts, SameEdits DEF storage!AddColumn
<1>3. t \in DOMAIN db.rows => new \in [DOMAIN db.rows[t] -> Data]
  BY RowTyped, DataMapped
<1>4. log \in Seq(Changes)
  BY ChangeLogged DEF Operations
<1>9. saved' = saved
  BY DEF storage!AddColumn
<1> HIDE DEF new, log
<1> QED
  BY <1>1, <1>2, <1>3, <1>4, Parts, Altered, <1>9

LEMMA DropColumnTyped ==
    ASSUME storage!IsContents(db), NEW t \in Tables, NEW c \in Columns, storage!DropColumn(t, c)
    PROVE  storage!IsContents(db') /\ saved' = saved
<1> DEFINE new == [i \in DOMAIN db.rows[t] |-> WithoutColumn(db.rows[t][i], c)]
           log == Append(db.log, storage!Change("ALTER_TABLE_DROP_COLUMN", t, {c}, {}, {}))
           indexes == Without(db.indexes, storage!IndexesOnColumn(db.indexes, t, c))
<1>1. t \in DOMAIN db.schema /\ db.schema[t] \ {c} \in SUBSET Columns
  BY Parts DEF storage!DropColumn, storage!Exists, IsMap
<1>2. db' = [schema |-> [db.schema EXCEPT ![t] = db.schema[t] \ {c}],
             rows |-> [db.rows EXCEPT ![t] = new], indexes |-> indexes, log |-> log]
  BY Parts, SameEdits DEF storage!DropColumn
<1>3. t \in DOMAIN db.rows => new \in [DOMAIN db.rows[t] -> Data]
  BY RowTyped, DataMapped
<1>4. log \in Seq(Changes)
  BY ChangeLogged DEF Operations
<1>5. IsMap(indexes, IndexNames, IndexDefinition)
  BY Parts, WithoutIsMap
<1>9. saved' = saved
  BY DEF storage!DropColumn
<1> HIDE DEF new, log, indexes
<1> QED
  BY <1>1, <1>2, <1>3, <1>4, <1>5, Altered, <1>9

LEMMA RenameColumnTyped ==
    ASSUME storage!IsContents(db), NEW t \in Tables, NEW c \in Columns, NEW name \in Columns,
           storage!RenameColumn(t, c, name)
    PROVE  storage!IsContents(db') /\ saved' = saved
<1> DEFINE new == [i \in DOMAIN db.rows[t] |-> WithRenamed(db.rows[t][i], c, name)]
           log == Append(db.log, storage!Change("ALTER_TABLE_RENAME_COLUMN", t, {c}, {name}, {}))
           indexes == [i \in DOMAIN db.indexes |->
                         IF i \in storage!IndexesOnColumn(db.indexes, t, c)
                         THEN [db.indexes[i] EXCEPT !.column = name] ELSE db.indexes[i]]
<1>1. t \in DOMAIN db.schema /\ (db.schema[t] \ {c}) \cup {name} \in SUBSET Columns
  BY Parts DEF storage!RenameColumn, storage!Exists, IsMap
<1>2. db' = [schema |-> [db.schema EXCEPT ![t] = (db.schema[t] \ {c}) \cup {name}],
             rows |-> [db.rows EXCEPT ![t] = new], indexes |-> indexes, log |-> log]
  BY Parts, SameEdits DEF storage!RenameColumn
<1>3. t \in DOMAIN db.rows => new \in [DOMAIN db.rows[t] -> Data]
  BY RowTyped, DataMapped
<1>4. log \in Seq(Changes)
  BY ChangeLogged DEF Operations
<1>5. IsMap(indexes, IndexNames, IndexDefinition)
  BY Parts DEF IsMap, IndexDefinition
<1>9. saved' = saved
  BY DEF storage!RenameColumn
<1> HIDE DEF new, log, indexes
<1> QED
  BY <1>1, <1>2, <1>3, <1>4, <1>5, Altered, <1>9

LEMMA SchemaStatementTyped ==
    ASSUME storage!IsContents(db), NEW action \in SchemaActions, Succeeds(action)
    PROVE  storage!IsContents(db') /\ saved' = saved
<1>1. action \notin RowActions \cup TransactionActions \cup ReadActions
  BY DEF SchemaActions, RowActions, TransactionActions, ReadActions
<1>2. \/ \E t \in Tables :
           \/ \E columns \in (SUBSET Columns) \ {{}} : storage!CreateTable(t, columns)
           \/ storage!DropTable(t)
           \/ \E c \in Columns :
                \/ \E i \in IndexNames : storage!CreateIndex(i, t, c)
                \/ \E default \in Val : storage!AddColumn(t, c, default)
                \/ storage!DropColumn(t, c)
                \/ \E new \in Columns : storage!RenameColumn(t, c, new)
      \/ \E i \in IndexNames : storage!DropIndex(i)
  BY <1>1 DEF Succeeds, TransactionActions
<1> QED
  BY <1>2, CreateTableTyped, DropTableTyped, CreateIndexTyped, DropIndexTyped,
     AddColumnTyped, DropColumnTyped, RenameColumnTyped

\* INSERT, UPDATE and DELETE touch nothing but rows.
LEMMA RowStatementTyped ==
    ASSUME storage!IsContents(db), NEW action \in RowActions, Succeeds(action)
    PROVE  storage!IsContents(db') /\ saved' = saved /\ SchemaOf(db') = SchemaOf(db)
<1>1. PICK t \in DOMAIN db.schema :
          \/ \E data \in [db.schema[t] -> Val] : storage!Insert(t, data)
          \/ \E where \in SUBSET Range(db.rows[t]) : storage!Delete(t, where)
          \/ \E where \in SUBSET Range(db.rows[t]) :
                \E assignments \in Assignments(db.schema[t]) : storage!Update(t, where, assignments)
  BY DEF Succeeds, SchemaActions, RowActions, TransactionActions, ReadActions
<1>2. db.schema[t] \in SUBSET Columns
  BY Parts DEF IsMap
<1>3. ASSUME NEW rows, t \in DOMAIN db.rows => rows \in Seq(Data),
             db' = [db EXCEPT !.rows[t] = rows], saved' = saved
      PROVE  storage!IsContents(db') /\ saved' = saved /\ SchemaOf(db') = SchemaOf(db)
  <2>1. db' = [schema |-> db.schema, rows |-> [db.rows EXCEPT ![t] = rows],
               indexes |-> db.indexes, log |-> db.log]
    BY <1>3, Parts
  <2>2. IsMap([db.rows EXCEPT ![t] = rows], Tables, Seq(Data))
    BY <1>3, Parts DEF IsMap
  <2> QED
    BY <2>1, <2>2, <1>3, Parts, ContentsAre DEF SchemaOf
<1>4. ASSUME NEW data \in [db.schema[t] -> Val], storage!Insert(t, data)
      PROVE  storage!IsContents(db') /\ saved' = saved /\ SchemaOf(db') = SchemaOf(db)
  <2>1. data \in Data
    BY <1>2, MapsAreMaps DEF Data, IsMap
  <2>2. t \in DOMAIN db.rows => Append(db.rows[t], data) \in Seq(Data)
    BY <2>1, RowTyped
  <2>3. db' = [db EXCEPT !.rows[t] = Append(db.rows[t], data)] /\ saved' = saved
    BY <1>4, Parts DEF storage!Insert
  <2> QED
    BY <2>2, <2>3, <1>3
<1>5. ASSUME NEW where, storage!Delete(t, where)
      PROVE  storage!IsContents(db') /\ saved' = saved /\ SchemaOf(db') = SchemaOf(db)
  <2>1. PICK rows \in Kept(db.rows[t], {i \in DOMAIN db.rows[t] : db.rows[t][i] \notin where}) :
            db' = [db EXCEPT !.rows[t] = rows]
    BY <1>5, SameKept DEF storage!Delete
  <2>2. t \in DOMAIN db.rows => rows \in Seq(Data)
    BY <2>1, RowTyped, KeptRows
  <2>3. saved' = saved
    BY <1>5 DEF storage!Delete
  <2> QED
    BY <2>1, <2>2, <2>3, <1>3
<1>6. ASSUME NEW where, NEW assignments \in Assignments(db.schema[t]),
             storage!Update(t, where, assignments)
      PROVE  storage!IsContents(db') /\ saved' = saved /\ SchemaOf(db') = SchemaOf(db)
  <2> DEFINE new == [i \in DOMAIN db.rows[t] |-> Updated(db.rows[t][i], where, assignments)]
  <2>1. assignments \in Data
    BY <1>2, MapsAreMaps DEF Data, IsMap, Assignments
  <2>2. t \in DOMAIN db.rows => new \in [DOMAIN db.rows[t] -> Data]
    BY <2>1, RowTyped, DataMapped
  <2>3. t \in DOMAIN db.rows => new \in Seq(Data)
    BY <2>2, RowTyped, SameLength
  <2>4. db' = [db EXCEPT !.rows[t] = new] /\ saved' = saved
    BY <1>6, Parts, SameEdits DEF storage!Update
  <2> QED
    BY <2>3, <2>4, <1>3
<1> QED
  BY <1>1, <1>4, <1>5, <1>6

\* BEGIN, COMMIT, ROLLBACK and the statements that read.
LEMMA TransactionStatement ==
    ASSUME NEW action \in TransactionActions, Succeeds(action)
    PROVE  \/ saved = NoTransaction /\ saved' = db /\ db' = db
           \/ saved' = NoTransaction /\ db' = db
           \/ saved # NoTransaction /\ saved' = NoTransaction /\ db' = saved
  BY DEF Succeeds, SchemaActions, RowActions, TransactionActions, ReadActions,
         storage!Begin, storage!Commit, storage!Rollback

LEMMA ReadStatement ==
    ASSUME NEW action \in ReadActions, Succeeds(action)
    PROVE  saved' = saved /\ db' = db
  BY DEF Succeeds, SchemaActions, RowActions, TransactionActions, ReadActions

---------------------------------------------------------------------------------
(* The inductive invariant *)

\* The accounts of the user store include an admin, if there are any.
HasAdmin(accounts) ==
    accounts = EmptyMap \/ \E u \in DOMAIN accounts : accounts[u].role = "admin"

\* Whoever has an entry in the audit log is still among the accounts.
KeepsAudited(accounts) ==
    \A k \in DOMAIN audit :
        /\ audit[k].username \in DOMAIN accounts
        /\ accounts[audit[k].username].role = audit[k].role

\* The store in memory is the one on disk, unless the file is being replaced.
StoreCurrent ==
    /\ phase \in {"opened", "adding", "ready", "executed"} => users_file = store
    /\ phase = "saving" => users_file = EmptyMap

\* Who is logged in has an account, with that role.
LoggedInKnown ==
    /\ identity # None => /\ phase \in {"saving", "adding", "ready", "executed"}
                          /\ identity.username \in DOMAIN store
                          /\ store[identity.username].role = identity.role
    /\ phase = "executed" => executed.username = identity.username /\ executed.role = identity.role

CommandLine ==
    /\ phase # "stopped" => cli # None
    /\ phase = "adding" => cli.add_user # None

\* What is undone by a ROLLBACK is what the user may change.
TransactionsBounded ==
    /\ saved # NoTransaction => phase \in {"ready", "executed"}
    /\ identity # None /\ identity.role = "read_only" => saved = NoTransaction
    /\ identity # None /\ identity.role = "read_write" /\ saved # NoTransaction =>
            SchemaOf(saved) = SchemaOf(db)

SessionInv ==
    /\ TypeOK
    /\ StoreCurrent
    /\ LoggedInKnown
    /\ CommandLine
    /\ TransactionsBounded
    /\ phase = "saving" => HasAdmin(store)
    /\ phase # "saving" => HasAdmin(users_file)

KeptInv ==
    /\ phase = "saving" => KeepsAudited(store)
    /\ phase # "saving" => KeepsAudited(users_file)

LEMMA CliTyped ==
    ASSUME TypeOK, CommandLine, phase # "stopped"
    PROVE  /\ cli \in Cli
           /\ cli.user \in Users /\ cli.add_role \in Roles
           /\ cli.password \in Passwords /\ cli.new_password \in Passwords
           /\ cli.bootstrap \in Users \cup {None} /\ cli.add_user \in Users \cup {None}
           /\ cli.password_stdin \in BOOLEAN /\ cli.new_password_stdin \in BOOLEAN
<1>1. cli \in Cli
  BY SessionAssumption DEF TypeOK, CommandLine
<1> QED
  BY <1>1 DEF Cli

LEMMA AccountTyped ==
    ASSUME NEW accounts, IsMap(accounts, Users, Account), NEW u \in DOMAIN accounts
    PROVE  u \in Users /\ accounts[u].role \in Roles
  BY DEF IsMap, Account

LEMMA NoAccounts == DOMAIN EmptyMap = {}
  BY DEF EmptyMap

LEMMA AdminAmong ==
    ASSUME NEW accounts, NEW u \in DOMAIN accounts, accounts[u].role = "admin"
    PROVE  HasAdmin(accounts)
  BY DEF HasAdmin

\* The end of a process, with a user store that may be left.
LEMMA StopSound ==
    ASSUME SessionInv, NEW why \in Outcomes, Stop(why), db' = db, audit' \in Seq(AuditEntry),
           IsMap(users_file', Users, Account), HasAdmin(users_file')
    PROVE  SessionInv'
<1>1. /\ phase' = "stopped" /\ outcome' \in Outcomes /\ cli' = None /\ store' = EmptyMap
      /\ stdin_read' = FALSE /\ identity' = None /\ executed' = None /\ saved' = NoTransaction
  BY DEF Stop, EndOfTransaction
<1>2. storage!TypeOK'
  BY <1>1 DEF SessionInv, TypeOK, storage!TypeOK
<1>3. IsMap(store', Users, Account)
  BY <1>1, EmptyIsMap
<1>4. executed' \notin AuditEntry
  BY <1>1, SessionAssumption
<1>5. TypeOK'
  BY <1>1, <1>2, <1>3, <1>4 DEF TypeOK, Phases
<1> QED
  BY <1>1, <1>5 DEF SessionInv, StoreCurrent, LoggedInKnown, CommandLine, TransactionsBounded

LEMMA StartSound == SessionInv /\ Start => SessionInv'
<1> SUFFICES ASSUME SessionInv, Start PROVE SessionInv'
  OBVIOUS
<1>1. PICK invocation \in Invocations : cli' = invocation
  BY DEF Start
<1>2. /\ phase = "stopped" /\ phase' = "opened" /\ store' = users_file
      /\ db' = db /\ saved' = saved /\ users_file' = users_file /\ audit' = audit
      /\ stdin_read' = stdin_read /\ identity' = identity /\ outcome' = outcome
      /\ executed' = executed
  BY DEF Start
<1>3. storage!TypeOK'
  BY <1>2 DEF SessionInv, TypeOK, storage!TypeOK
<1>4. TypeOK'
  BY <1>1, <1>2, <1>3 DEF SessionInv, TypeOK, Phases
<1>5. cli' # None
  BY <1>1, SessionAssumption
<1> QED
  BY <1>2, <1>4, <1>5
  DEF SessionInv, TypeOK, StoreCurrent, LoggedInKnown, CommandLine, TransactionsBounded

\* What ends a process without touching the user store.
LEMMA EndSound ==
    ASSUME SessionInv, NEW why \in Outcomes, Stop(why), phase # "saving",
           UNCHANGED <<db, users_file, audit>>
    PROVE  SessionInv'
<1>1. HasAdmin(users_file') /\ IsMap(users_file', Users, Account)
  BY DEF SessionInv, TypeOK
<1> QED
  BY <1>1, StopSound DEF SessionInv, TypeOK

LEMMA KilledSound == SessionInv /\ Killed => SessionInv'
<1> SUFFICES ASSUME SessionInv, Killed PROVE SessionInv'
  OBVIOUS
<1>1. phase = "saving" => users_file = EmptyMap
  BY DEF SessionInv, StoreCurrent
<1>2. HasAdmin(users_file') /\ IsMap(users_file', Users, Account)
  BY <1>1 DEF SessionInv, TypeOK, HasAdmin, Killed
<1> QED
  BY <1>2, StopSound DEF Killed, SessionInv, TypeOK, Outcomes

\* An account is created while users.enc is being replaced.
LEMMA CreateUserSound ==
    ASSUME SessionInv, NEW user \in Users, NEW password \in Passwords, NEW role \in Roles,
           NEW from_stdin \in BOOLEAN, PasswordRead(from_stdin),
           CreateUser(user, password, role), phase \in {"opened", "adding"},
           store = EmptyMap => role = "admin",
           UNCHANGED <<db, saved, audit, cli, identity, outcome, executed>>
    PROVE  SessionInv'
<1>1. /\ phase' = "saving" /\ users_file' = EmptyMap
      /\ store' = Put(store, user, [role |-> role, password |-> password])
      /\ user \notin DOMAIN store
  BY DEF CreateUser
<1>2. IsMap(store', Users, Account) /\ IsMap(users_file', Users, Account)
  <2>1. [role |-> role, password |-> password] \in Account
    BY DEF Account
  <2> QED
    BY <2>1, <1>1, PutIsMap, EmptyIsMap DEF SessionInv, TypeOK
<1>3. stdin_read' \in BOOLEAN
  BY DEF PasswordRead, SessionInv, TypeOK
<1>4. storage!TypeOK'
  BY DEF SessionInv, TypeOK, storage!TypeOK
<1>5. TypeOK'
  BY <1>1, <1>2, <1>3, <1>4 DEF SessionInv, TypeOK, Phases
\* A new account takes none away.
<1>6. /\ DOMAIN store' = DOMAIN store \cup {user}
      /\ store'[user] = [role |-> role, password |-> password]
      /\ \A v \in DOMAIN store : store'[v] = store[v]
  BY ONLY <1>1 DEF Put, Override
<1>7. HasAdmin(store')
  <2>1. CASE store = EmptyMap
    <3>1. store'[user].role = "admin" /\ user \in DOMAIN store'
      BY <2>1, <1>6
    <3> QED
      BY <3>1, AdminAmong
  <2>2. CASE store # EmptyMap
    <3>1. PICK u \in DOMAIN store : store[u].role = "admin"
      BY <2>2 DEF SessionInv, StoreCurrent, HasAdmin
    <3>2. u \in DOMAIN store' /\ store'[u].role = "admin"
      BY <3>1, <1>6
    <3> QED
      BY <3>2, AdminAmong
  <2> QED
    BY <2>1, <2>2
<1>8. LoggedInKnown'
  <2>1. \A u \in DOMAIN store : u \in DOMAIN store' /\ store'[u] = store[u]
    BY <1>6
  <2>2. LoggedInKnown /\ phase \in {"opened", "adding"}
    BY DEF SessionInv
  <2> QED
    BY <2>1, <2>2, <1>1 DEF LoggedInKnown
<1>9. StoreCurrent' /\ CommandLine' /\ TransactionsBounded'
  BY <1>1 DEF SessionInv, StoreCurrent, CommandLine, TransactionsBounded
<1> QED
  BY <1>1, <1>5, <1>7, <1>8, <1>9 DEF SessionInv

LEMMA BootstrapSound == SessionInv /\ Bootstrap => SessionInv'
<1> SUFFICES ASSUME SessionInv, Bootstrap PROVE SessionInv'
  OBVIOUS
<1>1. CASE /\ cli.bootstrap # None
           /\ PasswordRead(cli.password_stdin)
           /\ CreateUser(cli.bootstrap, cli.password, FirstRole)
           /\ UNCHANGED <<db, saved, audit, cli, identity, outcome, executed>>
  <2>1. /\ cli.bootstrap \in Users /\ cli.password \in Passwords
        /\ cli.password_stdin \in BOOLEAN
    BY <1>1, CliTyped DEF Bootstrap, SessionInv
  <2>2. FirstRole \in Roles /\ FirstRole = "admin"
    BY DEF FirstRole, Roles
  <2> QED
    BY <1>1, <2>1, <2>2, CreateUserSound DEF Bootstrap
<1>2. CASE /\ cli.bootstrap = None
           /\ Stop("error")
           /\ UNCHANGED <<db, users_file, audit>>
  BY <1>2, EndSound DEF Bootstrap, Outcomes
<1> QED
  BY <1>1, <1>2 DEF Bootstrap

LEMMA RenameSound == SessionInv /\ RenameUsersFile => SessionInv'
<1> SUFFICES ASSUME SessionInv, RenameUsersFile PROVE SessionInv'
  OBVIOUS
<1>1. /\ phase = "saving" /\ users_file' = store /\ db' = db /\ audit' = audit
      /\ HasAdmin(users_file') /\ IsMap(users_file', Users, Account)
  BY DEF RenameUsersFile, Saved, SessionInv, TypeOK
<1>2. CASE /\ identity = None
           /\ phase' = "opened"
           /\ UNCHANGED <<saved, cli, store, stdin_read, identity, outcome, executed>>
  <2>1. storage!TypeOK'
    BY <1>1, <1>2 DEF SessionInv, TypeOK, storage!TypeOK
  <2>2. TypeOK'
    BY <1>1, <1>2, <2>1 DEF SessionInv, TypeOK, Phases
  <2> QED
    BY <1>1, <1>2, <2>2
    DEF SessionInv, TypeOK, StoreCurrent, LoggedInKnown, CommandLine, TransactionsBounded
<1>3. CASE Stop("ok")
  BY <1>1, <1>3, StopSound DEF SessionInv, TypeOK, Outcomes
<1> QED
  BY <1>2, <1>3 DEF RenameUsersFile

LEMMA LoginSound == SessionInv /\ Login => SessionInv'
<1> SUFFICES ASSUME SessionInv, Login PROVE SessionInv'
  OBVIOUS
<1>1. phase = "opened" /\ TypeOK /\ CommandLine
  BY DEF Login, SessionInv
<1>2. CASE NoPassword(cli.password_stdin)
  BY <1>1, <1>2, EndSound DEF NoPassword, Outcomes
<1>3. CASE /\ PasswordRead(cli.password_stdin)
           /\ Authenticated(cli.user, cli.password)
           /\ identity' = [username |-> cli.user, role |-> store[cli.user].role]
           /\ phase' = IF cli.add_user = None THEN "ready" ELSE "adding"
           /\ UNCHANGED <<db, saved, users_file, audit, cli, store, outcome, executed>>
  <2>1. cli.user \in DOMAIN store /\ cli.user \in Users /\ cli.password_stdin \in BOOLEAN
    BY <1>1, <1>3, CliTyped DEF Authenticated
  <2>2. store[cli.user].role \in Roles
    BY <2>1, <1>1, AccountTyped DEF TypeOK
  <2>3. identity' \in Identity /\ identity' # None
    BY <1>3, <2>1, <2>2, SessionAssumption DEF Identity
  <2>4. saved = NoTransaction
    BY <1>1 DEF TypeOK
  <2>5. storage!TypeOK'
    BY <1>1, <1>3 DEF TypeOK, storage!TypeOK
  <2>6. stdin_read' \in BOOLEAN
    BY <1>1, <1>3 DEF PasswordRead, TypeOK
  <2>7. TypeOK'
    BY <1>1, <1>3, <2>3, <2>4, <2>5, <2>6 DEF TypeOK, Phases
  <2>8. LoggedInKnown'
    BY <1>1, <1>3, <2>1 DEF LoggedInKnown
  <2>9. StoreCurrent' /\ CommandLine' /\ TransactionsBounded'
    BY <1>1, <1>3, <2>4 DEF SessionInv, StoreCurrent, CommandLine, TransactionsBounded
  <2> QED
    BY <1>1, <1>3, <2>7, <2>8, <2>9 DEF SessionInv
<1>4. CASE Stop("error") /\ UNCHANGED <<db, users_file, audit>>
  BY <1>1, <1>4, EndSound DEF Outcomes
<1> QED
  BY <1>2, <1>3, <1>4 DEF Login

LEMMA AddUserSound == SessionInv /\ AddUser => SessionInv'
<1> SUFFICES ASSUME SessionInv, AddUser PROVE SessionInv'
  OBVIOUS
<1>1. phase = "adding" /\ TypeOK /\ CommandLine
  BY DEF AddUser, SessionInv
<1>2. CASE Stop("error") /\ UNCHANGED <<db, users_file, audit>>
  BY <1>1, <1>2, EndSound DEF Outcomes
<1>3. CASE NoPassword(cli.new_password_stdin)
  BY <1>1, <1>3, EndSound DEF NoPassword, Outcomes
<1>4. CASE /\ PasswordRead(cli.new_password_stdin)
           /\ CreateUser(cli.add_user, cli.new_password, cli.add_role)
           /\ UNCHANGED <<db, saved, audit, cli, identity, outcome, executed>>
  <2>1. /\ cli.add_user \in Users /\ cli.new_password \in Passwords
        /\ cli.add_role \in Roles /\ cli.new_password_stdin \in BOOLEAN
    BY <1>1, CliTyped DEF CommandLine
  <2>2. store # EmptyMap
    BY <1>1, NoAccounts DEF SessionInv, TypeOK, LoggedInKnown
  <2> QED
    BY <1>1, <1>4, <2>1, <2>2, CreateUserSound
<1> QED
  BY <1>2, <1>3, <1>4 DEF AddUser

\* What a statement does to the contents, and to those a ROLLBACK brings back.
LEMMA StatementTyped ==
    ASSUME storage!TypeOK, NEW action \in Actions, Succeeds(action)
    PROVE  storage!TypeOK'
<1>1. storage!IsContents(db) /\ (saved # NoTransaction => storage!IsContents(saved))
  BY DEF storage!TypeOK
<1>2. storage!IsContents(db') /\ (saved' # NoTransaction => storage!IsContents(saved'))
  <2>1. CASE action \in SchemaActions
    BY <1>1, <2>1, SchemaStatementTyped
  <2>2. CASE action \in RowActions
    BY <1>1, <2>2, RowStatementTyped
  <2>3. CASE action \in TransactionActions
    BY <1>1, <2>3, TransactionStatement
  <2>4. CASE action \in ReadActions
    BY <1>1, <2>4, ReadStatement
  <2> QED
    BY <2>1, <2>2, <2>3, <2>4 DEF Actions
<1> QED
  BY <1>2 DEF storage!TypeOK

\* A statement of a role that may not change the schema.
LEMMA ReadWriteStatement ==
    ASSUME storage!TypeOK, NEW action \in Allows("read_write"), Succeeds(action),
           saved # NoTransaction => SchemaOf(saved) = SchemaOf(db)
    PROVE  /\ SchemaOf(db') = SchemaOf(db)
           /\ saved' # NoTransaction => SchemaOf(saved') = SchemaOf(db')
<1>1. action \in RowActions \cup TransactionActions \cup ReadActions
  BY DEF Allows
<1>2. CASE action \in RowActions
  BY <1>2, RowStatementTyped DEF storage!TypeOK
<1>3. CASE action \in TransactionActions
  BY <1>3, TransactionStatement
<1>4. CASE action \in ReadActions
  BY <1>4, ReadStatement
<1> QED
  BY <1>1, <1>2, <1>3, <1>4

LEMMA ReadOnlyStatement ==
    ASSUME NEW action \in Allows("read_only"), Succeeds(action)
    PROVE  db' = db /\ saved' = saved
<1>1. action \in ReadActions
  BY DEF Allows
<1> QED
  BY <1>1, ReadStatement

\* What Execute does, whether the role allows the statement or not.
LEMMA Executed ==
    ASSUME Execute
    PROVE  \E action \in Actions : \E success \in BOOLEAN :
              /\ executed' = [username |-> identity.username, role |-> identity.role,
                              action |-> action, success |-> success]
              /\ \/ UNCHANGED <<db, saved>>
                 \/ action \in Allows(identity.role) /\ Succeeds(action)
<1>1. PICK action \in Statements, success \in BOOLEAN :
         /\ IF action \notin Allows(identity.role) THEN ~success /\ UNCHANGED <<db, saved>>
            ELSE IF success THEN Succeeds(action) ELSE Fails(action)
         /\ executed' = [username |-> identity.username, role |-> identity.role,
                         action |-> action, success |-> success]
  BY DEF Execute
<1>2. action \in Actions
  BY SessionAssumption
<1>3. Fails(action) => UNCHANGED <<db, saved>>
  BY DEF Fails
<1> QED
  BY <1>1, <1>2, <1>3

\* A role bounds what a statement changes.
LEMMA ExecuteBounded ==
    ASSUME SessionInv, Execute
    PROVE  /\ identity.role = "read_only" => db' = db /\ saved' = saved
           /\ identity.role = "read_write" =>
                /\ SchemaOf(db') = SchemaOf(db)
                /\ saved' # NoTransaction => SchemaOf(saved') = SchemaOf(db')
<1>1. PICK action \in Actions :
         \/ UNCHANGED <<db, saved>>
         \/ action \in Allows(identity.role) /\ Succeeds(action)
  BY Executed
<1>2. identity # None /\ storage!TypeOK
  BY DEF Execute, SessionInv, TypeOK
<1>3. identity.role = "read_write" /\ saved # NoTransaction => SchemaOf(saved) = SchemaOf(db)
  BY <1>2 DEF SessionInv, TransactionsBounded
<1>4. CASE UNCHANGED <<db, saved>>
  BY <1>3, <1>4
<1>5. CASE action \in Allows(identity.role) /\ Succeeds(action)
  BY <1>2, <1>3, <1>5, ReadOnlyStatement, ReadWriteStatement
<1> QED
  BY <1>1, <1>4, <1>5

LEMMA ExecuteSound == SessionInv /\ Execute => SessionInv'
<1> SUFFICES ASSUME SessionInv, Execute PROVE SessionInv'
  OBVIOUS
<1>1. PICK action \in Actions, success \in BOOLEAN :
         /\ executed' = [username |-> identity.username, role |-> identity.role,
                         action |-> action, success |-> success]
         /\ \/ UNCHANGED <<db, saved>>
            \/ action \in Allows(identity.role) /\ Succeeds(action)
  BY Executed
<1>2. /\ phase = "ready" /\ phase' = "executed"
      /\ users_file' = users_file /\ audit' = audit /\ cli' = cli /\ store' = store
      /\ stdin_read' = stdin_read /\ identity' = identity /\ outcome' = outcome
  BY DEF Execute
<1>3. identity \in Identity /\ identity # None /\ TypeOK
  BY <1>2 DEF SessionInv, TypeOK
<1>4. executed' \in AuditEntry /\ executed' # None
  <2>1. executed' \in AuditEntry
    BY <1>1, <1>3 DEF Identity, AuditEntry
  <2> QED
    BY <2>1, SessionAssumption
<1>5. storage!TypeOK'
  <2>1. storage!TypeOK
    BY <1>3 DEF TypeOK
  <2>2. CASE UNCHANGED <<db, saved>>
    BY <2>1, <2>2 DEF storage!TypeOK
  <2>3. CASE Succeeds(action)
    BY <2>1, <2>3, StatementTyped
  <2> QED
    BY <1>1, <2>2, <2>3
<1>6. TypeOK'
  BY <1>2, <1>3, <1>4, <1>5 DEF TypeOK, Phases
<1>7. LoggedInKnown'
  BY <1>1, <1>2 DEF SessionInv, LoggedInKnown
<1>8. TransactionsBounded'
  BY <1>2, <1>3, ExecuteBounded DEF SessionInv, TransactionsBounded
<1>9. StoreCurrent' /\ CommandLine'
  BY <1>2 DEF SessionInv, StoreCurrent, CommandLine
<1> QED
  BY <1>2, <1>6, <1>7, <1>8, <1>9 DEF SessionInv

LEMMA LogSound == SessionInv /\ Log => SessionInv'
<1> SUFFICES ASSUME SessionInv, Log PROVE SessionInv'
  OBVIOUS
<1>1. /\ phase = "executed" /\ audit' = Append(audit, executed)
      /\ db' = db /\ users_file' = users_file
  BY DEF Log, Logged
<1>2. TypeOK /\ executed \in AuditEntry /\ identity # None
  BY <1>1 DEF SessionInv, TypeOK
<1>3. audit' \in Seq(AuditEntry)
  BY <1>1, <1>2 DEF TypeOK
<1>4. CASE /\ phase' = "ready" /\ executed' = None
           /\ UNCHANGED <<saved, cli, store, stdin_read, identity, outcome>>
  <2>1. storage!TypeOK'
    BY <1>1, <1>2, <1>4 DEF TypeOK, storage!TypeOK
  <2>2. TypeOK'
    BY <1>1, <1>2, <1>3, <1>4, <2>1 DEF TypeOK, Phases
  <2> QED
    BY <1>1, <1>2, <1>4, <2>2
    DEF SessionInv, StoreCurrent, LoggedInKnown, CommandLine, TransactionsBounded
<1>5. CASE Stop("error")
  <2>1. HasAdmin(users_file') /\ IsMap(users_file', Users, Account)
    BY <1>1, <1>2 DEF SessionInv, TypeOK
  <2> QED
    BY <2>1, <1>1, <1>3, <1>5, StopSound DEF Outcomes
<1> QED
  BY <1>4, <1>5 DEF Log

LEMMA FinishSound == SessionInv /\ Finish => SessionInv'
  BY EndSound DEF Finish, Outcomes

LEMMA StutterSound == SessionInv /\ UNCHANGED vars => SessionInv'
<1> SUFFICES ASSUME SessionInv, UNCHANGED vars PROVE SessionInv'
  OBVIOUS
<1>1. /\ db' = db /\ saved' = saved /\ users_file' = users_file /\ audit' = audit
      /\ phase' = phase /\ cli' = cli /\ store' = store /\ stdin_read' = stdin_read
      /\ identity' = identity /\ outcome' = outcome /\ executed' = executed
  BY DEF vars, process
<1>2. storage!TypeOK'
  BY <1>1 DEF SessionInv, TypeOK, storage!TypeOK
<1>3. TypeOK'
  BY <1>1, <1>2 DEF SessionInv, TypeOK
<1> QED
  BY <1>1, <1>3 DEF SessionInv, StoreCurrent, LoggedInKnown, CommandLine, TransactionsBounded

LEMMA InitSessionInv == Init => SessionInv
<1> SUFFICES ASSUME Init PROVE SessionInv
  OBVIOUS
<1>1. /\ db = [schema |-> EmptyMap, rows |-> EmptyMap, indexes |-> EmptyMap, log |-> <<>>]
      /\ saved = NoTransaction /\ users_file = EmptyMap /\ audit = <<>>
      /\ phase = "stopped" /\ outcome = "ok" /\ cli = None /\ store = EmptyMap
      /\ stdin_read = FALSE /\ identity = None /\ executed = None
  BY DEF Init, storage!Init, storage!EmptyMap, EmptyMap
<1>2. storage!TypeOK
  <2>1. <<>> \in Seq(Changes)
    OBVIOUS
  <2>2. storage!IsContents(db)
    BY <1>1, <2>1, EmptyIsMap, NewContents
  <2> QED
    BY <1>1, <2>2 DEF storage!TypeOK
<1>3. audit \in Seq(AuditEntry) /\ IsMap(store, Users, Account)
  BY <1>1, EmptyIsMap
<1>4. TypeOK
  BY <1>1, <1>2, <1>3 DEF TypeOK, Phases, Outcomes
<1> QED
  BY <1>1, <1>4
  DEF SessionInv, StoreCurrent, LoggedInKnown, CommandLine, TransactionsBounded, HasAdmin

LEMMA SessionInvInductive == SessionInv /\ [Next]_vars => SessionInv'
  BY StartSound, KilledSound, FinishSound, BootstrapSound, RenameSound, LoginSound,
     AddUserSound, ExecuteSound, LogSound, StutterSound DEF Next

---------------------------------------------------------------------------------
(* The theorems *)

\* The invariant holds in every reachable state: the user store in memory is
\* the one on disk, it has an admin, and what a ROLLBACK undoes is bounded by
\* the role of the session.
THEOREM SessionInvariant == Spec => []SessionInv
<1>1. Init => SessionInv
  BY InitSessionInv
<1>2. SessionInv /\ [Next]_vars => SessionInv'
  BY SessionInvInductive
<1> QED
  BY <1>1, <1>2, PTL DEF Spec

\* Every variable of a session keeps its type.
THEOREM SessionTyped == Spec => []TypeOK
<1>1. SessionInv => TypeOK
  BY DEF SessionInv
<1> QED
  BY <1>1, SessionInvariant, PTL

\* Whenever no process runs, there is no account at all or there is an admin.
THEOREM SomeAdminAlways == Spec => []SomeAdmin
<1>1. SessionInv => SomeAdmin
  BY DEF SessionInv, SomeAdmin, HasAdmin
<1> QED
  BY <1>1, SessionInvariant, PTL

\* A step that changes the contents is a statement.
LEMMA OnlyStatementsWrite ==
    ASSUME [Next]_vars, ~Execute
    PROVE  db' = db
  BY DEF Next, vars, Start, Killed, Finish, Bootstrap, RenameUsersFile, Login, AddUser, Log, NoPassword

\* A read_only session changes nothing, and a read_write session changes no
\* schema, index or migration record, not even by a ROLLBACK.
THEOREM RolesAlwaysRespected == Spec => RolesRespected
<1> DEFINE Bounded ==
        identity # None =>
            /\ identity.role = "read_only" => db' = db
            /\ identity.role = "read_write" => SchemaOf(db') = SchemaOf(db)
<1>1. SessionInv /\ [Next]_vars => Bounded
  <2> SUFFICES ASSUME SessionInv, [Next]_vars PROVE Bounded
    OBVIOUS
  <2>1. CASE Execute
    BY <2>1, ExecuteBounded
  <2>2. CASE ~Execute
    BY <2>2, OnlyStatementsWrite
  <2> QED
    BY <2>1, <2>2
<1>2. SessionInv /\ [Next]_vars => [Bounded]_vars
  BY <1>1
<1> HIDE DEF Bounded
<1>3. Spec => [][Bounded]_vars
  BY <1>2, SessionInvariant, PTL DEF Spec
<1> QED
  BY <1>3 DEF RolesRespected, Bounded

\* The user store changes only in an admin's session, or while there is none.
THEOREM AccountsAlwaysGranted == Spec => AccountsGranted
<1> DEFINE Granted ==
        users_file' # users_file =>
            \/ identity # None /\ identity.role = "admin"
            \/ users_file = EmptyMap
<1>1. SessionInv /\ [Next]_vars => Granted
  <2> SUFFICES ASSUME SessionInv, [Next]_vars, users_file' # users_file
               PROVE  \/ identity # None /\ identity.role = "admin"
                      \/ users_file = EmptyMap
    OBVIOUS
  <2>1. Bootstrap \/ RenameUsersFile \/ AddUser
    BY DEF Next, vars, Start, Killed, Finish, Login, Execute, Log, NoPassword
  <2>2. CASE Bootstrap
    BY <2>2 DEF Bootstrap, SessionInv, StoreCurrent
  <2>3. CASE RenameUsersFile
    BY <2>3 DEF RenameUsersFile, SessionInv, StoreCurrent
  <2>4. CASE AddUser
    <3>1. MayAddUser
      BY <2>4 DEF AddUser, NoPassword
    <3>2. identity # None
      BY <2>4 DEF AddUser, SessionInv, TypeOK
    <3> QED
      BY <3>1, <3>2 DEF MayAddUser
  <2> QED
    BY <2>1, <2>2, <2>3, <2>4
<1>2. SessionInv /\ [Next]_vars => [Granted]_vars
  BY <1>1
<1> HIDE DEF Granted
<1>3. Spec => [][Granted]_vars
  BY <1>2, SessionInvariant, PTL DEF Spec
<1> QED
  BY <1>3 DEF AccountsGranted, Granted

---------------------------------------------------------------------------------
(* Accounts are kept, if no process is killed while it replaces users.enc *)

NeverKilledSaving == "saving" \notin KilledIn

LEMMA KeptOverStop ==
    ASSUME KeepsAudited(users_file'), NEW why, Stop(why), audit' = audit
    PROVE  KeptInv'
<1>1. phase' = "stopped"
  BY DEF Stop
<1> QED
  BY <1>1 DEF KeptInv, KeepsAudited

LEMMA KeptOverCreateUser ==
    ASSUME SessionInv, KeptInv, phase \in {"opened", "adding"}, audit' = audit,
           NEW user, NEW password, NEW role, CreateUser(user, password, role)
    PROVE  KeptInv'
<1>1. /\ phase' = "saving" /\ user \notin DOMAIN store
      /\ store' = Put(store, user, [role |-> role, password |-> password])
  BY DEF CreateUser
<1>2. \A v \in DOMAIN store : v \in DOMAIN store' /\ store'[v] = store[v]
  BY ONLY <1>1 DEF Put, Override
<1>3. KeepsAudited(store)
  BY DEF KeptInv, SessionInv, StoreCurrent
<1> QED
  BY <1>1, <1>2, <1>3 DEF KeptInv, KeepsAudited

LEMMA KeptOverLog ==
    ASSUME SessionInv, KeptInv, Log
    PROVE  KeptInv'
<1>1. /\ phase = "executed" /\ phase' # "saving"
      /\ users_file' = users_file /\ audit' = Append(audit, executed)
  BY DEF Log, Logged, Stop
<1>2. audit \in Seq(AuditEntry) /\ identity # None
  BY <1>1 DEF SessionInv, TypeOK
<1>3. /\ executed.username \in DOMAIN users_file
      /\ users_file[executed.username].role = executed.role
  BY <1>1, <1>2 DEF SessionInv, LoggedInKnown, StoreCurrent
<1>4. KeepsAudited(users_file)
  BY <1>1 DEF KeptInv
<1>5. \A k \in DOMAIN audit' : audit'[k] = executed \/ (k \in DOMAIN audit /\ audit'[k] = audit[k])
  BY <1>1, <1>2
<1> QED
  BY <1>1, <1>3, <1>4, <1>5 DEF KeptInv, KeepsAudited

LEMMA KeptInvInductive ==
    ASSUME NeverKilledSaving, SessionInv, KeptInv, [Next]_vars
    PROVE  KeptInv'
<1>1. phase # "saving" => KeepsAudited(users_file)
  BY DEF KeptInv
<1>2. ASSUME NEW why, Stop(why), phase # "saving", UNCHANGED <<db, users_file, audit>>
      PROVE  KeptInv'
  <2>1. KeepsAudited(users_file')
    BY <1>1, <1>2
  <2> QED
    BY <2>1, <1>2, KeptOverStop
<1>3. ASSUME phase # "saving", phase' # "saving", UNCHANGED <<users_file, audit>>
      PROVE  KeptInv'
  BY <1>1, <1>3 DEF KeptInv, KeepsAudited
<1>4. CASE Start
  BY <1>3, <1>4 DEF Start
<1>5. CASE Killed
  BY <1>2, <1>5 DEF Killed, NeverKilledSaving
<1>6. CASE Finish
  BY <1>2, <1>6 DEF Finish
<1>7. CASE Bootstrap
  BY <1>2, <1>7, KeptOverCreateUser DEF Bootstrap
<1>8. CASE RenameUsersFile
  <2>1. phase = "saving" /\ users_file' = store /\ audit' = audit
    BY <1>8 DEF RenameUsersFile, Saved
  <2>2. KeepsAudited(users_file')
    BY <2>1 DEF KeptInv
  <2>3. phase' # "saving"
    BY <1>8 DEF RenameUsersFile, Stop
  <2> QED
    BY <2>1, <2>2, <2>3 DEF KeptInv, KeepsAudited
<1>9. CASE Login
  BY <1>2, <1>3, <1>9 DEF Login, NoPassword
<1>10. CASE AddUser
  BY <1>2, <1>10, KeptOverCreateUser DEF AddUser, NoPassword
<1>11. CASE Execute
  BY <1>3, <1>11 DEF Execute
<1>12. CASE Log
  BY <1>12, KeptOverLog
<1>13. CASE UNCHANGED vars
  BY <1>13 DEF vars, process, KeptInv, KeepsAudited
<1> QED
  BY <1>4, <1>5, <1>6, <1>7, <1>8, <1>9, <1>10, <1>11, <1>12, <1>13 DEF Next

\* An account that logged in once and left an entry in the audit log is there,
\* with its role, whenever no process runs.
THEOREM AccountsAlwaysSurvive ==
    ASSUME NeverKilledSaving
    PROVE  Spec => []AccountsSurvive
<1>1. Init => KeptInv
  BY DEF Init, KeptInv, KeepsAudited
<1>2. SessionInv /\ KeptInv /\ [Next]_vars => KeptInv'
  BY KeptInvInductive
<1>3. Spec => []KeptInv
  BY <1>1, <1>2, SessionInvariant, PTL DEF Spec
<1>4. KeptInv => AccountsSurvive
  BY DEF KeptInv, KeepsAudited, AccountsSurvive
<1> QED
  BY <1>3, <1>4, PTL

---------------------------------------------------------------------------------
(* The audit log: what ToldBy computes, by induction *)

IsTelling(f, log, n) ==
    f = [k \in 0..n |-> IF k = 0 THEN NothingLogged ELSE Replay(f[k - 1], log[k])]

LEMMA TellingsAgree ==
    ASSUME NEW log, NEW n \in Nat, NEW m \in Nat, n <= m,
           NEW f, IsTelling(f, log, n), NEW g, IsTelling(g, log, m)
    PROVE  \A k \in 0..n : f[k] = g[k]
<1> DEFINE A == {k \in Nat : k <= n => f[k] = g[k]}
<1>1. \A k \in 0..n : f[k] = IF k = 0 THEN NothingLogged ELSE Replay(f[k - 1], log[k])
  BY Zenon DEF IsTelling
<1>2. \A k \in 0..m : g[k] = IF k = 0 THEN NothingLogged ELSE Replay(g[k - 1], log[k])
  BY Zenon DEF IsTelling
<1>3. 0 \in A
  BY <1>1, <1>2
<1>4. ASSUME NEW k \in Nat, k \in A
      PROVE  k + 1 \in A
  BY <1>1, <1>2, <1>4
<1> HIDE DEF A
<1>5. Nat \subseteq A
  BY <1>3, <1>4, Induction
<1> QED
  BY <1>5 DEF A

LEMMA TellingExtended ==
    ASSUME NEW log, NEW n \in Nat, NEW f, IsTelling(f, log, n)
    PROVE  \E g : IsTelling(g, log, n + 1)
<1> DEFINE g == [k \in 0..(n + 1) |-> IF k = n + 1 THEN Replay(f[n], log[n + 1]) ELSE f[k]]
<1>1. \A k \in 0..n : f[k] = IF k = 0 THEN NothingLogged ELSE Replay(f[k - 1], log[k])
  BY Zenon DEF IsTelling
<1>2. /\ \A k \in 0..n : g[k] = f[k]
      /\ g[n + 1] = Replay(f[n], log[n + 1])
  OBVIOUS
<1>3. \A k \in 0..(n + 1) : g[k] = IF k = 0 THEN NothingLogged ELSE Replay(g[k - 1], log[k])
  <2> HIDE DEF g
  <2> SUFFICES ASSUME NEW k \in 0..(n + 1)
               PROVE  g[k] = IF k = 0 THEN NothingLogged ELSE Replay(g[k - 1], log[k])
    OBVIOUS
  <2>1. CASE k = n + 1
    BY <1>2, <2>1
  <2>2. CASE k \in 0..n
    BY <1>1, <1>2, <2>2
  <2> QED
    BY <2>1, <2>2
<1>4. g = [k \in 0..(n + 1) |-> g[k]]
  OBVIOUS
<1> HIDE DEF g
<1>5. IsTelling(g, log, n + 1)
  BY <1>3, <1>4 DEF IsTelling
<1> QED
  BY <1>5

LEMMA TellingsExist ==
    ASSUME NEW log, NEW n \in Nat
    PROVE  \E f : IsTelling(f, log, n)
<1> DEFINE A == {m \in Nat : \E f : IsTelling(f, log, m)}
<1>1. 0 \in A
  <2> DEFINE f == [k \in 0..0 |-> NothingLogged]
  <2>1. f = [k \in 0..0 |-> IF k = 0 THEN NothingLogged ELSE Replay(f[k - 1], log[k])]
    BY \A k \in 0..0 : k = 0
  <2> QED
    BY <2>1 DEF IsTelling
<1>2. ASSUME NEW m \in Nat, m \in A
      PROVE  m + 1 \in A
  BY <1>2, TellingExtended
<1> HIDE DEF A
<1>3. Nat \subseteq A
  BY <1>1, <1>2, Induction
<1> QED
  BY <1>3 DEF A

LEMMA ToldByIs ==
    ASSUME NEW log, Len(log) \in Nat, NEW f, IsTelling(f, log, Len(log))
    PROVE  ToldBy(log) = f[Len(log)]
<1> DEFINE g == CHOOSE h : IsTelling(h, log, Len(log))
<1>1. IsTelling(g, log, Len(log))
  BY Zenon
<1>2. ToldBy(log) = g[Len(log)]
  BY Zenon DEF ToldBy, IsTelling
<1> HIDE DEF g
<1> QED
  BY <1>1, <1>2, TellingsAgree

LEMMA ToldByNothing == ToldBy(<<>>) = NothingLogged
<1>1. PICK f : IsTelling(f, <<>>, 0)
  BY TellingsExist
<1>2. ToldBy(<<>>) = f[0]
  BY <1>1, ToldByIs
<1>3. 0 \in 0..0 /\ f[0] = IF 0 = 0 THEN NothingLogged ELSE Replay(f[0 - 1], <<>>[0])
  BY <1>1 DEF IsTelling
<1> QED
  BY <1>2, <1>3

LEMMA ToldByOneMore ==
    ASSUME NEW S, NEW log \in Seq(S), NEW e \in S
    PROVE  ToldBy(Append(log, e)) = Replay(ToldBy(log), e)
<1> DEFINE n == Len(log)
           longer == Append(log, e)
<1>1. /\ n \in Nat /\ Len(longer) = n + 1
      /\ \A k \in 1..n : longer[k] = log[k]
      /\ longer[n + 1] = e
  OBVIOUS
<1> HIDE DEF longer
<1>2. PICK f : IsTelling(f, longer, n + 1)
  BY <1>1, TellingsExist
<1>3. PICK g : IsTelling(g, log, n)
  BY <1>1, TellingsExist
<1>4. IsTelling(g, longer, n)
  <2>1. \A k \in 0..n : g[k] = IF k = 0 THEN NothingLogged ELSE Replay(g[k - 1], log[k])
    BY <1>3, Zenon DEF IsTelling
  <2>2. \A k \in 0..n : g[k] = IF k = 0 THEN NothingLogged ELSE Replay(g[k - 1], longer[k])
    BY <1>1, <2>1
  <2>3. g = [k \in 0..n |-> g[k]]
    BY <1>3, Zenon DEF IsTelling
  <2> QED
    BY <2>2, <2>3 DEF IsTelling
<1>5. \A k \in 0..n : g[k] = f[k]
  BY <1>1, <1>2, <1>4, TellingsAgree
<1>6. f[n + 1] = Replay(f[n], e)
  <2>1. \A k \in 0..(n + 1) : f[k] = IF k = 0 THEN NothingLogged ELSE Replay(f[k - 1], longer[k])
    BY <1>2, Zenon DEF IsTelling
  <2>2. n + 1 \in 0..(n + 1) /\ n + 1 # 0 /\ (n + 1) - 1 = n
    BY <1>1
  <2> QED
    BY <1>1, <2>1, <2>2
<1>7. ToldBy(longer) = f[n + 1] /\ ToldBy(log) = g[n]
  BY <1>1, <1>2, <1>3, ToldByIs
<1> QED
  BY <1>1, <1>5, <1>6, <1>7 DEF longer

---------------------------------------------------------------------------------
(* The audit log explains the schema, if no process is killed before it logs *)

NeverKilledUnlogged == "executed" \notin KilledIn

Counts == [migrations : Nat, at_begin : Nat]

\* What the entries tell agrees with the contents and with the transaction.
Agrees(s, d, d_saved) ==
    /\ s \in Counts /\ s.migrations = Len(d.log)
    /\ d_saved # NoTransaction => s.at_begin = Len(d_saved.log)

AuditInv ==
    Agrees(IF phase = "executed" THEN Replay(ToldBy(audit), executed) ELSE ToldBy(audit), db, saved)

\* Execute, with what the statement's success means.
LEMMA ExecutedExactly ==
    ASSUME Execute
    PROVE  \E action \in Actions : \E success \in BOOLEAN :
              /\ executed' = [username |-> identity.username, role |-> identity.role,
                              action |-> action, success |-> success]
              /\ IF success THEN Succeeds(action) ELSE UNCHANGED <<db, saved>>
<1>1. PICK action \in Statements, success \in BOOLEAN :
         /\ IF action \notin Allows(identity.role) THEN ~success /\ UNCHANGED <<db, saved>>
            ELSE IF success THEN Succeeds(action) ELSE Fails(action)
         /\ executed' = [username |-> identity.username, role |-> identity.role,
                         action |-> action, success |-> success]
  BY DEF Execute
<1>2. action \in Actions
  BY SessionAssumption
<1>3. Fails(action) => UNCHANGED <<db, saved>>
  BY DEF Fails
<1> QED
  BY <1>1, <1>2, <1>3

\* A schema statement records one migration.
LEMMA SchemaStatementLogged ==
    ASSUME storage!IsContents(db), NEW action \in SchemaActions, Succeeds(action)
    PROVE  Len(db'.log) = Len(db.log) + 1 /\ saved' = saved
<1>1. db.log \in Seq(Changes) /\ "log" \in DOMAIN db
  BY Parts
<1>2. ASSUME NEW change, db'.log = Append(db.log, change)
      PROVE  Len(db'.log) = Len(db.log) + 1
  BY <1>1, <1>2
<1>3. ASSUME NEW t, NEW columns, storage!CreateTable(t, columns)
      PROVE  Len(db'.log) = Len(db.log) + 1 /\ saved' = saved
  BY <1>1, <1>2, <1>3 DEF storage!CreateTable
<1>4. ASSUME NEW t, storage!DropTable(t)
      PROVE  Len(db'.log) = Len(db.log) + 1 /\ saved' = saved
  BY <1>1, <1>2, <1>4 DEF storage!DropTable
<1>5. ASSUME NEW i, NEW t, NEW c, storage!CreateIndex(i, t, c)
      PROVE  Len(db'.log) = Len(db.log) + 1 /\ saved' = saved
  BY <1>1, <1>2, <1>5 DEF storage!CreateIndex
<1>6. ASSUME NEW i, storage!DropIndex(i)
      PROVE  Len(db'.log) = Len(db.log) + 1 /\ saved' = saved
  BY <1>1, <1>2, <1>6 DEF storage!DropIndex
<1>7. ASSUME NEW t, NEW c, NEW default, storage!AddColumn(t, c, default)
      PROVE  Len(db'.log) = Len(db.log) + 1 /\ saved' = saved
  BY <1>1, <1>2, <1>7 DEF storage!AddColumn
<1>8. ASSUME NEW t, NEW c, storage!DropColumn(t, c)
      PROVE  Len(db'.log) = Len(db.log) + 1 /\ saved' = saved
  BY <1>1, <1>2, <1>8 DEF storage!DropColumn
<1>9. ASSUME NEW t, NEW old, NEW new, storage!RenameColumn(t, old, new)
      PROVE  Len(db'.log) = Len(db.log) + 1 /\ saved' = saved
  BY <1>1, <1>2, <1>9 DEF storage!RenameColumn
<1>10. \/ \E t \in Tables :
             \/ \E columns \in (SUBSET Columns) \ {{}} : storage!CreateTable(t, columns)
             \/ storage!DropTable(t)
             \/ \E c \in Columns :
                  \/ \E i \in IndexNames : storage!CreateIndex(i, t, c)
                  \/ \E default \in Val : storage!AddColumn(t, c, default)
                  \/ storage!DropColumn(t, c)
                  \/ \E new \in Columns : storage!RenameColumn(t, c, new)
       \/ \E i \in IndexNames : storage!DropIndex(i)
  BY DEF Succeeds, SchemaActions, RowActions, TransactionActions, ReadActions
<1> QED
  BY <1>3, <1>4, <1>5, <1>6, <1>7, <1>8, <1>9, <1>10

\* A statement moves the contents as its entry tells.
LEMMA SuccessTold ==
    ASSUME storage!TypeOK, NEW s, Agrees(s, db, saved), NEW action \in Actions, Succeeds(action),
           NEW e, e.success = TRUE, e.action = action
    PROVE  Agrees(Replay(s, e), db', saved')
<1>1. storage!IsContents(db) /\ s \in Counts
  BY DEF storage!TypeOK, Agrees
<1>2. CASE action \in SchemaActions
  <2>1. Len(db'.log) = Len(db.log) + 1 /\ saved' = saved
    BY <1>1, <1>2, SchemaStatementLogged
  <2>2. Replay(s, e) = [s EXCEPT !.migrations = @ + 1]
    BY <1>2 DEF Replay
  <2> QED
    BY <1>1, <2>1, <2>2 DEF Agrees, Counts
<1>3. CASE action \in RowActions
  <2>1. SchemaOf(db') = SchemaOf(db) /\ saved' = saved
    BY <1>1, <1>3, RowStatementTyped
  <2>2. Replay(s, e) = s
    BY <1>3 DEF Replay, RowActions, SchemaActions
  <2> QED
    BY <2>1, <2>2 DEF Agrees, SchemaOf
<1>4. CASE action = "BEGIN"
  <2>1. saved' = db /\ db' = db
    BY <1>4 DEF Succeeds, storage!Begin, RowActions, SchemaActions, ReadActions
  <2>2. Replay(s, e) = [s EXCEPT !.at_begin = s.migrations]
    BY <1>4 DEF Replay, SchemaActions
  <2> QED
    BY <1>1, <2>1, <2>2 DEF Agrees, Counts
<1>5. CASE action = "COMMIT"
  <2>1. saved' = NoTransaction /\ db' = db
    BY <1>5 DEF Succeeds, storage!Commit, RowActions, SchemaActions, ReadActions
  <2>2. Replay(s, e) = s
    BY <1>5 DEF Replay, SchemaActions
  <2> QED
    BY <2>1, <2>2 DEF Agrees
<1>6. CASE action = "ROLLBACK"
  <2>1. saved # NoTransaction /\ db' = saved /\ saved' = NoTransaction
    BY <1>6 DEF Succeeds, storage!Rollback, RowActions, SchemaActions, ReadActions
  <2>2. Replay(s, e) = [s EXCEPT !.migrations = s.at_begin]
    BY <1>6 DEF Replay, SchemaActions
  <2> QED
    BY <1>1, <2>1, <2>2 DEF Agrees, Counts
<1>7. CASE action \in ReadActions
  <2>1. db' = db /\ saved' = saved
    BY <1>7, ReadStatement
  <2>2. Replay(s, e) = s
    BY <1>7 DEF Replay, SchemaActions, ReadActions
  <2> QED
    BY <2>1, <2>2 DEF Agrees
<1> QED
  BY <1>2, <1>3, <1>4, <1>5, <1>6, <1>7 DEF Actions, TransactionActions

LEMMA AuditOverExecute ==
    ASSUME SessionInv, AuditInv, Execute
    PROVE  AuditInv'
<1>1. PICK action \in Actions, success \in BOOLEAN :
         /\ executed' = [username |-> identity.username, role |-> identity.role,
                         action |-> action, success |-> success]
         /\ IF success THEN Succeeds(action) ELSE UNCHANGED <<db, saved>>
  BY ExecutedExactly
<1>2. executed'.action = action /\ executed'.success = success
  BY <1>1
<1>3. phase = "ready" /\ phase' = "executed" /\ audit' = audit
  BY DEF Execute
<1>4. Agrees(ToldBy(audit), db, saved)
  BY <1>3 DEF AuditInv
<1>5. CASE success
  BY <1>1, <1>2, <1>3, <1>4, <1>5, SuccessTold DEF AuditInv, SessionInv, TypeOK
<1>6. CASE ~success
  <2>1. Replay(ToldBy(audit), executed') = ToldBy(audit)
    BY <1>2, <1>6 DEF Replay
  <2> QED
    BY <1>1, <1>3, <1>4, <1>6, <2>1 DEF AuditInv
<1> QED
  BY <1>1, <1>5, <1>6

LEMMA AuditOverLog ==
    ASSUME SessionInv, AuditInv, Log
    PROVE  AuditInv'
<1>1. /\ phase = "executed" /\ phase' # "executed" /\ audit' = Append(audit, executed)
      /\ db' = db /\ (saved' = saved \/ saved' = NoTransaction)
  BY DEF Log, Logged, Stop, EndOfTransaction
<1>2. audit \in Seq(AuditEntry) /\ executed \in AuditEntry
  BY <1>1, SessionAssumption DEF SessionInv, TypeOK
<1>3. ToldBy(audit') = Replay(ToldBy(audit), executed)
  BY <1>1, <1>2, ToldByOneMore
<1> QED
  BY <1>1, <1>3 DEF AuditInv, Agrees

LEMMA AuditInvInductive ==
    ASSUME NeverKilledUnlogged, SessionInv, AuditInv, [Next]_vars
    PROVE  AuditInv'
<1>1. CASE Execute
  BY <1>1, AuditOverExecute
<1>2. CASE Log
  BY <1>2, AuditOverLog
<1>3. CASE UNCHANGED vars
  BY <1>3 DEF vars, process, AuditInv
<1>4. ASSUME phase # "executed", phase' # "executed", audit' = audit, db' = db,
             saved' = saved \/ saved' = NoTransaction
      PROVE  AuditInv'
  BY <1>4 DEF AuditInv, Agrees
<1>5. CASE Start \/ Finish \/ Killed
  BY <1>4, <1>5 DEF Start, Finish, Killed, Stop, EndOfTransaction, NeverKilledUnlogged
<1>6. CASE Bootstrap \/ RenameUsersFile
  BY <1>4, <1>6 DEF Bootstrap, CreateUser, RenameUsersFile, Stop, EndOfTransaction
<1>7. CASE Login
  BY <1>4, <1>7 DEF Login, NoPassword, Stop, EndOfTransaction
<1>8. CASE AddUser
  BY <1>4, <1>8 DEF AddUser, CreateUser, NoPassword, Stop, EndOfTransaction
<1> QED
  BY <1>1, <1>2, <1>3, <1>5, <1>6, <1>7, <1>8 DEF Next

\* Replaying the successful entries of the audit log, with BEGIN and ROLLBACK,
\* gives the number of migrations there are, across any number of sessions.
THEOREM AuditAlwaysExplainsSchema ==
    ASSUME NeverKilledUnlogged
    PROVE  Spec => []AuditExplainsSchema
<1>1. Init => AuditInv
  <2> SUFFICES ASSUME Init PROVE AuditInv
    OBVIOUS
  <2>1. db.log = <<>> /\ saved = NoTransaction /\ audit = <<>> /\ phase = "stopped"
    BY DEF Init, storage!Init
  <2>2. NothingLogged \in Counts /\ NothingLogged.migrations = 0
    BY DEF NothingLogged, Counts
  <2> QED
    BY <2>1, <2>2, ToldByNothing DEF AuditInv, Agrees
<1>2. SessionInv /\ AuditInv /\ [Next]_vars => AuditInv'
  BY AuditInvInductive
<1>3. Spec => []AuditInv
  BY <1>1, <1>2, SessionInvariant, PTL DEF Spec
<1>4. AuditInv => AuditExplainsSchema
  BY DEF AuditInv, Agrees, AuditExplainsSchema
<1> QED
  BY <1>3, <1>4, PTL
=================================================================================
