-------------------------------- MODULE Session ---------------------------------
(***************************************************************************)
(* main.rs and security.rs around an Engine: a process opens the user      *)
(* store, bootstraps the first admin or logs a user in, may add a user, or *)
(* executes statements under the user's role and writes the audit log. One *)
(* process at a time uses the data directory; it may be killed.            *)
(*                                                                         *)
(* The contents of the database are those of Database.tla. Why a statement *)
(* fails is Engine's business: here it may fail whenever it can. Hashes    *)
(* and encryption are abstracted: a password matches or it does not.       *)
(***************************************************************************)
EXTENDS Relational, SequencesExt

CONSTANTS
    NoTransaction,
    Users, Passwords,
    None,           \* an option that is not given
    Invocations,    \* the command lines that processes are started with
    Statements,     \* the statements that scripts contain, by their action
    KilledIn,       \* the phases in which a process may be killed
    MaxMigrations,  \* bound: migration records
    MaxRows,        \* bound: rows in a table
    MaxAudit        \* bound: entries of the audit log

VARIABLES
    db, saved,      \* the storage, see Database.tla
    users_file,     \* security/users.enc; no file reads as no users
    audit,          \* security/audit.log
    \* the process
    phase, cli, store, stdin_read, identity, outcome,
    executed        \* what the statement just executed still has to log

process == <<phase, cli, store, stdin_read, identity, outcome, executed>>
vars == <<db, saved, users_file, audit, process>>

storage == INSTANCE Database

Roles == {"admin", "read_write", "read_only"}

SchemaActions == {"CREATE_TABLE", "DROP_TABLE", "CREATE_INDEX", "DROP_INDEX",
                  "ALTER_TABLE_ADD_COLUMN", "ALTER_TABLE_DROP_COLUMN",
                  "ALTER_TABLE_RENAME_COLUMN"}
RowActions == {"INSERT", "UPDATE", "DELETE"}
TransactionActions == {"BEGIN", "COMMIT", "ROLLBACK"}
ReadActions == {"SELECT", "SHOW_TABLES", "SHOW_MIGRATIONS", "DESCRIBE"}
Actions == SchemaActions \cup RowActions \cup TransactionActions \cup ReadActions

\* batch: --execute or --file; otherwise the REPL
Cli == [bootstrap : Users \cup {None}, user : Users, password : Passwords,
        password_stdin : BOOLEAN, add_user : Users \cup {None}, add_role : Roles,
        new_password : Passwords, new_password_stdin : BOOLEAN, batch : BOOLEAN]

Account == [role : Roles, password : Passwords]
Identity == [username : Users, role : Roles]
AuditEntry == [username : Users, role : Roles, action : Actions, success : BOOLEAN]

ASSUME SessionAssumption ==
    /\ None \notin Users \cup Cli \cup Identity \cup AuditEntry
    /\ Invocations \subseteq Cli
    /\ Statements \subseteq Actions
    /\ {MaxMigrations, MaxRows, MaxAudit} \subseteq Nat

Phases == {"stopped", "opened", "saving", "adding", "ready", "executed"}

\* Why the last process ended: ok, an error message, or no password on stdin.
Outcomes == {"ok", "error", "no_password"}

TypeOK ==
    /\ storage!TypeOK
    /\ IsMap(users_file, Users, Account)
    /\ audit \in Seq(AuditEntry)
    /\ phase \in Phases
    /\ cli \in Invocations \cup {None}
    /\ IsMap(store, Users, Account)
    /\ stdin_read \in BOOLEAN
    /\ identity \in Identity \cup {None}
    /\ outcome \in Outcomes
    /\ executed \in AuditEntry \cup {None}
    /\ phase = "executed" <=> executed # None
    /\ phase \in {"adding", "ready", "executed"} => identity # None
    /\ phase = "stopped" => cli = None /\ identity = None /\ store = EmptyMap
    /\ saved # NoTransaction => phase \in {"ready", "executed"}

---------------------------------------------------------------------------------
(* Start and end of a process *)

Init ==
    /\ storage!Init
    /\ users_file = EmptyMap
    /\ audit = <<>>
    /\ phase = "stopped" /\ outcome = "ok"
    /\ cli = None /\ store = EmptyMap /\ stdin_read = FALSE
    /\ identity = None /\ executed = None

\* The snapshot of a transaction left open is deleted by the next open: what
\* the transaction had done stays.
EndOfTransaction_Resumed == UNCHANGED saved

EndOfTransaction == saved' = NoTransaction

Stop_KeepsIdentity(why) ==
    /\ phase' = "stopped" /\ outcome' = why
    /\ cli' = None /\ store' = EmptyMap /\ stdin_read' = FALSE
    /\ executed' = None
    /\ EndOfTransaction
    /\ UNCHANGED identity

Stop(why) ==
    /\ phase' = "stopped" /\ outcome' = why
    /\ cli' = None /\ store' = EmptyMap /\ stdin_read' = FALSE
    /\ identity' = None /\ executed' = None
    /\ EndOfTransaction

Start ==
    /\ phase = "stopped"
    /\ \E invocation \in Invocations : cli' = invocation
    /\ phase' = "opened"
    /\ store' = users_file
    /\ UNCHANGED <<db, saved, users_file, audit, stdin_read, identity, outcome, executed>>

\* A kill, or a panic.
Killed ==
    /\ phase \in KilledIn
    /\ Stop("error")
    /\ UNCHANGED <<db, users_file, audit>>

\* read_password takes all of stdin: it has a password there only once.
PasswordRead(from_stdin) ==
    /\ ~(from_stdin /\ stdin_read)
    /\ stdin_read' = (stdin_read \/ from_stdin)

NoPassword(from_stdin) ==
    /\ from_stdin /\ stdin_read
    /\ Stop("no_password")
    /\ UNCHANGED <<db, users_file, audit>>

---------------------------------------------------------------------------------
(* Users *)

\* create_user, up to the point in save() where users.enc has been removed
\* and users.tmp is not yet renamed to it.
CreateUser(user, password, role) ==
    /\ user \notin DOMAIN store
    /\ store' = Put(store, user, [role |-> role, password |-> password])
    /\ users_file' = EmptyMap
    /\ phase' = "saving"

\* The rename. Bootstrap goes on to the login, --add-user is done.
Saved_OnlyNew ==
    users_file' = IF cli.add_user = None THEN store ELSE Restrict(store, {cli.add_user})

Saved == users_file' = store

RenameUsersFile ==
    /\ phase = "saving"
    /\ Saved
    /\ \/ /\ identity = None
          /\ phase' = "opened"
          /\ UNCHANGED <<saved, cli, store, stdin_read, identity, outcome, executed>>
       \/ identity # None /\ Stop("ok")
    /\ UNCHANGED <<db, audit>>

FirstRole_OfOption == cli.add_role

FirstRole == "admin"

\* No user exists: main() creates the admin that --bootstrap-admin names.
Bootstrap ==
    /\ phase = "opened" /\ store = EmptyMap
    /\ \/ /\ cli.bootstrap # None
          /\ PasswordRead(cli.password_stdin)
          /\ CreateUser(cli.bootstrap, cli.password, FirstRole)
          /\ UNCHANGED <<db, saved, audit, cli, identity, outcome, executed>>
       \/ /\ cli.bootstrap = None
          /\ Stop("error")
          /\ UNCHANGED <<db, users_file, audit>>

Authenticated(user, password) ==
    user \in DOMAIN store /\ store[user].password = password

Login ==
    /\ phase = "opened" /\ store # EmptyMap
    /\ \/ NoPassword(cli.password_stdin)
       \/ /\ PasswordRead(cli.password_stdin)
          /\ Authenticated(cli.user, cli.password)
          /\ identity' = [username |-> cli.user, role |-> store[cli.user].role]
          /\ phase' = IF cli.add_user = None THEN "ready" ELSE "adding"
          /\ UNCHANGED <<db, saved, users_file, audit, cli, store, outcome, executed>>
       \/ /\ ~(cli.password_stdin /\ stdin_read)
          /\ ~Authenticated(cli.user, cli.password)
          /\ Stop("error")
          /\ UNCHANGED <<db, users_file, audit>>

MayAddUser_NotReadOnly == identity.role # "read_only"

MayAddUser == identity.role = "admin"

AddUser ==
    /\ phase = "adding"
    /\ \/ /\ ~MayAddUser \/ (cli.add_user \in DOMAIN store
                                /\ ~(cli.new_password_stdin /\ stdin_read))
          /\ Stop("error")
          /\ UNCHANGED <<db, users_file, audit>>
       \/ MayAddUser /\ NoPassword(cli.new_password_stdin)
       \/ /\ MayAddUser
          /\ PasswordRead(cli.new_password_stdin)
          /\ CreateUser(cli.add_user, cli.new_password, cli.add_role)
          /\ UNCHANGED <<db, saved, audit, cli, identity, outcome, executed>>

---------------------------------------------------------------------------------
(* Statements *)

\* Role::allows
Allows(role) ==
    CASE role = "admin" -> Actions
      [] role = "read_write" -> RowActions \cup TransactionActions \cup ReadActions
      [] role = "read_only" -> ReadActions

\* execute_statement_unchecked returning Ok
Succeeds(action) ==
    \/ /\ action \in SchemaActions
       /\ Len(db.log) < MaxMigrations
       /\ \/ \E t \in Tables :
               \/ \E columns \in (SUBSET Columns) \ {{}} : storage!CreateTable(t, columns)
               \/ storage!DropTable(t)
               \/ \E c \in Columns :
                    \/ \E i \in IndexNames : storage!CreateIndex(i, t, c)
                    \/ \E default \in Val : storage!AddColumn(t, c, default)
                    \/ storage!DropColumn(t, c)
                    \/ \E new \in Columns : storage!RenameColumn(t, c, new)
          \/ \E i \in IndexNames : storage!DropIndex(i)
       /\ Last(db'.log).operation = action
    \/ /\ action \in RowActions
       /\ \E t \in DOMAIN db.schema :
            \/ /\ action = "INSERT" /\ Len(db.rows[t]) < MaxRows
               /\ \E data \in [db.schema[t] -> Val] : storage!Insert(t, data)
            \/ /\ action = "DELETE"
               /\ \E where \in SUBSET Range(db.rows[t]) : storage!Delete(t, where)
            \/ /\ action = "UPDATE"
               /\ \E where \in SUBSET Range(db.rows[t]) :
                    \E assignments \in Assignments(db.schema[t]) :
                        storage!Update(t, where, assignments)
    \/ action = "BEGIN" /\ storage!Begin
    \/ action = "COMMIT" /\ storage!Commit
    \/ action = "ROLLBACK" /\ storage!Rollback
    \/ action \in ReadActions /\ UNCHANGED <<db, saved>>

\* The same returning Err, which changes nothing. BEGIN fails only inside a
\* transaction, COMMIT and ROLLBACK only outside one, SHOW never.
Fails(action) ==
    /\ action \notin {"SHOW_TABLES", "SHOW_MIGRATIONS"}
    /\ action = "BEGIN" => saved # NoTransaction
    /\ action \in {"COMMIT", "ROLLBACK"} => saved = NoTransaction
    /\ UNCHANGED <<db, saved>>

\* execute_statement up to the call of audit_logger.log: what will be logged.
Execute ==
    /\ phase = "ready" /\ Len(audit) < MaxAudit
    /\ \E action \in Statements : \E success \in BOOLEAN :
        /\ IF action \notin Allows(identity.role) THEN ~success /\ UNCHANGED <<db, saved>>
           ELSE IF success THEN Succeeds(action) ELSE Fails(action)
        /\ executed' = [username |-> identity.username, role |-> identity.role,
                        action |-> action, success |-> success]
    /\ phase' = "executed"
    /\ UNCHANGED <<users_file, audit, cli, store, stdin_read, identity, outcome>>

\* The entry is appended. An Err ends a batch, with exit(1); the REPL reads on.
Logged_AlwaysSuccess == audit' = Append(audit, [executed EXCEPT !.success = TRUE])

Logged == audit' = Append(audit, executed)

Log ==
    /\ phase = "executed"
    /\ Logged
    /\ \/ /\ executed.success \/ ~cli.batch
          /\ phase' = "ready" /\ executed' = None
          /\ UNCHANGED <<saved, cli, store, stdin_read, identity, outcome>>
       \/ ~executed.success /\ cli.batch /\ Stop("error")
    /\ UNCHANGED <<db, users_file>>

\* The end of the script, or exit in the REPL.
Finish ==
    /\ phase = "ready"
    /\ Stop("ok")
    /\ UNCHANGED <<db, users_file, audit>>

Next ==
    \/ Start \/ Killed \/ Finish
    \/ Bootstrap \/ RenameUsersFile \/ Login \/ AddUser
    \/ Execute \/ Log

Spec == Init /\ [][Next]_vars

---------------------------------------------------------------------------------
(* The properties *)

\* A read_only session changes nothing, and a read_write session never changes
\* the schema, the indexes or the migration log, not even by a ROLLBACK
\* (README.md:176-182, Role::allows security.rs:45).
SchemaOf(d) == <<d.schema, d.indexes, d.log>>

RolesRespected ==
    [][identity # None =>
          /\ identity.role = "read_only" => db' = db
          /\ identity.role = "read_write" => SchemaOf(db') = SchemaOf(db)]_vars

\* The user store changes only in an admin's session, or when there are no
\* users (main.rs:93-116, :141-170).
AccountsGranted ==
    [][users_file' # users_file =>
          \/ identity # None /\ identity.role = "admin"
          \/ users_file = EmptyMap]_vars

\* Whenever no process runs, the user store has an admin if it has anyone.
SomeAdmin ==
    phase = "stopped" =>
        users_file = EmptyMap \/ \E u \in DOMAIN users_file : users_file[u].role = "admin"

\* An account that logged in once is still there whenever no process runs
\* (security.rs:395-399: the user authenticates after the store is reopened).
AccountsSurvive ==
    phase = "stopped" => \A k \in DOMAIN audit :
        /\ audit[k].username \in DOMAIN users_file
        /\ users_file[audit[k].username].role = audit[k].role

\* What an entry says: how many migrations there are, and were at BEGIN.
Replay(s, e) ==
    IF ~e.success THEN s
    ELSE IF e.action \in SchemaActions THEN [s EXCEPT !.migrations = @ + 1]
    ELSE IF e.action = "BEGIN" THEN [s EXCEPT !.at_begin = s.migrations]
    ELSE IF e.action = "ROLLBACK" THEN [s EXCEPT !.migrations = s.at_begin]
    ELSE s

NothingLogged == [migrations |-> 0, at_begin |-> 0]

ToldBy(log) ==
    LET told[k \in 0..Len(log)] == IF k = 0 THEN NothingLogged ELSE Replay(told[k - 1], log[k])
    IN  told[Len(log)]

\* The audit log explains the schema: replaying what its successful entries
\* say, with BEGIN and ROLLBACK, gives the number of migrations there are, also
\* across sessions (engine.rs:49-72; README.md:10, "every query is logged").
AuditExplainsSchema == phase # "executed" => ToldBy(audit).migrations = Len(db.log)
=================================================================================
