SPECIFICATION Spec
CONSTANTS
  root = root
  guest = guest
  third = third
  secret = secret
  wrong = wrong
  Users = {root, guest, third}
  Passwords = {secret, wrong}
  None = None
  Tables = {t1}
  Columns = {a}
  IndexNames = {x}
  Values = {v1}
  Null = Null
  NoTransaction = NoTransaction
  Invocations <- Accounts
  Statements = {"CREATE_TABLE", "DROP_TABLE", "CREATE_INDEX", "INSERT", "UPDATE", "DELETE", "BEGIN", "COMMIT", "ROLLBACK", "SHOW_TABLES"}
  KilledIn = {"opened", "adding", "ready"}
  MaxRows = 1
  MaxMigrations = 2
  MaxAudit = 3
INVARIANTS TypeOK AuditExplainsSchema SomeAdmin AccountsSurvive
PROPERTIES RolesRespected AccountsGranted
CHECK_DEADLOCK FALSE
