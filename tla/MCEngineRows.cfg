SPECIFICATION Spec
CONSTANTS
  t1 = t1
  a = a
  Tables = {t1, t2}
  Columns = {a, b}
  IndexNames = {}
  Values = {v1, v2}
  Null = Null
  NoTransaction = NoTransaction
  Declarations <- AllDeclarations
  AddedDeclarations <- None
  Alterable = {}
  UsesTransactions = FALSE
  MaxRows = 2
  MaxMigrations = 2
SYMMETRY Symmetry
INVARIANTS TypeOK NotNullHolds UniqueHolds ReferencesHold
CHECK_DEADLOCK FALSE
