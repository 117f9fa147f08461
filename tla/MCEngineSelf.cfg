SPECIFICATION Spec
CONSTANTS
  t1 = t1
  a = a
  Tables = {t1, t2}
  Columns = {a, b}
  IndexNames = {}
  Values = {v1, v2}
  Null = Null
  NoTransaction = NoTransaction
  Declarations <- KeysAndReferences
  AddedDeclarations <- None
  Alterable = {}
  UsesTransactions = FALSE
  MaxRows = 2
  MaxMigrations = 1
SYMMETRY Symmetry
INVARIANTS SelfReferencesHold
CHECK_DEADLOCK FALSE
