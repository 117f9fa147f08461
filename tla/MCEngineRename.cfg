SPECIFICATION Spec
CONSTANTS
  t1 = t1
  a = a
  Tables = {t1, t2}
  Columns = {a, b}
  IndexNames = {}
  Values = {v1}
  Null = Null
  NoTransaction = NoTransaction
  Declarations <- KeysAndReferences
  AddedDeclarations <- None
  Alterable = {a}
  UsesTransactions = FALSE
  MaxRows = 1
  MaxMigrations = 3
SYMMETRY Symmetry
INVARIANTS ReferencesHold
CHECK_DEADLOCK FALSE
