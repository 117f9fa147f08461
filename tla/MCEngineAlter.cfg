SPECIFICATION Spec
CONSTANTS
  t1 = t1
  a = a
  Tables = {t1, t2}
  Columns = {a, b}
  IndexNames = {x}
  Values = {v1}
  Null = Null
  NoTransaction = NoTransaction
  Declarations <- KeysAndReferences
  AddedDeclarations <- OnlyUnconstrained
  Alterable = {b}
  UsesTransactions = TRUE
  MaxRows = 1
  MaxMigrations = 4
SYMMETRY Symmetry
INVARIANTS IInv ReferencesHold ReferencesResolve
CHECK_DEADLOCK FALSE
