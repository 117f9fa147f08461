SPECIFICATION Spec
CONSTANTS
  Tables = {t1, t2}
  Columns = {a}
  IndexNames = {x, y}
  Values = {v1}
  Null = Null
  NoSnapshot = NoSnapshot
  RowIdBatch = 1
  MaxRows = 1
  MaxRowId = 1
  MaxMigrations = 3
SYMMETRY Symmetry
INVARIANT IInv
PROPERTIES ImplementsDatabase
CHECK_DEADLOCK FALSE
