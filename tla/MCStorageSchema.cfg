SPECIFICATION Spec
CONSTANTS
  Tables = {t1}
  Columns = {a, b}
  IndexNames = {x, y}
  Values = {v1}
  Null = Null
  NoSnapshot = NoSnapshot
  RowIdBatch = 1
  MaxRows = 1
  MaxRowId = 1
  MaxMigrations = 4
SYMMETRY Symmetry
INVARIANTS SchemaAndRowsAgree MigrationsReplay
CHECK_DEADLOCK FALSE
