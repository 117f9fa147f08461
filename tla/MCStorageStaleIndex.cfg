SPECIFICATION CrashSpec
CONSTANTS
  Tables = {t1}
  Columns = {a, b}
  IndexNames = {x}
  Values = {}
  Null = Null
  NoSnapshot = NoSnapshot
  NoCall = NoCall
  RowIdBatch = 1
  MaxRows = 2
  MaxRowId = 2
  MaxMigrations = 3
  MaxKills = 1
  MaxLater = 2
INVARIANTS StaleIndexesRebuilt
SYMMETRY Symmetry
CHECK_DEADLOCK FALSE
