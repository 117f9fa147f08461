SPECIFICATION FairCrashSpec
CONSTANTS
  Tables = {t1}
  Columns = {a}
  IndexNames = {x}
  Values = {}
  Null = Null
  NoSnapshot = NoSnapshot
  NoCall = NoCall
  RowIdBatch = 2
  MaxRows = 2
  MaxRowId = 4
  MaxMigrations = 2
  MaxKills = 1
  MaxLater = 2
PROPERTIES CanBeOpened
CHECK_DEADLOCK FALSE
