SPECIFICATION Spec
CONSTANTS
  Tables = {t1}
  Columns = {a}
  IndexNames = {x}
  Values = {v1, v2}
  Null = Null
  NoSnapshot = NoSnapshot
  RowIdBatch = 2
  MaxRows = 3
  MaxRowId = 4
  MaxMigrations = 2
SYMMETRY Symmetry
INVARIANTS TypeOK IndexedReadsAgree CleanMarkerSound UniqueCacheExact RowIdsFresh NoOrphanHandle
PROPERTIES RowIdsMoveForward
CHECK_DEADLOCK FALSE
