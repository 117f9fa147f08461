SPECIFICATION QuerySpec
CONSTANTS
  IntWidth = 4
  Schemas <- ThreeTables
  Script <- Everything
  Broken <- NoStatements
  MaxRows = 3
  MaxNesting = 2
INVARIANTS TypedCells ReadAsWritten IndexInvisible LikeMeansWildcards SubqueryIsSemiJoin JoinIsProduct GroupsAddUp PagesInOrder
