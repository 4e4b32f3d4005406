CONSTANTS
  Columns = 2
  MaxFields = 6
  MaxSize = 3
  PrefetchAtLeast = 2
  MaxGiven = 5
SPECIFICATION Spec
INVARIANTS
  TypeOK
  CurrentRowAgrees
  SuccessDescribesRowSet
PROPERTIES
  ImplementsRowCursor
