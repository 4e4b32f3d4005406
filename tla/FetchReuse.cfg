CONSTANTS
  Columns = 2
  MaxFields = 6
  MaxSize = 1
  PrefetchAtLeast = 2
  MaxGiven = 5
SPECIFICATION Spec
INVARIANT NoContentReused
