CONSTANTS
  ParamsetSizes = {0, 1, 2, 3}
  MaxSets = 3
  RedirectLimit = 2
  MaxRuns = 2
  MaxBatches = 2
SPECIFICATION Spec
INVARIANTS
  TypeOK
  ReaderBacked
  SetsInOrder
  ReportAgrees
  OneExecutionPerExecute
  MutatorCarried
PROPERTIES
  ExecuteSendsWholeArray
  ImplementsBatch
