SPECIFICATION Spec
CONSTANTS
  Sources <- ComparisonSources
  Requests <- StreamRequests
  Tables <- TaskTable
  Ids = {1}
  Rows <- MCRows
  Members <- MCMembers
  MaxBuckets = 4
INVARIANT
  OperatorsSupported
