SPECIFICATION Spec
CONSTANTS
  Sources <- ArraySources
  Requests <- StreamRequests
  Tables <- TaskTable
  Ids = {1}
  Rows <- ArrayRows
  Members <- MCMembers
  MaxBuckets = 4
INVARIANT
  ServedIsQuery
