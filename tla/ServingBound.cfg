SPECIFICATION Spec
CONSTANTS
  Sources <- BoundSources
  Requests <- StreamRequests
  Tables <- TaskTable
  Ids = {1}
  Rows <- MCRows
  Members <- MCMembers
  MaxBuckets = 4
INVARIANT
  ServedIsQuery
