SPECIFICATION Spec
CONSTANTS
  Sources <- SameTableSources
  Requests <- StreamRequests
  Tables <- TaskTable
  Ids = {1}
  Rows <- MCRows
  Members <- MCMembers
  MaxBuckets = 4
INVARIANT
  CountIsServed
