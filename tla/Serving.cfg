SPECIFICATION Spec
CONSTANTS
  Sources <- PlainSources
  Requests <- MCRequests
  Tables <- MCTables
  Ids = {1, 2}
  Rows <- MCRows
  Members <- MCMembers
  MaxBuckets = 2
INVARIANTS
  ServedIsQuery
  CountIsServed
  BucketsResolve
