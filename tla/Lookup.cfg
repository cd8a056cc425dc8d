SPECIFICATION Spec
CONSTANTS
  Ids = {"i1", "i2"}
  Columns = {"owner", "team"}
  Text = {"u", "big"}
  Toasted = {"big"}
  Null = Null
  Lookups <- MCLookups
  InitialTables <- MCTables
  MaxEntries = 1
  ToastedKeyChange = FALSE
  MaxChanges = 2
  MaxCrashes = 1
CHECK_DEADLOCK FALSE
INVARIANTS
  IndexFollowsRows
  ScanIsQuery
