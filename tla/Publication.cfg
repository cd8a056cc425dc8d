SPECIFICATION Spec
CONSTANTS
  Tables = {"tasks", "parent", "leaf"}
  ParentOf <- Partition
  RequiredSets <- EveryRequired
  Keys = {1}
  Visible = "visible"
  Hidden = "hidden"
  Missing = "missing"
  Publications <- EveryPublication
  MaxChanges = 3
  MaxAlters = 1
  MaxStarts = 2
CHECK_DEADLOCK FALSE
INVARIANTS
  AcceptedMeansPublished
  StoreFollowsSource
