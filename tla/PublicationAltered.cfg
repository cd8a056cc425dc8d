SPECIFICATION Spec
CONSTANTS
  Tables = {"tasks", "parent", "leaf"}
  ParentOf <- Partition
  RequiredSets <- Plain
  Keys = {1}
  Visible = "visible"
  Hidden = "hidden"
  Missing = "missing"
  Publications <- FewPublications
  MaxChanges = 2
  MaxAlters = 2
  MaxStarts = 2
CHECK_DEADLOCK FALSE
INVARIANT AlteredRejected
