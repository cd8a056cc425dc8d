CONSTANTS
  p1 = p1
  p2 = p2
  Routes = {p1, p2}
  NoDoc = NoDoc
  Vals = {"open", "done"}
  Hidden = {"done"}
  NumIds = 2
  Identities = {"default"}
  Retain = 3
  Base = 3
  MaxGap = 1
  MaxOp = 7
  MaxChanges = 1
  MaxScan = 2
SPECIFICATION Spec
PROPERTY ChecksumRecurrence
