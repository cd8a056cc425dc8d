CONSTANTS
  p1 = p1
  p2 = p2
  Routes = {p1, p2}
  NoDoc = NoDoc
  Vals = {"open", "done"}
  Hidden = {"done"}
  NumIds = 2
  Identities = {"full", "default"}
  Retain = 3
  Base = 3
  MaxGap = 1
  MaxOp = 7
  MaxChanges = 2
  MaxScan = 2
SPECIFICATION Spec
SYMMETRY RouteSymmetry
INVARIANTS
  AccumulatorsMatchDocuments
  RetainedLogComplete
PROPERTIES
  WholeResponsesExact
  ValidatedCheckpointExact
  FullIdentityRecurrence
