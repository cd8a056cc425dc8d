SPECIFICATION Spec
CONSTANTS
  Ids = {1, 2}
  Names = {"Task", "Note"}
  Kinds = {"insert", "delete"}
  t1 = t1
  t2 = t2
  Types <- MCTypes
  Null = Null
  MaxTxns = 2
  MaxChanges = 2
  MaxDrops = 1
CHECK_DEADLOCK FALSE
INVARIANTS
  BatchIsTransaction
  BatchTypesCurrent
PROPERTIES
  EverythingDecoded
