SPECIFICATION SplitSpec
CONSTANTS
  pg1 = pg1
  rulesA = rulesA
  rulesB = rulesB
  NoIdentity = NoIdentity
  NoLayout = NoLayout
  NoApi = NoApi
  Sources = {pg1}
  Contracts = {rulesA, rulesB}
  Configs <- EitherRules
  NumBatches = 2
  MaxLsn = 3
INVARIANTS
  AppliedAtMostOnce
  IncompleteHidden
