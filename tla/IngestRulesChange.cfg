CONSTANTS
  pg1 = pg1
  pg2 = pg2
  rulesA = rulesA
  rulesB = rulesB
  NoIdentity = NoIdentity
  NoLayout = NoLayout
  Sources = {pg1}
  Contracts = {rulesA, rulesB}
  Configs <- RulesChange
  NumBatches = 1
  MaxLsn = 1
SPECIFICATION FairSpec
PROPERTIES WipedStoreRematerialized
