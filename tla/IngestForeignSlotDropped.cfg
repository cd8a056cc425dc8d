CONSTANTS
  pg1 = pg1
  pg2 = pg2
  rulesA = rulesA
  rulesB = rulesB
  NoIdentity = NoIdentity
  NoLayout = NoLayout
  Sources = {pg1}
  Contracts = {rulesA}
  Configs <- OneConfig
  NumBatches = 1
  MaxLsn = 1
SPECIFICATION SharedSpec
PROPERTIES DropsOnlyOwnSlot
