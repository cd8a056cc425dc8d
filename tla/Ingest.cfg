CONSTANTS
  pg1 = pg1
  pg2 = pg2
  rulesA = rulesA
  rulesB = rulesB
  NoIdentity = NoIdentity
  NoLayout = NoLayout
  Sources = {pg1, pg2}
  Contracts = {rulesA, rulesB}
  Configs <- AnyConfig
  NumBatches = 2
  MaxLsn = 2
SPECIFICATION FairSpec
INVARIANTS
  ReplicaExact
  SlotNotAheadOfStore
  ReadyServesConfiguredSource
  StreamContinuesStore
PROPERTIES
  DropsOnlyOwnSlot
  ImplementsReplica
  BootstrapRecovers
  EveryCommitPersisted
