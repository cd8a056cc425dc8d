SPECIFICATION LiveSpec
CONSTANTS
  Requests = {r1, r2}
  Contents = {"a1", "a2", "b", "x"}
  Invalid = {"x"}
  Contract <- MCContract
  InitialContent = "a1"
  Configurable = {"a1", "b"}
  Tokens = {""}
  NoToken = ""
  None = None
  HistoryLimit = 6
  MaxRevision = 3
  MaxCrashes = 1
  MaxFaults = 1
CHECK_DEADLOCK FALSE
INVARIANTS
  ActivePlanMatchesStore
  ActivationAnswerIsDurable
  CandidateHasItsPlan
PROPERTIES
  NoLostUpdate
  VersionsNameOneContent
  CandidateResolved
