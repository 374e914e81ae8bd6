\* sing-box under its sidecar; files fail, the container goes down, the panel crashes.
\* Two inbounds of a supervised engine, three requests (an apply, its rollback, an
\* apply).  Two cores, two installations.
\* Two new artifacts of unchanging data, or one of data that changes.
CONSTANTS
  good1 = good1
  good2 = good2
  bad = bad
  Nothing = Nothing
  Applies = {a1, a2}
  Configs = {good1, good2, bad}
  Good = {good1, good2}
  Restarts = FALSE
  LateDeath = TRUE
  MaxOutages = 1
  IoFails = TRUE
  Tags = {x, y}
  MaxRequests = 3
  Cores = {x, y}
  MaxSecrets = 2
  CutRemovals = FALSE
  Artifacts = {x, y}
  Kinds = {"DATABASE", "CORE_CONFIG", "FULL"}
  MaxCalls = 2
  MaxVersions = 2
  MaxRestores = 2
  MaxCrashes = 1
SYMMETRY PairSymmetry
SPECIFICATION HostsSpec
INVARIANTS  CompleteIsUsable CoreAsAsked SucceededIsTrue
PROPERTY OutcomeIsReal
CHECK_DEADLOCK FALSE
