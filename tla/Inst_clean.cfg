SPECIFICATION HostSpec
CONSTANTS
  Cores = {x}
  MaxSecrets = 2
  CutRemovals = TRUE
INVARIANT NeverLooksComplete
CHECK_DEADLOCK FALSE
