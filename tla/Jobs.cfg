\* An operation works on for 5 - 1 - 2 * 1 = 2 ticks at least before another can begin,
\* and at most for WorkMax = 3, so that two work at once.  An operation may crash or lose
\* its commands anywhere.  xray; the container goes down once, at any moment, and the
\* panel may crash in an apply.  Three kinds of users in two reset periods, one edit and
\* one failed apply; two devices, one of them behind an engine that only remembers.
CONSTANTS
  NoCall = NoCall
  Calls = {c1, c2}
  Ttl = 5
  MinPeriod = 1
  Latency = 1
  WorkMax = 3
  good1 = good1
  Nothing = Nothing
  Applies = {c1, c2}
  Configs = {good1, good2, bad}
  Good = {good1, good2}
  Restarts = TRUE
  LateDeath = FALSE
  MaxOutages = 1
  IoFails = FALSE
  MaxNow = 3
  Counts <- NoneOrTwo
  Admins <- OneAdmin
  Profiles <- SomeProfiles
  Inputs <- SomeInputs
  MaxEdits = 1
  Hold = 2
  ResetEvery = 2
  MaxFailures = 1
  Devices <- TwoDevices
  Remembered <- TheLaptop
  MaxTime = 3
  Timeout = 1
  Retention = 1
  MaxMoves = 2
  MaxPartial = 1
SPECIFICATION JobsSpec
INVARIANTS WorkStaggered NoReloadLost LastKnownGood ResetOnce
PROPERTIES ImplementsMutex DisabledByHand ClosedForCause
PROPERTIES LockIsFreed CoreComesBack StatusSettles DirtyIsApplied SessionsClose
CHECK_DEADLOCK FALSE
