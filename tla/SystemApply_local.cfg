\* A mutation and a system apply, with and without a registered agent.
\* Two runs of the check and one that is asked for, two newer commits, one fault.
CONSTANTS
  local = local
  remote = remote
  here = here
  there = there
  u1 = u1
  a1 = a1
  a2 = a2
  s1 = s1
  Free = Free
  Local = local
  Proxies <- TwoProxies
  Inbounds <- OneHere
  Users <- OneUser
  Applies <- SystemAndOne
  Systems <- OneSystem
  N = 1
  InbProxy <- Places
  InbEngine <- OnFirst
  MaxRev = 2
  Runs = {r1, r2}
  Asked = {r0}
  MaxVersion = 3
  MaxFaults = 1
SPECIFICATION PanelSpec
INVARIANT VolumesHonest
PROPERTY SystemReaches
PROPERTY ChecksSettle
CHECK_DEADLOCK FALSE
VIEW NoRecords
