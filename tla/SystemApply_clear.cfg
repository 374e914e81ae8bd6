\* A user changes while applySystem runs.
CONSTANTS
  local = local
  remote = remote
  here = here
  there = there
  u1 = u1
  a1 = a1
  a2 = a2
  s1 = s1
  Free = Free
  Local = local
  Proxies <- OneProxy
  Inbounds <- OneHere
  Users <- OneUser
  Applies <- SystemOnly
  Systems <- OneSystem
  N = 1
  InbProxy <- Places
  InbEngine <- OnFirst
  MaxRev = 2
SPECIFICATION SystemSpec
INVARIANT UserHonest
CHECK_DEADLOCK FALSE
