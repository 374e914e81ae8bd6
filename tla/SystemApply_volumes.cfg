\* A mutation is applied to a node whose agent has not registered.
CONSTANTS
  local = local
  remote = remote
  here = here
  there = there
  u1 = u1
  a1 = a1
  a2 = a2
  s1 = s1
  Free = Free
  Local = local
  Proxies <- TwoProxies
  Inbounds <- OneHere
  Users <- OneUser
  Applies <- SystemAndOne
  Systems <- OneSystem
  N = 1
  InbProxy <- Places
  InbEngine <- OnFirst
  MaxRev = 2
SPECIFICATION SystemSpec
INVARIANT LocalInboundHonest
CHECK_DEADLOCK FALSE
