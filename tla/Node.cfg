\* Two engines that change once each, a push and the pulls, one fault.  Two names of the
\* host, four commands.
CONSTANTS
  singbox = singbox
  xray = xray
  Engines <- BothEngines
  MaxChanges = 1
  MaxPushes = 1
  MaxFaults = 1
  Hosts = {h1, h2}
  MaxCommands = 4
SPECIFICATION NodeSpec
INVARIANT AppliedIsServed
PROPERTY CleanChangeArrives
PROPERTY RecordedRan
CHECK_DEADLOCK FALSE
