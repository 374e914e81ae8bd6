\* Two inbounds of the engines that refuse a configuration for what one user's
\* credential is, one user.  Two plans of one inbound, two requests at once.
CONSTANTS
  Inbounds = {a, b}
  Users = {u}
  Protocols = {"SHADOWSOCKS", "AMNEZIAWG"}
  Statuses = {"ACTIVE", "DISABLED"}
  MaxSecrets = 2
  MaxVersion = 2
  Plans = {p, q}
  NoPlan = NoPlan
  Calls = {c, d}
  MaxRenewals = 3
SYMMETRY Symm
SPECIFICATION PanelSpec
INVARIANTS PlanFollowed OfferedIsServed RevokedIsOut
CHECK_DEADLOCK FALSE
