\* Two engines, one node; every protocol, in three changes of an inbound.
CONSTANTS
  local = local
  remote = remote
  i1 = i1
  i2 = i2
  u1 = u1
  a1 = a1
  a2 = a2
  Free = Free
  Proxies <- OneProxy
  Inbounds <- TwoInbounds
  Users <- OneUser
  Applies <- TwoApplies
  N = 2
  InbProxy <- AllLocal
  InbEngine <- OnEach
  MaxRev = 2
  Protocols = {"HYSTERIA2", "VLESS_GRPC_TLS", "SHADOWSOCKS", "AMNEZIAWG", "MTPROXY",
               "VLESS_XHTTP_TLS", "VLESS_TCP_TLS", "TROJAN_TLS", "SHADOWSOCKS_XRAY", "WIREGUARD",
               "WIREGUARD_XRAY", "VLESS_REALITY", "TROJAN"}
  MaxChanges = 3
SPECIFICATION FlagsSpec
SYMMETRY Symm
INVARIANTS InboundHonest UserHonestLast ReconciledIsDeployed ClientsFit UntouchedStays
PROPERTY NoStaleDeploy
CHECK_DEADLOCK FALSE
