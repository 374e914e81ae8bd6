-------------------------- MODULE InboundSettings --------------------------
(***************************************************************************)
(* The settings of an inbound, by protocol, in every place that names      *)
(* them: the write schemas, the storage and its public configuration, the  *)
(* editor's fields, the engines' configurations, the subscription adapters *)
(* and the links the panel shows.                                          *)
(***************************************************************************)
EXTENDS Naturals

SingBoxTls == {"HYSTERIA2", "TROJAN"}
XrayTls == {"VLESS_XHTTP_TLS", "VLESS_GRPC_TLS", "VLESS_TCP_TLS", "TROJAN_TLS"}
Shadowsocks == {"SHADOWSOCKS", "SHADOWSOCKS_XRAY"}
Wireguard == {"WIREGUARD", "WIREGUARD_XRAY"}

\* Port 0 is the port published for the protocol, or the first of MTPROXY's range.
Published(p, port) == port = 0 \/ p = "MTPROXY"

-----------------------------------------------------------------------------
(* What an inbound has besides the listen fields.                          *)

Hysteria2Settings == {"sni", "alpn", "insecure", "obfs", "bandwidth"}
VlessRealitySettings == {"names", "shortId", "flow", "fingerprint", "handshake"}
VlessXhttpTlsSettings == {"sni", "path", "hostHeader", "mode"}
VlessGrpcTlsSettings == {"sni", "service"}
VlessTcpTlsSettings == {"sni", "flow"}
TrojanSettings == {"sni", "alpn", "insecure", "fallback"}
TrojanTlsSettings == {"sni", "fallback"}
ShadowsocksSettings == {"method"}
WireguardSettings == {"address", "mtu"}
AmneziawgSettings == {"address", "mtu"}
MtproxySettings == {"mode"}

Own ==
  [HYSTERIA2 |-> Hysteria2Settings, VLESS_REALITY |-> VlessRealitySettings,
   VLESS_XHTTP_TLS |-> VlessXhttpTlsSettings, VLESS_GRPC_TLS |-> VlessGrpcTlsSettings,
   VLESS_TCP_TLS |-> VlessTcpTlsSettings, TROJAN |-> TrojanSettings,
   TROJAN_TLS |-> TrojanTlsSettings, SHADOWSOCKS |-> ShadowsocksSettings,
   SHADOWSOCKS_XRAY |-> ShadowsocksSettings, WIREGUARD |-> WireguardSettings,
   WIREGUARD_XRAY |-> WireguardSettings, AMNEZIAWG |-> AmneziawgSettings,
   MTPROXY |-> MtproxySettings]

Fields == [p \in DOMAIN Own |-> {"name", "host", "port", "publicPort", "enabled"} \cup Own[p]]

\* Where the certificate of an inbound may be.
Sources(p) ==
  CASE p \in SingBoxTls -> {"ACME", "PATHS", "PEM"}
    [] p \in XrayTls -> {"PATHS", "PEM"}
    [] OTHER -> {"NONE"}

\* The settings a request may leave to the schema, which the editor never does.
Defaulted(p) ==
  CASE p = "VLESS_REALITY" -> {"flow", "fingerprint"}
    [] p \in XrayTls \cup SingBoxTls -> Own[p] \ {"sni"}
    [] p \in Shadowsocks -> {}
    [] OTHER -> Own[p]

\* The schema of an update is a union without the protocol and the first member that
\* matches is taken: without its own settings a body is that of another protocol
\* (Hysteria2 over TLS, WireGuard without), and what storage reads of it is missing.
Unread(p) ==
  CASE p \in {"VLESS_XHTTP_TLS", "VLESS_GRPC_TLS", "VLESS_TCP_TLS"} -> Own[p] \ {"sni"}
    [] p = "MTPROXY" -> {"mode"}
    [] OTHER -> {}

-----------------------------------------------------------------------------
(* What storage keeps of them ("key" for secrets of its own, certificates   *)
(* apart), and what a stored configuration must have to be read back.      *)

Hysteria2Storage == {"sni", "alpn", "insecure", "obfs", "bandwidth", "key"}
VlessRealityStorage == {"handshake", "names", "shortId", "flow", "fingerprint", "key"}
VlessXhttpTlsStorage == {"path", "hostHeader", "mode", "sni"}
VlessGrpcTlsStorage == {"service", "sni"}
VlessTcpTlsStorage == {"flow", "sni"}
TrojanStorage == {"sni", "alpn", "insecure", "fallback"}
TrojanTlsStorage == {"sni", "fallback"}
ShadowsocksStorage == {"method", "key"}
WireguardStorage == {"address", "mtu", "key"}
AmneziawgStorage == {"address", "mtu", "key"}
MtproxyStorage == {"mode"}

Storage ==
  [HYSTERIA2 |-> Hysteria2Storage, VLESS_REALITY |-> VlessRealityStorage,
   VLESS_XHTTP_TLS |-> VlessXhttpTlsStorage, VLESS_GRPC_TLS |-> VlessGrpcTlsStorage,
   VLESS_TCP_TLS |-> VlessTcpTlsStorage, TROJAN |-> TrojanStorage,
   TROJAN_TLS |-> TrojanTlsStorage, SHADOWSOCKS |-> ShadowsocksStorage,
   SHADOWSOCKS_XRAY |-> ShadowsocksStorage, WIREGUARD |-> WireguardStorage,
   WIREGUARD_XRAY |-> WireguardStorage, AMNEZIAWG |-> AmneziawgStorage,
   MTPROXY |-> MtproxyStorage]

TlsPublic == {"sni", "alpn", "insecure"}
FilesTlsPublic == {"sni"}
Hysteria2PublicConfig == {"bandwidth", "obfs"} \cup TlsPublic
VlessRealityPublicConfig == {"handshake", "names", "shortId", "flow", "fingerprint"}
VlessXhttpTlsPublicConfig == {"path", "hostHeader", "mode"} \cup FilesTlsPublic
VlessGrpcTlsPublicConfig == {"service"} \cup FilesTlsPublic
VlessTcpTlsPublicConfig == {"flow"} \cup FilesTlsPublic
TrojanPublicConfig == {"fallback"} \cup TlsPublic
TrojanTlsPublicConfig == {"fallback"} \cup FilesTlsPublic
ShadowsocksPublicConfig == {"method"}
WireguardPublicConfig == {"address", "mtu"}
AmneziawgPublicConfig == {"address", "mtu"}
MtproxyPublicConfig == {"mode"}

PublicConfig ==
  [HYSTERIA2 |-> Hysteria2PublicConfig, VLESS_REALITY |-> VlessRealityPublicConfig,
   VLESS_XHTTP_TLS |-> VlessXhttpTlsPublicConfig,
   VLESS_GRPC_TLS |-> VlessGrpcTlsPublicConfig, VLESS_TCP_TLS |-> VlessTcpTlsPublicConfig,
   TROJAN |-> TrojanPublicConfig, TROJAN_TLS |-> TrojanTlsPublicConfig,
   SHADOWSOCKS |-> ShadowsocksPublicConfig, SHADOWSOCKS_XRAY |-> ShadowsocksPublicConfig,
   WIREGUARD |-> WireguardPublicConfig, WIREGUARD_XRAY |-> WireguardPublicConfig,
   AMNEZIAWG |-> AmneziawgPublicConfig, MTPROXY |-> MtproxyPublicConfig]

-----------------------------------------------------------------------------
(* The fields of the editor's simple mode, and those of the detailed mode   *)
(* for the certificate, whose other fields and JSON have every setting.    *)

VlessRealityFields == {"names", "handshake"}
VlessXhttpTlsFields == VlessXhttpTlsSettings \ {"sni"}
VlessGrpcTlsFields == VlessGrpcTlsSettings \ {"sni"}
VlessTcpTlsFields == VlessTcpTlsSettings \ {"sni"}
ShadowsocksFields == {"method", "key"}
WireguardFields == WireguardSettings
AmneziawgFields == AmneziawgSettings
MtproxyFields == {"mode", "port"}

ProtocolFields ==
  [HYSTERIA2 |-> {}, VLESS_REALITY |-> VlessRealityFields,
   VLESS_XHTTP_TLS |-> VlessXhttpTlsFields, VLESS_GRPC_TLS |-> VlessGrpcTlsFields,
   VLESS_TCP_TLS |-> VlessTcpTlsFields, TROJAN |-> {}, TROJAN_TLS |-> {},
   SHADOWSOCKS |-> ShadowsocksFields, SHADOWSOCKS_XRAY |-> ShadowsocksFields,
   WIREGUARD |-> WireguardFields, WIREGUARD_XRAY |-> WireguardFields,
   AMNEZIAWG |-> AmneziawgFields, MTPROXY |-> MtproxyFields]

\* "paths" and "pem" are a certificate typed as its files' paths or as text, "tlsMode" a
\* switch between the files and ACME.
CertificateFields == {"paths", "pem", "tlsMode"}

AcmeTlsFields == {"sni"}
FilesTlsFields == {"paths"}
TlsModeFields(acme) == {"tlsMode"} \cup (IF acme THEN AcmeTlsFields ELSE FilesTlsFields)
Hysteria2Fields(acme) == TlsModeFields(acme) \cup {"bandwidth", "obfs", "key"}
TrojanFields(acme) == TlsModeFields(acme) \cup {"fallback"}
XrayFilesTlsFields == {"sni", "paths", "pem"}

-----------------------------------------------------------------------------
(* What a configuration fixes for the clients of an inbound, besides the   *)
(* secrets: not the sites it imitates or falls back to, nor the rate and   *)
(* the packet size it keeps itself to.                                     *)

Hysteria2Inbound == {"sni", "alpn", "obfs"}
VlessRealityInbound == {"names", "shortId", "flow"}
TrojanInbound == {"sni", "alpn"}
VlessXhttpTlsInbound == {"sni", "path", "hostHeader", "mode"}
VlessGrpcTlsInbound == {"sni", "service"}
VlessTcpTlsInbound == {"sni", "flow"}
TrojanTlsInbound == {"sni"}
ShadowsocksInbound == {"method"}
ShadowsocksXrayInbound == {"method"}
AmneziawgInbound == {"address"}
MtproxyInbound == {"mode"}

\* A peer is known by its key and allowed its own address.
WireguardInbound == {}
WireguardXrayInbound == {}

Demanded ==
  LET configuration ==
        [HYSTERIA2 |-> Hysteria2Inbound, VLESS_REALITY |-> VlessRealityInbound,
         VLESS_XHTTP_TLS |-> VlessXhttpTlsInbound, VLESS_GRPC_TLS |-> VlessGrpcTlsInbound,
         VLESS_TCP_TLS |-> VlessTcpTlsInbound, TROJAN |-> TrojanInbound,
         TROJAN_TLS |-> TrojanTlsInbound, SHADOWSOCKS |-> ShadowsocksInbound,
         SHADOWSOCKS_XRAY |-> ShadowsocksXrayInbound, WIREGUARD |-> WireguardInbound,
         WIREGUARD_XRAY |-> WireguardXrayInbound, AMNEZIAWG |-> AmneziawgInbound,
         MTPROXY |-> MtproxyInbound]
  IN  [p \in DOMAIN Own |-> {"credential", "key", "obfuscation"} \cup configuration[p]]

-----------------------------------------------------------------------------
(* What the adapters take from an inbound for its profiles, besides its    *)
(* address and its secrets, and what the links of the panel carry.         *)

Hysteria2Endpoint == {"sni", "alpn", "insecure", "obfs", "bandwidth"}
VlessRealityEndpoint == {"names", "shortId", "flow", "fingerprint"}
VlessXhttpTlsEndpoint == {"sni", "path", "hostHeader", "mode"}
VlessGrpcTlsEndpoint == {"sni", "service"}
VlessTcpTlsEndpoint == {"sni", "flow"}
TrojanEndpoint == {"sni", "alpn", "insecure"}
TrojanTlsEndpoint == {"sni"}
ShadowsocksEndpoint == {"method"}
WireguardEndpoint == {"address", "mtu"}
AmneziawgEndpoint == {"address", "mtu"}

Endpoint ==
  [HYSTERIA2 |-> Hysteria2Endpoint, VLESS_REALITY |-> VlessRealityEndpoint,
   VLESS_XHTTP_TLS |-> VlessXhttpTlsEndpoint, VLESS_GRPC_TLS |-> VlessGrpcTlsEndpoint,
   VLESS_TCP_TLS |-> VlessTcpTlsEndpoint, TROJAN |-> TrojanEndpoint,
   TROJAN_TLS |-> TrojanTlsEndpoint, SHADOWSOCKS |-> ShadowsocksEndpoint,
   SHADOWSOCKS_XRAY |-> ShadowsocksEndpoint, WIREGUARD |-> WireguardEndpoint,
   WIREGUARD_XRAY |-> WireguardEndpoint, AMNEZIAWG |-> AmneziawgEndpoint, MTPROXY |-> {}]

Hysteria2Uri == {"sni", "insecure", "obfs"}
VlessUri == {"names", "fingerprint", "shortId", "flow"}
VlessXhttpTlsUri == {"path", "hostHeader", "sni", "mode"}
VlessGrpcTlsUri == {"service", "sni"}
VlessTcpTlsUri == {"sni", "flow"}
TrojanUri == {"sni", "insecure", "alpn"}
ShadowsocksUri == {"method"}
WireguardUri == {"address", "mtu"}
AmneziawgUri == {"address", "mtu"}
MtproxyUri == {"mode"}

\* Trojan over Xray has no ALPN and no insecure setting to put in its link.
AdminLink ==
  [HYSTERIA2 |-> Hysteria2Uri, VLESS_REALITY |-> VlessUri,
   VLESS_XHTTP_TLS |-> VlessXhttpTlsUri, VLESS_GRPC_TLS |-> VlessGrpcTlsUri,
   VLESS_TCP_TLS |-> VlessTcpTlsUri, TROJAN |-> TrojanUri \cap Own["TROJAN"],
   TROJAN_TLS |-> TrojanUri \cap Own["TROJAN_TLS"], SHADOWSOCKS |-> ShadowsocksUri,
   SHADOWSOCKS_XRAY |-> ShadowsocksUri, WIREGUARD |-> WireguardUri,
   WIREGUARD_XRAY |-> WireguardUri, AMNEZIAWG |-> AmneziawgUri, MTPROXY |-> MtproxyUri]

=============================================================================
