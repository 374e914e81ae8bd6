--------------------------- MODULE EndpointsProofs ---------------------------
(***************************************************************************)
(* What the clients are told and what answers them: proofs about Endpoints *)
(* and Sites, for any set of protocols, any names and any number of        *)
(* changes and commands.                                                   *)
(*                                                                         *)
(* ClientsFit is inductive with the secrets an inbound has (Sound), and    *)
(* UntouchedStays with what a request is about (About): whatever an update *)
(* does not leave as it was is among what it touches.                      *)
(*                                                                         *)
(* AppliedIsServed needs what the steps a command has left will bring      *)
(* about (Promised).                                                       *)
(***************************************************************************)
EXTENDS Endpoints, Sites, SequenceTheorems, TLAPS

-----------------------------------------------------------------------------
(* The tables.                                                             *)

LEMMA ProtocolNames ==
  DOMAIN Own = {"HYSTERIA2", "VLESS_REALITY", "VLESS_XHTTP_TLS", "VLESS_GRPC_TLS", "VLESS_TCP_TLS",
                "TROJAN", "TROJAN_TLS", "SHADOWSOCKS", "SHADOWSOCKS_XRAY", "WIREGUARD",
                "WIREGUARD_XRAY", "AMNEZIAWG", "MTPROXY"}
BY DEF Own

LEMMA OwnSettings ==
  ASSUME NEW p \in DOMAIN Own
  PROVE  /\ p # "none" /\ (p = "HYSTERIA2" => "obfs" \in Own[p])
         /\ \A n \in {"name", "host", "port", "publicPort", "enabled", "credential", "key",
                      "obfuscation"} : n \notin Own[p]
         /\ "address" \in Own[p] => p \in Wireguard \cup {"AMNEZIAWG"}
BY ProtocolNames
   DEF Own, Hysteria2Settings, VlessRealitySettings, VlessXhttpTlsSettings, VlessGrpcTlsSettings,
       VlessTcpTlsSettings, TrojanSettings, TrojanTlsSettings, ShadowsocksSettings,
       WireguardSettings, AmneziawgSettings, MtproxySettings, Wireguard

LEMMA OwnStored == ASSUME NEW p \in DOMAIN Own PROVE Own[p] \subseteq Storage[p]
BY ProtocolNames
   DEF Own, Hysteria2Settings, VlessRealitySettings, VlessXhttpTlsSettings, VlessGrpcTlsSettings,
       VlessTcpTlsSettings, TrojanSettings, TrojanTlsSettings, ShadowsocksSettings,
       WireguardSettings, AmneziawgSettings, MtproxySettings,
       Storage, Hysteria2Storage, VlessRealityStorage, VlessXhttpTlsStorage, VlessGrpcTlsStorage,
       VlessTcpTlsStorage, TrojanStorage, TrojanTlsStorage, ShadowsocksStorage, WireguardStorage,
       AmneziawgStorage, MtproxyStorage

LEMMA FieldNames ==
  ASSUME NEW p \in DOMAIN Own
  PROVE  /\ Fields[p] = {"name", "host", "port", "publicPort", "enabled"} \cup Own[p]
         /\ Defaulted(p) \subseteq Own[p]
<1>1. Fields[p] = {"name", "host", "port", "publicPort", "enabled"} \cup Own[p]
  BY DEF Fields
<1>2. {"flow", "fingerprint"} \subseteq Own["VLESS_REALITY"]
  BY DEF Own, VlessRealitySettings
<1> QED
  BY <1>1, <1>2 DEF Defaulted

\* Beside the secrets, what an engine asks of its clients is a setting of the inbound.
LEMMA DemandedSettings ==
  ASSUME NEW p \in DOMAIN Own
  PROVE  /\ {"credential", "key", "obfuscation"} \subseteq Demanded[p]
         /\ Demanded[p] \subseteq {"credential", "key", "obfuscation"} \cup Own[p]
         /\ "address" \in Demanded[p] => p = "AMNEZIAWG"
BY ProtocolNames
   DEF Demanded, Hysteria2Inbound, VlessRealityInbound, VlessXhttpTlsInbound, VlessGrpcTlsInbound,
       VlessTcpTlsInbound, TrojanInbound, TrojanTlsInbound, ShadowsocksInbound,
       ShadowsocksXrayInbound, WireguardInbound, WireguardXrayInbound, AmneziawgInbound,
       MtproxyInbound, Own, Hysteria2Settings, VlessRealitySettings, VlessXhttpTlsSettings,
       VlessGrpcTlsSettings, VlessTcpTlsSettings, TrojanSettings, TrojanTlsSettings,
       ShadowsocksSettings, WireguardSettings, AmneziawgSettings, MtproxySettings

\* What the profiles and links carry of what is asked for.
Carries(p, carried) ==
  \A n \in Demanded[p] \ {"credential", "key", "obfuscation"} :
    n \in carried \/ (p = "HYSTERIA2" /\ n = "alpn")

LEMMA EndpointsCarry ==
  ASSUME NEW p \in DOMAIN Own
  PROVE  /\ Carries(p, AdminLink[p])
         /\ p # "MTPROXY" => Carries(p, Endpoint[p]) /\ Carries(p, Link(p))
         /\ Carries("AMNEZIAWG", AmneziawgConf)
<1> USE ProtocolNames
   DEF Carries, Demanded, Hysteria2Inbound, VlessRealityInbound, VlessXhttpTlsInbound, VlessGrpcTlsInbound,
       VlessTcpTlsInbound, TrojanInbound, TrojanTlsInbound, ShadowsocksInbound,
       ShadowsocksXrayInbound, WireguardInbound, WireguardXrayInbound, AmneziawgInbound,
       MtproxyInbound
<1>1. Carries(p, AdminLink[p])
  BY DEF AdminLink, Own, TrojanSettings, TrojanTlsSettings, Hysteria2Uri, VlessUri,
         VlessXhttpTlsUri, VlessGrpcTlsUri, VlessTcpTlsUri, TrojanUri, ShadowsocksUri, WireguardUri,
         AmneziawgUri, MtproxyUri
<1>2. p # "MTPROXY" => Carries(p, Endpoint[p])
  BY DEF Endpoint, Hysteria2Endpoint, VlessRealityEndpoint, VlessXhttpTlsEndpoint,
         VlessGrpcTlsEndpoint, VlessTcpTlsEndpoint, TrojanEndpoint, TrojanTlsEndpoint,
         ShadowsocksEndpoint, WireguardEndpoint, AmneziawgEndpoint
<1>3. p # "MTPROXY" => Carries(p, Link(p))
  <2>1. CASE p = "HYSTERIA2"
    BY <2>1 DEF Link, Hysteria2Endpoint
  <2>2. CASE p # "HYSTERIA2"
    BY <1>2, <2>2 DEF Link
  <2> QED
    BY <2>1, <2>2
<1>4. Carries("AMNEZIAWG", AmneziawgConf)
  BY DEF AmneziawgConf, AmneziawgEndpoint
<1> QED
  BY <1>1, <1>2, <1>3, <1>4

LEMMA ProfilesCarry ==
  ASSUME NEW p \in DOMAIN Own
  PROVE  \A carried \in Renderings[p] : Carries(p, carried)
<1>1. Renderings[p] =
        {AdminLink[p]} \cup
        (IF InProfile(p, FALSE) THEN {ClashProfile(p), Link(p)} ELSE {}) \cup
        (IF InProfile(p, FALSE) /\ p # "VLESS_XHTTP_TLS" THEN {SingBoxProfile(p)} ELSE {}) \cup
        (IF InProfile(p, TRUE) THEN {AmneziawgConf} ELSE {})
  BY DEF Renderings
<1> QED
  BY <1>1, EndpointsCarry DEF InProfile, ClashProfile, SingBoxProfile

-----------------------------------------------------------------------------
(* What is stored.                                                         *)

\* An inbound that its engine can be given, with the secrets it uses and no others.
Sound(r) ==
  /\ r.protocol \in DOMAIN Own
  /\ r = [protocol |-> r.protocol, val |-> r.val, source |-> r.source, key |-> r.key,
          obfuscation |-> r.obfuscation]
  /\ r.val = [n \in Fields[r.protocol] |-> r.val[n]]
  /\ r.source \in Sources(r.protocol)
  /\ Complete(r)
  /\ ~Keyed(r.protocol, r.val) => r.key = 0
  /\ r.protocol # "AMNEZIAWG" => r.obfuscation = 0

FormSound ==
  form.open =>
    /\ form.seen.protocol \in DOMAIN Own
    /\ form.seen.val = [n \in Fields[form.seen.protocol] |-> form.seen.val[n]]
    /\ ~form.new => row # NoRow /\ form.seen.protocol = row.protocol

EndpointsInv ==
  /\ row # NoRow => Sound(row)
  /\ FormSound
  /\ held # NoProfile => row # NoRow
  /\ changes \in Nat
  /\ UntouchedStays

LEMMA SoundIsRow == ASSUME NEW r, Sound(r) PROVE r # NoRow
<1>1. r.protocol # "none"
  BY OwnSettings DEF Sound
<1> QED
  BY <1>1 DEF NoRow

LEMMA KeptSettings ==
  ASSUME NEW p \in DOMAIN Own, NEW val
  PROVE  /\ Kept(p, val) = [n \in Fields[p] |-> Kept(p, val)[n]]
         /\ \A n \in Fields[p] : Kept(p, val)[n] = val[n]
BY OwnStored DEF Kept

\* What is accepted is stored so that the engine can be given it.
LEMMA StoredSound ==
  ASSUME NEW had, had.protocol \in DOMAIN Own, NEW req, NEW fresh, fresh # 0,
         Accepted(had, req, fresh)
  PROVE  Sound(Stored(had, req, fresh)) /\ Stored(had, req, fresh).protocol = had.protocol
<1> DEFINE p == had.protocol
           q == Patched(p, req)
           val == Kept(p, Parsed(p, q))
           k == IF ~Keyed(p, val) THEN 0 ELSE IF q.key \/ had.key = 0 THEN fresh ELSE had.key
           o == ResolvedObfuscation(had, q, fresh)
           r == [protocol |-> p, val |-> val, source |-> q.source, key |-> k, obfuscation |-> o]
<1>1. Stored(had, req, fresh) = r
  BY DEF Stored
<1>2. val = [n \in Fields[p] |-> val[n]]
  BY KeptSettings
<1>3. q.source \in Sources(p) /\ ReadsBack(r)
  BY <1>1 DEF Accepted
<1>4. (Keyed(p, val) <=> k # 0) /\ (p = "AMNEZIAWG" <=> o # 0)
  BY DEF ResolvedObfuscation
<1> HIDE DEF p, q, val, k, o
<1>5. SecretsReadable(r)
  BY <1>4 DEF SecretsReadable, Keyed
<1>6. Complete(r)
  BY <1>3, <1>4, <1>5 DEF Complete, Readable
<1>7. p \in DOMAIN Own
  BY DEF p
<1>8. Sound(r)
  BY <1>2, <1>3, <1>4, <1>6, <1>7 DEF Sound
<1> QED
  BY <1>1, <1>8 DEF p

-----------------------------------------------------------------------------
(* What an update leaves as it was.                                        *)

\* What the engine has of a row, the credential apart.
Value(r, n) ==
  CASE n = "key" -> r.key
    [] n = "obfuscation" -> r.obfuscation
    [] OTHER -> r.val[n]

LEMMA ServedValues ==
  ASSUME NEW r
  PROVE  /\ DOMAIN Served(r) = Demanded[r.protocol]
         /\ \A n \in Demanded[r.protocol] :
              Served(r)[n] = IF n = "credential" THEN credential.n ELSE Value(r, n)
BY DEF Served, Value

LEMMA OriginOfItself == \A n : n \in Origins(n)
BY DEF Origins

IsRequest(p, req) ==
  /\ req = [val |-> req.val, omitted |-> req.omitted, source |-> req.source, key |-> req.key,
            obfuscation |-> req.obfuscation]
  /\ req.val = [n \in Fields[p] |-> req.val[n]]

\* The fallbacks change the server name alone, and when they apply.
Patches(req) == "host" \in req.omitted \/ (req.source = "ABSENT" /\ defaultPaths)

LEMMA PatchedRequest ==
  ASSUME NEW p \in DOMAIN Own, NEW req, IsRequest(p, req)
  PROVE  LET q == Patched(p, req)
         IN  /\ q.key = req.key /\ q.obfuscation = req.obfuscation /\ q.omitted = req.omitted
             /\ \A n \in Fields[p] : n # "sni" \/ ~Patches(req) => q.val[n] = req.val[n]
<1> DEFINE h == HostFallback(p, req)
<1>1. /\ IsRequest(p, h) /\ h.key = req.key /\ h.obfuscation = req.obfuscation
      /\ h.omitted = req.omitted /\ h.source = req.source
      /\ \A n \in Fields[p] : n # "sni" \/ "host" \notin req.omitted => h.val[n] = req.val[n]
  BY DEF HostFallback, IsRequest
<1> HIDE DEF h
<1> DEFINE q == PathsFallback(p, h)
<1>2. /\ q.key = h.key /\ q.obfuscation = h.obfuscation /\ q.omitted = h.omitted
      /\ \A n \in Fields[p] :
           n # "sni" \/ ~(h.source = "ABSENT" /\ defaultPaths) => q.val[n] = h.val[n]
  BY <1>1 DEF PathsFallback, IsRequest
<1> HIDE DEF q
<1>3. Patched(p, req) \in {h, q}
  BY DEF Patched, h, q
<1> QED
  BY <1>1, <1>2, <1>3 DEF Patches

\* A request that has the settings as they are but for the names it is about.
About(req, names) ==
  LET p == row.protocol
  IN  /\ IsRequest(p, req) /\ req.omitted \subseteq names
      /\ \A n \in Own[p] :
           req.val[n] = row.val[n] \/ n \in names \/ (n = "sni" /\ "host" \in names)
      /\ Patches(req) => "sni" \notin Own[p] \/ "sni" \in names \/ "host" \in names
      /\ req.key => "key" \in names
      /\ req.obfuscation => "obfuscation" \in names

LEMMA UpdateLeaves ==
  ASSUME Sound(row), NEW req, NEW names, About(req, names), NEW fresh
  PROVE  \A n \in Demanded[row.protocol] \ {"credential"} :
           \/ Value(Stored(row, req, fresh), n) = Value(row, n)
           \/ Origins(n) \cap names # {}
<1> DEFINE p == row.protocol
           q == Patched(p, req)
           val == Kept(p, Parsed(p, q))
           k == IF ~Keyed(p, val) THEN 0 ELSE IF q.key \/ row.key = 0 THEN fresh ELSE row.key
           o == ResolvedObfuscation(row, q, fresh)
           r == [protocol |-> p, val |-> val, source |-> q.source, key |-> k, obfuscation |-> o]
<1>1. Stored(row, req, fresh) = r
  BY DEF Stored
<1>2. p \in DOMAIN Own /\ IsRequest(p, req)
  BY DEF Sound, About
<1>3. /\ q.key = req.key /\ q.obfuscation = req.obfuscation /\ q.omitted = req.omitted
      /\ \A n \in Fields[p] : n # "sni" \/ ~Patches(req) => q.val[n] = req.val[n]
  BY <1>2, PatchedRequest
<1>4. \A n \in Own[p] : n \in Fields[p] /\ n \notin {"publicPort", "key", "obfuscation", "credential"}
  BY <1>2, FieldNames, OwnSettings
<1>5. Demanded[p] \subseteq {"credential", "key", "obfuscation"} \cup Own[p]
  BY <1>2, DemandedSettings
<1> HIDE DEF q
<1>6. \A n \in Own[p] : val[n] = row.val[n] \/ Origins(n) \cap names # {}
  <2> TAKE n \in Own[p]
  <2>1. val[n] = Parsed(p, q)[n]
    BY <1>2, <1>4, KeptSettings
  <2>2. CASE n \in req.omitted
    BY <2>2, OriginOfItself DEF About
  <2>3. CASE n \notin req.omitted
    <3>1. val[n] = q.val[n]
      BY <1>3, <1>4, <2>1, <2>3 DEF Parsed
    <3>2. CASE n = "sni" /\ Patches(req)
      BY <3>2 DEF About, Origins
    <3>3. CASE ~(n = "sni" /\ Patches(req))
      <4>1. val[n] = req.val[n]
        BY <1>3, <1>4, <3>1, <3>3
      <4> QED
        BY <4>1, OriginOfItself DEF About, Origins
    <3> QED
      BY <3>2, <3>3
  <2> QED
    BY <2>2, <2>3
<1> HIDE DEF val
<1>7. k = row.key \/ Origins("key") \cap names # {}
  <2>1. CASE "key" \in names
    BY <2>1, OriginOfItself
  <2>2. CASE "key" \notin names
    <3>1. ~q.key
      BY <1>3, <2>2 DEF About
    <3>2. (Keyed(p, val) <=> Keyed(p, row.val)) \/ Origins("key") \cap names # {}
      <4>1. CASE p = "HYSTERIA2"
        BY <1>2, <1>6, <4>1, OwnSettings DEF Keyed, Origins
      <4>2. CASE p # "HYSTERIA2"
        BY <4>2 DEF Keyed
      <4> QED
        BY <4>1, <4>2
    <3>3. (Keyed(p, row.val) => row.key # 0) /\ (~Keyed(p, row.val) => row.key = 0)
      BY DEF Sound, Complete
    <3> QED
      BY <3>1, <3>2, <3>3
  <2> QED
    BY <2>1, <2>2
<1>8. o = row.obfuscation \/ Origins("obfuscation") \cap names # {}
  <2>1. (p = "AMNEZIAWG" => row.obfuscation # 0) /\ (p # "AMNEZIAWG" => row.obfuscation = 0)
    BY DEF Sound, Complete
  <2>2. q.obfuscation => "obfuscation" \in names
    BY <1>3 DEF About
  <2> QED
    BY <2>1, <2>2, OriginOfItself DEF ResolvedObfuscation
<1> HIDE DEF k, o
<1>9. \A n \in Own[p] : Value(r, n) = val[n] /\ Value(row, n) = row.val[n]
  BY <1>4 DEF Value
<1>10. /\ Value(r, "key") = k /\ Value(row, "key") = row.key
       /\ Value(r, "obfuscation") = o /\ Value(row, "obfuscation") = row.obfuscation
  BY DEF Value
<1> HIDE DEF r
<1> QED
  BY <1>1, <1>5, <1>6, <1>7, <1>8, <1>9, <1>10

-----------------------------------------------------------------------------
LEMMA HeldServed ==
  ASSUME UntouchedStays, held # NoProfile, NEW n \in DOMAIN held \cap Demanded[row.protocol]
  PROVE  held[n] = (IF n = "credential" THEN credential.n ELSE Value(row, n))
         \/ Origins(n) \cap touched # {}
BY ServedValues DEF UntouchedStays

\* An update that is about what it touches keeps the profile right where it is not touched.
LEMMA TouchingKeeps ==
  ASSUME UntouchedStays, UNCHANGED <<held, credential>>, row'.protocol = row.protocol,
         NEW names, touched' = Touching(names),
         \A n \in Demanded[row.protocol] \ {"credential"} :
           Value(row', n) = Value(row, n) \/ Origins(n) \cap names # {}
  PROVE  UntouchedStays'
<1> SUFFICES ASSUME held # NoProfile, NEW n \in DOMAIN held \cap Demanded[row.protocol]
             PROVE  \/ held[n] = (IF n = "credential" THEN credential.n ELSE Value(row', n))
                    \/ Origins(n) \cap touched' # {}
  BY DEF UntouchedStays, Served, Value
<1>1. touched \subseteq touched'
  BY DEF Touching
<1>2. CASE Origins(n) \cap names # {}
  BY <1>2 DEF Touching
<1>3. CASE Origins(n) \cap names = {}
  BY <1>1, <1>3, HeldServed
<1> QED
  BY <1>2, <1>3

LEMMA UpdateKeeps ==
  ASSUME EndpointsInv, row # NoRow, NEW req, NEW names, About(req, names),
         Accepted(row, req, changes + 1), row' = Stored(row, req, changes + 1),
         touched' = Touching(names), changes' = changes + 1, UNCHANGED <<held, credential>>,
         form' \in {form, NoForm}
  PROVE  EndpointsInv'
<1>1. Sound(row) /\ row.protocol \in DOMAIN Own /\ changes + 1 # 0 /\ changes' \in Nat
  BY DEF EndpointsInv, Sound
<1>2. Sound(row') /\ row'.protocol = row.protocol /\ row' # NoRow
  BY <1>1, StoredSound, SoundIsRow
<1>3. FormSound'
  BY <1>2 DEF EndpointsInv, FormSound, NoForm
<1>4. \A n \in Demanded[row.protocol] \ {"credential"} :
        Value(row', n) = Value(row, n) \/ Origins(n) \cap names # {}
  BY <1>1, UpdateLeaves
<1>5. UntouchedStays'
  BY <1>2, <1>4, TouchingKeeps DEF EndpointsInv
<1> QED
  BY <1>1, <1>2, <1>3, <1>5 DEF EndpointsInv, Sound, Complete, Readable, SecretsReadable

LEMMA CreatedKeeps ==
  ASSUME EndpointsInv, NEW p \in DOMAIN Own, NEW req, Created(p, req), form' = NoForm,
         UNCHANGED <<held, touched>>
  PROVE  EndpointsInv'
<1>1. Blank(p).protocol = p /\ held = NoProfile /\ changes' \in Nat
  BY DEF Created, EndpointsInv, Blank
<1>2. Sound(row')
  BY <1>1, StoredSound DEF Created
<1> QED
  BY <1>1, <1>2, SoundIsRow DEF EndpointsInv, FormSound, UntouchedStays, NoForm

-----------------------------------------------------------------------------
LEMMA CreateKeeps == ASSUME EndpointsInv, Create PROVE EndpointsInv'
<1>1. PICK p \in Instance :
        \E s \in Sources(p) \cup {"ABSENT"}, n \in {"none"} \cup Own[p] :
          Created(p, Plain(Toggled(Blank(p).val, {n}), s))
  BY DEF Create
<1>2. p \in DOMAIN Own
  BY ProtocolsAssumption DEF Instance
<1>3. PICK req : Created(p, req)
  BY <1>1
<1> QED
  BY <1>2, <1>3, CreatedKeeps DEF Create

LEMMA BootstrapKeeps == ASSUME EndpointsInv, Bootstrap PROVE EndpointsInv'
<1>1. PICK p \in Instance : Created(p, Plain(Blank(p).val, PresetTls(p)))
  BY DEF Bootstrap
<1>2. p \in DOMAIN Own
  BY ProtocolsAssumption DEF Instance
<1> QED
  BY <1>1, <1>2, CreatedKeeps DEF Bootstrap

\* The requests of the API.
LEMMA ToggledValues ==
  ASSUME NEW names, NEW p, NEW val, val = [n \in Fields[p] |-> val[n]]
  PROVE  /\ Toggled(val, names) = [n \in Fields[p] |-> Toggled(val, names)[n]]
         /\ \A n \in Fields[p] : n \notin names => Toggled(val, names)[n] = val[n]
<1>1. DOMAIN val = Fields[p]
  OBVIOUS
<1> QED
  BY <1>1 DEF Toggled

\* A request, by what it has.
Sent(val, omitted, source, secret, obfuscation) ==
  [val |-> val, omitted |-> omitted, source |-> source, key |-> secret, obfuscation |-> obfuscation]

LEMMA ApiAbout ==
  ASSUME Sound(row), NEW names, NEW val, val = [n \in Fields[row.protocol] |-> val[n]],
         NEW omitted \in SUBSET names, NEW source, NEW secret \in BOOLEAN, NEW obfuscation \in BOOLEAN,
         \A n \in Own[row.protocol] : n \notin names => val[n] = row.val[n],
         "host" \in omitted => "host" \in names,
         source = "ABSENT" => "sni" \notin Own[row.protocol] \/ "sni" \in names,
         secret => "key" \in names, obfuscation => "obfuscation" \in names
  PROVE  About(Sent(val, omitted, source, secret, obfuscation), names)
BY DEF About, IsRequest, Patches, Sent

LEMMA ApiUpdateKeeps == ASSUME EndpointsInv, ApiUpdate PROVE EndpointsInv'
<1> DEFINE p == row.protocol
           same == Plain(row.val, row.source)
           Updated(names, req) ==
             /\ Accepted(row, req, changes + 1)
             /\ row' = Stored(row, req, changes + 1)
             /\ touched' = Touching(names)
           optional == Defaulted(p) \cup {"enabled", "publicPort"}
           tls == Own[p] \cap TlsPublic
           no == FALSE
           yes == TRUE
<1>1. /\ row # NoRow /\ Sound(row) /\ changes' = changes + 1
      /\ UNCHANGED <<held, credential>> /\ form' = form
  BY DEF ApiUpdate, EndpointsInv
<1>2. p \in DOMAIN Own /\ row.source \in Sources(p) /\ row.val = [n \in Fields[p] |-> row.val[n]]
  BY <1>1 DEF Sound
<1>3. row.source # "ABSENT" /\ \A s \in Sources(p) : s # "ABSENT"
  BY <1>2 DEF Sources
<1>4. /\ Own[p] \subseteq Fields[p] /\ Defaulted(p) \subseteq Own[p]
      /\ \A n \in {"host", "key", "obfuscation"} : n \notin Own[p]
  BY <1>2, FieldNames, OwnSettings
<1>5. ASSUME NEW names, NEW req, Updated(names, req), About(req, names) PROVE EndpointsInv'
  BY <1>1, <1>5, UpdateKeeps
<1>0. same = Sent(row.val, {}, row.source, no, no)
  BY DEF Plain, Sent
<1>6. no \in BOOLEAN /\ yes \in BOOLEAN /\ ~no
  OBVIOUS
<1>7. ASSUME NEW names PROVE /\ Toggled(row.val, names) = [n \in Fields[p] |-> Toggled(row.val, names)[n]]
                            /\ \A n \in Own[p] : n \notin names => Toggled(row.val, names)[n] = row.val[n]
  BY <1>2, <1>4, ToggledValues
<1> HIDE DEF same, Updated, no, yes
<1>8. ASSUME NEW m \in Fields[p], Updated({m}, [same EXCEPT !.val = Toggled(@, {m})])
      PROVE  EndpointsInv'
  <2> DEFINE val == Toggled(row.val, {m})
  <2>1. [same EXCEPT !.val = Toggled(@, {m})] = Sent(val, {}, row.source, no, no)
    BY <1>0 DEF Sent
  <2>2. val = [n \in Fields[p] |-> val[n]] /\ \A n \in Own[p] : n \notin {m} => val[n] = row.val[n]
    BY <1>7
  <2> HIDE DEF val
  <2>3. About(Sent(val, {}, row.source, no, no), {m})
    BY <1>1, <1>3, <2>2, <1>6, ApiAbout
  <2> QED
    BY <1>5, <1>8, <2>1, <2>3
<1>9. ASSUME NEW s \in Sources(p), Updated({}, [same EXCEPT !.source = s])
      PROVE  EndpointsInv'
  <2>1. [same EXCEPT !.source = s] = Sent(row.val, {}, s, no, no)
    BY <1>0 DEF Sent
  <2>2. About(Sent(row.val, {}, s, no, no), {})
    BY <1>1, <1>2, <1>3, <1>6, ApiAbout
  <2> QED
    BY <1>5, <1>9, <2>1, <2>2
<1>10. ASSUME NEW names, NEW omitted \in SUBSET names, NEW source,
              source = "ABSENT" => "sni" \notin Own[p] \/ "sni" \in names,
              Updated(names, [same EXCEPT !.omitted = omitted, !.source = source])
       PROVE  EndpointsInv'
  <2>1. [same EXCEPT !.omitted = omitted, !.source = source]
          = Sent(row.val, omitted, source, no, no)
    <3> DEFINE x == [same EXCEPT !.omitted = omitted]
    <3>1. [same EXCEPT !.omitted = omitted, !.source = source] = [x EXCEPT !.source = source]
      BY <1>0 DEF Sent
    <3>2. x = Sent(row.val, omitted, row.source, no, no)
      BY <1>0 DEF Sent
    <3> HIDE DEF x
    <3>3. [x EXCEPT !.source = source] = Sent(row.val, omitted, source, no, no)
      BY <3>2 DEF Sent
    <3> QED
      BY <3>1, <3>3
  <2>2. About(Sent(row.val, omitted, source, no, no), names)
    BY <1>1, <1>2, <1>10, <1>6, ApiAbout
  <2> QED
    BY <1>5, <1>10, <2>1, <2>2
<1>11. ASSUME NEW names, NEW omitted \in SUBSET names, Updated(names, [same EXCEPT !.omitted = omitted])
       PROVE  EndpointsInv'
  <2>1. [same EXCEPT !.omitted = omitted] = Sent(row.val, omitted, row.source, no, no)
    BY <1>0 DEF Sent
  <2>2. About(Sent(row.val, omitted, row.source, no, no), names)
    BY <1>1, <1>2, <1>3, <1>6, ApiAbout
  <2> QED
    BY <1>5, <1>11, <2>1, <2>2
<1>12. ASSUME NEW m \in {"none"} \cup Own[p],
              Updated({"key", m}, [same EXCEPT !.key = yes, !.val = Toggled(@, {m})])
       PROVE  EndpointsInv'
  <2> DEFINE val == Toggled(row.val, {m})
  <2>1. [same EXCEPT !.key = yes, !.val = Toggled(@, {m})]
          = Sent(val, {}, row.source, yes, no)
    <3> DEFINE x == [same EXCEPT !.key = yes]
    <3>1. same.val = row.val
      BY <1>0 DEF Sent
    <3> HIDE DEF val
    <3>2. [same EXCEPT !.key = yes, !.val = val] = [x EXCEPT !.val = val]
      BY <1>0 DEF Sent
    <3>3. x = Sent(row.val, {}, row.source, yes, no)
      BY <1>0 DEF Sent
    <3> HIDE DEF x
    <3>4. [x EXCEPT !.val = val] = Sent(val, {}, row.source, yes, no)
      BY <3>3 DEF Sent
    <3>5. [same EXCEPT !.key = yes, !.val = Toggled(@, {m})] = [same EXCEPT !.key = yes, !.val = val]
      BY <3>1 DEF val
    <3> QED
      BY <3>2, <3>4, <3>5
  <2>2. val = [n \in Fields[p] |-> val[n]]
        /\ \A n \in Own[p] : n \notin {"key", m} => val[n] = row.val[n]
    BY <1>7
  <2> HIDE DEF val
  <2>3. About(Sent(val, {}, row.source, yes, no), {"key", m})
    BY <1>1, <1>3, <2>2, <1>6, ApiAbout
  <2> QED
    BY <1>5, <1>12, <2>1, <2>3
<1>13. ASSUME Updated({"obfuscation"}, [same EXCEPT !.obfuscation = yes])
       PROVE  EndpointsInv'
  <2>1. [same EXCEPT !.obfuscation = yes] = Sent(row.val, {}, row.source, no, yes)
    BY <1>0 DEF Sent
  <2>2. About(Sent(row.val, {}, row.source, no, yes), {"obfuscation"})
    BY <1>1, <1>2, <1>3, <1>6, ApiAbout
  <2> QED
    BY <1>5, <1>13, <2>1, <2>2
<1>14. tls \ {"sni"} \subseteq tls /\ ("sni" \notin Own[p] \/ "sni" \in tls)
  BY DEF TlsPublic
<1>15. \/ \E m \in Fields[p] : Updated({m}, [same EXCEPT !.val = Toggled(@, {m})])
       \/ \E s \in Sources(p) : Updated({}, [same EXCEPT !.source = s])
       \/ Updated(optional, [same EXCEPT !.omitted = optional])
       \/ Updated({"host"}, [same EXCEPT !.omitted = {"host"}])
       \/ Updated(tls, [same EXCEPT !.omitted = tls \ {"sni"}, !.source = "ABSENT"])
       \/ \E m \in {"none"} \cup Own[p] :
            Updated({"key", m}, [same EXCEPT !.key = yes, !.val = Toggled(@, {m})])
       \/ Updated({"obfuscation"}, [same EXCEPT !.obfuscation = yes])
  BY DEF ApiUpdate, same, Updated, yes
<1> HIDE DEF optional, tls, p
<1>16. CASE \E m \in Fields[p] : Updated({m}, [same EXCEPT !.val = Toggled(@, {m})])
  BY <1>8, <1>16
<1>17. CASE \E s \in Sources(p) : Updated({}, [same EXCEPT !.source = s])
  BY <1>9, <1>17
<1>18. CASE Updated(optional, [same EXCEPT !.omitted = optional])
  <2>1. optional \in SUBSET optional
    OBVIOUS
  <2> QED
    BY <1>11, <1>18, <2>1
<1>19. CASE Updated({"host"}, [same EXCEPT !.omitted = {"host"}])
  <2>1. {"host"} \in SUBSET {"host"}
    OBVIOUS
  <2> QED
    BY <1>11, <1>19, <2>1
<1>20. CASE Updated(tls, [same EXCEPT !.omitted = tls \ {"sni"}, !.source = "ABSENT"])
  BY <1>10, <1>14, <1>20
<1>21. CASE \E m \in {"none"} \cup Own[p] :
              Updated({"key", m}, [same EXCEPT !.key = yes, !.val = Toggled(@, {m})])
  BY <1>12, <1>21
<1> QED
  BY <1>13, <1>15, <1>16, <1>17, <1>18, <1>19, <1>20, <1>21

-----------------------------------------------------------------------------
\* A profile has the values the engine has, whatever it carries of them.
LEMMA RenderedServed ==
  ASSUME Sound(row), Fits(row), NEW carried,
         NEW n \in Demanded[row.protocol], n \in DOMAIN Rendered(row, carried)
  PROVE  Rendered(row, carried)[n] = Served(row)[n]
<1>1. CASE n = "address"
  <2>1. row.protocol = "AMNEZIAWG"
    BY <1>1, DemandedSettings DEF Sound
  <2> QED
    BY <1>1, <2>1 DEF Fits, Rendered, Served
<1>2. CASE n # "address"
  BY <1>2 DEF Rendered, Served
<1> QED
  BY <1>1, <1>2

LEMMA DownloadKeeps == ASSUME EndpointsInv, Download PROVE EndpointsInv'
<1> DEFINE profile == Rendered(row, UNION Renderings[row.protocol])
<1>1. /\ row # NoRow /\ Sound(row) /\ Fits(row) /\ held' = profile
      /\ UNCHANGED <<defaultPaths, row, credential, form, changes>>
  BY DEF Download, EndpointsInv
<1>2. \A n \in DOMAIN profile \cap DOMAIN Served(row) : profile[n] = Served(row)[n]
  <2>1. DOMAIN Served(row) = Demanded[row.protocol]
    BY DEF Served
  <2> HIDE DEF profile
  <2>2. ASSUME NEW n \in Demanded[row.protocol], n \in DOMAIN profile
        PROVE  profile[n] = Served(row)[n]
    BY <1>1, <2>2, RenderedServed DEF profile
  <2> QED
    BY <2>1, <2>2
<1> HIDE DEF profile
<1>3. Served(row)' = Served(row)
  BY <1>1 DEF Served
<1>4. UntouchedStays'
  BY <1>1, <1>2, <1>3 DEF UntouchedStays
<1> QED
  BY <1>1, <1>4 DEF EndpointsInv, FormSound, Sound, Complete, Readable, SecretsReadable

LEMMA RotateKeeps == ASSUME EndpointsInv, Rotate PROVE EndpointsInv'
<1>1. /\ row # NoRow /\ changes' \in Nat /\ touched' = Touching({"credential"})
      /\ UNCHANGED <<defaultPaths, row, form, held>> /\ UntouchedStays
  BY DEF Rotate, EndpointsInv
<1>2. UntouchedStays'
  <2> SUFFICES ASSUME held # NoProfile, NEW n \in DOMAIN held \cap Demanded[row.protocol]
               PROVE  \/ held[n] = (IF n = "credential" THEN credential'.n ELSE Value(row, n))
                      \/ Origins(n) \cap touched' # {}
    BY <1>1 DEF UntouchedStays, Served, Value
  <2>1. CASE n = "credential"
    BY <1>1, <2>1, OriginOfItself DEF Touching
  <2>2. CASE n # "credential"
    <3>1. touched \subseteq touched'
      BY <1>1 DEF Touching
    <3> QED
      BY <1>1, <2>2, <3>1, HeldServed
  <2> QED
    BY <2>1, <2>2
<1> QED
  BY <1>1, <1>2 DEF EndpointsInv, FormSound, Sound, Complete, Readable, SecretsReadable

-----------------------------------------------------------------------------
(* The editor.                                                             *)

LEMMA FormKeeps ==
  ASSUME EndpointsInv, OpenForm \/ OpenNew \/ CloseForm
  PROVE  EndpointsInv'
<1>1. UNCHANGED <<defaultPaths, row, credential, held, touched, changes>>
  BY DEF OpenForm, OpenNew, CloseForm
<1>2. FormSound'
  <2>1. CASE OpenForm
    BY <1>1, <2>1 DEF OpenForm, EndpointsInv, FormSound, Sound, Shown
  <2>2. CASE OpenNew
    <3>1. PICK p \in Instance : form' = [open |-> TRUE, new |-> TRUE, seen |-> Shown(Blank(p))]
      BY <2>2 DEF OpenNew
    <3>2. p \in DOMAIN Own
      BY ProtocolsAssumption DEF Instance
    <3>3. /\ form'.new /\ form'.seen.protocol = p
          /\ form'.seen.val = [n \in Fields[p] |-> form'.seen.val[n]]
      BY <3>1 DEF Shown, Blank
    <3> QED
      BY <3>2, <3>3 DEF FormSound
  <2>3. CASE CloseForm
    BY <2>3 DEF CloseForm, FormSound, NoForm
  <2> QED
    BY <2>1, <2>2, <2>3
<1>3. UntouchedStays'
  BY <1>1 DEF EndpointsInv, UntouchedStays, Served
<1> QED
  BY <1>1, <1>2, <1>3 DEF EndpointsInv, Sound, Complete, Readable, SecretsReadable

LEMMA SaveNewKeeps == ASSUME EndpointsInv, SaveNew PROVE EndpointsInv'
<1>1. PICK req : Created(form.seen.protocol, req)
  BY DEF SaveNew
<1>2. /\ form.open /\ form' = NoForm /\ UNCHANGED <<held, touched>>
  BY DEF SaveNew, Saved
<1>3. form.seen.protocol \in DOMAIN Own
  BY <1>2 DEF EndpointsInv, FormSound
<1> QED
  BY <1>1, <1>2, <1>3, CreatedKeeps

\* Its name is none of the settings an engine or a profile has.
LEMMA RenamedSound ==
  ASSUME NEW r, Sound(r), NEW name, NEW s, s = [r EXCEPT !.val["name"] = name]
  PROVE  /\ Sound(s) /\ s.protocol = r.protocol
         /\ \A n \in Demanded[r.protocol] \ {"credential"} : Value(s, n) = Value(r, n)
<1> DEFINE p == r.protocol
           val == [r.val EXCEPT !["name"] = name]
<1>1. s = [protocol |-> p, val |-> val, source |-> r.source, key |-> r.key,
           obfuscation |-> r.obfuscation]
  BY DEF Sound
<1>2. p \in DOMAIN Own /\ val = [n \in Fields[p] |-> val[n]]
  BY DEF Sound
<1>3. \A n : n # "name" => val[n] = r.val[n]
  BY DEF Sound
<1> HIDE DEF val
<1>4. \A n \in Own[p] : val[n] = r.val[n]
  BY <1>2, <1>3, OwnSettings
<1>5. /\ s.protocol = p /\ s.val = val /\ s.source = r.source /\ s.key = r.key
      /\ s.obfuscation = r.obfuscation
  BY <1>1
<1>6. Keyed(p, val) <=> Keyed(p, r.val)
  BY <1>3 DEF Keyed
<1>7. ReadsBack(s) <=> ReadsBack(r)
  BY <1>4, <1>5 DEF ReadsBack
<1>8. Complete(s)
  BY <1>5, <1>6, <1>7 DEF Sound, Complete, Readable, SecretsReadable
<1>9. \A n \in Demanded[p] \ {"credential"} : Value(s, n) = Value(r, n)
  BY <1>2, <1>4, <1>5, DemandedSettings DEF Value
<1>10. Sound(s)
  BY <1>1, <1>2, <1>5, <1>6, <1>8 DEF Sound
<1> QED
  BY <1>5, <1>9, <1>10

LEMMA SaveNameKeeps == ASSUME EndpointsInv, SaveName PROVE EndpointsInv'
<1>1. PICK name : row' = [row EXCEPT !.val["name"] = name]
  BY DEF SaveName
<1>2. /\ form.open /\ ~form.new /\ form' = NoForm /\ UNCHANGED <<held, touched, credential>>
      /\ changes' = changes + 1
  BY DEF SaveName, Saved
<1>3. Sound(row) /\ UntouchedStays /\ changes' \in Nat
  BY <1>2 DEF EndpointsInv, FormSound
<1>4. /\ Sound(row') /\ row'.protocol = row.protocol /\ row' # NoRow
      /\ \A n \in Demanded[row.protocol] \ {"credential"} : Value(row', n) = Value(row, n)
  BY <1>1, <1>3, RenamedSound, SoundIsRow
<1>5. touched' = Touching({})
  BY <1>2 DEF Touching
<1>6. UntouchedStays'
  BY <1>2, <1>3, <1>4, <1>5, TouchingKeeps
<1>7. FormSound'
  BY <1>2 DEF FormSound, NoForm
<1> QED
  BY <1>3, <1>4, <1>6, <1>7 DEF EndpointsInv, Sound, Complete, Readable, SecretsReadable

\* What a form sends differs from what it was opened with where it was edited.
LEMMA FormRequest ==
  ASSUME NEW f, NEW p \in DOMAIN Own, f.seen.protocol = p,
         f.seen.val = [n \in Fields[p] |-> f.seen.val[n]], NEW mode, NEW names
  PROVE  LET req == Request(f, mode, names)
         IN  /\ IsRequest(p, req) /\ req.omitted = {} /\ ~req.obfuscation
             /\ req.key => "key" \in names
             /\ req.source = "ABSENT" => ~defaultPaths
             /\ \A n \in Own[p] :
                  \/ req.val[n] = f.seen.val[n]
                  \/ n \in names \/ (n = "sni" /\ "host" \in names)
<1> DEFINE now == Edited(f, names)
           clean == Sanitized(f, names)
           moved == [now EXCEPT !["port"] = 0, !["publicPort"] = 0]
           sent == IF mode = "simple" THEN moved ELSE now
           source == clean.source
           secret == clean.key
           no == FALSE
<1>1. now = [n \in Fields[p] |-> now[n]]
  <2> DEFINE t == Toggled(f.seen.val, names)
  <2>1. t = [n \in Fields[p] |-> t[n]]
    BY ToggledValues
  <2>2. now = t \/ now = [t EXCEPT !["sni"] = t["host"]]
    BY DEF Edited
  <2> HIDE DEF t, now
  <2> QED
    BY <2>1, <2>2
<1>2. \A n \in Own[p] : now[n] = f.seen.val[n] \/ n \in names \/ (n = "sni" /\ "host" \in names)
  <2>1. Own[p] \subseteq Fields[p]
    BY FieldNames
  <2> QED
    BY <2>1 DEF Edited, Toggled
<1>3. secret => "key" \in names
  BY DEF Sanitized
<1>4. source = "ABSENT" => ~defaultPaths
  BY DEF Sanitized, ResolvedSingBoxTls, ResolvedXrayTls
<1>5. clean = Sent(now, {}, source, secret, no)
  BY DEF Sanitized, Sent
<1>6. ~no
  OBVIOUS
<1> HIDE DEF now, clean, source, secret, no
<1>7. sent = [n \in Fields[p] |-> sent[n]] /\ \A n \in Own[p] : sent[n] = now[n]
  <2>1. \A n \in Own[p] : n # "port" /\ n # "publicPort"
    BY OwnSettings
  <2> DEFINE first == [now EXCEPT !["port"] = 0]
             second == [first EXCEPT !["publicPort"] = 0]
  <2>2. moved = second
    BY <1>1
  <2>3. first = [n \in Fields[p] |-> first[n]] /\ \A n \in Own[p] : first[n] = now[n]
    BY <1>1, <2>1, FieldNames
  <2> HIDE DEF first
  <2>4. second = [n \in Fields[p] |-> second[n]] /\ \A n \in Own[p] : second[n] = first[n]
    BY <2>1, <2>3, FieldNames
  <2> QED
    BY <1>1, <2>2, <2>3, <2>4
<1>8. Request(f, mode, names) = Sent(sent, {}, source, secret, no)
  <2>1. CASE mode = "simple"
    <3>1. [clean EXCEPT !.val = moved] = Sent(moved, {}, source, secret, no)
      BY <1>5 DEF Sent
    <3>2. Request(f, mode, names) = [clean EXCEPT !.val = moved]
      BY <1>5, <2>1 DEF Request, Sent, clean
    <3> QED
      BY <2>1, <3>1, <3>2
  <2>2. CASE mode # "simple"
    BY <1>5, <2>2 DEF Request, clean
  <2> QED
    BY <2>1, <2>2
<1> HIDE DEF sent
<1> QED
  BY <1>2, <1>3, <1>4, <1>6, <1>7, <1>8 DEF IsRequest, Sent

LEMMA SaveSettingsKeeps == ASSUME EndpointsInv, SaveSettings PROVE EndpointsInv'
<1>1. PICK mode, names :
        /\ Saved(mode, names)
        /\ Accepted(row, Request(form, mode, names), changes + 1)
        /\ row' = Stored(row, Request(form, mode, names), changes + 1)
        /\ touched' = Touching(names \cup Stale)
  BY DEF SaveSettings
<1>2. /\ form.open /\ ~form.new /\ form' = NoForm /\ UNCHANGED <<held, credential>>
      /\ changes' = changes + 1
  BY <1>1 DEF SaveSettings, Saved
<1> DEFINE p == row.protocol
           req == Request(form, mode, names)
<1>3. /\ Sound(row) /\ p \in DOMAIN Own /\ form.seen.protocol = p /\ row # NoRow
      /\ form.seen.val = [n \in Fields[p] |-> form.seen.val[n]]
  BY <1>2 DEF EndpointsInv, FormSound, Sound
<1>4. /\ IsRequest(p, req) /\ req.omitted = {} /\ ~req.obfuscation
      /\ req.key => "key" \in names
      /\ req.source = "ABSENT" => ~defaultPaths
      /\ \A n \in Own[p] :
           req.val[n] = form.seen.val[n] \/ n \in names \/ (n = "sni" /\ "host" \in names)
  BY <1>3, FormRequest
<1> HIDE DEF req
<1>5. \A n \in Own[p] : form.seen.val[n] = row.val[n] \/ n \in Stale
  BY <1>3, FieldNames DEF Stale
<1>6. About(req, names \cup Stale)
  BY <1>4, <1>5 DEF About, Patches
<1> QED
  BY <1>1, <1>2, <1>3, <1>6, UpdateKeeps DEF req

-----------------------------------------------------------------------------
\* Every operation keeps the invariant.
LEMMA EndpointsInductive == ASSUME EndpointsInv, [InboundNext]_inboundVars PROVE EndpointsInv'
<1>1. CASE UNCHANGED inboundVars
  BY <1>1 DEF inboundVars, EndpointsInv, FormSound, Sound, Complete, Readable, SecretsReadable,
              UntouchedStays, Served
<1> QED
  BY <1>1, CreateKeeps, BootstrapKeeps, ApiUpdateKeeps, RotateKeeps, FormKeeps, SaveNewKeeps,
     SaveNameKeeps, SaveSettingsKeeps, DownloadKeeps DEF InboundNext

LEMMA EndpointsStart == InboundInit => EndpointsInv
BY DEF InboundInit, EndpointsInv, FormSound, NoForm, UntouchedStays

LEMMA SoundFits == EndpointsInv => ClientsFit
<1> SUFFICES ASSUME EndpointsInv, row # NoRow, Fits(row),
                    NEW carried \in Renderings[row.protocol],
                    NEW n \in DOMAIN Served(row)
             PROVE  LET profile == Rendered(row, carried)
                    IN  \/ n \in DOMAIN profile /\ profile[n] = Served(row)[n]
                        \/ row.protocol = "HYSTERIA2" /\ n = "alpn"
  BY DEF EndpointsInv, Sound, ClientsFit
<1>1. Sound(row) /\ row.protocol \in DOMAIN Own /\ n \in Demanded[row.protocol]
  BY DEF EndpointsInv, Sound, Served
<1>2. n \in DOMAIN Rendered(row, carried) \/ (row.protocol = "HYSTERIA2" /\ n = "alpn")
  BY <1>1, ProfilesCarry DEF Carries, Rendered
<1> QED
  BY <1>1, <1>2, RenderedServed

LEMMA EndpointsAlways == InboundSpec => []EndpointsInv
<1>1. InboundInit => EndpointsInv
  BY EndpointsStart
<1>2. EndpointsInv /\ [InboundNext]_inboundVars => EndpointsInv'
  BY EndpointsInductive
<1> QED
  BY <1>1, <1>2, PTL DEF InboundSpec

(***************************************************************************)
(* However an inbound was written, by the installation, the API or the     *)
(* editor, its engine can be given it, and every profile and link of a     *)
(* user whose credential fits agrees with the engine on all it asks for.   *)
(***************************************************************************)
THEOREM ProfilesFit == InboundSpec => []ClientsFit
BY EndpointsAlways, SoundFits, PTL

(***************************************************************************)
(* What a user downloaded keeps the values the engine has until something  *)
(* they come from is edited: no update makes new keys or numbers, or takes *)
(* another default, for a setting it is not about.                         *)
(***************************************************************************)
THEOREM ProfilesStay == InboundSpec => []UntouchedStays
<1>1. EndpointsInv => UntouchedStays
  BY DEF EndpointsInv
<1> QED
  BY <1>1, EndpointsAlways, PTL

-----------------------------------------------------------------------------
(* Sites.                                                                  *)


Labels == {"partial", "self-signed", "up", "packages", "load", "issue", "ensure", "no site",
           "no certificates", "wipe", "complete"}
Steps ==
  [do: Labels] \cup [do: {"site"}, tls: BOOLEAN] \cup [do: {"write conf"}, conf: Confs]
  \cup [do: {"cert", "key", "hook", "standalone"}, of: AllHosts]
  \cup [do: {"env"}, name: {"panel", "vpn"}, value: AllHosts]
  \cup [do: {"conf"}, name: {"mode"}, value: {"domain"}]
  \cup [do: {"conf"}, name: {"panel", "vpn"}, value: AllHosts]

CopyFiles == [of: AllHosts \cup {"none"}, current: BOOLEAN]

SitesTypeOK ==
  /\ conf \in Confs
  /\ envFile \in [panel: AllHosts, vpn: AllHosts]
  /\ issued \in [Hosts -> SUBSET AllHosts]
  /\ cert \in CopyFiles /\ key \in CopyFiles
  /\ hook \in AllHosts \cup {"none"}
  /\ doing = [cmd |-> doing.cmd, left |-> doing.left]
  /\ doing.left \in Seq(Steps)
  /\ doing.cmd = "none" => doing = Resting
  /\ doing # Resting => ended = "none"

(***************************************************************************)
(* What the steps a command has left will bring about: one of them is in   *)
(* hits and none after it in spoils, or it is there now and none of them   *)
(* is in spoils.                                                           *)
(***************************************************************************)
Lacks(q, spoils) == \A j \in 1..Len(q) : q[j] \notin spoils

Will(q, hits, spoils, now) ==
  \/ \E k \in 1..Len(q) : q[k] \in hits /\ \A j \in 1..Len(q) : j > k => q[j] \notin spoils
  \/ now /\ Lacks(q, spoils)

Kind(labels) == {s \in Steps : s.do \in labels}
Naming(file, name) == {s \in Steps : s.do = file /\ s.name = name}
WritesConf(c) == {s \in Steps : s.do = "write conf" /\ s.conf = c}
WithTls == [do |-> "site", tls |-> TRUE]

\* The steps that can change each of the things promised.
OnConf == Kind({"conf", "write conf", "wipe"})
OnEnv(name) == Naming("env", name) \cup Kind({"wipe"})
OnUp == Kind({"up", "env", "wipe"})
OnIssued == OnConf \cup Kind({"issue", "standalone", "no certificates"})
OnSite == OnConf \cup Kind({"site", "no site", "issue"})
OnLoaded == OnConf \cup Kind({"load", "site", "no site", "issue"})
OnCert == Kind({"cert", "self-signed", "issue", "standalone", "wipe"})
OnKey == Kind({"key", "self-signed", "issue", "standalone", "wipe"})
OnHook == Kind({"hook", "no site"})
OnRole == Kind({"write conf", "wipe"})
OnVpn == Naming("conf", "vpn") \cup OnRole

ConfWill(q, c) == Will(q, WritesConf(c), OnConf, conf = c)
EnvWill(q, name, h) == Will(q, {Set("env", name, h)}, OnEnv(name), envFile[name] = h)
UpWill(q) == Will(q, {Do("up")}, OnUp, up = envFile)
IssueWill(q, c) == Will(q, {Do("issue")}, OnIssued, issued[c.panel] = Names(c))
SiteWill(q, c) == Will(q, {WithTls}, OnSite, site = Site(c, TRUE))
LoadWill(q, c) == Will(q, {Do("load")}, OnLoaded, loaded = Site(c, TRUE))
CertWill(q, h) == Will(q, {Of("cert", h)}, OnCert, cert = Copy(h))
KeyWill(q, h) == Will(q, {Of("key", h)}, OnKey, key = Copy(h))
HookWill(q, h) == Will(q, {Of("hook", h)}, OnHook, hook = h)

PanelWill(q, c) ==
  /\ EnvWill(q, "panel", c.panel) /\ EnvWill(q, "vpn", c.vpn) /\ UpWill(q)
  /\ IssueWill(q, c) /\ SiteWill(q, c) /\ LoadWill(q, c)
  /\ CertWill(q, c.panel) /\ KeyWill(q, c.panel) /\ HookWill(q, c.panel)

RoleWill(q) ==
  Will(q, {s \in Steps : s.do = "write conf" /\ s.conf.role = "proxy"}, OnRole,
       conf.role = "proxy")
VpnWill(q, h) == Will(q, {Set("conf", "vpn", h)}, OnVpn, conf.vpn = h)

\* A proxy keeps files that are there when certbot has no certificate to replace them.
KeptForNow(q, h) == issued[h] = {} /\ Lacks(q, Kind({"issue", "standalone"}))

NameWill(q, h) == VpnWill(q, h) /\ EnvWill(q, "vpn", h) /\ HookWill(q, h)
CopiesWill(q, h) == CertWill(q, h) /\ KeyWill(q, h)

\* Files are ensured last of all, or the proxy has no name, or it will have its files.
ProxyWill(q) ==
  \/ Will(q, {Do("ensure")}, Steps \ Kind({"up", "complete"}), FALSE)
  \/ Lacks(q, Kind({"ensure"})) /\ Lacks(q, OnConf) /\ conf.vpn \notin Hosts
  \/ /\ Lacks(q, Kind({"ensure"}))
     /\ \E h \in Hosts : NameWill(q, h) /\ (CopiesWill(q, h) \/ KeptForNow(q, h))

CertsWill(q) == Lacks(q, Kind({"ensure"})) /\ \E h \in Hosts : NameWill(q, h) /\ CopiesWill(q, h)

HasNames(c) == c.mode = "domain" /\ {c.panel, c.vpn} \subseteq Hosts

PanelOf(q, cmd, c) ==
  /\ c.role = "panel" /\ ConfWill(q, c) /\ Lacks(q, Kind({"ensure"}))
  /\ (cmd # "certs" /\ HasNames(c)) => PanelWill(q, c)

PanelPromised(q, cmd) == \E c \in Confs : PanelOf(q, cmd, c)

ProxyPromised(q, cmd) ==
  /\ RoleWill(q)
  /\ cmd \in {"install", "update"} => ProxyWill(q)
  /\ cmd = "certs" => CertsWill(q)

Promised ==
  doing.cmd \in {"install", "update", "apply", "certs"} =>
    PanelPromised(doing.left, doing.cmd) \/ ProxyPromised(doing.left, doing.cmd)

\* The site on disk is the one a reboot loads.
SiteKept ==
  conf.role = "panel" /\ ended \in {"install", "update", "apply"} /\ NamesKnown =>
    site = Site(conf, TRUE)

SitesInv == SitesTypeOK /\ Promised /\ AppliedIsServed /\ SiteKept

-----------------------------------------------------------------------------
LEMMA Emptied == ASSUME NEW hits, NEW spoils, NEW now PROVE Will(<<>>, hits, spoils, now) => now
BY DEF Will

LEMMA TailSteps ==
  ASSUME NEW q \in Seq(Steps), q # <<>>
  PROVE  /\ Len(q) \in Nat \ {0} /\ Tail(q) \in Seq(Steps) /\ Len(Tail(q)) = Len(q) - 1
         /\ \A j \in 1..Len(Tail(q)) : Tail(q)[j] = q[j + 1]
         /\ Head(q) = q[1] /\ Head(q) \in Steps
BY HeadTailProperties, LenProperties, EmptySeq

LEMMA LacksTail ==
  ASSUME NEW q \in Seq(Steps), q # <<>>, NEW spoils
  PROVE  Lacks(q, spoils) <=> Head(q) \notin spoils /\ Lacks(Tail(q), spoils)
<1>1. \A j \in 1..Len(q) : j = 1 \/ (j - 1 \in 1..Len(Tail(q)) /\ q[j] = Tail(q)[j - 1])
  BY TailSteps
<1>2. \A j \in 1..Len(Tail(q)) : j + 1 \in 1..Len(q) /\ q[j + 1] = Tail(q)[j]
  BY TailSteps
<1>3. 1 \in 1..Len(q) /\ Head(q) = q[1]
  BY TailSteps
<1> QED
  BY <1>1, <1>2, <1>3 DEF Lacks

\* A step brings it about for good, or leaves it as it is.
LEMMA WillStep ==
  ASSUME NEW q \in Seq(Steps), q # <<>>, NEW hits, NEW spoils, NEW now, NEW next,
         Will(q, hits, spoils, now),
         Head(q) \in hits /\ Lacks(Tail(q), spoils) => next,
         Head(q) \notin spoils /\ now => next
  PROVE  Will(Tail(q), hits, spoils, next)
<1>1. CASE now /\ Lacks(q, spoils)
  BY <1>1, LacksTail DEF Will
<1>2. ASSUME NEW k \in 1..Len(q), q[k] \in hits, \A j \in 1..Len(q) : j > k => q[j] \notin spoils
      PROVE  Will(Tail(q), hits, spoils, next)
  <2>1. CASE k = 1
    <3>1. \A j \in 1..Len(Tail(q)) : j + 1 \in 1..Len(q) /\ j + 1 > 1 /\ q[j + 1] = Tail(q)[j]
      BY TailSteps
    <3>2. Lacks(Tail(q), spoils)
      BY <1>2, <2>1, <3>1 DEF Lacks
    <3> QED
      BY <1>2, <2>1, <3>2, TailSteps DEF Will
  <2>2. CASE k # 1
    <3> DEFINE i == k - 1
    <3>1. i \in 1..Len(Tail(q)) /\ Tail(q)[i] \in hits
      BY <1>2, <2>2, TailSteps
    <3>2. ASSUME NEW j \in 1..Len(Tail(q)), j > i PROVE Tail(q)[j] \notin spoils
      <4>1. j + 1 \in 1..Len(q) /\ j + 1 > k /\ Tail(q)[j] = q[j + 1]
        BY <3>2, TailSteps
      <4> QED
        BY <1>2, <4>1
    <3> QED
      BY <3>1, <3>2 DEF Will
  <2> QED
    BY <2>1, <2>2
<1> QED
  BY <1>1, <1>2 DEF Will

\* When no step that is left brings it about any more, it is there.
LEMMA WillNow ==
  ASSUME NEW q \in Seq(Steps), q # <<>>, NEW hits, NEW spoils, NEW now,
         Will(q, hits, spoils, now), Head(q) \notin hits, Lacks(Tail(q), hits)
  PROVE  now
BY LacksTail DEF Will, Lacks

LEMMA Joined ==
  ASSUME NEW p \in Seq(Steps), NEW r \in Seq(Steps)
  PROVE  /\ p \o r \in Seq(Steps) /\ Len(p \o r) = Len(p) + Len(r)
         /\ Len(p) \in Nat /\ Len(r) \in Nat
         /\ \A j \in 1..Len(p) : (p \o r)[j] = p[j]
         /\ \A j \in 1..Len(r) : (p \o r)[Len(p) + j] = r[j]
BY ConcatProperties, LenProperties

LEMMA LacksJoined ==
  ASSUME NEW p \in Seq(Steps), NEW r \in Seq(Steps), NEW spoils
  PROVE  Lacks(p \o r, spoils) <=> Lacks(p, spoils) /\ Lacks(r, spoils)
<1>1. \A j \in 1..Len(p \o r) :
        \/ j \in 1..Len(p) /\ (p \o r)[j] = p[j]
        \/ j - Len(p) \in 1..Len(r) /\ (p \o r)[j] = r[j - Len(p)]
  BY Joined
<1>2. \A j \in 1..Len(p) : j \in 1..Len(p \o r) /\ (p \o r)[j] = p[j]
  BY Joined
<1>3. \A j \in 1..Len(r) : Len(p) + j \in 1..Len(p \o r) /\ (p \o r)[Len(p) + j] = r[j]
  BY Joined
<1> QED
  BY <1>1, <1>2, <1>3 DEF Lacks

LEMMA WillJoined ==
  ASSUME NEW p \in Seq(Steps), NEW r \in Seq(Steps), NEW hits, NEW spoils, NEW now
  PROVE  /\ Will(r, hits, spoils, FALSE) => Will(p \o r, hits, spoils, now)
         /\ Will(p, hits, spoils, now) /\ Lacks(r, spoils) => Will(p \o r, hits, spoils, now)
<1>1. ASSUME NEW k \in 1..Len(r), r[k] \in hits, \A j \in 1..Len(r) : j > k => r[j] \notin spoils
      PROVE  Will(p \o r, hits, spoils, now)
  <2>1. Len(p) + k \in 1..Len(p \o r) /\ (p \o r)[Len(p) + k] \in hits
    BY <1>1, Joined
  <2>2. ASSUME NEW j \in 1..Len(p \o r), j > Len(p) + k PROVE (p \o r)[j] \notin spoils
    <3>1. j - Len(p) \in 1..Len(r) /\ j - Len(p) > k /\ (p \o r)[j] = r[j - Len(p)]
      BY <2>2, Joined
    <3> QED
      BY <3>1, <1>1
  <2> QED
    BY <2>1, <2>2 DEF Will
<1>2. ASSUME NEW k \in 1..Len(p), p[k] \in hits, \A j \in 1..Len(p) : j > k => p[j] \notin spoils,
             Lacks(r, spoils)
      PROVE  Will(p \o r, hits, spoils, now)
  <2>1. k \in 1..Len(p \o r) /\ (p \o r)[k] \in hits
    BY <1>2, Joined
  <2>2. ASSUME NEW j \in 1..Len(p \o r), j > k PROVE (p \o r)[j] \notin spoils
    <3>1. \/ j \in 1..Len(p) /\ (p \o r)[j] = p[j]
          \/ j - Len(p) \in 1..Len(r) /\ (p \o r)[j] = r[j - Len(p)]
      BY Joined
    <3> QED
      BY <2>2, <3>1, <1>2 DEF Lacks
  <2> QED
    BY <2>1, <2>2 DEF Will
<1> QED
  BY <1>1, <1>2, LacksJoined DEF Will

-----------------------------------------------------------------------------
(***************************************************************************)
(* The steps of a command.                                                 *)
(***************************************************************************)
Step ==
  \/ MarkPartial \/ SetEnvVar \/ SetInstallConfVar \/ WriteConf \/ SelfSign \/ ComposeUp
  \/ InstallPackages \/ WriteSite \/ LoadSite \/ IssueCertificates \/ IssueStandalone
  \/ CopyCert \/ CopyKey \/ InstallHook
  \/ RemoveSite \/ DeleteCertificates \/ Wipe \/ MarkComplete

\* What each of them does to what is promised, and that the others leave it alone.
Effect(s) ==
  /\ s.do = "env" => envFile' = [envFile EXCEPT ![s.name] = s.value]
  /\ s.do \notin {"env", "wipe"} => envFile' = envFile
  /\ s.do = "conf" => conf' = [conf EXCEPT ![s.name] = s.value]
  /\ s.do = "write conf" => conf' = s.conf
  /\ s.do \notin {"conf", "write conf", "wipe"} => conf' = conf
  /\ s.do = "up" => up' = envFile
  /\ s.do \notin {"up", "wipe"} => up' = up
  /\ s.do = "issue" => IF issued[conf.panel] = Names(conf) THEN issued' = issued
                       ELSE issued' = [issued EXCEPT ![conf.panel] = Names(conf)]
  /\ s.do = "no certificates" =>
       issued' = [h \in Hosts |-> IF h \in Names(conf) THEN {} ELSE issued[h]]
  /\ s.do = "standalone" => issued' \in {issued, [issued EXCEPT ![s.of] = {s.of}]}
  /\ s.do \notin {"issue", "standalone", "no certificates"} => issued' = issued
  /\ s.do = "site" => site' = Site(conf, s.tls)
  /\ s.do \notin {"site", "no site", "issue"} => site' = site
  /\ s.do = "load" => loaded' = site
  /\ s.do \notin {"load", "no site", "issue"} => loaded' = loaded
  /\ s.do = "cert" => cert' = Copy(s.of)
  /\ s.do \notin {"cert", "self-signed", "issue", "standalone", "wipe"} => cert' = cert
  /\ s.do = "key" => key' = Copy(s.of)
  /\ s.do \notin {"key", "self-signed", "issue", "standalone", "wipe"} => key' = key
  /\ s.do = "hook" => hook' = s.of
  /\ s.do \notin {"hook", "no site"} => hook' = hook
  /\ s.do # "ensure"

LEMMA Effects ==
  ASSUME Step
  PROVE  /\ doing.left # <<>> /\ Done
         /\ Effect(Head(doing.left))
<1> USE DEF Due, Arg
<1>1. CASE MarkPartial BY <1>1 DEF MarkPartial, Effect
<1>2. CASE SetEnvVar BY <1>2 DEF SetEnvVar, Effect
<1>3. CASE SetInstallConfVar BY <1>3 DEF SetInstallConfVar, Effect
<1>4. CASE WriteConf BY <1>4 DEF WriteConf, Effect
<1>5. CASE SelfSign BY <1>5 DEF SelfSign, Effect
<1>6. CASE ComposeUp BY <1>6 DEF ComposeUp, Effect
<1>7. CASE InstallPackages BY <1>7 DEF InstallPackages, Effect
<1>8. CASE WriteSite BY <1>8 DEF WriteSite, Effect
<1>9. CASE LoadSite BY <1>9 DEF LoadSite, Effect
<1>10. CASE IssueCertificates BY <1>10 DEF IssueCertificates, Reissued, Effect
<1>11. CASE IssueStandalone BY <1>11 DEF IssueStandalone, Reissued, Effect
<1>12. CASE CopyCert BY <1>12 DEF CopyCert, Effect
<1>13. CASE CopyKey BY <1>13 DEF CopyKey, Effect
<1>14. CASE InstallHook BY <1>14 DEF InstallHook, Effect
<1>15. CASE RemoveSite BY <1>15 DEF RemoveSite, Effect
<1>16. CASE DeleteCertificates BY <1>16 DEF DeleteCertificates, Effect
<1>17. CASE Wipe BY <1>17 DEF Wipe, Effect
<1>18. CASE MarkComplete BY <1>18 DEF MarkComplete, Effect
<1> QED
  BY <1>1, <1>2, <1>3, <1>4, <1>5, <1>6, <1>7, <1>8, <1>9, <1>10, <1>11, <1>12, <1>13, <1>14,
     <1>15, <1>16, <1>17, <1>18 DEF Step

\* The types of what a step has.
LEMMA StepTypes ==
  ASSUME NEW s \in Steps
  PROVE  /\ s.do = "env" => s.name \in {"panel", "vpn"} /\ s.value \in AllHosts
         /\ s.do = "conf" /\ s.name = "mode" => s.value = "domain"
         /\ s.do = "conf" /\ s.name # "mode" =>
              s.name \in {"panel", "vpn"} /\ s.value \in AllHosts
         /\ s.do = "write conf" => s.conf \in Confs
         /\ s.do \in {"cert", "key", "hook", "standalone"} => s.of \in AllHosts
BY DEF Steps, Labels

LEMMA CopyTypes ==
  /\ \A f \in CopyFiles, b \in BOOLEAN : [f EXCEPT !.current = b] \in CopyFiles
  /\ \A f \in CopyFiles : \A n : [f EXCEPT !.current = @ /\ f.of # n] \in CopyFiles
  /\ \A h \in AllHosts : Copy(h) \in CopyFiles
  /\ SelfSigned \in CopyFiles /\ NoFile \in CopyFiles
<1>1. \A f \in CopyFiles : f.current \in BOOLEAN
  BY DEF CopyFiles
<1>2. \A f \in CopyFiles, b \in BOOLEAN : [f EXCEPT !.current = b] \in CopyFiles
  BY DEF CopyFiles
<1>3. \A f \in CopyFiles : \A n : [f EXCEPT !.current = @ /\ f.of # n] \in CopyFiles
  BY <1>1 DEF CopyFiles
<1>4. \A h \in AllHosts : Copy(h) \in CopyFiles
  BY DEF CopyFiles, Copy
<1>5. SelfSigned \in CopyFiles /\ NoFile \in CopyFiles
  BY DEF CopyFiles, SelfSigned, NoFile, AllHosts
<1> QED
  BY <1>2, <1>3, <1>4, <1>5

LEMMA ReissuedTypes ==
  ASSUME SitesTypeOK, NEW h, NEW names \in SUBSET AllHosts, Reissued(h, names)
  PROVE  /\ issued' \in [Hosts -> SUBSET AllHosts]
         /\ cert' \in CopyFiles /\ key' \in CopyFiles
<1>1. issued' \in [Hosts -> SUBSET AllHosts]
  BY DEF Reissued, SitesTypeOK
<1>2. cert' \in CopyFiles
  BY CopyTypes DEF Reissued, SitesTypeOK
<1>3. key' \in CopyFiles
  BY CopyTypes DEF Reissued, SitesTypeOK
<1> QED
  BY <1>1, <1>2, <1>3

LEMMA StepKeepsTypes == ASSUME SitesTypeOK, Step PROVE SitesTypeOK'
<1> DEFINE s == Head(doing.left)
<1> USE DEF SitesTypeOK
<1>1. s \in Steps /\ Tail(doing.left) \in Seq(Steps) /\ doing.left # <<>>
  BY Effects, TailSteps
<1>2. /\ doing' = [doing EXCEPT !.left = Tail(@)] /\ ended' = ended
      /\ doing' = [cmd |-> doing.cmd, left |-> Tail(doing.left)]
      /\ doing # Resting
  BY <1>1, Effects DEF Done, Resting
<1>3. /\ doing' = [cmd |-> doing'.cmd, left |-> doing'.left] /\ doing'.left \in Seq(Steps)
      /\ (doing'.cmd = "none" => doing' = Resting) /\ (doing' # Resting => ended' = "none")
  BY <1>1, <1>2
<1> DEFINE Rest == /\ conf' \in Confs
                   /\ envFile' \in [panel: AllHosts, vpn: AllHosts]
                   /\ issued' \in [Hosts -> SUBSET AllHosts]
                   /\ cert' \in CopyFiles /\ key' \in CopyFiles
                   /\ hook' \in AllHosts \cup {"none"}
<1>4. Rest
  <2> USE <1>1, CopyTypes DEF Due, Arg
  <2>1. CASE MarkPartial BY <2>1 DEF MarkPartial
  <2>2. CASE SetEnvVar BY <2>2, StepTypes DEF SetEnvVar
  <2>3. CASE SetInstallConfVar BY <2>3, StepTypes DEF SetInstallConfVar, Confs
  <2>4. CASE WriteConf BY <2>4, StepTypes DEF WriteConf
  <2>5. CASE SelfSign BY <2>5 DEF SelfSign
  <2>6. CASE ComposeUp BY <2>6 DEF ComposeUp
  <2>7. CASE InstallPackages BY <2>7 DEF InstallPackages
  <2>8. CASE WriteSite BY <2>8 DEF WriteSite
  <2>9. CASE LoadSite BY <2>9 DEF LoadSite
  <2>10. CASE IssueCertificates
    <3>1. Names(conf) \in SUBSET AllHosts
      BY DEF Names, Confs
    <3> QED
      BY <2>10, <3>1, ReissuedTypes DEF IssueCertificates
  <2>11. CASE IssueStandalone
    <3>1. s.of \in AllHosts /\ {s.of} \in SUBSET AllHosts
      BY <2>11, StepTypes DEF IssueStandalone
    <3> QED
      BY <2>11, <3>1, ReissuedTypes DEF IssueStandalone
  <2>12. CASE CopyCert BY <2>12, StepTypes DEF CopyCert
  <2>13. CASE CopyKey BY <2>13, StepTypes DEF CopyKey
  <2>14. CASE InstallHook BY <2>14, StepTypes DEF InstallHook
  <2>15. CASE RemoveSite BY <2>15 DEF RemoveSite
  <2>16. CASE DeleteCertificates BY <2>16 DEF DeleteCertificates
  <2>17. CASE Wipe BY <2>17 DEF Wipe, NoConf, Ip, AllHosts, Confs
  <2>18. CASE MarkComplete BY <2>18 DEF MarkComplete
  <2> QED
    BY <2>1, <2>2, <2>3, <2>4, <2>5, <2>6, <2>7, <2>8, <2>9, <2>10, <2>11, <2>12, <2>13, <2>14,
       <2>15, <2>16, <2>17, <2>18 DEF Step
<1> QED
  BY <1>3, <1>4

-----------------------------------------------------------------------------
(* What is promised stays promised until it is kept.                       *)

Left == doing.left

LEMMA Advance ==
  ASSUME SitesTypeOK, Step
  PROVE  /\ Left \in Seq(Steps) /\ Left # <<>> /\ Left' = Tail(Left) /\ doing'.cmd = doing.cmd
         /\ Head(Left) \in Steps /\ Effect(Head(Left)) /\ doing # Resting
         /\ Tail(Left) \in Seq(Steps)
BY Effects, TailSteps DEF SitesTypeOK, Left, Done, Resting

LEMMA LacksStep ==
  ASSUME SitesTypeOK, Step, NEW spoils, Lacks(Left, spoils)
  PROVE  Lacks(Left', spoils) /\ Head(Left) \notin spoils
BY Advance, LacksTail

LEMMA ConfStep ==
  ASSUME SitesTypeOK, Step, NEW c, ConfWill(Left, c)
  PROVE  ConfWill(Left, c)'
<1> DEFINE s == Head(Left)
           hits == WritesConf(c)
<1> HIDE DEF s, hits
<1>1. ASSUME s \in hits, Lacks(Tail(Left), OnConf) PROVE conf' = c
  BY <1>1, Advance DEF Effect, WritesConf, s, hits
<1>2. ASSUME s \notin OnConf, conf = c PROVE conf' = c
  BY <1>2, Advance DEF Effect, OnConf, Kind, s
<1>3. Will(Left, hits, OnConf, conf = c)
  BY DEF ConfWill, hits
<1>4. Will(Tail(Left), hits, OnConf, conf' = c)
  BY <1>1, <1>2, <1>3, WillStep, Advance DEF s
<1>5. Will(Left', hits, OnConf, conf' = c)
  BY <1>4, Advance
<1> QED
  BY <1>5 DEF ConfWill, hits

LEMMA EnvStep ==
  ASSUME SitesTypeOK, Step, NEW n \in {"panel", "vpn"}, NEW h, EnvWill(Left, n, h)
  PROVE  EnvWill(Left, n, h)'
<1> DEFINE s == Head(Left)
           hits == {Set("env", n, h)}
<1> HIDE DEF s, hits
<1>1. ASSUME s \in hits, Lacks(Tail(Left), OnEnv(n)) PROVE envFile'[n] = h
  <2>1. s.do = "env" /\ s.name = n /\ s.value = h
    BY <1>1 DEF Set, hits
  <2> QED
    BY <2>1, Advance DEF Effect, SitesTypeOK, s
<1>2. ASSUME s \notin OnEnv(n), envFile[n] = h PROVE envFile'[n] = h
  <2>1. CASE s.do = "env"
    BY <1>2, <2>1, Advance, StepTypes DEF Effect, OnEnv, Naming, SitesTypeOK, s
  <2>2. CASE s.do # "env"
    BY <1>2, <2>2, Advance DEF Effect, OnEnv, Kind, s
  <2> QED
    BY <2>1, <2>2
<1>3. Will(Left, hits, OnEnv(n), envFile[n] = h)
  BY DEF EnvWill, hits
<1>4. Will(Tail(Left), hits, OnEnv(n), envFile'[n] = h)
  BY <1>1, <1>2, <1>3, WillStep, Advance DEF s
<1>5. Will(Left', hits, OnEnv(n), envFile'[n] = h)
  BY <1>4, Advance
<1> QED
  BY <1>5 DEF EnvWill, hits

LEMMA UpStep ==
  ASSUME SitesTypeOK, Step, UpWill(Left)
  PROVE  UpWill(Left)'
<1> DEFINE s == Head(Left)
           hits == {Do("up")}
<1> HIDE DEF s, hits
<1>1. ASSUME s \in hits, Lacks(Tail(Left), OnUp) PROVE up' = envFile'
  <2>1. s.do = "up"
    BY <1>1 DEF Do, hits
  <2> QED
    BY <2>1, Advance DEF Effect, s
<1>2. ASSUME s \notin OnUp, up = envFile PROVE up' = envFile'
  BY <1>2, Advance DEF Effect, OnUp, Kind, s
<1>3. Will(Left, hits, OnUp, up = envFile)
  BY DEF UpWill, hits
<1>4. Will(Tail(Left), hits, OnUp, up' = envFile')
  BY <1>1, <1>2, <1>3, WillStep, Advance DEF s
<1>5. Will(Left', hits, OnUp, up' = envFile')
  BY <1>4, Advance
<1> QED
  BY <1>5 DEF UpWill, hits

\* Once INSTALL_CONF is written no more, it is what it will be.
LEMMA ConfKept ==
  ASSUME SitesTypeOK, Step, NEW c, ConfWill(Left, c), Head(Left).do # "write conf",
         NEW spoils, OnConf \subseteq spoils, Lacks(Tail(Left), spoils)
  PROVE  conf = c
<1>1. WritesConf(c) \subseteq spoils /\ Head(Left) \notin WritesConf(c)
  BY DEF OnConf, Kind, WritesConf
<1>2. Lacks(Tail(Left), WritesConf(c))
  BY <1>1 DEF Lacks
<1> QED
  BY <1>1, <1>2, Advance, WillNow DEF ConfWill

LEMMA IssueStep ==
  ASSUME SitesTypeOK, Step, NEW c \in Confs, c.panel \in Hosts, ConfWill(Left, c),
         IssueWill(Left, c)
  PROVE  IssueWill(Left, c)'
<1> DEFINE s == Head(Left)
           hits == {Do("issue")}
<1> HIDE DEF s, hits
<1>1. ASSUME s \in hits, Lacks(Tail(Left), OnIssued) PROVE issued'[c.panel] = Names(c)
  <2>1. s.do = "issue"
    BY <1>1 DEF Do, hits
  <2>2. conf = c
    BY <1>1, <2>1, ConfKept DEF OnIssued, s
  <2> QED
    BY <2>1, <2>2, Advance DEF Effect, SitesTypeOK, s
<1>2. ASSUME s \notin OnIssued, issued[c.panel] = Names(c) PROVE issued'[c.panel] = Names(c)
  BY <1>2, Advance DEF Effect, OnIssued, Kind, s
<1>3. Will(Left, hits, OnIssued, issued[c.panel] = Names(c))
  BY DEF IssueWill, hits
<1>4. Will(Tail(Left), hits, OnIssued, issued'[c.panel] = Names(c))
  BY <1>1, <1>2, <1>3, WillStep, Advance DEF s
<1>5. Will(Left', hits, OnIssued, issued'[c.panel] = Names(c))
  BY <1>4, Advance
<1> QED
  BY <1>5 DEF IssueWill, hits

LEMMA SiteStep ==
  ASSUME SitesTypeOK, Step, NEW c, ConfWill(Left, c), SiteWill(Left, c)
  PROVE  SiteWill(Left, c)'
<1> DEFINE s == Head(Left)
           hits == {WithTls}
<1> HIDE DEF s, hits
<1>1. ASSUME s \in hits, Lacks(Tail(Left), OnSite) PROVE site' = Site(c, TRUE)
  <2>1. s.do = "site" /\ s.tls = TRUE
    BY <1>1 DEF WithTls, hits
  <2>2. conf = c
    BY <1>1, <2>1, ConfKept DEF OnSite, s
  <2> QED
    BY <2>1, <2>2, Advance DEF Effect, s
<1>2. ASSUME s \notin OnSite, site = Site(c, TRUE) PROVE site' = Site(c, TRUE)
  BY <1>2, Advance DEF Effect, OnSite, Kind, s
<1>3. Will(Left, hits, OnSite, site = Site(c, TRUE))
  BY DEF SiteWill, hits
<1>4. Will(Tail(Left), hits, OnSite, site' = Site(c, TRUE))
  BY <1>1, <1>2, <1>3, WillStep, Advance DEF s
<1>5. Will(Left', hits, OnSite, site' = Site(c, TRUE))
  BY <1>4, Advance
<1> QED
  BY <1>5 DEF SiteWill, hits

LEMMA LoadStep ==
  ASSUME SitesTypeOK, Step, NEW c, SiteWill(Left, c), LoadWill(Left, c)
  PROVE  LoadWill(Left, c)'
<1> DEFINE s == Head(Left)
           hits == {Do("load")}
<1> HIDE DEF s, hits
<1>1. ASSUME s \in hits, Lacks(Tail(Left), OnLoaded) PROVE loaded' = Site(c, TRUE)
  <2>1. s.do = "load" /\ s \notin {WithTls}
    BY <1>1 DEF Do, WithTls, hits
  <2>2. WithTls \in Kind({"load", "site", "no site", "issue"})
    <3>1. WithTls \in Steps
      BY DEF Steps, WithTls
    <3> QED
      BY <3>1 DEF Kind, WithTls
  <2>3. Lacks(Tail(Left), {WithTls})
    BY <1>1, <2>2 DEF Lacks, OnLoaded
  <2>4. site = Site(c, TRUE)
    BY <2>1, <2>3, WillNow, Advance DEF SiteWill, s
  <2> QED
    BY <2>1, <2>4, Advance DEF Effect, s
<1>2. ASSUME s \notin OnLoaded, loaded = Site(c, TRUE) PROVE loaded' = Site(c, TRUE)
  BY <1>2, Advance DEF Effect, OnLoaded, Kind, s
<1>3. Will(Left, hits, OnLoaded, loaded = Site(c, TRUE))
  BY DEF LoadWill, hits
<1>4. Will(Tail(Left), hits, OnLoaded, loaded' = Site(c, TRUE))
  BY <1>1, <1>2, <1>3, WillStep, Advance DEF s
<1>5. Will(Left', hits, OnLoaded, loaded' = Site(c, TRUE))
  BY <1>4, Advance
<1> QED
  BY <1>5 DEF LoadWill, hits

LEMMA CertStep ==
  ASSUME SitesTypeOK, Step, NEW h, CertWill(Left, h)
  PROVE  CertWill(Left, h)'
<1> DEFINE s == Head(Left)
           hits == {Of("cert", h)}
<1> HIDE DEF s, hits
<1>1. ASSUME s \in hits, Lacks(Tail(Left), OnCert) PROVE cert' = Copy(h)
  <2>1. s.do = "cert" /\ s.of = h
    BY <1>1 DEF Of, hits
  <2> QED
    BY <2>1, Advance DEF Effect, s
<1>2. ASSUME s \notin OnCert, cert = Copy(h) PROVE cert' = Copy(h)
  BY <1>2, Advance DEF Effect, OnCert, Kind, s
<1>3. Will(Left, hits, OnCert, cert = Copy(h))
  BY DEF CertWill, hits
<1>4. Will(Tail(Left), hits, OnCert, cert' = Copy(h))
  BY <1>1, <1>2, <1>3, WillStep, Advance DEF s
<1>5. Will(Left', hits, OnCert, cert' = Copy(h))
  BY <1>4, Advance
<1> QED
  BY <1>5 DEF CertWill, hits

LEMMA KeyStep ==
  ASSUME SitesTypeOK, Step, NEW h, KeyWill(Left, h)
  PROVE  KeyWill(Left, h)'
<1> DEFINE s == Head(Left)
           hits == {Of("key", h)}
<1> HIDE DEF s, hits
<1>1. ASSUME s \in hits, Lacks(Tail(Left), OnKey) PROVE key' = Copy(h)
  <2>1. s.do = "key" /\ s.of = h
    BY <1>1 DEF Of, hits
  <2> QED
    BY <2>1, Advance DEF Effect, s
<1>2. ASSUME s \notin OnKey, key = Copy(h) PROVE key' = Copy(h)
  BY <1>2, Advance DEF Effect, OnKey, Kind, s
<1>3. Will(Left, hits, OnKey, key = Copy(h))
  BY DEF KeyWill, hits
<1>4. Will(Tail(Left), hits, OnKey, key' = Copy(h))
  BY <1>1, <1>2, <1>3, WillStep, Advance DEF s
<1>5. Will(Left', hits, OnKey, key' = Copy(h))
  BY <1>4, Advance
<1> QED
  BY <1>5 DEF KeyWill, hits

LEMMA HookStep ==
  ASSUME SitesTypeOK, Step, NEW h, HookWill(Left, h)
  PROVE  HookWill(Left, h)'
<1> DEFINE s == Head(Left)
           hits == {Of("hook", h)}
<1> HIDE DEF s, hits
<1>1. ASSUME s \in hits, Lacks(Tail(Left), OnHook) PROVE hook' = h
  <2>1. s.do = "hook" /\ s.of = h
    BY <1>1 DEF Of, hits
  <2> QED
    BY <2>1, Advance DEF Effect, s
<1>2. ASSUME s \notin OnHook, hook = h PROVE hook' = h
  BY <1>2, Advance DEF Effect, OnHook, Kind, s
<1>3. Will(Left, hits, OnHook, hook = h)
  BY DEF HookWill, hits
<1>4. Will(Tail(Left), hits, OnHook, hook' = h)
  BY <1>1, <1>2, <1>3, WillStep, Advance DEF s
<1>5. Will(Left', hits, OnHook, hook' = h)
  BY <1>4, Advance
<1> QED
  BY <1>5 DEF HookWill, hits

LEMMA VpnStep ==
  ASSUME SitesTypeOK, Step, NEW h, VpnWill(Left, h)
  PROVE  VpnWill(Left, h)'
<1> DEFINE s == Head(Left)
           hits == {Set("conf", "vpn", h)}
<1> HIDE DEF s, hits
<1>1. ASSUME s \in hits, Lacks(Tail(Left), OnVpn) PROVE conf'.vpn = h
  <2>1. s.do = "conf" /\ s.name = "vpn" /\ s.value = h
    BY <1>1 DEF Set, hits
  <2> QED
    BY <2>1, Advance DEF Effect, SitesTypeOK, Confs, s
<1>2. ASSUME s \notin OnVpn, conf.vpn = h PROVE conf'.vpn = h
  <2>1. CASE s.do = "conf"
    BY <1>2, <2>1, Advance, StepTypes DEF Effect, OnVpn, Naming, SitesTypeOK, Confs, s
  <2>2. CASE s.do # "conf"
    BY <1>2, <2>2, Advance DEF Effect, OnVpn, OnRole, Kind, s
  <2> QED
    BY <2>1, <2>2
<1>3. Will(Left, hits, OnVpn, conf.vpn = h)
  BY DEF VpnWill, hits
<1>4. Will(Tail(Left), hits, OnVpn, conf'.vpn = h)
  BY <1>1, <1>2, <1>3, WillStep, Advance DEF s
<1>5. Will(Left', hits, OnVpn, conf'.vpn = h)
  BY <1>4, Advance
<1> QED
  BY <1>5 DEF VpnWill, hits

LEMMA RoleStep ==
  ASSUME SitesTypeOK, Step, RoleWill(Left)
  PROVE  RoleWill(Left)'
<1> DEFINE s == Head(Left)
           hits == {x \in Steps : x.do = "write conf" /\ x.conf.role = "proxy"}
<1> HIDE DEF s, hits
<1>1. ASSUME s \in hits, Lacks(Tail(Left), OnRole) PROVE conf'.role = "proxy"
  BY <1>1, Advance DEF Effect, s, hits
<1>2. ASSUME s \notin OnRole, conf.role = "proxy" PROVE conf'.role = "proxy"
  <2>1. CASE s.do = "conf"
    BY <1>2, <2>1, Advance, StepTypes DEF Effect, SitesTypeOK, Confs, s
  <2>2. CASE s.do # "conf"
    BY <1>2, <2>2, Advance DEF Effect, OnRole, Kind, s
  <2> QED
    BY <2>1, <2>2
<1>3. Will(Left, hits, OnRole, conf.role = "proxy")
  BY DEF RoleWill, hits
<1>4. Will(Tail(Left), hits, OnRole, conf'.role = "proxy")
  BY <1>1, <1>2, <1>3, WillStep, Advance DEF s
<1>5. Will(Left', hits, OnRole, conf'.role = "proxy")
  BY <1>4, Advance
<1> QED
  BY <1>5 DEF RoleWill, hits

LEMMA PanelStep ==
  ASSUME SitesTypeOK, Step, NEW cmd, NEW c \in Confs, PanelOf(Left, cmd, c)
  PROVE  PanelOf(Left, cmd, c)'
<1>1. c.role = "panel" /\ ConfWill(Left, c) /\ Lacks(Left, Kind({"ensure"}))
  BY DEF PanelOf
<1>2. ConfWill(Left, c)'
  BY <1>1, ConfStep
<1>3. Lacks(Left', Kind({"ensure"}))
  BY <1>1, LacksStep
<1>4. ASSUME cmd # "certs", HasNames(c) PROVE PanelWill(Left, c)'
  <2>1. c.panel \in Hosts /\ PanelWill(Left, c)
    BY <1>4 DEF HasNames, PanelOf
  <2>2. EnvWill(Left, "panel", c.panel)' /\ EnvWill(Left, "vpn", c.vpn)' /\ UpWill(Left)'
    BY <2>1, EnvStep, UpStep DEF PanelWill
  <2>3. IssueWill(Left, c)' /\ SiteWill(Left, c)' /\ LoadWill(Left, c)'
    BY <1>1, <2>1, IssueStep, SiteStep, LoadStep DEF PanelWill
  <2>4. CertWill(Left, c.panel)' /\ KeyWill(Left, c.panel)' /\ HookWill(Left, c.panel)'
    BY <2>1, CertStep, KeyStep, HookStep DEF PanelWill
  <2> QED
    BY <2>2, <2>3, <2>4 DEF PanelWill
<1> QED
  BY <1>1, <1>2, <1>3, <1>4 DEF PanelOf, HasNames

LEMMA NameStep ==
  ASSUME SitesTypeOK, Step, NEW h
  PROVE  /\ NameWill(Left, h) => NameWill(Left, h)'
         /\ CopiesWill(Left, h) => CopiesWill(Left, h)'
<1>1. NameWill(Left, h) => NameWill(Left, h)'
  BY VpnStep, EnvStep, HookStep DEF NameWill
<1>2. CopiesWill(Left, h) => CopiesWill(Left, h)'
  BY CertStep, KeyStep DEF CopiesWill
<1> QED
  BY <1>1, <1>2

LEMMA KeptStep ==
  ASSUME SitesTypeOK, Step, NEW h \in Hosts, KeptForNow(Left, h)
  PROVE  KeptForNow(Left, h)'
<1>1. Lacks(Left', Kind({"issue", "standalone"})) /\ Head(Left) \notin Kind({"issue", "standalone"})
  BY LacksStep DEF KeptForNow
<1>2. issued'[h] = {}
  BY <1>1, Advance DEF Effect, Kind, KeptForNow, SitesTypeOK
<1> QED
  BY <1>1, <1>2 DEF KeptForNow

LEMMA EnsureStep ==
  ASSUME SitesTypeOK, Step, Will(Left, {Do("ensure")}, Steps \ Kind({"up", "complete"}), FALSE)
  PROVE  Will(Left', {Do("ensure")}, Steps \ Kind({"up", "complete"}), FALSE)
<1>1. Head(Left).do # "ensure"
  BY Advance DEF Effect
<1>2. Head(Left) \notin {Do("ensure")}
  BY <1>1 DEF Do
<1> QED
  BY <1>2, WillStep, Advance

LEMMA ProxyStep ==
  ASSUME SitesTypeOK, Step, NEW cmd, ProxyPromised(Left, cmd)
  PROVE  ProxyPromised(Left, cmd)'
<1>1. RoleWill(Left)'
  BY RoleStep DEF ProxyPromised
<1>2. ASSUME cmd \in {"install", "update"} PROVE ProxyWill(Left)'
  <2>1. ProxyWill(Left)
    BY <1>2 DEF ProxyPromised
  <2>2. CASE Will(Left, {Do("ensure")}, Steps \ Kind({"up", "complete"}), FALSE)
    BY <2>2, EnsureStep DEF ProxyWill
  <2>3. CASE Lacks(Left, Kind({"ensure"})) /\ Lacks(Left, OnConf) /\ conf.vpn \notin Hosts
    <3>1. Lacks(Left', Kind({"ensure"})) /\ Lacks(Left', OnConf) /\ Head(Left) \notin OnConf
      BY <2>3, LacksStep
    <3>2. conf' = conf
      BY <3>1, Advance DEF Effect, OnConf, Kind
    <3> QED
      BY <2>3, <3>1, <3>2 DEF ProxyWill
  <2>4. ASSUME Lacks(Left, Kind({"ensure"})), NEW h \in Hosts,
               NameWill(Left, h) /\ (CopiesWill(Left, h) \/ KeptForNow(Left, h))
        PROVE  ProxyWill(Left)'
    <3>1. NameWill(Left, h)' /\ (CopiesWill(Left, h)' \/ KeptForNow(Left, h)')
      BY <2>4, NameStep, KeptStep
    <3>2. Lacks(Left', Kind({"ensure"}))
      BY <2>4, LacksStep
    <3> QED
      BY <3>1, <3>2 DEF ProxyWill
  <2> QED
    BY <2>1, <2>2, <2>3, <2>4 DEF ProxyWill
<1>3. ASSUME cmd = "certs" PROVE CertsWill(Left)'
  <2>1. PICK h \in Hosts : NameWill(Left, h) /\ CopiesWill(Left, h)
    BY <1>3 DEF ProxyPromised, CertsWill
  <2>2. Lacks(Left', Kind({"ensure"}))
    BY <1>3, LacksStep DEF ProxyPromised, CertsWill
  <2> QED
    BY <2>1, <2>2, NameStep DEF CertsWill
<1> QED
  BY <1>1, <1>2, <1>3 DEF ProxyPromised

-----------------------------------------------------------------------------
(***************************************************************************)
(* What a command sets out to do.                                          *)
(***************************************************************************)

LEMMA OnlyLacks ==
  ASSUME NEW labels, NEW q \in Seq(Kind(labels)), NEW spoils, Kind(labels) \cap spoils = {}
  PROVE  Lacks(q, spoils)
<1>1. \A j \in 1..Len(q) : q[j] \in Kind(labels)
  BY ElementOfSeq
<1> QED
  BY <1>1 DEF Lacks

LEMMA OnlySteps ==
  ASSUME NEW labels, NEW q \in Seq(Kind(labels)), NEW more, labels \subseteq more
  PROVE  q \in Seq(Steps) /\ q \in Seq(Kind(more))
<1>1. Kind(labels) \subseteq Steps /\ Kind(labels) \subseteq Kind(more)
  BY DEF Kind
<1> QED
  BY <1>1, SeqMonotonic

LEMMA OnlyJoined ==
  ASSUME NEW labels, NEW p \in Seq(Kind(labels)), NEW r \in Seq(Kind(labels))
  PROVE  p \o r \in Seq(Kind(labels))
BY ConcatProperties

\* The kinds of steps that can change each thing.
LEMMA Kinds ==
  /\ OnConf = Kind({"conf", "write conf", "wipe"})
  /\ \A n : OnEnv(n) \subseteq Kind({"env", "wipe"})
  /\ OnUp = Kind({"up", "env", "wipe"})
  /\ OnIssued = Kind({"conf", "write conf", "wipe", "issue", "standalone", "no certificates"})
  /\ OnSite = Kind({"conf", "write conf", "wipe", "site", "no site", "issue"})
  /\ OnLoaded = Kind({"conf", "write conf", "wipe", "load", "site", "no site", "issue"})
  /\ OnCert = Kind({"cert", "self-signed", "issue", "standalone", "wipe"})
  /\ OnKey = Kind({"key", "self-signed", "issue", "standalone", "wipe"})
  /\ OnHook = Kind({"hook", "no site"})
  /\ OnRole = Kind({"write conf", "wipe"})
  /\ OnVpn \subseteq Kind({"conf", "write conf", "wipe"})
<1>1. \A n : OnEnv(n) \subseteq Kind({"env", "wipe"})
  BY DEF OnEnv, Naming, Kind
<1>2. OnIssued = Kind({"conf", "write conf", "wipe", "issue", "standalone", "no certificates"})
  BY DEF OnIssued, OnConf, Kind
<1>3. OnSite = Kind({"conf", "write conf", "wipe", "site", "no site", "issue"})
  BY DEF OnSite, OnConf, Kind
<1>4. OnLoaded = Kind({"conf", "write conf", "wipe", "load", "site", "no site", "issue"})
  BY DEF OnLoaded, OnConf, Kind
<1>5. OnVpn \subseteq Kind({"conf", "write conf", "wipe"})
  BY DEF OnVpn, OnRole, Naming, Kind
<1> QED
  BY <1>1, <1>2, <1>3, <1>4, <1>5 DEF OnConf, OnUp, OnCert, OnKey, OnHook, OnRole

LEMMA OnlyOthers ==
  ASSUME NEW labels, NEW q \in Seq(Kind(labels))
  PROVE  /\ (\A l \in labels : l \notin {"conf", "write conf", "wipe"}) => Lacks(q, OnConf) /\ Lacks(q, OnVpn)
         /\ (\A l \in labels : l \notin {"env", "wipe"}) => \A n : Lacks(q, OnEnv(n))
         /\ (\A l \in labels : l \notin {"up", "env", "wipe"}) => Lacks(q, OnUp)
         /\ (\A l \in labels : l \notin {"conf", "write conf", "wipe", "issue", "standalone", "no certificates"})
              => Lacks(q, OnIssued)
         /\ (\A l \in labels : l \notin {"conf", "write conf", "wipe", "site", "no site", "issue"})
              => Lacks(q, OnSite)
         /\ (\A l \in labels : l \notin {"conf", "write conf", "wipe", "load", "site", "no site", "issue"})
              => Lacks(q, OnLoaded)
         /\ (\A l \in labels : l \notin {"cert", "self-signed", "issue", "standalone", "wipe"})
              => Lacks(q, OnCert)
         /\ (\A l \in labels : l \notin {"key", "self-signed", "issue", "standalone", "wipe"})
              => Lacks(q, OnKey)
         /\ (\A l \in labels : l \notin {"hook", "no site"}) => Lacks(q, OnHook)
         /\ (\A l \in labels : l \notin {"write conf", "wipe"}) => Lacks(q, OnRole)
         /\ (\A l \in labels : l \notin {"ensure"}) => Lacks(q, Kind({"ensure"}))
         /\ (\A l \in labels : l \notin {"issue", "standalone"}) => Lacks(q, Kind({"issue", "standalone"}))
<1>1. \A others, spoils : (\A l \in labels : l \notin others) /\ spoils \subseteq Kind(others) => Lacks(q, spoils)
  <2> SUFFICES ASSUME NEW others, NEW spoils, (\A l \in labels : l \notin others), spoils \subseteq Kind(others)
               PROVE  Lacks(q, spoils)
    OBVIOUS
  <2>1. Kind(labels) \cap spoils = {}
    BY DEF Kind
  <2> QED
    BY <2>1, OnlyLacks
<1>2. \A others : (\A l \in labels : l \notin others) => Lacks(q, Kind(others))
  BY <1>1
<1>3. (\A l \in labels : l \notin {"conf", "write conf", "wipe"}) => Lacks(q, OnConf) /\ Lacks(q, OnVpn)
  BY <1>1, <1>2, Kinds
<1>4. (\A l \in labels : l \notin {"env", "wipe"}) => \A n : Lacks(q, OnEnv(n))
  BY <1>1, Kinds
<1> QED
  BY <1>2, <1>3, <1>4, Kinds

CopyLabels == {"cert", "key", "hook"}
FileLabels == {"standalone", "cert", "key", "hook"}
NameLabels == {"conf", "env"}
EnsuredLabels == {"self-signed", "conf", "env", "standalone", "cert", "key", "hook"}

LEMMA CopiesLack ==
  ASSUME NEW q \in Seq(Kind(CopyLabels))
  PROVE  Lacks(q, Kind({"issue", "standalone"})) /\ q \in Seq(Kind(FileLabels)) /\ q \in Seq(Steps)
<1>1. CopyLabels \subseteq FileLabels /\ \A l \in CopyLabels : l \notin {"issue", "standalone"}
  BY DEF CopyLabels, FileLabels
<1> QED
  BY <1>1, OnlyOthers, OnlySteps

LEMMA FilesLack ==
  ASSUME NEW q \in Seq(Kind(FileLabels))
  PROVE  /\ Lacks(q, OnConf) /\ Lacks(q, OnVpn) /\ Lacks(q, OnRole) /\ Lacks(q, OnUp)
         /\ Lacks(q, Kind({"ensure"})) /\ \A n : Lacks(q, OnEnv(n))
         /\ q \in Seq(Kind(EnsuredLabels)) /\ q \in Seq(Steps)
<1>1. /\ FileLabels \subseteq EnsuredLabels
      /\ \A l \in FileLabels :
           l \notin {"conf", "write conf", "wipe", "up", "env", "ensure"}
  BY DEF FileLabels, EnsuredLabels
<1> QED
  BY <1>1, OnlyOthers, OnlySteps

LEMMA NamesLack ==
  ASSUME NEW q \in Seq(Kind(NameLabels))
  PROVE  /\ Lacks(q, Kind({"issue", "standalone"})) /\ Lacks(q, Kind({"ensure"}))
         /\ Lacks(q, OnRole) /\ q \in Seq(Kind(EnsuredLabels)) /\ q \in Seq(Steps)
<1>1. /\ NameLabels \subseteq EnsuredLabels
      /\ \A l \in NameLabels : l \notin {"issue", "standalone", "ensure", "write conf", "wipe"}
  BY DEF NameLabels, EnsuredLabels
<1> QED
  BY <1>1, OnlyOthers, OnlySteps

LEMMA EnsuredLack ==
  ASSUME NEW q \in Seq(Kind(EnsuredLabels))
  PROVE  Lacks(q, OnRole) /\ Lacks(q, Kind({"ensure"})) /\ q \in Seq(Steps)
<1>1. \A l \in EnsuredLabels : l \notin {"write conf", "wipe", "ensure"}
  BY DEF EnsuredLabels
<1> QED
  BY <1>1, OnlyOthers, OnlySteps

LEMMA WillJoinedNow ==
  ASSUME NEW p \in Seq(Steps), NEW r \in Seq(Steps), NEW hits, NEW spoils, NEW now,
         Will(r, hits, spoils, now), Lacks(p, spoils)
  PROVE  Will(p \o r, hits, spoils, now)
<1>1. CASE Will(r, hits, spoils, FALSE)
  BY <1>1, WillJoined
<1>2. CASE now /\ Lacks(r, spoils)
  BY <1>2, LacksJoined DEF Will
<1> QED
  BY <1>1, <1>2 DEF Will

LEMMA WillLater ==
  ASSUME NEW q, NEW hits, NEW spoils, NEW now, Will(q, hits, spoils, FALSE)
  PROVE  Will(q, hits, spoils, now)
BY DEF Will

LEMMA CopiedSteps ==
  ASSUME NEW h \in AllHosts
  PROVE  /\ Copied(h) \in Seq(Kind(CopyLabels))
         /\ Will(Copied(h), {Of("cert", h)}, OnCert, FALSE)
         /\ Will(Copied(h), {Of("key", h)}, OnKey, FALSE)
         /\ Will(Copied(h), {Of("hook", h)}, OnHook, FALSE)
<1>1. Of("cert", h) \in Steps /\ Of("key", h) \in Steps /\ Of("hook", h) \in Steps
  BY DEF Of, Steps
<1>2. Of("cert", h).do = "cert" /\ Of("key", h).do = "key" /\ Of("hook", h).do = "hook"
  BY DEF Of
<1>3. Copied(h) \in Seq(Kind(CopyLabels))
  BY <1>1, <1>2 DEF Copied, Kind, CopyLabels
<1>4. Will(Copied(h), {Of("cert", h)}, OnCert, FALSE)
  BY <1>2 DEF Copied, Will, OnCert, Kind
<1>5. Will(Copied(h), {Of("key", h)}, OnKey, FALSE)
  BY <1>2 DEF Copied, Will, OnKey, Kind
<1>6. Will(Copied(h), {Of("hook", h)}, OnHook, FALSE)
  <2>1. Len(Copied(h)) = 3 /\ Copied(h)[3] = Of("hook", h)
    BY DEF Copied
  <2> QED
    BY <2>1 DEF Will
<1> QED
  BY <1>3, <1>4, <1>5, <1>6

LEMMA IssuedSteps ==
  ASSUME NEW h \in AllHosts
  PROVE  /\ Issued(h) \in Seq(Kind(FileLabels))
         /\ Will(Issued(h), {Of("cert", h)}, OnCert, FALSE)
         /\ Will(Issued(h), {Of("key", h)}, OnKey, FALSE)
         /\ Will(Issued(h), {Of("hook", h)}, OnHook, FALSE)
<1> DEFINE p == <<Of("standalone", h)>>
<1>1. p \in Seq(Kind(FileLabels))
  BY DEF Of, Steps, Kind, FileLabels
<1>2. Copied(h) \in Seq(Kind(FileLabels))
  BY CopiedSteps, CopiesLack
<1>3. p \in Seq(Steps) /\ Copied(h) \in Seq(Steps)
  BY <1>1, <1>2, FilesLack
<1>4. Issued(h) = p \o Copied(h)
  BY DEF Issued
<1> HIDE DEF p
<1>5. Issued(h) \in Seq(Kind(FileLabels))
  BY <1>1, <1>2, <1>4, OnlyJoined
<1> QED
  BY <1>3, <1>4, <1>5, CopiedSteps, WillJoined
\* The name of a proxy's clients, in INSTALL_CONF and in .env.
NamedSteps(h) == <<Set("conf", "vpn", h), Set("env", "vpn", h)>>

LEMMA NamedWill ==
  ASSUME NEW h \in Hosts
  PROVE  /\ NamedSteps(h) \in Seq(Kind(NameLabels))
         /\ Will(NamedSteps(h), {Set("conf", "vpn", h)}, OnVpn, FALSE)
         /\ Will(NamedSteps(h), {Set("env", "vpn", h)}, OnEnv("vpn"), FALSE)
<1> DEFINE a == Set("conf", "vpn", h)
           b == Set("env", "vpn", h)
           q == <<a, b>>
<1>1. a \in Steps /\ a.do = "conf" /\ b \in Steps /\ b.do = "env"
  BY DEF Set, Steps, AllHosts
<1>2. NamedSteps(h) = q
  BY DEF NamedSteps
<1>3. b \notin OnVpn
  BY <1>1 DEF OnVpn, OnRole, Naming, Kind
<1> HIDE DEF a, b
<1>4. q \in Seq(Kind(NameLabels))
  BY <1>1 DEF Kind, NameLabels
<1>5. Len(q) = 2 /\ q[1] = a /\ q[2] = b
  OBVIOUS
<1>6. Will(q, {a}, OnVpn, FALSE) /\ Will(q, {b}, OnEnv("vpn"), FALSE)
  BY <1>3, <1>5 DEF Will
<1> QED
  BY <1>2, <1>4, <1>6 DEF a, b

\* What ensuring the files of a name sets out to do.
LEMMA FilesWill ==
  ASSUME NEW h \in Hosts, NEW x \in Seq(Kind(FileLabels)),
         Will(x, {Of("hook", h)}, OnHook, FALSE)
  PROVE  /\ NamedSteps(h) \o x \in Seq(Kind(EnsuredLabels))
         /\ NameWill(NamedSteps(h) \o x, h)
         /\ Will(x, {Of("cert", h)}, OnCert, FALSE) /\ Will(x, {Of("key", h)}, OnKey, FALSE)
              => CopiesWill(NamedSteps(h) \o x, h)
<1> DEFINE n == NamedSteps(h)
<1>1. n \in Seq(Kind(NameLabels)) /\ n \in Seq(Kind(EnsuredLabels)) /\ n \in Seq(Steps)
  BY NamedWill, NamesLack
<1>2. x \in Seq(Kind(EnsuredLabels)) /\ x \in Seq(Steps)
  BY FilesLack
<1>3. Lacks(x, OnVpn) /\ Lacks(x, OnEnv("vpn"))
  BY FilesLack
<1>4. Will(n, {Set("conf", "vpn", h)}, OnVpn, FALSE)
      /\ Will(n, {Set("env", "vpn", h)}, OnEnv("vpn"), FALSE)
  BY NamedWill
<1> HIDE DEF n
<1>5. n \o x \in Seq(Kind(EnsuredLabels))
  BY <1>1, <1>2, OnlyJoined
<1>6. VpnWill(n \o x, h) /\ EnvWill(n \o x, "vpn", h)
  BY <1>1, <1>2, <1>3, <1>4, WillJoined, WillLater DEF VpnWill, EnvWill
<1>7. HookWill(n \o x, h)
  BY <1>1, <1>2, WillJoined DEF HookWill
<1>8. ASSUME Will(x, {Of("cert", h)}, OnCert, FALSE), Will(x, {Of("key", h)}, OnKey, FALSE)
      PROVE  CopiesWill(n \o x, h)
  BY <1>1, <1>2, <1>8, WillJoined DEF CopiesWill, CertWill, KeyWill
<1> QED
  BY <1>5, <1>6, <1>7, <1>8 DEF NameWill, n

LEMMA EnsuredWill ==
  ASSUME SitesTypeOK
  PROVE  /\ VpnHost \in AllHosts
         /\ Ensured \in Seq(Kind(EnsuredLabels))
         /\ VpnHost \notin Hosts => conf.vpn \notin Hosts /\ Lacks(Ensured, OnConf)
         /\ VpnHost \in Hosts =>
              /\ NameWill(Ensured, VpnHost)
              /\ \/ CopiesWill(Ensured, VpnHost)
                 \/ KeptForNow(Ensured, VpnHost)
<1> DEFINE h == VpnHost
<1>1. h \in AllHosts
  BY DEF VpnHost, SitesTypeOK, AllHosts
<1>2. ASSUME h \notin Hosts
      PROVE  Ensured \in Seq(Kind(EnsuredLabels)) /\ conf.vpn \notin Hosts /\ Lacks(Ensured, OnConf)
  <2>1. conf.vpn \notin Hosts
    BY <1>2 DEF VpnHost
  <2>2. Ensured = <<Do("self-signed")>>
    BY <1>2 DEF Ensured
  <2>3. Do("self-signed") \in Kind(EnsuredLabels) /\ Do("self-signed") \notin OnConf
    BY DEF Do, Kind, Steps, Labels, EnsuredLabels, OnConf
  <2>4. Ensured \in Seq(Kind(EnsuredLabels)) /\ Lacks(Ensured, OnConf)
    BY <2>2, <2>3 DEF Lacks
  <2> QED
    BY <2>1, <2>4
<1>3. ASSUME h \in Hosts
      PROVE  /\ Ensured \in Seq(Kind(EnsuredLabels)) /\ NameWill(Ensured, h)
             /\ \/ CopiesWill(Ensured, h)
                \/ KeptForNow(Ensured, h)
  <2> HIDE DEF h
  <2>1. CASE ~HasFiles \/ issued[h] # {}
    <3> DEFINE x == IF ~HasFiles THEN Issued(h) ELSE Copied(h)
    <3>1. Ensured = NamedSteps(h) \o x
      BY <1>3, <2>1 DEF Ensured, NamedSteps, h
    <3>2. /\ x \in Seq(Kind(FileLabels))
          /\ Will(x, {Of("hook", h)}, OnHook, FALSE)
          /\ Will(x, {Of("cert", h)}, OnCert, FALSE) /\ Will(x, {Of("key", h)}, OnKey, FALSE)
      <4>1. Copied(h) \in Seq(Kind(FileLabels))
        BY <1>1, CopiedSteps, CopiesLack
      <4> QED
        BY <1>1, <4>1, CopiedSteps, IssuedSteps
    <3> HIDE DEF x
    <3>3. Ensured \in Seq(Kind(EnsuredLabels))
          /\ NameWill(Ensured, h) /\ CopiesWill(Ensured, h)
      BY <1>3, <3>1, <3>2, FilesWill
    <3> QED
      BY <3>3
  <2>2. CASE HasFiles /\ issued[h] = {}
    <3> DEFINE x == <<Of("hook", h)>>
    <3>1. Ensured = NamedSteps(h) \o x
      BY <1>3, <2>2 DEF Ensured, NamedSteps, h
    <3>2. Of("hook", h) \in Kind(CopyLabels)
      BY <1>1 DEF Of, Kind, Steps, CopyLabels
    <3>3. Will(x, {Of("hook", h)}, OnHook, FALSE)
      BY DEF Will
    <3>4. x \in Seq(Kind(CopyLabels))
      BY <3>2
    <3> HIDE DEF x
    <3>5. x \in Seq(Kind(FileLabels))
      BY <3>4, CopiesLack
    <3>6. Ensured \in Seq(Kind(EnsuredLabels))
          /\ NameWill(Ensured, h)
      BY <1>3, <3>1, <3>3, <3>5, FilesWill
    <3>7. Lacks(x, Kind({"issue", "standalone"})) /\ x \in Seq(Steps)
      BY <3>4, CopiesLack
    <3>8. Lacks(NamedSteps(h), Kind({"issue", "standalone"})) /\ NamedSteps(h) \in Seq(Steps)
      BY <1>3, NamedWill, NamesLack
    <3> QED
      BY <2>2, <3>1, <3>6, <3>7, <3>8, LacksJoined DEF KeptForNow
  <2> QED
    BY <2>1, <2>2
<1> QED
  BY <1>1, <1>2, <1>3

LEMMA EnsureKeeps ==
  ASSUME SitesTypeOK, Promised, EnsureProxyTls
  PROVE  SitesTypeOK' /\ Promised'
<1> DEFINE r == Tail(Left)
           p == Ensured
           cmd == doing.cmd
<1>1. /\ Left \in Seq(Steps) /\ Left # <<>> /\ Head(Left).do = "ensure" /\ r \in Seq(Steps)
      /\ Head(Left) \in Steps
  BY TailSteps DEF SitesTypeOK, Left, EnsureProxyTls, Due
<1>2. p \in Seq(Kind(EnsuredLabels)) /\ p \in Seq(Steps)
  BY EnsuredWill, EnsuredLack
<1>3. /\ Left' = p \o r /\ doing' = [cmd |-> cmd, left |-> p \o r]
      /\ UNCHANGED <<installed, packages, conf, envFile, up, site, loaded, issued, cert, key, hook,
                     ended>>
  BY DEF EnsureProxyTls, SitesTypeOK, Left
<1>4. doing # Resting /\ cmd # "none"
  BY <1>1 DEF Resting, Left, SitesTypeOK
<1> HIDE DEF p, r, cmd
<1>5. p \o r \in Seq(Steps)
  BY <1>1, <1>2, Joined
<1>6. SitesTypeOK'
  BY <1>3, <1>4, <1>5 DEF SitesTypeOK, cmd
<1>7. ASSUME cmd \in {"install", "update", "apply", "certs"}
      PROVE  ProxyPromised(p \o r, cmd)
  <2>1. Head(Left) \in Kind({"ensure"}) /\ Head(Left) \notin OnRole /\ Head(Left) \notin Kind({"up", "complete"})
    BY <1>1 DEF Kind, OnRole
  <2>2. ~Lacks(Left, Kind({"ensure"}))
    BY <1>1, <2>1, LacksTail
  <2>3. ProxyPromised(Left, cmd)
    BY <1>7, <2>2 DEF Promised, PanelPromised, PanelOf, Left, cmd
  <2>4. RoleWill(p \o r)
    <3> DEFINE hits == {s \in Steps : s.do = "write conf" /\ s.conf.role = "proxy"}
               now == conf.role = "proxy"
    <3>1. Will(Left, hits, OnRole, now)
      BY <2>3 DEF ProxyPromised, RoleWill
    <3>2. Head(Left) \notin hits
      BY <1>1
    <3> HIDE DEF hits, now
    <3>3. Will(r, hits, OnRole, now)
      BY <1>1, <3>1, <3>2, WillStep DEF r
    <3>4. Lacks(p, OnRole)
      BY <1>2, EnsuredLack
    <3>5. Will(p \o r, hits, OnRole, now)
      BY <1>1, <1>2, <3>3, <3>4, WillJoinedNow
    <3> QED
      BY <3>5 DEF RoleWill, hits, now
  <2>5. cmd # "certs"
    BY <2>2, <2>3 DEF ProxyPromised, CertsWill
  <2>6. ASSUME cmd \in {"install", "update"} PROVE ProxyWill(p \o r)
    <3> DEFINE hits == {Do("ensure")}
               spoils == Steps \ Kind({"up", "complete"})
               next == Lacks(r, spoils)
    <3>1. Will(Left, hits, spoils, FALSE)
      BY <2>2, <2>3, <2>6 DEF ProxyPromised, ProxyWill
    <3> HIDE DEF hits, spoils
    <3>2. Will(r, hits, spoils, next)
      BY <1>1, <3>1, WillStep DEF r
    <3>3. CASE Will(r, hits, spoils, FALSE)
      <4>1. Will(p \o r, hits, spoils, FALSE)
        BY <1>1, <1>2, <3>3, WillJoined
      <4> QED
        BY <4>1 DEF ProxyWill, hits, spoils
    <3>4. CASE Lacks(r, spoils)
      <4>1. \A others \in SUBSET spoils : Lacks(r, others)
        BY <3>4 DEF Lacks
      <4>2. \A labels : labels \cap {"up", "complete"} = {} => Kind(labels) \subseteq spoils
        BY DEF Kind, spoils
      <4>3. /\ Lacks(r, OnConf) /\ Lacks(r, OnEnv("vpn")) /\ Lacks(r, OnCert) /\ Lacks(r, OnKey)
            /\ Lacks(r, OnHook) /\ Lacks(r, OnVpn) /\ Lacks(r, Kind({"ensure"}))
            /\ Lacks(r, Kind({"issue", "standalone"}))
        <5>1. OnEnv("vpn") \subseteq spoils /\ OnVpn \subseteq spoils
          BY <4>2, Kinds
        <5>2. OnConf \subseteq spoils /\ OnCert \subseteq spoils /\ OnKey \subseteq spoils
              /\ OnHook \subseteq spoils
          BY <4>2, Kinds
        <5>3. Kind({"ensure"}) \subseteq spoils /\ Kind({"issue", "standalone"}) \subseteq spoils
          BY <4>2
        <5> QED
          BY <4>1, <5>1, <5>2, <5>3
      <4>4. Lacks(p, Kind({"ensure"}))
        BY <1>2, EnsuredLack
      <4>5. Lacks(p \o r, Kind({"ensure"}))
        BY <1>1, <1>2, <4>3, <4>4, LacksJoined
      <4>6. CASE VpnHost \notin Hosts
        BY <1>1, <1>2, <4>3, <4>5, <4>6, EnsuredWill, LacksJoined DEF ProxyWill, p
      <4>7. CASE VpnHost \in Hosts
        <5> DEFINE h == VpnHost
        <5> HIDE DEF h
        <5>1. NameWill(p, h)
          BY <4>7, EnsuredWill DEF p, h
        <5>2. NameWill(p \o r, h)
          BY <1>1, <1>2, <4>3, <5>1, WillJoined DEF NameWill, VpnWill, EnvWill, HookWill
        <5>3. CopiesWill(p, h) => CopiesWill(p \o r, h)
          BY <1>1, <1>2, <4>3, WillJoined DEF CopiesWill, CertWill, KeyWill
        <5>4. CopiesWill(p, h) \/ KeptForNow(p, h)
          BY <4>7, EnsuredWill DEF p, h
        <5>5. CopiesWill(p \o r, h) \/ KeptForNow(p \o r, h)
          BY <1>1, <1>2, <4>3, <5>3, <5>4, LacksJoined DEF KeptForNow
        <5> QED
          BY <4>5, <4>7, <5>2, <5>5 DEF ProxyWill, h
      <4> QED
        BY <4>6, <4>7
    <3> QED
      BY <3>2, <3>3, <3>4 DEF Will
  <2> QED
    BY <2>4, <2>5, <2>6 DEF ProxyPromised
<1>8. ASSUME cmd' \in {"install", "update", "apply", "certs"}
      PROVE  ProxyPromised(Left, cmd)'
  <2>1. cmd' = cmd
    BY <1>3 DEF cmd
  <2>2. ProxyPromised(p \o r, cmd)
    BY <1>7, <1>8, <2>1
  <2> QED
    BY <1>3, <2>1, <2>2
      DEF ProxyPromised, RoleWill, ProxyWill, CertsWill, NameWill, VpnWill, EnvWill, HookWill,
          CopiesWill, CertWill, KeyWill, KeptForNow
<1> QED
  BY <1>6, <1>8 DEF Promised, Left, cmd

-----------------------------------------------------------------------------
CleanLabels == {"no site", "wipe", "partial"}
EnvLabels == {"env"}
NginxLabels == {"packages", "site", "load", "issue", "cert", "key", "hook"}
WrittenLabels == {"write conf", "up"}
EndLabels == {"up", "complete"}

LEMMA SyncLacks ==
  ASSUME NEW q \in Seq(Kind(EnvLabels))
  PROVE  Lacks(q, OnConf) /\ Lacks(q, OnRole) /\ Lacks(q, Kind({"ensure"})) /\ q \in Seq(Steps)
<1>1. \A l \in EnvLabels : l \notin {"conf", "write conf", "wipe", "ensure"}
  BY DEF EnvLabels
<1> QED
  BY <1>1, OnlyOthers, OnlySteps

LEMMA NginxLacks ==
  ASSUME NEW q \in Seq(Kind(NginxLabels))
  PROVE  /\ Lacks(q, OnConf) /\ Lacks(q, OnRole) /\ Lacks(q, OnUp) /\ Lacks(q, Kind({"ensure"}))
         /\ \A n : Lacks(q, OnEnv(n))
         /\ q \in Seq(Steps)
<1>1. \A l \in NginxLabels : l \notin {"conf", "write conf", "wipe", "ensure", "up", "env"}
  BY DEF NginxLabels
<1> QED
  BY <1>1, OnlyOthers, OnlySteps

LEMMA CleanLacks ==
  ASSUME NEW q \in Seq(Kind(CleanLabels))
  PROVE  Lacks(q, Kind({"ensure"})) /\ q \in Seq(Steps)
<1>1. \A l \in CleanLabels : l \notin {"ensure"}
  BY DEF CleanLabels
<1> QED
  BY <1>1, OnlyOthers, OnlySteps

LEMMA WrittenLacks ==
  ASSUME NEW q \in Seq(Kind(WrittenLabels))
  PROVE  Lacks(q, Kind({"ensure"})) /\ (\A n : Lacks(q, OnEnv(n))) /\ q \in Seq(Steps)
<1>1. \A l \in WrittenLabels : l \notin {"ensure", "env", "wipe"}
  BY DEF WrittenLabels
<1> QED
  BY <1>1, OnlyOthers, OnlySteps

LEMMA EndLacks ==
  ASSUME NEW q \in Seq(Kind(EndLabels))
  PROVE  /\ Lacks(q, OnConf) /\ Lacks(q, OnRole) /\ Lacks(q, Kind({"ensure"}))
         /\ \A n : Lacks(q, OnEnv(n))
         /\ Lacks(q, OnIssued) /\ Lacks(q, OnSite) /\ Lacks(q, OnLoaded)
         /\ Lacks(q, OnCert) /\ Lacks(q, OnKey) /\ Lacks(q, OnHook)
         /\ q \in Seq(Steps)
<1>1. \A l \in EndLabels :
        l \notin {"conf", "write conf", "wipe", "ensure", "env", "issue", "standalone",
                  "no certificates", "site", "no site", "load", "cert", "self-signed", "key",
                  "hook"}
  BY DEF EndLabels
<1> QED
  BY <1>1, OnlyOthers, OnlySteps

LEMMA EndSteps ==
  /\ <<Do("up")>> \in Seq(Kind(EndLabels)) /\ <<Do("complete")>> \in Seq(Kind(EndLabels))
  /\ Will(<<Do("up")>>, {Do("up")}, OnUp, FALSE) /\ Lacks(<<Do("complete")>>, OnUp)
<1>1. Do("up") \in Kind(EndLabels) /\ Do("complete") \in Kind(EndLabels)
  BY DEF Do, Kind, Steps, Labels, EndLabels
<1>2. Do("complete") \notin OnUp
  BY DEF Do, OnUp, Kind
<1> QED
  BY <1>1, <1>2 DEF Will, Lacks

LEMMA SyncSteps ==
  ASSUME NEW c \in Confs
  PROVE  /\ Sync(c) \in Seq(Kind(EnvLabels))
         /\ HasNames(c) =>
              /\ Will(Sync(c), {Set("env", "panel", c.panel)}, OnEnv("panel"), FALSE)
              /\ Will(Sync(c), {Set("env", "vpn", c.vpn)}, OnEnv("vpn"), FALSE)
<1> DEFINE to == IF c.mode = "domain" THEN c ELSE Ip
           a == Set("env", "panel", to.panel)
           b == Set("env", "vpn", to.vpn)
           q == <<a, b>>
<1>1. to.panel \in AllHosts /\ to.vpn \in AllHosts
  BY DEF Confs, Ip, AllHosts
<1>2. HasNames(c) => to.panel = c.panel /\ to.vpn = c.vpn
  BY DEF HasNames
<1> HIDE DEF to
<1>3. a \in Kind(EnvLabels) /\ b \in Kind(EnvLabels)
  BY <1>1 DEF Set, Kind, EnvLabels, Steps
<1>4. Sync(c) = q
  BY DEF Sync, SetPair, to
<1>5. b \notin OnEnv("panel")
  BY DEF OnEnv, Naming, Kind, Set
<1> HIDE DEF a, b
<1>6. q \in Seq(Kind(EnvLabels)) /\ Len(q) = 2 /\ q[1] = a /\ q[2] = b
  BY <1>3
<1>7. Will(q, {a}, OnEnv("panel"), FALSE) /\ Will(q, {b}, OnEnv("vpn"), FALSE)
  BY <1>5, <1>6 DEF Will
<1> QED
  BY <1>2, <1>4, <1>6, <1>7 DEF a, b

\* What nginx and the engines are to have of the names.
Serves(q, c) ==
  /\ Will(q, {Do("issue")}, OnIssued, FALSE) /\ Will(q, {WithTls}, OnSite, FALSE)
  /\ Will(q, {Do("load")}, OnLoaded, FALSE) /\ Will(q, {Of("cert", c.panel)}, OnCert, FALSE)
  /\ Will(q, {Of("key", c.panel)}, OnKey, FALSE) /\ Will(q, {Of("hook", c.panel)}, OnHook, FALSE)

LEMMA CopiesFollow ==
  ASSUME NEW c \in Confs, NEW p \in Seq(Kind(NginxLabels)),
         Will(p, {Do("issue")}, OnIssued, FALSE), Will(p, {WithTls}, OnSite, FALSE),
         Will(p, {Do("load")}, OnLoaded, FALSE)
  PROVE  p \o Copied(c.panel) \in Seq(Kind(NginxLabels)) /\ Serves(p \o Copied(c.panel), c)
<1> DEFINE h == c.panel
           x == Copied(h)
<1>1. h \in AllHosts
  BY DEF Confs
<1>2. /\ x \in Seq(Kind(CopyLabels))
      /\ Will(x, {Of("cert", h)}, OnCert, FALSE)
      /\ Will(x, {Of("key", h)}, OnKey, FALSE)
      /\ Will(x, {Of("hook", h)}, OnHook, FALSE)
  BY <1>1, CopiedSteps
<1> HIDE DEF x, h
<1>3. /\ CopyLabels \subseteq NginxLabels
      /\ \A l \in CopyLabels : l \notin {"conf", "write conf", "wipe", "issue", "standalone",
                                         "no certificates", "site", "no site", "load"}
  BY DEF CopyLabels, NginxLabels
<1>4. x \in Seq(Kind(NginxLabels)) /\ x \in Seq(Steps)
  BY <1>2, <1>3, OnlySteps
<1>5. Lacks(x, OnIssued) /\ Lacks(x, OnSite) /\ Lacks(x, OnLoaded)
  BY <1>2, <1>3, OnlyOthers
<1>6. p \in Seq(Steps)
  BY NginxLacks
<1>7. p \o x \in Seq(Kind(NginxLabels))
  BY <1>4, OnlyJoined
<1> QED
  BY <1>2, <1>4, <1>5, <1>6, <1>7, WillJoined DEF Serves, x, h

LEMMA NginxSteps ==
  /\ Do("issue") \in Kind(NginxLabels) /\ Do("load") \in Kind(NginxLabels)
  /\ Do("packages") \in Kind(NginxLabels)
  /\ \A b \in BOOLEAN : [do |-> "site", tls |-> b] \in Kind(NginxLabels)
  /\ Do("load") \notin OnIssued /\ Do("load") \notin OnSite
  /\ WithTls \notin OnIssued
BY DEF Do, Kind, Steps, Labels, NginxLabels, OnIssued, OnSite, OnConf, WithTls

LEMMA RefreshedSteps ==
  ASSUME NEW c \in Confs
  PROVE  /\ Refreshed(c) \in Seq(Kind(NginxLabels))
         /\ NamesKnown => Serves(Refreshed(c), c)
<1> DEFINE i == Do("issue")
           s == WithTls
           l == Do("load")
           q == <<i, s, l>>
<1>1. Refreshed(c) = IF NamesKnown THEN q \o Copied(c.panel) ELSE <<>>
  BY DEF Refreshed, WithTls
<1>2. i \in Kind(NginxLabels) /\ s \in Kind(NginxLabels) /\ l \in Kind(NginxLabels)
  BY NginxSteps DEF WithTls
<1>3. l \notin OnIssued /\ l \notin OnSite /\ s \notin OnIssued
  BY NginxSteps
<1> HIDE DEF i, s, l
<1>4. q \in Seq(Kind(NginxLabels)) /\ Len(q) = 3 /\ q[1] = i /\ q[2] = s /\ q[3] = l
  BY <1>2
<1> HIDE DEF q
<1>5. Will(q, {i}, OnIssued, FALSE) /\ Will(q, {s}, OnSite, FALSE) /\ Will(q, {l}, OnLoaded, FALSE)
  BY <1>3, <1>4 DEF Will
<1>6. q \o Copied(c.panel) \in Seq(Kind(NginxLabels)) /\ Serves(q \o Copied(c.panel), c)
  BY <1>4, <1>5, CopiesFollow DEF i, s, l
<1> QED
  BY <1>1, <1>6

LEMMA InstallNginxSteps ==
  ASSUME NEW c \in Confs
  PROVE  InstallNginx(c) \in Seq(Kind(NginxLabels)) /\ Serves(InstallNginx(c), c)
<1> DEFINE a == Do("packages")
           b == [do |-> "site", tls |-> FALSE]
           i == Do("issue")
           s == WithTls
           l == Do("load")
           q == <<a, b, l, i, s, l>>
<1>1. InstallNginx(c) = q \o Copied(c.panel)
  BY DEF InstallNginx, WithTls
<1>2. /\ i \in Kind(NginxLabels) /\ s \in Kind(NginxLabels) /\ l \in Kind(NginxLabels)
      /\ a \in Kind(NginxLabels) /\ b \in Kind(NginxLabels)
  BY NginxSteps DEF WithTls
<1>3. l \notin OnIssued /\ l \notin OnSite /\ s \notin OnIssued
  BY NginxSteps
<1> HIDE DEF a, b, i, s, l
<1>4. q \in Seq(Kind(NginxLabels)) /\ Len(q) = 6 /\ q[4] = i /\ q[5] = s /\ q[6] = l
  BY <1>2
<1> HIDE DEF q
<1>5. Will(q, {i}, OnIssued, FALSE) /\ Will(q, {s}, OnSite, FALSE) /\ Will(q, {l}, OnLoaded, FALSE)
  BY <1>3, <1>4 DEF Will
<1>6. q \o Copied(c.panel) \in Seq(Kind(NginxLabels)) /\ Serves(q \o Copied(c.panel), c)
  BY <1>4, <1>5, CopiesFollow DEF i, s, l
<1> QED
  BY <1>1, <1>6

LEMMA CleanedSteps == Cleaned \in Seq(Kind(CleanLabels)) /\ <<Do("partial")>> \in Seq(Kind(CleanLabels))
<1> DEFINE a == Do("no site")
           b == Do("wipe")
           p == Do("partial")
<1>1. a \in Kind(CleanLabels) /\ b \in Kind(CleanLabels) /\ p \in Kind(CleanLabels)
  BY DEF Do, Kind, Steps, Labels, CleanLabels
<1>2. Cleaned \in {<<a, b>>, <<>>}
  BY DEF Cleaned
<1> HIDE DEF a, b, p
<1>3. <<a, b>> \in Seq(Kind(CleanLabels)) /\ <<p>> \in Seq(Kind(CleanLabels))
  BY <1>1
<1>4. <<>> \in Seq(Kind(CleanLabels))
  OBVIOUS
<1> QED
  BY <1>2, <1>3, <1>4 DEF p

-----------------------------------------------------------------------------
(* Commands keep what SitesInv says.                                       *)

Beginning(cmd, q) ==
  /\ q \in Seq(Steps) /\ cmd # "none"
  /\ cmd \in {"install", "update", "apply", "certs"} =>
       PanelPromised(q, cmd) \/ ProxyPromised(q, cmd)

\* A promise is about the files, whatever the command.
LEMMA PromisesRead ==
  ASSUME NEW q, NEW cmd, UNCHANGED <<conf, envFile, up, site, loaded, issued, cert, key, hook>>
  PROVE  /\ PanelPromised(q, cmd) => PanelPromised(q, cmd)'
         /\ ProxyPromised(q, cmd) => ProxyPromised(q, cmd)'
<1>1. PanelPromised(q, cmd) => PanelPromised(q, cmd)'
  <2>1. ASSUME NEW c \in Confs, PanelOf(q, cmd, c) PROVE PanelOf(q, cmd, c)'
    <3>1. ConfWill(q, c)' /\ Lacks(q, Kind({"ensure"})) /\ c.role = "panel"
      BY <2>1 DEF PanelOf, ConfWill
    <3>2. PanelWill(q, c) => PanelWill(q, c)'
      BY DEF PanelWill, EnvWill, UpWill, IssueWill, SiteWill, LoadWill, CertWill, KeyWill,
                  HookWill
    <3> QED
      BY <2>1, <3>1, <3>2 DEF PanelOf
  <2> QED
    BY <2>1 DEF PanelPromised
<1>2. ProxyPromised(q, cmd) => ProxyPromised(q, cmd)'
  BY DEF ProxyPromised, RoleWill, ProxyWill, CertsWill, NameWill, VpnWill, EnvWill, HookWill,
              CopiesWill, CertWill, KeyWill, KeptForNow
<1> QED
  BY <1>1, <1>2

LEMMA BeginKeeps ==
  ASSUME SitesTypeOK, NEW cmd, NEW q, Begin(cmd, q), Beginning(cmd, q)
  PROVE  SitesTypeOK' /\ Promised' /\ ended' = "none"
<1>1. /\ doing' = [cmd |-> cmd, left |-> q] /\ ended' = "none"
      /\ UNCHANGED <<conf, envFile, up, site, loaded, issued, cert, key, hook>>
  BY DEF Begin
<1>2. SitesTypeOK'
  <2>1. doing' # Resting /\ doing'.cmd = cmd /\ doing'.left = q
    BY <1>1 DEF Beginning, Resting
  <2> QED
    BY <1>1, <2>1 DEF SitesTypeOK, Beginning
<1>3. (PanelPromised(q, cmd) => PanelPromised(q, cmd)')
      /\ (ProxyPromised(q, cmd) => ProxyPromised(q, cmd)')
  BY <1>1, PromisesRead
<1> DEFINE listed == {"install", "update", "apply", "certs"}
<1>4. doing'.cmd \in listed => PanelPromised(q, cmd)' \/ ProxyPromised(q, cmd)'
  BY <1>1, <1>3 DEF Beginning
<1>5. doing'.left = q /\ doing'.cmd = cmd
  BY <1>1
<1> QED
  BY <1>1, <1>2, <1>4, <1>5 DEF Promised

LEMMA ServesJoined ==
  ASSUME NEW c \in Confs, NEW p \in Seq(Steps), NEW r \in Seq(Steps)
  PROVE  /\ Serves(r, c) => Serves(p \o r, c)
         /\ Serves(p, c) /\ r \in Seq(Kind(EndLabels)) => Serves(p \o r, c)
<1>1. Serves(r, c) => Serves(p \o r, c)
  BY WillJoined DEF Serves
<1>2. ASSUME Serves(p, c), r \in Seq(Kind(EndLabels)) PROVE Serves(p \o r, c)
  <2>1. /\ Lacks(r, OnIssued) /\ Lacks(r, OnSite) /\ Lacks(r, OnLoaded)
        /\ Lacks(r, OnCert) /\ Lacks(r, OnKey) /\ Lacks(r, OnHook)
    BY <1>2, EndLacks
  <2> QED
    BY <1>2, <2>1, WillJoined DEF Serves
<1> QED
  BY <1>1, <1>2

\* A plan of a panel, from what its parts set out to do.
LEMMA PanelPlan ==
  ASSUME NEW q, NEW c \in Confs,
         Will(q, {Set("env", "panel", c.panel)}, OnEnv("panel"), FALSE),
         Will(q, {Set("env", "vpn", c.vpn)}, OnEnv("vpn"), FALSE),
         Will(q, {Do("up")}, OnUp, FALSE), Serves(q, c)
  PROVE  PanelWill(q, c)
BY WillLater DEF PanelWill, EnvWill, UpWill, IssueWill, SiteWill, LoadWill, CertWill, KeyWill,
                 HookWill, Serves

LEMMA RoleKept ==
  ASSUME NEW q, NEW cmd, Lacks(q, OnRole), conf.role = "proxy",
         cmd \notin {"install", "update", "certs"}
  PROVE  ProxyPromised(q, cmd)
BY DEF ProxyPromised, RoleWill, Will

LEMMA ConfKnown == ASSUME SitesTypeOK PROVE NamesKnown <=> HasNames(conf)
BY DEF NamesKnown, HasNames

LEMMA UpdatePlan ==
  ASSUME SitesTypeOK, Update
  PROVE  SitesTypeOK' /\ Promised' /\ ended' = "none"
<1> DEFINE e == Sync(conf)
           u == <<Do("up")>>
           n == Refreshed(conf)
<1>1. conf \in Confs
  BY DEF SitesTypeOK
<1>2. e \in Seq(Kind(EnvLabels)) /\ n \in Seq(Kind(NginxLabels)) /\ u \in Seq(Kind(EndLabels))
  BY <1>1, SyncSteps, RefreshedSteps, EndSteps
<1>3. e \in Seq(Steps) /\ n \in Seq(Steps) /\ u \in Seq(Steps)
  BY <1>2, SyncLacks, NginxLacks, EndLacks
<1>4. CASE conf.role = "panel"
  <2> DEFINE q == (e \o u) \o n
  <2>1. Begin("update", q)
    BY <1>4 DEF Update
  <2> HIDE DEF e, u, n
  <2>2. e \o u \in Seq(Steps)
    BY <1>3, Joined
  <2>3. q \in Seq(Steps)
    BY <1>3, <2>2, Joined
  <2>4. Lacks(q, OnConf) /\ Lacks(q, Kind({"ensure"}))
    BY <1>2, <1>3, <2>2, LacksJoined, SyncLacks, NginxLacks, EndLacks
  <2>5. ASSUME HasNames(conf) PROVE PanelWill(q, conf)
    <3>1. /\ Will(e, {Set("env", "panel", conf.panel)}, OnEnv("panel"), FALSE)
          /\ Will(e, {Set("env", "vpn", conf.vpn)}, OnEnv("vpn"), FALSE)
      BY <1>1, <2>5, SyncSteps DEF e
    <3>2. \A x : Lacks(u, OnEnv(x)) /\ Lacks(n, OnEnv(x))
      BY <1>2, EndLacks, NginxLacks
    <3>3. /\ Will(q, {Set("env", "panel", conf.panel)}, OnEnv("panel"), FALSE)
          /\ Will(q, {Set("env", "vpn", conf.vpn)}, OnEnv("vpn"), FALSE)
      BY <1>3, <2>2, <3>1, <3>2, WillJoined
    <3>4. Will(e \o u, {Do("up")}, OnUp, FALSE)
      BY <1>3, EndSteps, WillJoined DEF u
    <3>5. Will(q, {Do("up")}, OnUp, FALSE)
      BY <1>2, <1>3, <2>2, <3>4, NginxLacks, WillJoined
    <3>6. Serves(n, conf)
      BY <1>1, <2>5, ConfKnown, RefreshedSteps DEF n
    <3>7. Serves(q, conf)
      BY <1>1, <1>3, <2>2, <3>6, ServesJoined
    <3> HIDE DEF q
    <3> QED
      BY <1>1, <3>3, <3>5, <3>7, PanelPlan
  <2> HIDE DEF q
  <2>6. PanelPromised(q, "update")
    BY <1>1, <1>4, <2>4, <2>5 DEF PanelPromised, PanelOf, ConfWill, Will
  <2> QED
    BY <2>1, <2>3, <2>6, BeginKeeps DEF Beginning
<1>5. CASE conf.role = "proxy"
  <2> DEFINE r == <<Do("ensure"), Do("up")>>
             q == e \o r
  <2>1. Begin("update", q)
    BY <1>5 DEF Update
  <2>2. Do("ensure") \in Steps /\ Do("up") \in Kind({"up", "complete"}) /\ Do("ensure") \notin OnRole
        /\ Do("up") \notin OnRole
    BY DEF Do, Steps, Labels, Kind, OnRole
  <2> HIDE DEF e
  <2>3. r \in Seq(Steps)
    BY <2>2 DEF Kind
  <2>4. Will(r, {Do("ensure")}, Steps \ Kind({"up", "complete"}), FALSE)
    BY <2>2 DEF Will
  <2>5. Lacks(r, OnRole)
    BY <2>2 DEF Lacks
  <2> HIDE DEF r
  <2>6. q \in Seq(Steps) /\ Will(q, {Do("ensure")}, Steps \ Kind({"up", "complete"}), FALSE)
    BY <1>3, <2>3, <2>4, Joined, WillJoined
  <2>7. Lacks(q, OnRole)
    BY <1>2, <1>3, <2>3, <2>5, SyncLacks, LacksJoined
  <2> HIDE DEF q
  <2>8. ProxyPromised(q, "update")
    BY <1>5, <2>6, <2>7 DEF ProxyPromised, RoleWill, ProxyWill, Will
  <2> QED
    BY <2>1, <2>6, <2>8, BeginKeeps DEF Beginning
<1> QED
  BY <1>1, <1>4, <1>5 DEF Confs

LEMMA ApplyPlan ==
  ASSUME SitesTypeOK, ConfigApply
  PROVE  SitesTypeOK' /\ Promised' /\ ended' = "none"
<1> DEFINE e == Sync(conf)
           u == <<Do("up")>>
           n == Refreshed(conf)
           q == (e \o n) \o u
<1>1. conf \in Confs
  BY DEF SitesTypeOK
<1>2. e \in Seq(Kind(EnvLabels)) /\ n \in Seq(Kind(NginxLabels)) /\ u \in Seq(Kind(EndLabels))
  BY <1>1, SyncSteps, RefreshedSteps, EndSteps
<1>3. e \in Seq(Steps) /\ n \in Seq(Steps) /\ u \in Seq(Steps)
  BY <1>2, SyncLacks, NginxLacks, EndLacks
<1>4. Begin("apply", q)
  BY DEF ConfigApply
<1> HIDE DEF e, u, n
<1>5. e \o n \in Seq(Steps)
  BY <1>3, Joined
<1>6. q \in Seq(Steps)
  BY <1>3, <1>5, Joined
<1>7. Lacks(q, OnConf) /\ Lacks(q, Kind({"ensure"})) /\ Lacks(q, OnRole)
  BY <1>2, <1>3, <1>5, LacksJoined, SyncLacks, NginxLacks, EndLacks
<1>8. ASSUME HasNames(conf) PROVE PanelWill(q, conf)
  <2>1. /\ Will(e, {Set("env", "panel", conf.panel)}, OnEnv("panel"), FALSE)
        /\ Will(e, {Set("env", "vpn", conf.vpn)}, OnEnv("vpn"), FALSE)
    BY <1>1, <1>8, SyncSteps DEF e
  <2>2. \A x : Lacks(u, OnEnv(x)) /\ Lacks(n, OnEnv(x))
    BY <1>2, EndLacks, NginxLacks
  <2>3. /\ Will(q, {Set("env", "panel", conf.panel)}, OnEnv("panel"), FALSE)
        /\ Will(q, {Set("env", "vpn", conf.vpn)}, OnEnv("vpn"), FALSE)
    BY <1>3, <1>5, <2>1, <2>2, WillJoined
  <2>4. Will(q, {Do("up")}, OnUp, FALSE)
    BY <1>3, <1>5, EndSteps, WillJoined DEF u
  <2>5. Serves(n, conf)
    BY <1>1, <1>8, ConfKnown, RefreshedSteps DEF n
  <2>6. Serves(e \o n, conf)
    BY <1>1, <1>3, <2>5, ServesJoined
  <2>7. Serves(q, conf)
    BY <1>1, <1>2, <1>3, <1>5, <2>6, ServesJoined
  <2> HIDE DEF q
  <2> QED
    BY <1>1, <2>3, <2>4, <2>7, PanelPlan
<1> HIDE DEF q
<1>9. CASE conf.role = "panel"
  <2>1. PanelPromised(q, "apply")
    BY <1>1, <1>7, <1>8, <1>9 DEF PanelPromised, PanelOf, ConfWill, Will
  <2> QED
    BY <1>4, <1>6, <2>1, BeginKeeps DEF Beginning
<1>10. CASE conf.role = "proxy"
  <2>1. ProxyPromised(q, "apply")
    BY <1>7, <1>10, RoleKept
  <2> QED
    BY <1>4, <1>6, <2>1, BeginKeeps DEF Beginning
<1> QED
  BY <1>1, <1>9, <1>10 DEF Confs

LEMMA CertsPlan ==
  ASSUME SitesTypeOK, ConfigCerts
  PROVE  SitesTypeOK' /\ Promised' /\ ended' = "none"
<1>1. conf \in Confs
  BY DEF SitesTypeOK
<1>2. CASE conf.role = "panel"
  <2> DEFINE q == <<Do("issue")>>
  <2>1. Begin("certs", q)
    BY <1>2 DEF ConfigCerts
  <2>2. Do("issue") \in Steps /\ Do("issue") \notin OnConf /\ Do("issue") \notin Kind({"ensure"})
    BY DEF Do, Steps, Labels, OnConf, Kind
  <2>3. q \in Seq(Steps) /\ Lacks(q, OnConf) /\ Lacks(q, Kind({"ensure"}))
    BY <2>2 DEF Lacks
  <2> HIDE DEF q
  <2>4. PanelPromised(q, "certs")
    BY <1>1, <1>2, <2>3 DEF PanelPromised, PanelOf, ConfWill, Will
  <2> QED
    BY <2>1, <2>3, <2>4, BeginKeeps DEF Beginning
<1>3. CASE conf.role # "panel"
  <2> DEFINE h == VpnHost
             x == Issued(h)
             q == NamedSteps(h) \o x
  <2>1. h \in Hosts /\ Begin("certs", q) /\ conf.role = "proxy"
    BY <1>1, <1>3 DEF ConfigCerts, NamedSteps, Confs
  <2> HIDE DEF h
  <2>2. h \in AllHosts
    BY <2>1 DEF AllHosts
  <2>3. /\ x \in Seq(Kind(FileLabels)) /\ Will(x, {Of("cert", h)}, OnCert, FALSE)
        /\ Will(x, {Of("key", h)}, OnKey, FALSE) /\ Will(x, {Of("hook", h)}, OnHook, FALSE)
    BY <2>2, IssuedSteps
  <2> HIDE DEF x
  <2>4. q \in Seq(Kind(EnsuredLabels)) /\ NameWill(q, h) /\ CopiesWill(q, h)
    BY <2>1, <2>3, FilesWill
  <2> HIDE DEF q
  <2>5. q \in Seq(Steps) /\ Lacks(q, OnRole) /\ Lacks(q, Kind({"ensure"}))
    BY <2>4, EnsuredLack
  <2>6. ProxyPromised(q, "certs")
    BY <2>1, <2>4, <2>5 DEF ProxyPromised, RoleWill, CertsWill, Will
  <2> QED
    BY <2>1, <2>5, <2>6, BeginKeeps DEF Beginning
<1> QED
  BY <1>2, <1>3

-----------------------------------------------------------------------------
LEMMA WrittenSteps ==
  ASSUME NEW c \in Confs
  PROVE  LET w == [do |-> "write conf", conf |-> c]
         IN  /\ w \in Kind(WrittenLabels) /\ w \in WritesConf(c)
             /\ Do("up") \in Kind(WrittenLabels) /\ Do("up") \notin OnConf
             /\ w \notin OnEnv("vpn") /\ w \in Steps
BY DEF Do, Kind, Steps, Labels, WrittenLabels, WritesConf, OnConf, OnEnv, Naming

LEMMA SelfSignedSteps ==
  Do("self-signed") \in Steps /\ Do("self-signed") \notin Kind({"ensure"})
  /\ \A n : Do("self-signed") \notin OnEnv(n)
BY DEF Do, Kind, Steps, Labels, OnEnv, Naming

LEMMA InstallPlan ==
  ASSUME SitesTypeOK, NEW c \in Confs, Given(c), NEW nginx \in BOOLEAN, Install(c, nginx)
  PROVE  SitesTypeOK' /\ Promised' /\ ended' = "none"
<1> DEFINE cmd == IF nginx THEN "install" ELSE "install without nginx"
           m == <<Do("partial")>>
           e == Sync(c)
           s == IF c.mode = "ip" THEN <<Do("self-signed")>> ELSE <<>>
           w == <<[do |-> "write conf", conf |-> c], Do("up")>>
           n == IF nginx THEN InstallNginx(c) ELSE <<>>
           z == <<Do("complete")>>
           q1 == Cleaned \o m
           q2 == q1 \o e
           q3 == q2 \o s
           q4 == q3 \o w
           q5 == q4 \o n
           q == q5 \o z
<1>1. Begin(cmd, q) /\ c.role = "panel" /\ (nginx => c.mode = "domain")
  BY DEF Install
<1>2. Cleaned \in Seq(Kind(CleanLabels)) /\ m \in Seq(Kind(CleanLabels))
  BY CleanedSteps
<1>3. q1 \in Seq(Kind(CleanLabels))
  BY <1>2, OnlyJoined
<1>4. e \in Seq(Kind(EnvLabels)) /\ z \in Seq(Kind(EndLabels)) /\ Lacks(z, OnUp)
  BY SyncSteps, EndSteps
<1>5. n \in Seq(Kind(NginxLabels)) /\ (nginx => Serves(n, c))
  <2>1. <<>> \in Seq(Kind(NginxLabels))
    OBVIOUS
  <2> QED
    BY <2>1, InstallNginxSteps
<1>6. w \in Seq(Kind(WrittenLabels)) /\ Will(w, WritesConf(c), OnConf, FALSE)
      /\ Will(w, {Do("up")}, OnUp, FALSE)
  <2> DEFINE a == [do |-> "write conf", conf |-> c]
             b == Do("up")
             x == <<a, b>>
  <2>1. a \in Kind(WrittenLabels) /\ b \in Kind(WrittenLabels) /\ a \in WritesConf(c)
        /\ b \notin OnConf
    BY WrittenSteps
  <2>2. w = x
    OBVIOUS
  <2> HIDE DEF a, b
  <2>3. x \in Seq(Kind(WrittenLabels)) /\ Len(x) = 2 /\ x[1] = a /\ x[2] = b
    BY <2>1
  <2> HIDE DEF x
  <2>4. Will(x, WritesConf(c), OnConf, FALSE) /\ Will(x, {b}, OnUp, FALSE)
    BY <2>1, <2>3 DEF Will
  <2> QED
    BY <2>2, <2>3, <2>4 DEF b
<1>7. s \in Seq(Steps) /\ Lacks(s, Kind({"ensure"})) /\ \A x : Lacks(s, OnEnv(x))
  BY SelfSignedSteps DEF Lacks
<1> HIDE DEF m, e, s, w, n, z, q1
<1>8. /\ q1 \in Seq(Steps) /\ e \in Seq(Steps) /\ w \in Seq(Steps) /\ n \in Seq(Steps)
      /\ z \in Seq(Steps)
  BY <1>3, <1>4, <1>5, <1>6, CleanLacks, SyncLacks, WrittenLacks, NginxLacks, EndLacks
<1>9. q2 \in Seq(Steps) /\ (Lacks(q2, Kind({"ensure"})))
  BY <1>3, <1>4, <1>8, Joined, LacksJoined, CleanLacks, SyncLacks
<1> HIDE DEF q2
<1>10. q3 \in Seq(Steps) /\ Lacks(q3, Kind({"ensure"}))
  BY <1>7, <1>9, Joined, LacksJoined
<1> HIDE DEF q3
<1>11. /\ q4 \in Seq(Steps) /\ Lacks(q4, Kind({"ensure"}))
       /\ Will(q4, WritesConf(c), OnConf, FALSE) /\ Will(q4, {Do("up")}, OnUp, FALSE)
  BY <1>6, <1>8, <1>10, Joined, LacksJoined, WillJoined, WrittenLacks
<1> HIDE DEF q4
<1>12. /\ q5 \in Seq(Steps) /\ Lacks(q5, Kind({"ensure"}))
       /\ Will(q5, WritesConf(c), OnConf, FALSE) /\ Will(q5, {Do("up")}, OnUp, FALSE)
       /\ nginx => Serves(q5, c)
  <2>1. Lacks(n, Kind({"ensure"})) /\ Lacks(n, OnConf) /\ Lacks(n, OnUp)
    BY <1>5, NginxLacks
  <2> QED
    BY <1>5, <1>8, <1>11, <2>1, Joined, LacksJoined, WillJoined, ServesJoined
<1> HIDE DEF q5
<1>13. /\ q \in Seq(Steps) /\ Lacks(q, Kind({"ensure"}))
       /\ Will(q, WritesConf(c), OnConf, FALSE) /\ Will(q, {Do("up")}, OnUp, FALSE)
       /\ nginx => Serves(q, c)
  <2>1. Lacks(z, Kind({"ensure"})) /\ Lacks(z, OnConf)
    BY <1>4, EndLacks
  <2> QED
    BY <1>4, <1>8, <1>12, <2>1, Joined, LacksJoined, WillJoined, ServesJoined
<1>14. ASSUME nginx PROVE PanelPromised(q, "install")
  <2>1. HasNames(c)
    BY <1>1, <1>14 DEF HasNames, Given
  <2>2. /\ Will(e, {Set("env", "panel", c.panel)}, OnEnv("panel"), FALSE)
        /\ Will(e, {Set("env", "vpn", c.vpn)}, OnEnv("vpn"), FALSE)
    BY <2>1, SyncSteps DEF e
  <2>3. \A x : Lacks(w, OnEnv(x)) /\ Lacks(n, OnEnv(x)) /\ Lacks(z, OnEnv(x))
    BY <1>4, <1>5, <1>6, WrittenLacks, NginxLacks, EndLacks
  <2>4. /\ Will(q2, {Set("env", "panel", c.panel)}, OnEnv("panel"), FALSE)
        /\ Will(q2, {Set("env", "vpn", c.vpn)}, OnEnv("vpn"), FALSE)
    BY <1>8, <2>2, WillJoined DEF q2
  <2>5. /\ Will(q3, {Set("env", "panel", c.panel)}, OnEnv("panel"), FALSE)
        /\ Will(q3, {Set("env", "vpn", c.vpn)}, OnEnv("vpn"), FALSE)
    BY <1>7, <1>9, <2>4, WillJoined DEF q3
  <2>6. /\ Will(q4, {Set("env", "panel", c.panel)}, OnEnv("panel"), FALSE)
        /\ Will(q4, {Set("env", "vpn", c.vpn)}, OnEnv("vpn"), FALSE)
    BY <1>8, <1>10, <2>3, <2>5, WillJoined DEF q4
  <2>7. /\ Will(q5, {Set("env", "panel", c.panel)}, OnEnv("panel"), FALSE)
        /\ Will(q5, {Set("env", "vpn", c.vpn)}, OnEnv("vpn"), FALSE)
    BY <1>8, <1>11, <2>3, <2>6, WillJoined DEF q5
  <2>8. /\ Will(q, {Set("env", "panel", c.panel)}, OnEnv("panel"), FALSE)
        /\ Will(q, {Set("env", "vpn", c.vpn)}, OnEnv("vpn"), FALSE)
    BY <1>8, <1>12, <2>3, <2>7, WillJoined
  <2> HIDE DEF q
  <2>9. PanelWill(q, c)
    BY <1>13, <1>14, <2>8, PanelPlan
  <2> QED
    BY <1>1, <1>13, <2>9, WillLater DEF PanelPromised, PanelOf, ConfWill
<1> HIDE DEF q
<1>15. Beginning(cmd, q)
  BY <1>13, <1>14 DEF Beginning
<1> QED
  BY <1>1, <1>15, BeginKeeps

LEMMA InstallProxyPlan ==
  ASSUME SitesTypeOK, NEW c \in Confs, InstallProxy(c)
  PROVE  SitesTypeOK' /\ Promised' /\ ended' = "none"
<1> DEFINE hits == {x \in Steps : x.do = "write conf" /\ x.conf.role = "proxy"}
           m == <<Do("partial")>>
           e == Sync(c)
           w == <<Do("self-signed"), [do |-> "write conf", conf |-> c]>>
           v == IF c.vpn \in Hosts THEN <<Set("env", "vpn", c.vpn)>> ELSE <<>>
           z == <<Do("ensure"), Do("up"), Do("complete")>>
           q1 == Cleaned \o m
           q2 == q1 \o e
           q3 == q2 \o w
           q4 == q3 \o v
           q == q4 \o z
<1>1. Begin("install", q) /\ c.role = "proxy"
  BY DEF InstallProxy
<1>2. Cleaned \in Seq(Kind(CleanLabels)) /\ m \in Seq(Kind(CleanLabels))
  BY CleanedSteps
<1>3. q1 \in Seq(Kind(CleanLabels)) /\ e \in Seq(Kind(EnvLabels))
  BY <1>2, OnlyJoined, SyncSteps
<1>4. w \in Seq(Steps) /\ Will(w, hits, OnRole, FALSE)
  <2> DEFINE a == Do("self-signed")
             b == [do |-> "write conf", conf |-> c]
             x == <<a, b>>
  <2>1. a \in Steps /\ b \in Steps /\ b \in hits
    BY <1>1, SelfSignedSteps, WrittenSteps
  <2>2. w = x
    OBVIOUS
  <2> HIDE DEF a, b, hits
  <2>3. x \in Seq(Steps) /\ Len(x) = 2 /\ x[2] = b
    BY <2>1
  <2> HIDE DEF x
  <2>4. Will(x, hits, OnRole, FALSE)
    BY <2>1, <2>3 DEF Will
  <2> QED
    BY <2>2, <2>3, <2>4
<1>5. v \in Seq(Steps) /\ Lacks(v, OnRole)
  <2>1. c.vpn \in Hosts => Set("env", "vpn", c.vpn) \in Steps /\ Set("env", "vpn", c.vpn) \notin OnRole
    BY DEF Set, Steps, AllHosts, OnRole, Kind
  <2> QED
    BY <2>1 DEF Lacks
<1>6. z \in Seq(Steps) /\ Lacks(z, OnRole)
      /\ Will(z, {Do("ensure")}, Steps \ Kind({"up", "complete"}), FALSE)
  <2> DEFINE a == Do("ensure")
             b == Do("up")
             d == Do("complete")
             x == <<a, b, d>>
  <2>1. /\ a \in Steps /\ b \in Kind({"up", "complete"}) /\ d \in Kind({"up", "complete"})
        /\ a \notin OnRole /\ b \notin OnRole /\ d \notin OnRole
    BY DEF Do, Steps, Labels, Kind, OnRole
  <2>2. z = x
    OBVIOUS
  <2>3. b \in Steps /\ d \in Steps
    BY <2>1 DEF Kind
  <2> HIDE DEF a, b, d
  <2>4. x \in Seq(Steps) /\ Len(x) = 3 /\ x[1] = a /\ x[2] = b /\ x[3] = d
    BY <2>1, <2>3
  <2> HIDE DEF x
  <2>5. Will(x, {a}, Steps \ Kind({"up", "complete"}), FALSE)
    BY <2>1, <2>4 DEF Will
  <2>6. Lacks(x, OnRole)
    BY <2>1, <2>4 DEF Lacks
  <2> QED
    BY <2>2, <2>4, <2>5, <2>6 DEF a
<1> HIDE DEF m, e, w, v, z, q1, hits
<1>7. q1 \in Seq(Steps) /\ e \in Seq(Steps)
  BY <1>3, CleanLacks, SyncLacks
<1>8. q2 \in Seq(Steps)
  BY <1>7, Joined
<1> HIDE DEF q2
<1>9. q3 \in Seq(Steps) /\ Will(q3, hits, OnRole, FALSE)
  BY <1>4, <1>8, Joined, WillJoined
<1> HIDE DEF q3
<1>10. q4 \in Seq(Steps) /\ Will(q4, hits, OnRole, FALSE)
  BY <1>5, <1>9, Joined, WillJoined
<1> HIDE DEF q4
<1>11. /\ q \in Seq(Steps) /\ Will(q, hits, OnRole, FALSE)
       /\ Will(q, {Do("ensure")}, Steps \ Kind({"up", "complete"}), FALSE)
  BY <1>6, <1>10, Joined, WillJoined
<1> HIDE DEF q
<1>12. RoleWill(q)
  BY <1>11, WillLater DEF RoleWill, hits
<1>13. ProxyPromised(q, "install")
  BY <1>11, <1>12 DEF ProxyPromised, ProxyWill
<1> QED
  BY <1>1, <1>11, <1>13, BeginKeeps DEF Beginning

\* The other commands promise nothing.
LEMMA OtherPlans ==
  ASSUME SitesTypeOK,
         \/ ConfigSync \/ ConfigNginx
         \/ \E panel, vpn \in AllHosts : SetDomain([panel |-> panel, vpn |-> vpn])
         \/ \E purge \in BOOLEAN : Uninstall(purge)
  PROVE  SitesTypeOK' /\ Promised' /\ ended' = "none"
<1>1. CASE ConfigSync
  <2>1. Sync(conf) \in Seq(Steps)
    BY SyncSteps, SyncLacks DEF SitesTypeOK
  <2> QED
    BY <1>1, <2>1, BeginKeeps DEF ConfigSync, Beginning
<1>2. CASE ConfigNginx
  <2> DEFINE a == [do |-> "site", tls |-> TRUE]
             b == Do("load")
             q == <<a, b>>
  <2>1. Begin("nginx", q)
    BY <1>2 DEF ConfigNginx
  <2>2. a \in Steps /\ b \in Steps
    BY NginxSteps DEF Kind
  <2> HIDE DEF a, b
  <2>3. q \in Seq(Steps)
    BY <2>2
  <2> QED
    BY <2>1, <2>3, BeginKeeps DEF Beginning
<1>3. ASSUME NEW panel \in AllHosts, NEW vpn \in AllHosts, SetDomain([panel |-> panel, vpn |-> vpn])
      PROVE  SitesTypeOK' /\ Promised' /\ ended' = "none"
  <2> DEFINE hosts == [panel |-> panel, vpn |-> vpn]
             a == Set("conf", "mode", "domain")
             b == Set("conf", "panel", panel)
             d == Set("conf", "vpn", vpn)
             f == Set("env", "panel", panel)
             g == Set("env", "vpn", vpn)
  <2>1. a \in Steps /\ b \in Steps /\ d \in Steps /\ f \in Steps /\ g \in Steps
    BY DEF Set, Steps
  <2>2. SetPair("conf", hosts) = <<b, d>> /\ SetPair("env", hosts) = <<f, g>>
    BY DEF SetPair
  <2>3. \E q \in {<<d, g>>, (<<a>> \o <<b, d>>) \o <<f, g>>} : Begin("set-domain", q)
    BY <1>3, <2>2 DEF SetDomain
  <2> HIDE DEF a, b, d, f, g
  <2>4. <<a>> \in Seq(Steps) /\ <<b, d>> \in Seq(Steps) /\ <<f, g>> \in Seq(Steps)
        /\ <<d, g>> \in Seq(Steps)
    BY <2>1
  <2>5. (<<a>> \o <<b, d>>) \o <<f, g>> \in Seq(Steps)
    BY <2>4, Joined
  <2>6. PICK q \in Seq(Steps) : Begin("set-domain", q)
    BY <2>3, <2>4, <2>5
  <2> QED
    BY <2>6, BeginKeeps DEF Beginning
<1>4. ASSUME NEW purge \in BOOLEAN, Uninstall(purge)
      PROVE  SitesTypeOK' /\ Promised' /\ ended' = "none"
  <2> DEFINE x == Do("no site")
             y == Do("no certificates")
             z == Do("wipe")
             a == <<x>>
             b == IF purge THEN <<y>> ELSE <<>>
             d == <<z>>
             q == (a \o b) \o d
  <2>1. Begin("uninstall", q)
    BY <1>4 DEF Uninstall
  <2>2. x \in Steps /\ y \in Steps /\ z \in Steps
    BY DEF Do, Steps, Labels
  <2> HIDE DEF x, y, z
  <2>3. a \in Seq(Steps) /\ <<y>> \in Seq(Steps) /\ d \in Seq(Steps)
    BY <2>2
  <2>4. <<>> \in Seq(Steps)
    OBVIOUS
  <2>5. b \in Seq(Steps)
    BY <2>3, <2>4
  <2> HIDE DEF a, b, d
  <2>6. q \in Seq(Steps)
    BY <2>3, <2>5, Joined
  <2> QED
    BY <2>1, <2>6, BeginKeeps DEF Beginning
<1> QED
  BY <1>1, <1>2, <1>3, <1>4

LEMMA NothingServed ==
  ASSUME ended = "none"
  PROVE  AppliedIsServed /\ SiteKept
BY DEF AppliedIsServed, SiteKept

LEMMA BeginsKeep ==
  ASSUME SitesTypeOK,
         \/ \E c \in Confs : Given(c) /\ (InstallProxy(c) \/ \E nginx \in BOOLEAN : Install(c, nginx))
         \/ \E panel, vpn \in AllHosts : SetDomain([panel |-> panel, vpn |-> vpn])
         \/ Update \/ ConfigSync \/ ConfigNginx \/ ConfigCerts \/ ConfigApply
         \/ \E purge \in BOOLEAN : Uninstall(purge)
  PROVE  SitesTypeOK' /\ Promised' /\ ended' = "none"
<1>1. ASSUME NEW c \in Confs, Given(c), InstallProxy(c) \/ \E nginx \in BOOLEAN : Install(c, nginx)
      PROVE  SitesTypeOK' /\ Promised' /\ ended' = "none"
  BY <1>1, InstallPlan, InstallProxyPlan
<1> QED
  BY <1>1, UpdatePlan, CertsPlan, ApplyPlan, OtherPlans

LEMMA StepKeeps ==
  ASSUME SitesTypeOK, Promised, Step
  PROVE  SitesTypeOK' /\ Promised' /\ ended' = "none"
<1> DEFINE listed == {"install", "update", "apply", "certs"}
<1>1. doing # Resting /\ Done /\ doing'.cmd = doing.cmd
  BY Advance, Effects
<1>2. SitesTypeOK'
  BY StepKeepsTypes
<1>3. ended' = "none"
  BY <1>1 DEF SitesTypeOK, Done
<1>4. ASSUME doing.cmd \in listed, PanelPromised(Left, doing.cmd)
      PROVE  PanelPromised(Left, doing.cmd)'
  <2>1. PICK c \in Confs : PanelOf(Left, doing.cmd, c)
    BY <1>4 DEF PanelPromised
  <2>2. ASSUME NEW cmd, cmd = doing.cmd PROVE PanelOf(Left, cmd, c)'
    BY <2>1, <2>2, PanelStep
  <2>3. PanelOf(Left, doing.cmd, c)'
    BY <1>1, <2>2
  <2> QED
    BY <2>3 DEF PanelPromised
<1>5. ASSUME doing.cmd \in listed, ProxyPromised(Left, doing.cmd)
      PROVE  ProxyPromised(Left, doing.cmd)'
  <2>1. ASSUME NEW cmd, cmd = doing.cmd PROVE ProxyPromised(Left, cmd)'
    BY <1>5, <2>1, ProxyStep
  <2> QED
    BY <1>1, <2>1
<1> QED
  BY <1>1, <1>2, <1>3, <1>4, <1>5 DEF Promised, Left

LEMMA EnsureStepKeeps ==
  ASSUME SitesTypeOK, Promised, EnsureProxyTls
  PROVE  SitesTypeOK' /\ Promised' /\ ended' = "none"
<1>1. doing # Resting
  BY DEF EnsureProxyTls, Due, Resting
<1> QED
  BY <1>1, EnsureKeeps DEF EnsureProxyTls, SitesTypeOK

LEMMA EndKeeps ==
  ASSUME SitesInv, End
  PROVE  SitesInv'
<1> DEFINE cmd == doing.cmd
<1>1. /\ doing.left = <<>> /\ doing' = Resting /\ ended' = cmd
      /\ UNCHANGED <<conf, envFile, up, site, loaded, issued, cert, key, hook>>
  BY DEF End
<1>2. SitesTypeOK'
  <2>1. <<>> \in Seq(Steps)
    OBVIOUS
  <2> QED
    BY <1>1, <2>1 DEF SitesInv, SitesTypeOK, Resting
<1>3. Promised'
  BY <1>1 DEF Promised, Resting
<1>4. conf \in Confs
  BY DEF SitesInv, SitesTypeOK
<1>5. CASE cmd \notin {"install", "update", "apply", "certs"}
  BY <1>1, <1>2, <1>3, <1>5 DEF SitesInv, AppliedIsServed, SiteKept
<1>6. CASE cmd \in {"install", "update", "apply", "certs"} /\ PanelPromised(<<>>, cmd)
  <2>1. PICK c \in Confs : PanelOf(<<>>, cmd, c)
    BY <1>6 DEF PanelPromised
  <2>2. conf = c /\ conf.role = "panel"
    BY <2>1, Emptied DEF PanelOf, ConfWill
  <2>3. ASSUME cmd # "certs", NamesKnown
        PROVE  /\ site = Site(conf, TRUE) /\ loaded = Site(conf, TRUE)
               /\ Names(conf) \subseteq issued[conf.panel]
               /\ envFile = [panel |-> conf.panel, vpn |-> conf.vpn] /\ up = envFile
               /\ EnginesHave(conf.panel)
    <3>1. PanelWill(<<>>, conf)
      BY <2>1, <2>2, <2>3 DEF PanelOf, HasNames, NamesKnown
    <3>2. envFile.panel = conf.panel /\ envFile.vpn = conf.vpn /\ up = envFile
      BY <3>1, Emptied DEF PanelWill, EnvWill, UpWill
    <3>3. issued[conf.panel] = Names(conf) /\ site = Site(conf, TRUE) /\ loaded = Site(conf, TRUE)
      BY <3>1, Emptied DEF PanelWill, IssueWill, SiteWill, LoadWill
    <3>4. cert = Copy(conf.panel) /\ key = Copy(conf.panel) /\ hook = conf.panel
      BY <3>1, Emptied DEF PanelWill, CertWill, KeyWill, HookWill
    <3>5. envFile \in [panel: AllHosts, vpn: AllHosts]
      BY DEF SitesInv, SitesTypeOK
    <3>6. envFile = [panel |-> conf.panel, vpn |-> conf.vpn]
      BY <3>2, <3>5
    <3> QED
      BY <3>2, <3>3, <3>4, <3>6 DEF EnginesHave
  <2>4. AppliedIsServed' /\ SiteKept'
    BY <1>1, <2>2, <2>3 DEF AppliedIsServed, SiteKept, NamesKnown, EnginesHave, Site, Names
  <2> QED
    BY <1>2, <1>3, <2>4 DEF SitesInv
<1>7. CASE cmd \in {"install", "update", "apply", "certs"} /\ ProxyPromised(<<>>, cmd)
  <2>1. conf.role = "proxy"
    BY <1>7, Emptied DEF ProxyPromised, RoleWill
  <2>2. ASSUME NEW h \in Hosts, NameWill(<<>>, h), CopiesWill(<<>>, h)
        PROVE  envFile.vpn = conf.vpn /\ EnginesHave(conf.vpn)
    <3>1. conf.vpn = h /\ envFile.vpn = h /\ hook = h
      BY <2>2, Emptied DEF NameWill, VpnWill, EnvWill, HookWill
    <3>2. cert = Copy(h) /\ key = Copy(h)
      BY <2>2, Emptied DEF CopiesWill, CertWill, KeyWill
    <3> QED
      BY <3>1, <3>2 DEF EnginesHave
  <2>3. ASSUME cmd = "certs" PROVE envFile.vpn = conf.vpn /\ EnginesHave(conf.vpn)
    BY <1>7, <2>2, <2>3 DEF ProxyPromised, CertsWill
  <2>4. ASSUME cmd \in {"install", "update"}, conf.vpn \in Hosts, issued[conf.vpn] # {}
        PROVE  envFile.vpn = conf.vpn /\ EnginesHave(conf.vpn)
    <3>1. ~Will(<<>>, {Do("ensure")}, Steps \ Kind({"up", "complete"}), FALSE)
      BY Emptied
    <3>2. PICK h \in Hosts : NameWill(<<>>, h) /\ (CopiesWill(<<>>, h) \/ KeptForNow(<<>>, h))
      BY <1>7, <2>4, <3>1 DEF ProxyPromised, ProxyWill
    <3>3. conf.vpn = h
      BY <3>2, Emptied DEF NameWill, VpnWill
    <3>4. CopiesWill(<<>>, h)
      BY <2>4, <3>2, <3>3 DEF KeptForNow
    <3> QED
      BY <2>2, <3>2, <3>4
  <2>5. AppliedIsServed' /\ SiteKept'
    BY <1>1, <2>1, <2>3, <2>4 DEF AppliedIsServed, SiteKept, EnginesHave
  <2> QED
    BY <1>2, <1>3, <2>5 DEF SitesInv
<1> QED
  BY <1>1, <1>5, <1>6, <1>7 DEF SitesInv, Promised

LEMMA StopKeeps ==
  ASSUME SitesInv, Stop
  PROVE  SitesInv'
<1>1. ended = "none" /\ ended' = "none" /\ doing' = Resting
  BY DEF SitesInv, SitesTypeOK, Stop
<1>2. <<>> \in Seq(Steps)
  OBVIOUS
<1>3. SitesTypeOK' /\ Promised'
  BY <1>1, <1>2 DEF SitesInv, SitesTypeOK, Promised, Stop, Resting
<1>4. AppliedIsServed' /\ SiteKept'
  BY <1>1 DEF AppliedIsServed, SiteKept
<1> QED
  BY <1>3, <1>4 DEF SitesInv

LEMMA RenewKeeps ==
  ASSUME SitesInv, NEW h \in Hosts, Renew(h)
  PROVE  SitesInv'
<1>1. /\ issued[h] # {}
      /\ UNCHANGED <<conf, envFile, up, site, loaded, hook, doing, ended>>
      /\ SitesTypeOK /\ Promised /\ AppliedIsServed /\ SiteKept /\ doing = Resting
  BY DEF Renew, SitesInv
<1>2. issued' = issued
  BY <1>1 DEF Renew, Reissued, SitesTypeOK
<1>3. cert' \in CopyFiles /\ key' \in CopyFiles
  <2>1. CASE Certificate(hook) # {}
    <3>1. hook \in Hosts
      BY <2>1 DEF Certificate
    <3> QED
      BY <2>1, <3>1, CopyTypes DEF Renew, AllHosts
  <2>2. CASE Certificate(hook) = {}
    <3>1. Reissued(h, issued[h]) /\ issued[h] \in SUBSET AllHosts
      BY <1>1, <2>2 DEF Renew, SitesTypeOK
    <3> QED
      BY <1>1, <3>1, ReissuedTypes
  <2> QED
    BY <2>1, <2>2
<1>4. SitesTypeOK' /\ Promised'
  BY <1>1, <1>2, <1>3 DEF SitesTypeOK, Promised, Resting
\* The engines keep what the hook copies.
<1>5. ASSUME NEW n \in Hosts, EnginesHave(n) PROVE EnginesHave(n)'
  <2>1. CASE Certificate(hook) # {}
    BY <1>1, <1>5, <2>1 DEF Renew, EnginesHave
  <2>2. CASE Certificate(hook) = {}
    <3>1. n # h /\ cert = Copy(n) /\ key = Copy(n) /\ hook' = n
      BY <1>1, <1>5, <2>2 DEF EnginesHave, Certificate
    <3>2. /\ cert' = [cert EXCEPT !.current = @ /\ cert.of # h]
          /\ key' = [key EXCEPT !.current = @ /\ key.of # h]
      BY <2>2 DEF Renew, Reissued
    <3>3. cert' = Copy(n) /\ key' = Copy(n)
      BY <3>1, <3>2 DEF Copy
    <3> QED
      BY <3>1, <3>3 DEF EnginesHave
  <2> QED
    BY <2>1, <2>2
<1>6. AppliedIsServed'
  <2>1. ASSUME conf.role = "panel", ended \in {"install", "update", "apply"}, NamesKnown
        PROVE  /\ loaded' = Site(conf, TRUE) /\ Names(conf) \subseteq issued'[conf.panel]
               /\ envFile' = [panel |-> conf.panel, vpn |-> conf.vpn] /\ up' = envFile'
               /\ EnginesHave(conf.panel)'
    BY <1>1, <1>2, <1>5, <2>1 DEF AppliedIsServed, NamesKnown
  <2>2. ASSUME conf.role = "proxy", conf.vpn \in Hosts,
               ended = "certs" \/ (ended \in {"install", "update"} /\ issued[conf.vpn] # {})
        PROVE  envFile'.vpn = conf.vpn /\ EnginesHave(conf.vpn)'
    BY <1>1, <1>5, <2>2 DEF AppliedIsServed
  <2> QED
    BY <1>1, <1>2, <2>1, <2>2 DEF AppliedIsServed, NamesKnown, EnginesHave, Site, Names
<1>7. SiteKept'
  BY <1>1 DEF SiteKept, NamesKnown, Site, Names
<1> QED
  BY <1>4, <1>6, <1>7 DEF SitesInv

LEMMA RebootKeeps ==
  ASSUME SitesInv, Reboot
  PROVE  SitesInv'
<1>1. /\ UNCHANGED <<conf, envFile, up, site, issued, cert, key, hook, doing, ended>>
      /\ loaded' = IF Broken(site) THEN NoSite ELSE site
      /\ SitesTypeOK /\ Promised /\ AppliedIsServed /\ SiteKept /\ doing = Resting
  BY DEF Reboot, SitesInv
<1>2. SitesTypeOK' /\ Promised'
  BY <1>1 DEF SitesTypeOK, Promised, Resting
<1>3. ASSUME conf.role = "panel", ended \in {"install", "update", "apply"}, NamesKnown
      PROVE  loaded' = Site(conf, TRUE)
  <2>1. conf.panel \in Hosts /\ conf.panel # "ip" /\ Names(conf) \subseteq issued[conf.panel]
    BY <1>1, <1>3, HostsAssumption DEF AppliedIsServed, NamesKnown
  <2>2. conf.panel \in issued[conf.panel]
    BY <2>1 DEF Names
  <2>3. site = Site(conf, TRUE)
    BY <1>1, <1>3 DEF SiteKept
  <2>4. site.of = conf.panel
    BY <2>3 DEF Site
  <2>5. ~Broken(site)
    BY <2>1, <2>2, <2>4 DEF Broken, Certificate
  <2> QED
    BY <1>1, <2>3, <2>5
<1>4. AppliedIsServed'
  BY <1>1, <1>3 DEF AppliedIsServed, NamesKnown, EnginesHave, Site, Names
<1>5. SiteKept'
  BY <1>1 DEF SiteKept, NamesKnown, Site, Names
<1> QED
  BY <1>2, <1>4, <1>5 DEF SitesInv

LEMMA InitHolds == ASSUME SitesInit PROVE SitesInv
<1>1. <<>> \in Seq(Steps)
  OBVIOUS
<1>2. SitesTypeOK
  BY <1>1 DEF SitesInit, SitesTypeOK, Confs, AllHosts, NoConf, Ip, CopyFiles, NoFile, Resting
<1>3. Promised
  BY DEF SitesInit, Promised, Resting
<1> QED
  BY <1>2, <1>3, NothingServed DEF SitesInit, SitesInv

LEMMA SitesInductive == ASSUME SitesInv, [SitesNext]_siteVars PROVE SitesInv'
<1>1. ASSUME SitesTypeOK', Promised', ended' = "none" PROVE SitesInv'
  BY <1>1 DEF SitesInv, AppliedIsServed, SiteKept
<1>2. CASE \/ \E c \in Confs :
                Given(c) /\ (InstallProxy(c) \/ \E nginx \in BOOLEAN : Install(c, nginx))
           \/ \E panel, vpn \in AllHosts : SetDomain([panel |-> panel, vpn |-> vpn])
           \/ Update \/ ConfigSync \/ ConfigNginx \/ ConfigCerts \/ ConfigApply
           \/ \E purge \in BOOLEAN : Uninstall(purge)
  BY <1>1, <1>2, BeginsKeep DEF SitesInv
<1>3. CASE Step
  BY <1>1, <1>3, StepKeeps DEF SitesInv
<1>4. CASE EnsureProxyTls
  BY <1>1, <1>4, EnsureStepKeeps DEF SitesInv
<1>5. CASE End
  BY <1>5, EndKeeps
<1>6. CASE Stop
  BY <1>6, StopKeeps
<1>7. CASE \E h \in Hosts : Renew(h)
  BY <1>7, RenewKeeps
<1>8. CASE Reboot
  BY <1>8, RebootKeeps
<1>9. CASE UNCHANGED siteVars
  <2>1. UNCHANGED <<conf, envFile, up, site, loaded, issued, cert, key, hook, doing, ended>>
    BY <1>9 DEF siteVars
  <2>2. ASSUME NEW q, NEW cmd, q = doing.left, cmd = doing.cmd PROVE Promised'
    BY <2>1, <2>2, PromisesRead DEF SitesInv, Promised
  <2>3. SitesTypeOK'
    BY <2>1 DEF SitesInv, SitesTypeOK
  <2>4. AppliedIsServed' /\ SiteKept'
    BY <2>1 DEF SitesInv, AppliedIsServed, SiteKept, NamesKnown, EnginesHave, Site, Names
  <2> QED
    BY <2>2, <2>3, <2>4 DEF SitesInv
<1> QED
  BY <1>2, <1>3, <1>4, <1>5, <1>6, <1>7, <1>8, <1>9 DEF SitesNext, Step

\* Once a command has put the names into effect nginx serves them, the panel announces them and
\* the engines have their certificate, through renewals and reboots and whatever stopped before.
THEOREM NamesAreServed == SitesSpec => []AppliedIsServed
<1>1. SitesInit => SitesInv
  BY InitHolds
<1>2. SitesInv /\ [SitesNext]_siteVars => SitesInv'
  BY SitesInductive
<1>3. SitesInv => AppliedIsServed
  BY DEF SitesInv
<1> QED
  BY <1>1, <1>2, <1>3, PTL DEF SitesSpec

=============================================================================
