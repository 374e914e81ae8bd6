----------------------------- MODULE Endpoints -----------------------------
(***************************************************************************)
(* The settings of one inbound, from the editor or the API through the     *)
(* panel's schemas and storage to the two places they must agree in: the   *)
(* configuration its engine is given and the profiles its users download.  *)
(*                                                                         *)
(* A setting has two values, 0 (the default) and 1 (another one); Missing  *)
(* is a setting that no schema filled in.  The secret of an inbound (keys, *)
(* obfuscation or server password) and the obfuscation numbers of          *)
(* AmneziaWG are version numbers.  Port 0 is the port the installation     *)
(* publishes for the protocol, the first of the range for MTPROXY, and     *)
(* port 1 another: of that range for MTPROXY, unpublished otherwise.       *)
(***************************************************************************)
EXTENDS InboundSettings

CONSTANTS
  Protocols,      \* the protocols of the instance
  MaxChanges      \* bound on the creation, updates and rotations

ASSUME ProtocolsAssumption == Protocols \subseteq DOMAIN Own

VARIABLES
  defaultPaths,   \* whether the installation has default TLS certificate paths
  row,            \* Inbound: its settings, where its certificate is, its secrets
  credential,     \* the user's: its version and the method or network it was made for
  form,           \* the inbound editor of one administrator
  held,           \* the profile the user downloaded
  touched,        \* the settings changed since
  changes

inboundVars == <<defaultPaths, row, credential, form, held, touched, changes>>

\* Without default paths, only the protocols with certificates differ: a bound.
Instance == IF defaultPaths THEN Protocols ELSE Protocols \cap (SingBoxTls \cup XrayTls)

Missing == 2
NoRow == [protocol |-> "none"]
NoCredential == [n |-> 0, made |-> 0]
NoForm == [open |-> FALSE]
NoProfile == <<>>

-----------------------------------------------------------------------------
(* The schemas and the storage.                                            *)

\* Whether the protocol, so configured, has a secret of its own.
Keyed(p, val) == "key" \in Storage[p] /\ (p = "HYSTERIA2" => val["obfs"] = 1)

\* The certificate of a preset: Xray has none without the default paths.
PresetTls(p) ==
  CASE p \in SingBoxTls \cup XrayTls /\ defaultPaths -> "PATHS"
    [] p \in SingBoxTls /\ ~defaultPaths -> "ACME"
    [] p \in XrayTls /\ ~defaultPaths -> "ABSENT"
    [] OTHER -> "NONE"

\* The preset of a protocol; the public host of the installation is a name.
Blank(p) ==
  [protocol |-> p, val |-> [n \in Fields[p] |-> 0], source |-> PresetTls(p),
   key |-> 0, obfuscation |-> 0]

\* A request without a host gets that of the installation, its TLS server name too, and
\* one without a certificate the default paths, when it names its protocol.
HostFallback(p, req) ==
  IF "host" \in req.omitted /\ "sni" \in Own[p]
  THEN [req EXCEPT !.val = [@ EXCEPT !["sni"] = 0]] ELSE req

PathsFallback(p, req) ==
  IF req.source = "ABSENT" /\ defaultPaths
  THEN [req EXCEPT !.source = "PATHS", !.val = [@ EXCEPT !["sni"] = req.val["host"]]]
  ELSE req

Patched(p, req) ==
  LET hosted == HostFallback(p, req)
  IN  IF p \in XrayTls \cup SingBoxTls THEN PathsFallback(p, hosted) ELSE hosted

Parsed(p, req) ==
  [n \in Fields[p] |->
     IF n \notin req.omitted THEN req.val[n]
     ELSE CASE n = "publicPort" -> req.val["port"]
            [] n \in Unread(p) -> Missing
            [] p = "AMNEZIAWG" /\ n = "address" /\ ~req.obfuscation -> 1
            [] OTHER -> 0]

\* The settings the storage of the protocol keeps.
Kept(p, val) == [n \in Fields[p] |-> IF n \in Own[p] \ Storage[p] THEN Missing ELSE val[n]]

\* Mutant: every update makes new keys.
StoredAnew(had, request, fresh) ==
  LET req == Patched(had.protocol, request)
      val == Kept(had.protocol, Parsed(had.protocol, req))
  IN  [protocol |-> had.protocol, val |-> val, source |-> req.source,
       key |-> IF Keyed(had.protocol, val) THEN fresh ELSE 0,
       obfuscation |-> IF had.protocol = "AMNEZIAWG" THEN fresh ELSE 0]

\* The numbers supplied, those there were, or new ones.
ResolvedObfuscation(had, req, fresh) ==
  IF had.protocol # "AMNEZIAWG" THEN 0
  ELSE IF req.obfuscation \/ had.obfuscation = 0 THEN fresh ELSE had.obfuscation

\* buildInboundStorage: a secret is the one supplied, the one there was, or a new one.
Stored(had, request, fresh) ==
  LET req == Patched(had.protocol, request)
      val == Kept(had.protocol, Parsed(had.protocol, req))
  IN  [protocol |-> had.protocol, val |-> val, source |-> req.source,
       key |-> IF ~Keyed(had.protocol, val) THEN 0
               ELSE IF req.key \/ had.key = 0 THEN fresh ELSE had.key,
       obfuscation |-> ResolvedObfuscation(had, req, fresh)]

\* The public configuration is read back for the audit record: the parse that throws
\* takes the transaction with it.
ReadsBack(r) ==
  {n \in Own[r.protocol] : r.val[n] # Missing} = PublicConfig[r.protocol]

\* A password kept or supplied has the length its Shadowsocks method asks for.
SecretFits(had, req) ==
  had.protocol \in Shadowsocks =>
    req.key \/ had.key = 0 \/ req.val["method"] = had.val["method"]

\* Mutant: nothing is read back before the commit.
AcceptedUnread(had, req, fresh) ==
  /\ Patched(had.protocol, req).source \in Sources(had.protocol)
  /\ Published(had.protocol, req.val["port"])
  /\ had.protocol = "SHADOWSOCKS_XRAY" => req.val["method"] = 0
  /\ SecretFits(had, req)

Accepted(had, req, fresh) ==
  /\ Patched(had.protocol, req).source \in Sources(had.protocol)
  /\ Published(had.protocol, req.val["port"])
  /\ had.protocol = "SHADOWSOCKS_XRAY" => req.val["method"] = 0
  /\ SecretFits(had, req)
  /\ ReadsBack(Stored(had, req, fresh))

\* Hysteria2, Trojan and the certificates have secrets only where they are used.
SecretsReadable(r) == "key" \in Storage[r.protocol] /\ r.protocol # "HYSTERIA2" => r.key # 0

\* An update starts from what is stored: the settings and secrets of an inbound that
\* cannot be read are not replaced either.
Readable(r) == SecretsReadable(r) /\ ReadsBack(r)

\* The settings a parameter of a profile comes from.
Origins(n) ==
  CASE n = "sni" -> {"sni", "host"}
    [] n = "key" -> {"key", "obfs"}
    [] OTHER -> {n}

\* Changes are counted from the download, of what the engine asks of the profile.
Touching(names) ==
  touched \cup (names \cap UNION {Origins(n) : n \in DOMAIN held \cap Demanded[row.protocol]})

Toggled(val, names) == [n \in DOMAIN val |-> IF n \in names THEN 1 - val[n] ELSE val[n]]

Plain(val, source) ==
  [val |-> val, omitted |-> {}, source |-> source, key |-> FALSE, obfuscation |-> FALSE]

-----------------------------------------------------------------------------
InboundInit ==
  /\ defaultPaths \in BOOLEAN
  /\ row = NoRow
  /\ credential = NoCredential
  /\ form = NoForm
  /\ held = NoProfile
  /\ touched = {}
  /\ changes = 0

\* The only inbound: none is created beside the form of a new one.
Created(p, req) ==
  /\ row = NoRow
  /\ Accepted(Blank(p), req, 1)
  /\ row' = Stored(Blank(p), req, 1)
  /\ changes' = changes + 1

\* At most one setting is not the default one.
Create ==
  /\ form = NoForm
  /\ \E p \in Instance :
       \E s \in Sources(p) \cup {"ABSENT"}, n \in {"none"} \cup Own[p] :
         Created(p, Plain(Toggled(Blank(p).val, {n}), s))
  /\ UNCHANGED <<defaultPaths, credential, form, held, touched>>

\* The installation creates the preset of a protocol it selected, or skips it.
Bootstrap ==
  /\ form = NoForm
  /\ \E p \in Instance : Created(p, Plain(Blank(p).val, PresetTls(p)))
  /\ UNCHANGED <<defaultPaths, credential, form, held, touched>>

\* A caller of the API sends what it read but for one setting, or its certificate, or a
\* secret, or without what has a default, the host, or the TLS settings.
ApiUpdate ==
  /\ row # NoRow /\ changes < MaxChanges
  /\ Readable(row)
  /\ LET same == Plain(row.val, row.source)
         Update(names, req) ==
           /\ Accepted(row, req, changes + 1)
           /\ row' = Stored(row, req, changes + 1)
           /\ touched' = Touching(names)
         optional == Defaulted(row.protocol) \cup {"enabled", "publicPort"}
         tls == Own[row.protocol] \cap TlsPublic
     IN  \/ \E n \in Fields[row.protocol] :
              Update({n}, [same EXCEPT !.val = Toggled(@, {n})])
         \/ \E s \in Sources(row.protocol) : Update({}, [same EXCEPT !.source = s])
         \/ Update(optional, [same EXCEPT !.omitted = optional])
         \/ Update({"host"}, [same EXCEPT !.omitted = {"host"}])
         \/ Update(tls, [same EXCEPT !.omitted = tls \ {"sni"}, !.source = "ABSENT"])
         \/ /\ Keyed(row.protocol, row.val)
            /\ \E n \in {"none"} \cup Own[row.protocol] :
                 Update({"key", n}, [same EXCEPT !.key = TRUE, !.val = Toggled(@, {n})])
         \/ /\ row.protocol = "AMNEZIAWG"
            /\ Update({"obfuscation"}, [same EXCEPT !.obfuscation = TRUE])
  /\ changes' = changes + 1
  /\ UNCHANGED <<defaultPaths, credential, form, held>>

\* A Shadowsocks password has its method's length, and a WireGuard or AmneziaWG address
\* is of the inbound's network.
CreateCredential(r) ==
  CASE r.protocol \in Shadowsocks -> r.val["method"]
    [] r.protocol \in Wireguard \cup {"AMNEZIAWG"} -> r.val["address"]
    [] OTHER -> 0

\* An assignment or a rotation.
Rotate ==
  /\ row # NoRow /\ changes < MaxChanges
  /\ ReadsBack(row)
  /\ credential' = [n |-> changes + 1, made |-> CreateCredential(row)]
  /\ touched' = Touching({"credential"})
  /\ changes' = changes + (IF credential = NoCredential THEN 0 ELSE 1)
  /\ UNCHANGED <<defaultPaths, row, form, held>>

-----------------------------------------------------------------------------
(* The editor.                                                             *)

\* What the panel reads of an inbound: no secrets.
Shown(r) == [protocol |-> r.protocol, val |-> r.val, source |-> r.source]

\* The editor keeps the inbound as it was when it was opened.
OpenForm ==
  /\ row # NoRow /\ form = NoForm
  /\ ReadsBack(row)
  /\ form' = [open |-> TRUE, new |-> FALSE, seen |-> Shown(row)]
  /\ UNCHANGED <<defaultPaths, row, credential, held, touched, changes>>

\* A new inbound starts from the preset of the protocol chosen.
OpenNew ==
  /\ row = NoRow /\ form = NoForm
  /\ \E p \in Instance : form' = [open |-> TRUE, new |-> TRUE, seen |-> Shown(Blank(p))]
  /\ UNCHANGED <<defaultPaths, row, credential, held, touched, changes>>

CloseForm ==
  /\ form.open
  /\ form' = NoForm
  /\ UNCHANGED <<defaultPaths, row, credential, held, touched, changes>>

\* What a mode lets the administrator change: the detailed one has the JSON of all the
\* settings, and of a secret the field or the keys that are sent when typed.
DetailedFields(f) ==
  LET p == f.seen.protocol
  IN  Fields[p] \cup (Storage[p] \cap {"key"}) \cup
      CASE p = "HYSTERIA2" -> Hysteria2Fields(f.seen.source = "ACME")
        [] p = "TROJAN" -> TrojanFields(f.seen.source = "ACME")
        [] p \in XrayTls -> XrayFilesTlsFields
        [] OTHER -> {}

Editable(f, mode) ==
  {"name", "host", "enabled"} \cup
  (IF mode = "simple" THEN ProtocolFields[f.seen.protocol] ELSE DetailedFields(f))

\* The server name follows the public host.
Edited(f, names) ==
  LET now == Toggled(f.seen.val, names)
  IN  IF "host" \in names /\ "sni" \in DOMAIN now
      THEN [now EXCEPT !["sni"] = now["host"]] ELSE now

\* A certificate kept as PEM is not in the form, and the default paths take its place;
\* a switched mode leaves the keys of the other one in the request, and an inbound that
\* was read has nulls where ACME has none set: the schema refuses both.
ResolvedSingBoxTls(f, names) ==
  CASE "tlsMode" \in names -> "MIXED"
    [] "tlsMode" \notin names /\ f.seen.source = "ACME" -> IF f.new THEN "ACME" ELSE "NULLS"
    [] OTHER -> IF f.seen.source = "PATHS" \/ "paths" \in names \/ defaultPaths
                THEN "PATHS" ELSE "ABSENT"

ResolvedXrayTls(f, names) ==
  IF "pem" \in names THEN "PEM"
  ELSE IF f.seen.source = "PATHS" \/ "paths" \in names \/ defaultPaths
       THEN "PATHS" ELSE "ABSENT"

\* sanitizeInboundForm: the settings of the protocol's preset are sent as the form has
\* them, secrets only when typed and AmneziaWG's obfuscation never.
Sanitized(f, names) ==
  LET p == f.seen.protocol
  IN  [val |-> Edited(f, names), omitted |-> {}, key |-> "key" \in names,
       obfuscation |-> FALSE,
       source |-> IF p \in SingBoxTls THEN ResolvedSingBoxTls(f, names)
                  ELSE IF p \in XrayTls THEN ResolvedXrayTls(f, names) ELSE "NONE"]

\* What the form checks itself: a certificate for Xray, the default paths for its Trojan,
\* whose preset is not built without, and in the detailed mode the password of
\* Hysteria2's obfuscation, to be typed again.
FormValid(f, mode, names) ==
  LET p == f.seen.protocol
  IN  /\ p \in XrayTls /\ ~defaultPaths =>
           p # "TROJAN_TLS" /\ (f.seen.source = "PATHS" \/ names \cap {"paths", "pem"} # {})
      /\ mode = "detailed" /\ p = "HYSTERIA2" =>
           (Keyed(p, Edited(f, names)) => "key" \in names)

Modes == {"simple", "detailed"}

\* What may be edited in one form: one field, with the name or a secret, as a bound.
Edits(f, mode) ==
  {{m, n} : m \in Editable(f, mode), n \in {"name", "key"} \cap Editable(f, mode)} \cup
  {{n} : n \in Editable(f, mode)}

\* What is sent: the simple mode moves the inbound to the port the installation publishes.
Request(f, mode, names) ==
  LET clean == Sanitized(f, names)
  IN  IF mode = "simple"
      THEN [clean EXCEPT !.val = [@ EXCEPT !["port"] = 0, !["publicPort"] = 0]]
      ELSE clean

\* The name is sent alone when it was edited and these did not change.
NameOnly(f, req) ==
  /\ ~f.new
  /\ req.val["name"] # f.seen.val["name"]
  /\ \A n \in {"host", "enabled", "port"} : req.val[n] = f.seen.val[n]

\* Besides what was edited, the request has the values the form was opened with.
Stale == {n \in DOMAIN form.seen.val : form.seen.val[n] # row.val[n]}

\* A form and its request wait for the same changes of others: the save is handled when
\* it is sent.  A request that is refused leaves the form open.
Saved(mode, names) ==
  /\ form.open /\ changes < MaxChanges
  /\ names \in Edits(form, mode)
  /\ FormValid(form, mode, names)
  /\ form' = NoForm
  /\ UNCHANGED <<defaultPaths, credential, held>>

SaveNew ==
  /\ form.open /\ form.new
  /\ \E mode \in Modes : \E names \in Edits(form, mode) :
       /\ Saved(mode, names)
       /\ Created(form.seen.protocol, Request(form, mode, names))
  /\ UNCHANGED touched

SaveName ==
  /\ form.open /\ ~form.new
  /\ \E mode \in Modes : \E names \in Edits(form, mode) :
       LET req == Request(form, mode, names)
       IN  /\ Saved(mode, names)
           /\ NameOnly(form, req)
           /\ row' = [row EXCEPT !.val["name"] = req.val["name"]]
  /\ changes' = changes + 1
  /\ UNCHANGED touched

SaveSettings ==
  /\ form.open /\ ~form.new
  /\ Readable(row)
  /\ \E mode \in Modes : \E names \in Edits(form, mode) :
       LET req == Request(form, mode, names)
       IN  /\ Saved(mode, names)
           /\ ~NameOnly(form, req)
           /\ Accepted(row, req, changes + 1)
           /\ row' = Stored(row, req, changes + 1)
           /\ touched' = Touching(names \cup Stale)
  /\ changes' = changes + 1

-----------------------------------------------------------------------------
(* What the engine and the clients are given.                              *)

Served(r) ==
  [n \in Demanded[r.protocol] |->
     CASE n = "credential" -> credential.n
       [] n = "key" -> r.key
       [] n = "obfuscation" -> r.obfuscation
       [] OTHER -> r.val[n]]

\* The profiles: AmneziaWG has native files only, sing-box no XHTTP, and a link of
\* Hysteria2 no place for the ALPN.
InProfile(p, native) == IF native THEN p = "AMNEZIAWG" ELSE p \notin {"AMNEZIAWG", "MTPROXY"}

SingBoxProfile(p) == Endpoint[p]
ClashProfile(p) == Endpoint[p]
AmneziawgConf == AmneziawgEndpoint
Link(p) == IF p = "HYSTERIA2" THEN Hysteria2Endpoint \ {"alpn", "bandwidth"} ELSE Endpoint[p]

Renderings ==
  [p \in DOMAIN Own |->
     {AdminLink[p]} \cup
     (IF InProfile(p, FALSE) THEN {ClashProfile(p), Link(p)} ELSE {}) \cup
     (IF InProfile(p, FALSE) /\ p # "VLESS_XHTTP_TLS" THEN {SingBoxProfile(p)} ELSE {}) \cup
     (IF InProfile(p, TRUE) THEN {AmneziawgConf} ELSE {})]

\* A WireGuard address is the credential's own.
Rendered(r, carried) ==
  [n \in carried \cup {"credential", "key", "obfuscation"} |->
     CASE n = "credential" -> credential.n
       [] n = "key" -> r.key
       [] n = "obfuscation" -> r.obfuscation
       [] n = "address" -> credential.made
       [] OTHER -> r.val[n]]

\* The renderer of the engine and the builders of profiles throw otherwise.
Complete(r) ==
  /\ Readable(r)
  /\ Keyed(r.protocol, r.val) => r.key # 0
  /\ r.protocol = "AMNEZIAWG" => r.obfuscation # 0

Fits(r) ==
  /\ r.protocol \in Shadowsocks => credential.made = r.val["method"]
  /\ r.protocol = "AMNEZIAWG" => credential.made = r.val["address"]

Download ==
  /\ row # NoRow /\ credential # NoCredential
  /\ Complete(row) /\ Fits(row)
  /\ held' = Rendered(row, UNION Renderings[row.protocol])
  /\ touched' = {}
  /\ UNCHANGED <<defaultPaths, row, credential, form, changes>>

-----------------------------------------------------------------------------
InboundNext ==
  \/ Create \/ Bootstrap \/ ApiUpdate \/ Rotate
  \/ OpenForm \/ OpenNew \/ CloseForm \/ SaveNew \/ SaveName \/ SaveSettings
  \/ Download

InboundSpec == InboundInit /\ [][InboundNext]_inboundVars

-----------------------------------------------------------------------------
(***************************************************************************)
(* However an inbound was written, by the API in any of the forms its      *)
(* schemas accept or by the editor, its engine can be given it and every   *)
(* profile of a user whose credential fits it can be built, and agrees     *)
(* with the engine on every setting they must share (core-state.loader.ts, *)
(* subscription-profile.ts); one inbound that cannot be read fails the     *)
(* configuration of its whole engine.  Share links of Hysteria2 leave the  *)
(* ALPN to the client.                                                     *)
(***************************************************************************)
ClientsFit ==
  row # NoRow =>
    /\ Complete(row)
    /\ Fits(row) =>
         \A carried \in Renderings[row.protocol] :
           LET profile == Rendered(row, carried)
               served == Served(row)
           IN  \A n \in DOMAIN served :
                 \/ n \in DOMAIN profile /\ profile[n] = served[n]
                 \/ row.protocol = "HYSTERIA2" /\ n = "alpn"

(***************************************************************************)
(* A profile goes on working until something it depends on is edited:      *)
(* saving another setting, from either mode of the editor or by the API,   *)
(* replaces no key, no obfuscation and none of the settings a form does    *)
(* not show (inbound-storage.ts, InboundEditor.tsx).                       *)
(***************************************************************************)
UntouchedStays ==
  held # NoProfile =>
    LET served == Served(row)
    IN  \A n \in DOMAIN held \cap DOMAIN served :
          held[n] = served[n] \/ Origins(n) \cap touched # {}

(***************************************************************************)
(* "When the editor only changed the display name, send that field alone"  *)
(* (InboundEditor.tsx 1400): the name goes alone when, and only when,      *)
(* nothing else was edited.                                                *)
(***************************************************************************)
NameAlone ==
  form.open /\ ~form.new =>
    \A mode \in Modes : \A names \in Edits(form, mode) :
      FormValid(form, mode, names) =>
        (NameOnly(form, Request(form, mode, names)) <=> names = {"name"})

=============================================================================
