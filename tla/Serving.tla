------------------------------- MODULE Serving -------------------------------
(***************************************************************************)
(* From the rows of inbounds, users and assignments to what the cores      *)
(* serve (CoreStateLoader, the providers' renderConfig, the domain         *)
(* functions that build what an inbound stores) and to what a subscription *)
(* offers (SubscriptionsService, SubscriptionProfileBuilder).  The two are *)
(* computed from the same rows at different times by different code.       *)
(*                                                                         *)
(* An apply is one step here: its interleavings are LocalApply's.  Of a    *)
(* configuration there is what loader, renderers and adapters tell apart:  *)
(* the address it listens on (ports are all the same), the Shadowsocks     *)
(* method and the version of the secrets.                                  *)
(***************************************************************************)
EXTENDS PanelRows, Integers, FiniteSets

CONSTANTS
  Protocols,        \* those that occur, of PROTOCOL_ENGINE_MAP
  Statuses,         \* and of the users' statuses
  MaxSecrets,       \* how many secrets an inbound has in its life,
  MaxVersion        \* and how many credentials an assignment

ASSUME Bounds ==
  /\ Statuses \subseteq {"ACTIVE", "LIMITED", "EXPIRED", "DISABLED"}
  /\ {"ACTIVE", "DISABLED"} \subseteq Statuses
  /\ MaxSecrets \in Nat \ {0} /\ MaxVersion \in Nat \ {0}

VARIABLES
  inbound,          \* row: whether it is there yet, or still
  user,
  assigned,         \* [Users -> [Inbounds -> assignment]]
  running           \* the configuration of each inbound in its core, or Absent

vars == <<inbound, user, assigned, running>>

None == "none"
Absent == [method |-> None, key |-> 0, users |-> {}]

Shadowsocks == {"SHADOWSOCKS", "SHADOWSOCKS_XRAY"}
Keyed == {"VLESS_REALITY", "WIREGUARD", "WIREGUARD_XRAY", "AMNEZIAWG"}

EngineOf(p) ==
  IF p \in {"HYSTERIA2", "VLESS_REALITY", "TROJAN", "SHADOWSOCKS", "WIREGUARD"}
    THEN "SING_BOX"
    ELSE IF p \in {"MTPROXY", "AMNEZIAWG"} THEN p ELSE "XRAY"

Engines == {EngineOf(p): p \in Protocols}

\* Two methods of the 2022 family, by the length of their keys in bytes.
MethodsOf(p) ==
  CASE p = "SHADOWSOCKS" -> {"16", "32"}
    [] p = "SHADOWSOCKS_XRAY" -> {"32"}
    [] OTHER -> {None}

Hosts == {"0.0.0.0", "127.0.0.1"}
Rows == {i \in Inbounds: inbound[i].row = "there"}
NoAssignment == [status |-> None, version |-> 0, method |-> None]

Init ==
  /\ inbound \in [Inbounds -> [row: {"none"}, protocol: Protocols, enabled: {FALSE},
                              dirty: {FALSE}, host: {None}, method: {None}, key: {0}]]
  /\ user = [u \in Users |-> [status |-> "ACTIVE", deleted |-> FALSE, dirty |-> FALSE]]
  /\ assigned = [u \in Users |-> [i \in Inbounds |-> NoAssignment]]
  /\ running = [i \in Inbounds |-> Absent]

-----------------------------------------------------------------------------
(***************************************************************************)
(* What is stored of an inbound.  Secrets that the settings do not give    *)
(* are kept from before (keep), or else generated; a kept Shadowsocks      *)
(* password must have the length of the method, other secrets always fit.  *)
(***************************************************************************)
Kept(i, method) ==
  inbound[i].protocol \notin Shadowsocks \/ inbound[i].method = method

\* The results of buildInboundStorage: the versions of the secrets it may store.
Stored(i, method) ==
  {inbound[i].key + 1} \cup {k \in {inbound[i].key}: k > 0 /\ Kept(i, method)}

\* assertListenPortAvailable: the same address, whether or not it is enabled.
PortFree(i, host) == \A j \in Rows \ {i}: inbound[j].host # host

\* create
CreateInbound(i) ==
  \E host \in Hosts, on \in BOOLEAN, method \in MethodsOf(inbound[i].protocol):
    /\ inbound[i].row = "none"
    /\ PortFree(i, host)
    /\ inbound' = [inbound EXCEPT ![i] =
         [row |-> "there", protocol |-> @.protocol, enabled |-> on, dirty |-> TRUE,
          host |-> host, method |-> method, key |-> 1]]
    /\ UNCHANGED <<user, assigned, running>>

\* update with settings; the display name alone changes nothing here.
UpdateInbound(i) ==
  \E host \in Hosts, on \in BOOLEAN, method \in MethodsOf(inbound[i].protocol):
  \E key \in Stored(i, method):
    /\ i \in Rows /\ key <= MaxSecrets
    /\ PortFree(i, host)
    /\ inbound' = [inbound EXCEPT ![i] =
         [row |-> "there", protocol |-> @.protocol, enabled |-> on, dirty |-> TRUE,
          host |-> host, method |-> method, key |-> key]]
    /\ UNCHANGED <<user, assigned, running>>

\* setEnabled
SetEnabled(i) ==
  /\ i \in Rows
  /\ inbound' = [inbound EXCEPT ![i].enabled = ~@, ![i].dirty = TRUE]
  /\ UNCHANGED <<user, assigned, running>>

\* remove: its assignments go with it, no flag of any row is raised.
RemoveInbound(i) ==
  /\ i \in Rows
  /\ inbound' = [inbound EXCEPT ![i] =
       [row |-> "gone", protocol |-> @.protocol, enabled |-> FALSE, dirty |-> FALSE,
        host |-> None, method |-> None, key |-> 0]]
  /\ assigned' = [u \in Users |-> [assigned[u] EXCEPT ![i] = NoAssignment]]
  /\ UNCHANGED <<user, running>>

-----------------------------------------------------------------------------
\* markAssignmentChanged
AssignmentChanged(u, i) ==
  /\ inbound' = [inbound EXCEPT ![i].dirty = TRUE]
  /\ user' = [user EXCEPT ![u].dirty = TRUE]

\* A new credential, made for the method that the inbound has now.
NewCredential(u, i) ==
  [assigned EXCEPT ![u][i].version = @ + 1, ![u][i].method = inbound[i].method]

AddAssignment(u, i) ==
  /\ i \in Rows /\ assigned[u][i].version < MaxVersion
  /\ user[u].status = "ACTIVE" /\ ~user[u].deleted
  /\ assigned' = [NewCredential(u, i) EXCEPT ![u][i].status = "ACTIVE"]
  /\ AssignmentChanged(u, i)
  /\ UNCHANGED running

RemoveAssignment(u, i) ==
  /\ assigned[u][i].status # None
  /\ assigned' = [assigned EXCEPT ![u][i].status = "DISABLED"]
  /\ AssignmentChanged(u, i)
  /\ UNCHANGED running

RotateCredential(u, i) ==
  /\ assigned[u][i].status # None /\ assigned[u][i].version < MaxVersion
  /\ assigned' = NewCredential(u, i)
  /\ AssignmentChanged(u, i)
  /\ UNCHANGED running

-----------------------------------------------------------------------------
\* An administrator or the limit enforcer sets the status.
SetStatus(u, status) ==
  /\ ~user[u].deleted /\ user[u].status # status
  /\ user' = [user EXCEPT ![u].status = status, ![u].dirty = TRUE]
  /\ UNCHANGED <<inbound, assigned, running>>

\* remove: the row stays, deleted and DISABLED, and so do its assignments.
RemoveUser(u) ==
  /\ ~user[u].deleted
  /\ user' = [user EXCEPT ![u] =
       [status |-> "DISABLED", deleted |-> TRUE, dirty |-> TRUE]]
  /\ UNCHANGED <<inbound, assigned, running>>

-----------------------------------------------------------------------------
\* Mutant of Included: the user's status is not looked at.
IncludedAnyway(i) == {u \in Users: assigned[u][i].status = "ACTIVE" /\ ~user[u].deleted}

\* CoreStateLoader.load: the assignments it takes for inbound i.
Included(i) ==
  {u \in Users: /\ assigned[u][i].status = "ACTIVE"
                /\ user[u].status = "ACTIVE" /\ ~user[u].deleted}

Credential(u, i) ==
  [user |-> u, version |-> assigned[u][i].version, method |-> assigned[u][i].method]

\* The enabled inbounds of an engine, and the part of its configuration for one.
LoadedOf(e) == {i \in Rows: inbound[i].enabled /\ EngineOf(inbound[i].protocol) = e}

Rendered(i) ==
  IF i \in Rows /\ inbound[i].enabled
    THEN [method |-> inbound[i].method, key |-> inbound[i].key,
          users |-> {Credential(u, i): u \in Included(i)}]
    ELSE Absent

\* assertNoListenPortConflicts: of two inbounds of one engine that share a port
\* neither may listen on all addresses.
PortsApart(e) ==
  \A i, j \in LoadedOf(e): i # j => "0.0.0.0" \notin {inbound[i].host, inbound[j].host}

\* validate: the binary's own check, which wants keys of the method's length.
Checked(e) ==
  \A i \in LoadedOf(e): \A u \in Included(i): assigned[u][i].method = inbound[i].method

(***************************************************************************)
(* An apply.  Engines whose state cannot be loaded or rendered fail, and   *)
(* any other may; the rest run the new configuration.  Inbounds are marked *)
(* by engine, users when none has failed.                                  *)
(***************************************************************************)
Apply ==
  \E failed \in SUBSET Engines:
    /\ \A e \in Engines \ failed: PortsApart(e) /\ Checked(e)
    /\ LET ran(i) == EngineOf(inbound[i].protocol) \notin failed
       IN  /\ running' = [i \in Inbounds |-> IF ran(i) THEN Rendered(i) ELSE running[i]]
           /\ inbound' = [i \in Inbounds |->
                [inbound[i] EXCEPT !.dirty = @ /\ ~(i \in Rows /\ ran(i))]]
    /\ user' = [u \in Users |-> [user[u] EXCEPT !.dirty = @ /\ failed # {}]]
    /\ UNCHANGED assigned

Next ==
  \/ \E i \in Inbounds:
       CreateInbound(i) \/ UpdateInbound(i) \/ SetEnabled(i) \/ RemoveInbound(i)
  \/ \E u \in Users, i \in Inbounds:
       AddAssignment(u, i) \/ RemoveAssignment(u, i) \/ RotateCredential(u, i)
  \/ \E u \in Users: RemoveUser(u) \/ \E s \in Statuses: SetStatus(u, s)
  \/ Apply

Spec == Init /\ [][Next]_vars

-----------------------------------------------------------------------------
\* effectiveStatus: the stored one (that an expiry or a quota is over, before
\* the limit enforcer has seen it, only makes fewer users entitled).
Entitled(u) == ~user[u].deleted /\ user[u].status = "ACTIVE"

\* Mutant of Listed: of disabled inbounds too.
ListedAll(u) == {i \in Rows: assigned[u][i].status = "ACTIVE"}

\* The assignments that a subscription's query returns.
Listed(u) == {i \in Rows: inbound[i].enabled /\ assigned[u][i].status = "ACTIVE"}

\* includeProtocolInProfile, and there is no adapter for MTPROXY.
InProfile(p, kind) ==
  /\ p # "MTPROXY"
  /\ (p = "AMNEZIAWG") = (kind = "amneziawg")

\* The inbounds of the profile; one that its adapter cannot build makes the
\* whole profile SUBSCRIPTION_UNAVAILABLE.
Offered(u, kind) == {i \in Listed(u): InProfile(inbound[i].protocol, kind)}

Buildable(u, i) ==
  inbound[i].protocol \in Shadowsocks => assigned[u][i].method = inbound[i].method

(***************************************************************************)
(* What a client reads from an endpoint is what the core goes by: the      *)
(* method, its own credential and, where the server proves itself or is    *)
(* addressed by a secret of the inbound, that secret.                      *)
(***************************************************************************)
Serves(u, i) ==
  /\ Credential(u, i) \in running[i].users
  /\ running[i].method = inbound[i].method
  /\ inbound[i].protocol \in Keyed \cup Shadowsocks => running[i].key = inbound[i].key

Kinds == {"vpn", "amneziawg"}

Settled(u, i) == ~user[u].dirty /\ ~inbound[i].dirty

-----------------------------------------------------------------------------
(***************************************************************************)
(* What a subscription offers is served as it says, once neither the user  *)
(* nor the inbound is marked, and its adapter can build it (one that it    *)
(* cannot makes the whole profile SUBSCRIPTION_UNAVAILABLE): the profile   *)
(* is built from the rows alone and never looks at what the cores run.     *)
(***************************************************************************)
OfferedIsServed ==
  \A u \in Users, kind \in Kinds:
    Entitled(u) =>
      \A i \in Offered(u, kind): Settled(u, i) => Buildable(u, i) /\ Serves(u, i)

(***************************************************************************)
(* Who is not entitled is out: what a core accepts of a user that is not   *)
(* marked, on an inbound that is not, is a present credential of an ACTIVE *)
(* assignment of an ACTIVE user on an enabled inbound.  A removed inbound  *)
(* has no flag and is left out (RemoveInbound).                            *)
(***************************************************************************)
RevokedIsOut ==
  \A i \in Rows: \A c \in running[i].users:
    Settled(c.user, i) =>
      /\ inbound[i].enabled /\ Entitled(c.user)
      /\ assigned[c.user][i].status = "ACTIVE" /\ c = Credential(c.user, i)

==============================================================================
