--------------------------- MODULE MCSystemApply ---------------------------
(***************************************************************************)
(* Instances of SystemApply for TLC: the panel's own node and a remote     *)
(* one, an inbound on each, one engine.                                    *)
(***************************************************************************)
EXTENDS SystemApply, TLC

CONSTANTS local, remote, here, there, u1, a1, a2, s1

TwoProxies == {local, remote}
OneProxy == {local}
OneHere == {here}
OneUser == {u1}
OneSystem == {s1}
SystemOnly == {<<s1, p>>: p \in Proxies}
SystemAndOne == {a1} \cup SystemOnly
Places == [i \in Inbounds |-> IF i = here THEN local ELSE remote]
OnFirst == [i \in Inbounds |-> 1]
==============================================================================
