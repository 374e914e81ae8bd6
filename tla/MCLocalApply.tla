---------------------------- MODULE MCLocalApply ----------------------------
(***************************************************************************)
(* For TLC: the applies of the panel's own node (LocalApply), with an      *)
(* inbound on each of two engines, and the settings of one inbound         *)
(* (Endpoints).  They share no variable: an instance runs one of them.     *)
(***************************************************************************)
EXTENDS LocalApply, Endpoints, TLC

CONSTANTS local, remote, i1, i2, u1, a1, a2

VARIABLE part

OneProxy == {local}
TwoProxies == {local, remote}
OneInbound == {i1}
TwoInbounds == {i1, i2}
OneUser == {u1}
TwoApplies == {a1, a2}

AllLocal == [i \in Inbounds |-> local]
OnEach == i1 :> 1 @@ i2 :> 2
OnFirst == [i \in Inbounds |-> 1]

Symm == Permutations(TwoApplies)

FlagsInit ==
  /\ Init /\ InboundInit
  /\ part \in {"applies", "inbound"}
  /\ part = "applies" => defaultPaths
  /\ part = "inbound" => rows = {}

FlagsNext ==
  \/ part = "applies" /\ Next /\ UNCHANGED <<inboundVars, part>>
  \/ part = "inbound" /\ InboundNext /\ UNCHANGED <<vars, part>>

FlagsSpec == FlagsInit /\ [][FlagsNext]_<<vars, inboundVars, part>>
==============================================================================
