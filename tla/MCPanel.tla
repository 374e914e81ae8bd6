------------------------------ MODULE MCPanel ------------------------------
(***************************************************************************)
(* For TLC: what an inbound serves and a subscription offers (Serving),    *)
(* and the plans that give inbounds to users (Assignments).  They share no *)
(* variable: an instance runs one of them.                                 *)
(***************************************************************************)
EXTENDS Serving, Assignments, TLC

VARIABLE part

Symm == Permutations(Inbounds) \cup Permutations(Calls) \cup Permutations(Plans)

\* Plans are of one inbound.
PanelInit ==
  /\ Init /\ PlansInit
  /\ \/ part = "serving" /\ inbounds = {}
     \/ /\ part = "plans" /\ \E i \in Inbounds: inbounds = {i}
        /\ \A i \in Inbounds: inbound[i].protocol = "SHADOWSOCKS"

PanelNext ==
  \/ part = "serving" /\ Next /\ UNCHANGED <<plansVars, part>>
  \/ part = "plans" /\ PlansNext /\ UNCHANGED <<vars, part>>

PanelSpec == PanelInit /\ [][PanelNext]_<<vars, plansVars, part>>
============================================================================
