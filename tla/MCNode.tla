------------------------------- MODULE MCNode -------------------------------
(***************************************************************************)
(* For TLC: a node of two engines that follows the panel (NodeSync), and a *)
(* host with the commands that give it its domains (Sites).  They share no *)
(* variable: an instance runs one of them.                                 *)
(***************************************************************************)
EXTENDS NodeSync, Sites

CONSTANTS singbox, xray

VARIABLE part

nodeVars == <<syncVars, siteVars, part>>

BothEngines == {singbox, xray}

NodeInit == SyncInit /\ SitesInit /\ part \in {"sync", "sites"}

OnNode(action) == part = "sync" /\ action /\ UNCHANGED <<siteVars, part>>
OnHost(action) == part = "sites" /\ action /\ UNCHANGED <<syncVars, part>>

NodeSpec ==
  /\ NodeInit /\ [][OnNode(SyncNext) \/ OnHost(SitesNext)]_nodeVars
  /\ WF_nodeVars(OnNode(StartPull))
  /\ \A j \in Jobs : WF_nodeVars(OnNode(Work(j)))
=============================================================================
