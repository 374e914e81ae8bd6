------------------------------ MODULE MCHosts ------------------------------
(***************************************************************************)
(* For TLC: the engines a host runs, under a sidecar (ProviderApply) or a  *)
(* supervisor (SupervisedApply), the commands that install the host and    *)
(* switch its engines (Installer), and its backups (Backups).  They share  *)
(* no variable: an instance runs one of them.                              *)
(***************************************************************************)
EXTENDS ProviderApply, SupervisedApply, Installer, Backups, TLC

CONSTANTS good1, good2, bad

VARIABLE part

PairSymmetry == Permutations(Artifacts)

HostsInit ==
  /\ ProviderInit /\ HostInit /\ SupervisedInit /\ BackupInit
  /\ part \in {"sidecar", "supervisor", "installer", "backups"}
  /\ part # "sidecar" => config = good1 /\ \A a \in Applies: desired[a] = good1
  /\ part # "supervisor" => engine = "MTPROXY"
  /\ \E i \in Artifacts : live.rows[i] = "none"
  /\ counted.versions = MaxVersions <=> \A i \in Artifacts : live.rows[i] = "none"
  /\ part # "backups" => counted.versions = MaxVersions

HostsNext ==
  \/ /\ part = "sidecar" /\ ProviderNext
     /\ UNCHANGED <<supervisedVars, hostVars, backupVars, part>>
  \/ /\ part = "supervisor" /\ SupervisedNext
     /\ UNCHANGED <<providerVars, hostVars, backupVars, part>>
  \/ /\ part = "installer" /\ HostNext
     /\ UNCHANGED <<providerVars, supervisedVars, backupVars, part>>
  \/ /\ part = "backups" /\ BackupNext
     /\ UNCHANGED <<providerVars, supervisedVars, hostVars, part>>

HostsSpec ==
  HostsInit /\ [][HostsNext]_<<providerVars, supervisedVars, hostVars, backupVars, part>>
============================================================================
