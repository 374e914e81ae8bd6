--------------------------- MODULE InstallerProofs ---------------------------
(***************************************************************************)
(* Proofs about what is done by hand on a host: Installer, for any cores,  *)
(* any number of secrets drawn and commands interrupted at any step; and   *)
(* Backups, for any artifacts and any calls, changes, applies and crashes. *)
(***************************************************************************)
EXTENDS Installer, Backups, TLAPS

Envs == [role: Roles, secret: Nat, cores: SUBSET Cores, profiles: SUBSET Cores]
Volumes == [pass: Nat, owner: BOOLEAN, token: Nat]

HostTypeOK ==
  /\ files \in SUBSET Files
  /\ env \in Envs /\ volume \in Volumes /\ secrets \in Nat
  /\ run = [cmd |-> run.cmd, at |-> run.at, arg |-> run.arg]
  /\ run.cmd \in {"none", "install", "update", "enable", "disable", "uninstall"}
  /\ run.cmd = "none" => run = Idle
  /\ run.cmd = "install" => run.arg.role \in Roles
  /\ run.cmd \in {"enable", "disable"} => run.arg \in Cores

(***************************************************************************)
(* The commands and their places.                                          *)
(***************************************************************************)
Marked == {"cli", "env", "credentials", "conf", "up", "cores", "owner", "proxy", "unmark"}

\* A database that the password opens and that has an owner; the token is the agent's.
Opens == volume.pass = env.secret /\ volume.owner
Usable == env.role # "proxy" => Opens /\ (env.role = "panel+proxy" => volume.token = env.secret)

\* Where an installation is, the files say that it is not finished, or it is.
Installing ==
  run.cmd = "install" =>
    /\ run.at \in {"down", "remove", "deploy", "mark", "complete"} \cup Marked
    /\ run.at = "down" => ~IsComplete
    /\ run.at = "deploy" => files = {}
    /\ run.at = "mark" => "env" \notin files
    /\ run.at \in Marked => "inprogress" \in files
    /\ run.at = "proxy" => Opens
    /\ run.at \in {"unmark", "complete"} => Usable

\* An update begins on a finished host, or it has replaced the files of one.
Updating ==
  /\ run.cmd = "update" /\ run.at = "deploy" => IsComplete
  /\ run.cmd = "update" /\ run.at = "cli" => IsComplete \/ "env" \notin files

CompleteInv == HostTypeOK /\ Installing /\ Updating /\ (IsComplete /\ ~Removing => Usable)

\* What enabling and disabling a core have done so far.
Switching ==
  /\ run.cmd = "enable" =>
       /\ run.at \in {"flag", "profiles", "start"}
       /\ run.at \in {"profiles", "start"} => run.arg \in env.cores
       /\ run.at = "start" /\ env.role # "panel" => run.arg \in env.profiles
  /\ run.cmd = "disable" =>
       /\ run.at \in {"stop", "flag", "profiles"}
       /\ run.at \in {"flag", "profiles"} => run.arg \notin containers
       /\ run.at = "profiles" => run.arg \notin env.cores

AsAsked ==
  last.cmd \in {"enable", "disable"} =>
    LET c == last.arg IN
    /\ (c \in env.cores) <=> (last.cmd = "enable")
    /\ (c \in containers) <=> (last.cmd = "enable")
    /\ env.role # "panel" => ((c \in env.profiles) <=> (last.cmd = "enable"))

CoreInv == HostTypeOK /\ Switching /\ (run # Idle => last = Idle) /\ (run = Idle => AsAsked)

-----------------------------------------------------------------------------
LEMMA HostTypes == ASSUME HostTypeOK, HostNext PROVE HostTypeOK'
<1> USE DEF HostTypeOK
<1>1. NoEnv \in Envs /\ NoVolume \in Volumes
  BY DEF NoEnv, Envs, Roles, NoVolume, Volumes
<1>2. ASSUME NEW place, GoTo(place)
      PROVE  /\ run' = [cmd |-> run'.cmd, at |-> run'.at, arg |-> run'.arg]
             /\ run'.cmd = run.cmd /\ run'.arg = run.arg /\ run'.at = place
  BY <1>2 DEF GoTo
<1>3. run' = Idle => /\ run' = [cmd |-> run'.cmd, at |-> run'.at, arg |-> run'.arg]
                     /\ run'.cmd = "none"
  BY DEF Idle
<1> DEFINE RunOK == /\ run' = [cmd |-> run'.cmd, at |-> run'.at, arg |-> run'.arg]
                    /\ run'.cmd \in {"none", "install", "update", "enable", "disable", "uninstall"}
                    /\ run'.cmd = "none" => run' = Idle
                    /\ run'.cmd = "install" => run'.arg.role \in Roles
                    /\ run'.cmd \in {"enable", "disable"} => run'.arg \in Cores
<1>4. ASSUME NEW place, GoTo(place), run.cmd # "none" PROVE RunOK
  BY <1>2, <1>4
<1>5. run' = Idle => RunOK
  BY <1>3
<1>6. run' = run => RunOK
  OBVIOUS
<1>7. CASE \/ \E role \in Roles, build \in BOOLEAN : Install(role, build)
           \/ \E b \in BOOLEAN : Update(b) \/ Uninstall(b)
           \/ \E cmd \in {"enable", "disable"}, c \in Cores : Switch(cmd, c)
  <2>1. ASSUME NEW role \in Roles, NEW build \in BOOLEAN, Install(role, build) PROVE RunOK
    BY <2>1 DEF Install
  <2>2. ASSUME NEW b \in BOOLEAN, Update(b) \/ Uninstall(b) PROVE RunOK
    BY <2>2 DEF Update, Uninstall
  <2>3. ASSUME NEW cmd \in {"enable", "disable"}, NEW c \in Cores, Switch(cmd, c) PROVE RunOK
    BY <2>3 DEF Switch
  <2> QED
    BY <1>7, <2>1, <2>2, <2>3 DEF Install, Update, Uninstall, Switch
<1> HIDE DEF RunOK
<1>8. CASE Down \/ (\E f \in Files : RemoveFile(f)) \/ RemoveBin
  BY <1>1, <1>4, <1>5, <1>6, <1>8 DEF Down, RemoveFile, RemoveBin, At, Finish, RunOK
<1>9. CASE DeploySource \/ MarkInprogress \/ InstallCli \/ WriteCredentials \/ WriteConf \/ SyncDomains
           \/ Unmark \/ MarkComplete
  <2>1. files' \in SUBSET Files
    BY <1>9 DEF DeploySource, Deployed, MarkInprogress, InstallCli, WriteCredentials, WriteConf,
                SyncDomains, Unmark, MarkComplete, Files
  <2>2. RunOK
    BY <1>4, <1>5, <1>9 DEF DeploySource, MarkInprogress, InstallCli, WriteCredentials, WriteConf,
                            SyncDomains, Unmark, MarkComplete, At, Finish, Abandon
  <2> QED
    BY <1>9, <2>1, <2>2 DEF DeploySource, MarkInprogress, InstallCli, WriteCredentials, WriteConf,
                            SyncDomains, Unmark, MarkComplete, RunOK
<1>10. ASSUME NEW cores \in SUBSET Cores, GenerateEnv(cores) PROVE HostTypeOK'
  <2>1. run.arg.role \in Roles
    BY <1>10 DEF GenerateEnv, At
  <2>2. env' \in Envs
    BY <1>10, <2>1 DEF GenerateEnv, Envs
  <2>3. RunOK
    BY <1>4, <1>10 DEF GenerateEnv, At
  <2> QED
    BY <1>10, <2>2, <2>3 DEF GenerateEnv, RunOK, Files
<1>11. CASE ComposeUp \/ RecreateCores \/ BootstrapOwner \/ BootstrapLocalProxy \/ Up \/ TakeDown
  <2>1. env.secret \in Nat
    BY DEF Envs
  <2>2. Created \in Volumes
    BY <1>1, <2>1 DEF Created, Volumes
  <2>3. /\ [volume EXCEPT !.owner = TRUE] \in Volumes
        /\ [volume EXCEPT !.token = env.secret] \in Volumes
    BY <2>1 DEF Volumes
  <2>4. volume' \in Volumes
    BY <1>11, <2>2, <2>3 DEF ComposeUp, RecreateCores, BootstrapOwner, BootstrapLocalProxy, Up,
       TakeDown
  <2>5. RunOK
    BY <1>4, <1>5, <1>6, <1>11 DEF ComposeUp, RecreateCores, BootstrapOwner, BootstrapLocalProxy,
                                   Up, TakeDown, At, Finish, Abandon
  <2> QED
    BY <1>11, <2>4, <2>5 DEF ComposeUp, RecreateCores, BootstrapOwner, BootstrapLocalProxy, Up,
                             TakeDown, RunOK
<1>12. CASE StopCore \/ SetFlag \/ SetProfiles \/ StartEngine \/ Interrupted
  <2>1. RunOK
    BY <1>4, <1>5, <1>12 DEF StopCore, SetFlag, SetProfiles, StartEngine, Interrupted, At,
       Finish, Abandon
  <2>2. env' \in Envs
    <3>1. \A s \in SUBSET Cores: /\ [env EXCEPT !.cores = s] \in Envs
                                 /\ [env EXCEPT !.profiles = s] \in Envs
      BY DEF Envs
    <3>2. env.cores \subseteq Cores /\ Profiles \subseteq Cores
      BY DEF Envs, Profiles
    <3>3. CASE SetFlag
      <4>1. run.arg \in Cores
        BY <3>3 DEF SetFlag, At
      <4>2. PICK s \in SUBSET Cores:
              s = IF run.cmd = "enable" THEN env.cores \union {run.arg} ELSE env.cores \ {run.arg}
        BY <3>2, <4>1
      <4>3. env' = [env EXCEPT !.cores = s]
        BY <3>3, <4>2 DEF SetFlag
      <4> QED
        BY <3>1, <4>3
    <3>4. CASE SetProfiles
      BY <3>1, <3>2, <3>4 DEF SetProfiles
    <3> QED
      BY <1>12, <3>3, <3>4 DEF StopCore, StartEngine, Interrupted
  <2> QED
    BY <1>12, <2>1, <2>2 DEF StopCore, SetFlag, SetProfiles, StartEngine, Interrupted, RunOK
<1> QED
  BY <1>7, <1>8, <1>9, <1>10, <1>11, <1>12 DEF HostNext

\* What a move to another place, or the end of a command, leaves.
LEMMA Moves ==
  ASSUME HostTypeOK
  PROVE  /\ \A place: GoTo(place) => run'.cmd = run.cmd /\ run'.arg = run.arg /\ run'.at = place
         /\ run' = Idle => run'.cmd = "none" /\ run'.at = "idle"
BY DEF HostTypeOK, GoTo, Idle

-----------------------------------------------------------------------------
(***************************************************************************)
(* A finished host is usable.                                              *)
(***************************************************************************)
Finished == Installing' /\ Updating' /\ ((IsComplete /\ ~Removing)' => Usable')

LEMMA BeginFinished ==
  ASSUME CompleteInv,
         \/ \E role \in Roles, build \in BOOLEAN : Install(role, build)
         \/ \E b \in BOOLEAN : Update(b) \/ Uninstall(b)
         \/ \E cmd \in {"enable", "disable"}, c \in Cores : Switch(cmd, c)
  PROVE  Finished
<1> USE DEF CompleteInv, Finished
<1>1. run = Idle /\ run.cmd = "none" /\ ~Removing /\ UNCHANGED <<files, bin, env, volume>>
  BY DEF Install, Update, Uninstall, Switch, Idle, Removing
<1>2. IsComplete' = IsComplete /\ Usable' = Usable
  BY <1>1 DEF IsComplete, LooksComplete, Usable, Opens
<1>3. ASSUME NEW role \in Roles, NEW build \in BOOLEAN, Install(role, build) PROVE Finished
  <2>1. ~IsComplete /\ run'.cmd = "install" /\ run'.at \in {"down", "deploy"}
        /\ (run'.at = "deploy" => files = {})
    BY <1>3 DEF Install, HasPartial
  <2> QED
    BY <1>1, <1>2, <2>1 DEF Installing, Updating, Marked
<1>4. ASSUME NEW b \in BOOLEAN, Update(b) PROVE Finished
  <2>1. IsComplete /\ run'.cmd = "update"
    BY <1>4 DEF Update
  <2> QED
    BY <1>1, <1>2, <2>1 DEF Installing, Updating
<1>5. ASSUME NEW b \in BOOLEAN, Uninstall(b) PROVE Finished
  <2>1. run'.cmd = "uninstall" /\ run'.at = "down"
    BY <1>5 DEF Uninstall
  <2> QED
    BY <2>1 DEF Installing, Updating, Removing
<1>6. ASSUME NEW cmd \in {"enable", "disable"}, NEW c \in Cores, Switch(cmd, c) PROVE Finished
  <2>1. run'.cmd \in {"enable", "disable"}
    BY <1>6 DEF Switch
  <2> QED
    BY <1>1, <1>2, <2>1 DEF Installing, Updating
<1> QED
  BY <1>3, <1>4, <1>5, <1>6

LEMMA RemovalFinished ==
  ASSUME CompleteInv, Down \/ (\E f \in Files : RemoveFile(f)) \/ RemoveBin
  PROVE  Finished
<1> USE DEF CompleteInv, Finished
<1>1. CASE Down
  <2>1. run'.at = "remove" /\ run'.cmd = run.cmd
    BY <1>1, Moves DEF Down
  <2> QED
    BY <2>1 DEF Installing, Updating, Removing, Marked
<1>2. CASE \E f \in Files : RemoveFile(f)
  <2>1. run.at = "remove" /\ run' = run
    BY <1>2 DEF RemoveFile, At
  <2> QED
    BY <2>1 DEF Installing, Updating, Removing, Marked
<1>3. CASE RemoveBin
  <2>1. files' = {} /\ ~IsComplete'
    BY <1>3 DEF RemoveBin, IsComplete, LooksComplete
  <2>2. \/ run'.cmd = "install" /\ run'.at = "deploy"
        \/ run'.cmd = "none"
    BY <1>3, Moves DEF RemoveBin, At, Finish
  <2> QED
    BY <2>1, <2>2 DEF Installing, Updating, Marked
<1> QED
  BY <1>1, <1>2, <1>3

LEMMA DeployFinished ==
  ASSUME CompleteInv, DeploySource \/ MarkInprogress \/ InstallCli \/ SyncDomains
  PROVE  Finished
<1> USE DEF CompleteInv, Finished
<1>1. UNCHANGED <<env, volume>> /\ Usable' = Usable
  BY DEF DeploySource, MarkInprogress, InstallCli, SyncDomains, Usable, Opens
<1>2. CASE DeploySource
  <2>1. /\ run.cmd \in {"install", "update"} /\ run'.cmd = run.cmd /\ bin' = bin
        /\ run'.at = IF run.cmd = "install" THEN "mark" ELSE "cli"
        /\ files' = {"git", "compose"} \/ files' = files \union {"compose"}
    BY <1>2, Moves DEF DeploySource, At, Deployed
  <2>2. run.cmd = "install" => "env" \notin files' /\ ~IsComplete'
    BY <1>2, <2>1 DEF DeploySource, At, Installing, IsComplete, LooksComplete
  <2>3. run.cmd = "update" => IsComplete /\ ~Removing
    BY <1>2 DEF DeploySource, At, Updating, Removing
  <2>4. run.cmd = "update" => Usable
    BY <2>3
  <2>5. run.cmd = "update" => IsComplete' \/ "env" \notin files'
    BY <2>1, <2>3 DEF IsComplete, LooksComplete
  <2> QED
    BY <1>1, <2>1, <2>2, <2>4, <2>5 DEF Installing, Updating, Marked
<1>3. CASE MarkInprogress
  <2>1. run'.cmd = "install" /\ run'.at = "cli" /\ "inprogress" \in files'
    BY <1>3, Moves DEF MarkInprogress, At
  <2> QED
    BY <2>1 DEF Installing, Updating, Marked, IsComplete
<1>4. CASE InstallCli
  <2>1. /\ run.cmd \in {"install", "update"} /\ run'.cmd = run.cmd /\ files' = files
        /\ run'.at = IF run.cmd = "install" THEN "env" ELSE "domains"
        /\ run.cmd = "install" => "inprogress" \in files
        /\ run.cmd = "update" => (IsComplete \/ "env" \notin files) /\ ~Removing
    BY <1>4, Moves DEF InstallCli, At, Installing, Updating, Marked, Removing
  <2>2. run.cmd = "update" /\ IsComplete' => IsComplete
    BY <2>1 DEF IsComplete, LooksComplete
  <2>3. run.cmd = "install" => ~IsComplete'
    BY <2>1 DEF IsComplete
  <2> QED
    BY <1>1, <2>1, <2>2, <2>3 DEF Installing, Updating, Marked
<1>5. CASE SyncDomains
  <2>1. /\ run'.cmd \in {"update", "none"} /\ run'.at \notin {"deploy", "cli"}
        /\ ~Removing /\ UNCHANGED <<files, bin>>
    BY <1>5, Moves DEF SyncDomains, At, Abandon, Removing
  <2>2. IsComplete' = IsComplete
    BY <2>1 DEF IsComplete, LooksComplete
  <2> QED
    BY <1>1, <2>1, <2>2 DEF Installing, Updating
<1> QED
  BY <1>2, <1>3, <1>4, <1>5

\* While the marker is there the host is not finished.
LEMMA WritesFinished ==
  ASSUME CompleteInv,
         (\E cores \in SUBSET Cores : GenerateEnv(cores)) \/ WriteCredentials \/ WriteConf \/ BootstrapOwner
           \/ BootstrapLocalProxy \/ Unmark \/ MarkComplete
  PROVE  Finished
<1> USE DEF CompleteInv, Finished
<1>1. run.cmd = "install"
  BY DEF GenerateEnv, WriteCredentials, WriteConf, BootstrapOwner, BootstrapLocalProxy, Unmark,
         MarkComplete, At
<1>2. CASE (\E cores \in SUBSET Cores : GenerateEnv(cores)) \/ WriteCredentials \/ WriteConf
  <2>1. run'.cmd = "install" /\ run'.at \in {"credentials", "conf", "up"} /\ "inprogress" \in files'
    BY <1>1, <1>2, Moves DEF GenerateEnv, WriteCredentials, WriteConf, At, Installing, Marked
  <2> QED
    BY <2>1 DEF Installing, Updating, Marked, IsComplete
<1>3. CASE BootstrapOwner
  <2>1. /\ "inprogress" \in files /\ files' = files
        /\ \/ run'.cmd = "none"
           \/ run'.cmd = "install" /\ run'.at = "proxy" /\ Opens'
    BY <1>1, <1>3, Moves DEF BootstrapOwner, At, Installing, Marked, Abandon, Opens, HostTypeOK,
       Volumes
  <2> QED
    BY <2>1 DEF Installing, Updating, Marked, IsComplete
<1>4. CASE BootstrapLocalProxy
  <2>1. /\ "inprogress" \in files /\ files' = files /\ env' = env /\ Opens
        /\ run'.cmd = "install" /\ run'.at = "unmark"
    BY <1>1, <1>4, Moves DEF BootstrapLocalProxy, At, Installing, Marked
  <2>2. Usable'
    BY <1>4, <2>1 DEF BootstrapLocalProxy, Usable, Opens, HostTypeOK, Volumes
  <2> QED
    BY <2>1, <2>2 DEF Installing, Updating, Marked, IsComplete
<1>5. CASE Unmark \/ MarkComplete
  <2>1. /\ Usable /\ UNCHANGED <<env, volume>>
        /\ \/ run'.cmd = "none"
           \/ run'.cmd = "install" /\ run'.at = "complete"
    BY <1>1, <1>5, Moves DEF Unmark, MarkComplete, At, Installing, Finish
  <2>2. Usable'
    BY <2>1 DEF Usable, Opens
  <2> QED
    BY <2>1, <2>2 DEF Installing, Updating, Marked
<1> QED
  BY <1>2, <1>3, <1>4, <1>5

\* A container of the database creates it only on a host that is not finished.
LEMMA StartFinished ==
  ASSUME CompleteInv, ComposeUp \/ RecreateCores \/ Up \/ TakeDown
  PROVE  Finished
<1> USE DEF CompleteInv, Finished
<1>1. UNCHANGED <<files, bin, env>> /\ volume' \in {volume, Created}
  BY DEF ComposeUp, RecreateCores, Up, TakeDown
<1>2. IsComplete' = IsComplete /\ ~Removing
  BY <1>1 DEF IsComplete, LooksComplete, ComposeUp, RecreateCores, Up, TakeDown, At, Removing,
     Idle
<1>3. IsComplete => Usable'
  <2> SUFFICES ASSUME IsComplete PROVE Usable'
    OBVIOUS
  <2>1. Usable
    BY <1>2
  <2>2. env.role # "proxy" => volume # NoVolume
    BY <2>1 DEF Usable, Opens, NoVolume
  <2>3. volume' = volume
    BY <1>1, <2>2 DEF Created
  <2> QED
    BY <1>1, <2>1, <2>3 DEF Usable, Opens
<1>4. CASE ComposeUp
  <2>1. /\ run'.cmd = run.cmd /\ run'.at = "cores"
        /\ run.cmd = "install" => "inprogress" \in files
    BY <1>4, Moves DEF ComposeUp, At, Installing, Marked
  <2> QED
    BY <1>1, <1>2, <1>3, <2>1 DEF Installing, Updating, Marked
<1>5. CASE RecreateCores
  <2>1. /\ volume' = volume
        /\ \/ run'.cmd = "none"
           \/ /\ run'.cmd = "install" /\ "inprogress" \in files
              /\ run'.at = IF env.role = "proxy" THEN "unmark" ELSE "owner"
    BY <1>5, Moves DEF RecreateCores, At, Installing, Marked, Finish
  <2> QED
    BY <1>1, <1>2, <1>3, <2>1 DEF Installing, Updating, Marked, Usable
<1>6. CASE Up \/ TakeDown
  <2>1. run' = run /\ run.cmd = "none"
    BY <1>6 DEF Up, TakeDown, Idle
  <2> QED
    BY <1>2, <1>3, <2>1 DEF Installing, Updating
<1> QED
  BY <1>4, <1>5, <1>6

LEMMA SwitchFinished ==
  ASSUME CompleteInv, ~CutRemovals, StopCore \/ SetFlag \/ SetProfiles \/ StartEngine \/ Interrupted
  PROVE  Finished
<1> USE DEF CompleteInv, Finished
<1>1. UNCHANGED <<files, bin, volume>> /\ env'.role = env.role /\ env'.secret = env.secret
  BY DEF StopCore, SetFlag, SetProfiles, StartEngine, Interrupted, HostTypeOK, Envs
<1>2. IsComplete' = IsComplete /\ Usable' = Usable
  BY <1>1 DEF IsComplete, LooksComplete, Usable, Opens
<1>3. ~Removing
  BY DEF StopCore, SetFlag, SetProfiles, StartEngine, Interrupted, At, Removing
<1>4. run'.cmd \in {"none", "enable", "disable"}
  BY Moves DEF StopCore, SetFlag, SetProfiles, StartEngine, Interrupted, At, Finish, Abandon
<1> QED
  BY <1>2, <1>3, <1>4 DEF Installing, Updating

(***************************************************************************)
(* Commands may stop between any two of their steps, except while they     *)
(* remove the leftovers of another: a host that later commands take for    *)
(* finished has the database, the owner and the token.                     *)
(***************************************************************************)
THEOREM FinishedIsUsable == ASSUME ~CutRemovals PROVE HostSpec => []CompleteIsUsable
<1>1. HostInit => CompleteInv
  BY DEF HostInit, CompleteInv, HostTypeOK, Installing, Updating, IsComplete, LooksComplete,
         NoEnv, Envs, Roles, NoVolume, Volumes, Idle
<1>2. CompleteInv /\ [HostNext]_hostVars => CompleteInv'
  <2> SUFFICES ASSUME CompleteInv, [HostNext]_hostVars PROVE CompleteInv'
    OBVIOUS
  <2>1. CASE HostNext
    <3>1. HostTypeOK'
      BY <2>1, HostTypes DEF CompleteInv
    <3>2. Finished
      BY <2>1, BeginFinished, RemovalFinished, DeployFinished, WritesFinished, StartFinished,
         SwitchFinished DEF HostNext
    <3> QED
      BY <3>1, <3>2 DEF CompleteInv, Finished
  <2>2. CASE UNCHANGED hostVars
    BY <2>2 DEF hostVars, CompleteInv, HostTypeOK, Installing, Updating, IsComplete,
       LooksComplete,
                Removing, Usable, Opens
  <2> QED
    BY <2>1, <2>2
<1>3. CompleteInv => CompleteIsUsable
  BY DEF CompleteInv, CompleteIsUsable, Usable, Opens
<1> QED
  BY <1>1, <1>2, <1>3, PTL DEF HostSpec

-----------------------------------------------------------------------------
(***************************************************************************)
(* A core is as it was asked for.                                          *)
(***************************************************************************)
LEMMA CoreStep == CoreInv /\ [HostNext]_hostVars => CoreInv'
<1> SUFFICES ASSUME CoreInv, [HostNext]_hostVars PROVE CoreInv'
  OBVIOUS
<1> USE DEF CoreInv
<1> DEFINE Kept == Switching' /\ (run' # Idle => last' = Idle) /\ (run' = Idle => AsAsked')
<1>0. HostTypeOK'
  <2>1. CASE HostNext
    BY <2>1, HostTypes
  <2>2. CASE UNCHANGED hostVars
    BY <2>2 DEF hostVars, HostTypeOK
  <2> QED
    BY <2>1, <2>2
<1>1. /\ Idle.cmd = "none" /\ Idle.at = "idle"
      /\ last = Idle => AsAsked
  BY DEF Idle, AsAsked
<1>2. CASE UNCHANGED hostVars
  BY <1>0, <1>2 DEF hostVars, Switching, AsAsked
<1>3. CASE \/ \E role \in Roles, build \in BOOLEAN : Install(role, build)
           \/ \E b \in BOOLEAN : Update(b) \/ Uninstall(b)
           \/ \E cmd \in {"enable", "disable"}, c \in Cores : Switch(cmd, c)
  <2>1. last' = Idle /\ run'.cmd # "none"
    BY <1>3 DEF Install, Update, Uninstall, Switch
  <2>2. Switching'
    BY <1>3 DEF Install, Update, Uninstall, Switch, Switching
  <2> QED
    BY <1>0, <1>1, <2>1, <2>2
\* Another command goes on, or one that is not about a core ends.
<1>4. ASSUME HostNext, run.cmd \in {"install", "update", "uninstall"} PROVE CoreInv'
  <2>1. run # Idle /\ last = Idle
    BY <1>1, <1>4
  <2>2. run'.cmd \in {run.cmd, "none"}
    BY <1>1, <1>4, Moves DEF HostNext, Install, Update, Uninstall, Switch, Down, RemoveFile,
       RemoveBin,
       DeploySource, MarkInprogress, InstallCli, GenerateEnv, WriteCredentials, WriteConf, SyncDomains,
       ComposeUp, RecreateCores, BootstrapOwner, BootstrapLocalProxy, Unmark, MarkComplete, StopCore,
       SetFlag, SetProfiles, StartEngine, Up, TakeDown, Interrupted, At, Finish, Abandon
  <2>3. last' = last \/ (last' = run /\ run' = Idle)
    BY <1>1, <1>4 DEF HostNext, Install, Update, Uninstall, Switch, Down, RemoveFile, RemoveBin,
       DeploySource, MarkInprogress, InstallCli, GenerateEnv, WriteCredentials, WriteConf, SyncDomains,
       ComposeUp, RecreateCores, BootstrapOwner, BootstrapLocalProxy, Unmark, MarkComplete, StopCore,
       SetFlag, SetProfiles, StartEngine, Up, TakeDown, Interrupted, At, Finish, Abandon
  <2>4. Switching'
    BY <1>4, <2>2 DEF Switching
  <2>5. AsAsked' \/ run' # Idle
    BY <1>1, <1>4, <2>1, <2>3 DEF AsAsked
  <2> QED
    BY <1>0, <2>1, <2>3, <2>4, <2>5
<1>5. CASE Up \/ TakeDown
  <2>1. run' = run /\ run = Idle /\ last'.cmd \in {"up", "down"}
    BY <1>5 DEF Up, TakeDown, Idle
  <2> QED
    BY <1>0, <1>1, <2>1 DEF Switching, AsAsked
<1>6. CASE Interrupted
  <2>1. run' = Idle /\ last' = last /\ run # Idle
    BY <1>6 DEF Interrupted, Abandon
  <2> QED
    BY <1>0, <1>1, <2>1 DEF Switching, AsAsked
<1>7. CASE StopCore
  <2>1. /\ run.cmd = "disable" /\ run'.cmd = "disable" /\ run'.at = "flag" /\ run'.arg = run.arg
        /\ containers' = containers \ {run.arg} /\ last' = last
    BY <1>7, Moves DEF StopCore, At
  <2> QED
    BY <1>0, <1>1, <2>1 DEF Switching
<1>8. CASE SetFlag
  <2>1. /\ run.cmd \in {"enable", "disable"} /\ run.at = "flag" /\ run'.cmd = run.cmd
        /\ run'.at = "profiles" /\ run'.arg = run.arg /\ containers' = containers /\ last' = last
    BY <1>8, Moves DEF SetFlag, At
  <2>2. env'.cores = IF run.cmd = "enable" THEN env.cores \union {run.arg} ELSE env.cores \ {run.arg}
    BY <1>8 DEF SetFlag, HostTypeOK, Envs
  <2> QED
    BY <1>0, <1>1, <2>1, <2>2 DEF Switching
<1>9. CASE SetProfiles
  <2>1. /\ run.cmd \in {"enable", "disable"} /\ run.at = "profiles" /\ containers' = containers
        /\ \/ run.cmd = "enable" /\ run'.cmd = "enable" /\ run'.at = "start" /\ run'.arg = run.arg /\ last' = last
           \/ run.cmd = "disable" /\ run' = Idle /\ last' = run
    BY <1>9, Moves DEF SetProfiles, At, Finish
  <2>2. /\ env'.cores = env.cores /\ env'.role = env.role
        /\ env.role # "panel" => env'.profiles = env.cores
    BY <1>9 DEF SetProfiles, Profiles, HostTypeOK, Envs
  <2> QED
    BY <1>0, <1>1, <2>1, <2>2 DEF Switching, AsAsked
<1>10. CASE StartEngine
  <2>1. /\ run.cmd = "enable" /\ run.at = "start" /\ run' = Idle /\ last' = run
        /\ env' = env /\ containers' = containers \union {run.arg}
    BY <1>10 DEF StartEngine, At, Finish
  <2> QED
    BY <1>0, <1>1, <2>1 DEF Switching, AsAsked
<1>11. ASSUME HostNext, run.cmd \in {"none", "enable", "disable"}
       PROVE  \/ \E role \in Roles, build \in BOOLEAN : Install(role, build)
              \/ \E b \in BOOLEAN : Update(b) \/ Uninstall(b)
              \/ \E cmd \in {"enable", "disable"}, c \in Cores : Switch(cmd, c)
              \/ Up \/ TakeDown \/ Interrupted \/ StopCore \/ SetFlag \/ SetProfiles \/ StartEngine
  BY <1>11 DEF HostNext, Down, RemoveFile, RemoveBin, DeploySource, MarkInprogress, InstallCli,
     GenerateEnv, WriteCredentials, WriteConf, SyncDomains, ComposeUp, RecreateCores, BootstrapOwner,
     BootstrapLocalProxy, Unmark, MarkComplete, At
<1> QED
  BY <1>2, <1>3, <1>4, <1>5, <1>6, <1>7, <1>8, <1>9, <1>10, <1>11 DEF HostTypeOK

(***************************************************************************)
(* Enabling or disabling a core that ran to its end has done all of it,    *)
(* whatever was interrupted before.                                        *)
(***************************************************************************)
THEOREM CoreIsAsAsked == HostSpec => []CoreAsAsked
<1>1. HostInit => CoreInv
  BY DEF HostInit, CoreInv, HostTypeOK, Switching, AsAsked, NoEnv, Envs, Roles, NoVolume,
     Volumes, Idle
<1>2. CoreInv => CoreAsAsked
  BY DEF CoreInv, CoreAsAsked, AsAsked
<1> QED
  BY <1>1, <1>2, CoreStep, PTL DEF HostSpec

-----------------------------------------------------------------------------
(***************************************************************************)
(* Backups.                                                                *)
(***************************************************************************)
RowStatuses == [Artifacts -> {"none", "RUNNING", "SUCCEEDED", "FAILED", "DELETED"}]
Contents == [kind: {"DATABASE", "CORE_CONFIG", "FULL"}, data: Nat, clean: BOOLEAN,
             rows: RowStatuses, core: Nat, quiet: BOOLEAN]
Lives == [data: Nat \ {0}, clean: BOOLEAN, core: Nat, rows: RowStatuses]
StoredFiles == {NoFile, Half} \cup [whole: {TRUE}, there: {TRUE}, content: Contents]
Ended == {"record", "discard", "idle"}
Parted == [at: {"collect", "write", "record"},
           left: {<<>>, <<"dump">>, <<"stage">>, <<"dump", "stage">>}, content: Contents]
Makings == {Unmade, Rest, [at |-> "discard"]} \cup Parted
Restorings == {Rest, [at |-> "read"], [at |-> "fail"]}
              \cup [at: {"database", "core", "record", "fail"}, content: Contents]

BackupTypeOK ==
  /\ live \in Lives
  /\ stored \in [Artifacts -> StoredFiles]
  /\ making \in [Artifacts -> Makings]
  /\ restoring \in [Artifacts -> Restorings]
  /\ applying \in {Rest} \cup [at: {"loaded"}, data: Nat \ {0}]
  /\ counted \in [versions: Nat, restores: Nat, crashes: Nat]

\* The file of an artifact is done with, and is whole or not there.
Sound(i) == making[i].at \in Ended /\ (stored[i].there => stored[i].whole)

\* Wherever rows are kept, they call nothing else SUCCEEDED.
Safe(r) == \A i \in Artifacts: r[i] = "SUCCEEDED" => Sound(i)

GoodContent(c) ==
  /\ c.kind # "CORE_CONFIG" => c.data # 0
  /\ c.kind = "FULL" /\ c.quiet => Honest(c.data, c.clean, c.core)
  /\ Safe(c.rows)

\* What is collected: nothing, the database of two parts, or everything.
Dumped(c) ==
  /\ c.kind = "FULL" /\ c.data # 0 /\ Safe(c.rows)
  /\ c.quiet => c.data = live.data /\ Honest(c.data, c.clean, live.core)

Collected(m) ==
  \/ m.left = Parts(m.content.kind) /\ m.content = Blank(m.content.kind)
  \/ m.left = <<"stage">> /\ Dumped(m.content)
  \/ m.left = <<>> /\ GoodContent(m.content)

Made(i) ==
  /\ making[i].at = "collect" => Collected(making[i])
  /\ making[i].at \in {"write", "record"} => GoodContent(making[i].content)
  /\ making[i].at = "record" => (stored[i].there => stored[i].whole)

Stored(i) ==
  stored[i].whole => stored[i].there /\ making[i].at \in Ended /\ GoodContent(stored[i].content)

Restored(i) ==
  /\ restoring[i].at \in {"database", "core", "record"} => Sound(i)
  /\ restoring[i].at \in {"database", "core"} => GoodContent(restoring[i].content)
  /\ restoring[i].at = "database" => restoring[i].content.kind # "CORE_CONFIG"

BackupInv ==
  /\ BackupTypeOK /\ Safe(live.rows)
  /\ \A i \in Artifacts: Made(i) /\ Stored(i) /\ Restored(i)

\* No step takes back what a file has become: it may go, and that is all.
Onward ==
  \A i \in Artifacts: making[i].at \in Ended =>
    making'[i].at \in Ended /\ stored'[i] \in {stored[i], NoFile}

LEMMA SoundStays ==
  ASSUME BackupTypeOK, Onward
  PROVE  /\ \A i \in Artifacts: Sound(i) => Sound(i)'
         /\ \A r: Safe(r) => Safe(r)'
         /\ \A c: GoodContent(c) => GoodContent(c)'
<1>1. ASSUME NEW i \in Artifacts, Sound(i) PROVE Sound(i)'
  BY <1>1 DEF Onward, Sound, NoFile
<1>2. ASSUME NEW r, Safe(r) PROVE Safe(r)'
  BY <1>1, <1>2 DEF Safe
<1>3. ASSUME NEW c, GoodContent(c) PROVE GoodContent(c)'
  BY <1>2, <1>3 DEF GoodContent
<1> QED
  BY <1>1, <1>2, <1>3

\* An artifact that a step leaves alone.
LEMMA MadeStays ==
  ASSUME BackupInv, Onward, NEW i \in Artifacts, making'[i] = making[i],
         stored'[i] \in {stored[i], NoFile}, live'.data = live.data, live'.core = live.core
  PROVE  Made(i)'
<1>1. PICK m : m = making[i]
  OBVIOUS
<1>2. Made(i)
  BY DEF BackupInv
<1>3. GoodContent(m.content) => GoodContent(m.content)'
  BY SoundStays DEF BackupInv
<1>4. Safe(m.content.rows) => Safe(m.content.rows)'
  BY SoundStays DEF BackupInv
<1>5. Dumped(m.content) => Dumped(m.content)'
  BY <1>4 DEF Dumped
<1>6. Collected(m) => Collected(m)'
  BY <1>3, <1>5 DEF Collected
<1> QED
  BY <1>1, <1>2, <1>3, <1>6 DEF Made, NoFile

LEMMA StoredStays ==
  ASSUME BackupInv, Onward, NEW i \in Artifacts, stored'[i] \in {stored[i], NoFile}
  PROVE  Stored(i)'
<1>1. PICK f : f = stored[i]
  OBVIOUS
<1>2. GoodContent(f.content) => GoodContent(f.content)'
  BY SoundStays DEF BackupInv
<1> QED
  BY <1>1, <1>2 DEF BackupInv, Stored, NoFile, Onward

LEMMA RestoredStays ==
  ASSUME BackupInv, Onward, NEW i \in Artifacts, restoring'[i] = restoring[i]
  PROVE  Restored(i)'
<1>1. PICK r : r = restoring[i]
  OBVIOUS
<1>2. /\ GoodContent(r.content) => GoodContent(r.content)'
      /\ Sound(i) => Sound(i)'
  BY SoundStays DEF BackupInv
<1> QED
  BY <1>1, <1>2 DEF BackupInv, Restored

LEMMA RowsStay ==
  ASSUME BackupInv, Onward, live'.rows = live.rows
  PROVE  Safe(live.rows)'
<1>1. PICK r : r = live.rows
  OBVIOUS
<1>2. Safe(r)'
  BY <1>1, SoundStays DEF BackupInv
<1> QED
  BY <1>1, <1>2 DEF Safe

\* A row that is written: SUCCEEDED only of a sound artifact.
LEMMA RowWritten ==
  ASSUME BackupInv, Onward, NEW i \in Artifacts,
         NEW s \in {"none", "RUNNING", "SUCCEEDED", "FAILED", "DELETED"},
         SetRow(i, s), s = "SUCCEEDED" => Sound(i)
  PROVE  /\ live' \in Lives /\ live'.data = live.data /\ live'.core = live.core
         /\ Safe(live.rows)'
<1>1. live \in Lives /\ live' = [live EXCEPT !.rows[i] = s]
  BY DEF BackupInv, BackupTypeOK, SetRow
<1>2. /\ live' \in Lives /\ live'.data = live.data /\ live'.core = live.core
      /\ live'.rows = [live.rows EXCEPT ![i] = s]
  BY <1>1 DEF Lives, RowStatuses
<1>3. \A k \in Artifacts: Sound(k) => Sound(k)'
  BY SoundStays DEF BackupInv
<1>4. \A k \in Artifacts: live'.rows[k] = "SUCCEEDED" => Sound(k)
  BY <1>1, <1>2 DEF BackupInv, Safe, Lives, RowStatuses
<1>5. Safe(live.rows)'
  BY <1>3, <1>4 DEF Safe
<1> QED
  BY <1>2, <1>5

\* What is disturbed stays as far as it was, and is no longer quiet.
LEMMA DisturbedStays ==
  ASSUME BackupInv, making' = Disturbed, stored' = stored
  PROVE  /\ making' \in [Artifacts -> Makings] /\ Onward
         /\ \A i \in Artifacts: Made(i)'
<1>1. BackupTypeOK
  BY DEF BackupInv
<1>2. ASSUME NEW i \in Artifacts
      PROVE  /\ making'[i] \in Makings /\ making'[i].at = making[i].at
             /\ making'[i] = making[i] \/
                (making[i] \in Parted /\ making'[i] = [making[i] EXCEPT !.content.quiet = FALSE])
             /\ making[i] \in Parted /\ making[i].at = "collect"
                  /\ making[i].content.data # 0 =>
                    making'[i] = [making[i] EXCEPT !.content.quiet = FALSE]
  <2>1. making[i] \in Makings
    BY <1>1 DEF BackupTypeOK
  <2>2. CASE ~Begun(making[i])
    <3>1. making'[i] = making[i]
      BY <2>2 DEF Disturbed
    <3>2. making[i] \in Parted => making[i].content.data \in Nat /\ making[i].content.core \in Nat
      BY DEF Parted, Contents
    <3> QED
      BY <2>1, <2>2, <3>1, <3>2 DEF Begun
  <2>3. CASE Begun(making[i])
    <3>1. making'[i] = [making[i] EXCEPT !.content.quiet = FALSE]
      BY <2>3 DEF Disturbed
    <3>2. making[i] \in Parted
      BY <2>1, <2>3 DEF Begun, Makings, Unmade, Rest
    <3>3. making'[i] \in Parted /\ making'[i].at = making[i].at
      BY <3>1, <3>2 DEF Parted, Contents
    <3> QED
      BY <3>1, <3>2, <3>3 DEF Makings
  <2> QED
    BY <2>2, <2>3
<1>3. making' \in [Artifacts -> Makings]
  BY <1>2 DEF Disturbed
<1>4. Onward
  BY <1>2 DEF Onward
<1>5. ASSUME NEW i \in Artifacts PROVE Made(i)'
  <2>1. PICK m, n : m = making[i] /\ n = making'[i]
    OBVIOUS
  <2>2. /\ Made(i) /\ n.at = m.at
        /\ n = m \/ (m \in Parted /\ n = [m EXCEPT !.content.quiet = FALSE])
        /\ m \in Parted /\ m.at = "collect" /\ m.content.data # 0 =>
             n = [m EXCEPT !.content.quiet = FALSE]
        /\ m \in Makings
    BY <1>1, <1>2, <2>1 DEF BackupInv, BackupTypeOK
  <2>3. /\ \A r: Safe(r) => Safe(r)'
        /\ \A c: GoodContent(c) => GoodContent(c)'
    BY <1>1, <1>4, SoundStays
  <2>4. GoodContent(m.content) => GoodContent(n.content)'
    <3>1. CASE n = m
      BY <2>3, <3>1
    <3>2. CASE m \in Parted /\ n = [m EXCEPT !.content.quiet = FALSE]
      <4>1. /\ n.content.kind = m.content.kind /\ n.content.data = m.content.data
            /\ n.content.rows = m.content.rows /\ ~n.content.quiet
        BY <3>2 DEF Parted, Contents
      <4>2. Safe(m.content.rows) => Safe(m.content.rows)'
        BY <2>3
      <4> QED
        BY <4>1, <4>2 DEF GoodContent
    <3> QED
      BY <2>2, <3>1, <3>2
  <2>5. m.at = "collect" => Collected(n)'
    <3> SUFFICES ASSUME m.at = "collect" PROVE Collected(n)'
      OBVIOUS
    <3>1. m \in Parted /\ Collected(m)
      BY <2>1, <2>2 DEF Makings, Unmade, Rest, Made
    <3>2. n.left = m.left
      BY <2>2, <3>1 DEF Parted
    <3>3. CASE m.left = Parts(m.content.kind) /\ m.content = Blank(m.content.kind)
      <4>1. n.content = m.content
        <5>1. PICK c \in Contents : c = m.content
          BY <3>1 DEF Parted
        <5>2. c.quiet = FALSE
          BY <3>3, <5>1 DEF Blank
        <5>3. [c EXCEPT !.quiet = FALSE] = c
          BY <5>2 DEF Contents
        <5>4. n = m \/ n.content = [c EXCEPT !.quiet = FALSE]
          BY <2>2, <3>1, <5>1 DEF Parted
        <5> QED
          BY <5>1, <5>3, <5>4
      <4> QED
        BY <3>2, <3>3, <4>1 DEF Collected
    <3>4. CASE m.left = <<"stage">> /\ Dumped(m.content)
      <4>1. n = [m EXCEPT !.content.quiet = FALSE]
        BY <2>2, <3>1, <3>4 DEF Dumped
      <4>2. /\ n.content.kind = m.content.kind /\ n.content.data = m.content.data
            /\ n.content.rows = m.content.rows /\ ~n.content.quiet
        BY <3>1, <4>1 DEF Parted, Contents
      <4>3. Safe(m.content.rows) => Safe(m.content.rows)'
        BY <2>3
      <4> QED
        BY <3>2, <3>4, <4>2, <4>3 DEF Collected, Dumped
    <3>5. CASE m.left = <<>> /\ GoodContent(m.content)
      BY <2>4, <3>2, <3>5 DEF Collected
    <3> QED
      BY <3>1, <3>3, <3>4, <3>5 DEF Collected
  <2> QED
    BY <2>1, <2>2, <2>4, <2>5 DEF Made
<1> QED
  BY <1>3, <1>4, <1>5

-----------------------------------------------------------------------------
LEMMA SystemKeeps ==
  ASSUME BackupInv, Change \/ LoadState \/ Deploy
  PROVE  BackupInv'
<1>1. BackupTypeOK
  BY DEF BackupInv
<1>2. /\ stored' = stored /\ restoring' = restoring /\ live' \in Lives /\ live'.rows = live.rows
      /\ applying' \in {Rest} \cup [at: {"loaded"}, data: Nat \ {0}]
      /\ counted' \in [versions: Nat, restores: Nat, crashes: Nat]
  <2>1. CASE Change
    <3>1. PICK n \in Nat : n = counted.versions
      BY <1>1 DEF BackupTypeOK
    <3>2. /\ live' = [live EXCEPT !.data = n + 1, !.clean = FALSE]
          /\ counted' = [counted EXCEPT !.versions = n + 1]
          /\ UNCHANGED <<stored, restoring, applying>>
      BY <2>1, <3>1 DEF Change
    <3>3. n + 1 \in Nat \ {0}
      OBVIOUS
    <3>4. live' \in Lives /\ live'.rows = live.rows
      BY <1>1, <3>2, <3>3 DEF BackupTypeOK, Lives
    <3> QED
      BY <1>1, <3>2, <3>3, <3>4 DEF BackupTypeOK
  <2>2. CASE LoadState
    BY <1>1, <2>2 DEF LoadState, BackupTypeOK, Lives
  <2>3. CASE Deploy
    <3>1. applying.data \in Nat \ {0}
      BY <1>1, <2>3 DEF Deploy, BackupTypeOK
    <3>2. PICK b \in BOOLEAN : b = (live.clean \/ live.data = applying.data)
      BY <1>1 DEF BackupTypeOK, Lives
    <3>3. live' = [live EXCEPT !.core = applying.data, !.clean = b]
      BY <2>3, <3>2 DEF Deploy
    <3> QED
      BY <1>1, <2>3, <3>1, <3>3 DEF Deploy, BackupTypeOK, Lives
  <2> QED
    BY <2>1, <2>2, <2>3
<1>3. making' \in [Artifacts -> Makings] /\ Onward /\ \A i \in Artifacts: Made(i)'
  <2>1. CASE making' = Disturbed
    BY <1>2, <2>1, DisturbedStays
  <2>2. CASE making' = making /\ live' = live
    <3>1. Onward
      BY <1>2, <2>2 DEF Onward
    <3> QED
      BY <1>1, <1>2, <2>2, <3>1, MadeStays DEF BackupTypeOK
  <2>3. CASE making' = making /\ live'.data = live.data /\ live'.core = live.data
    <3>1. Onward
      BY <1>2, <2>3 DEF Onward
    <3>2. ASSUME NEW i \in Artifacts PROVE Made(i)'
      <4>1. PICK m : m = making[i] /\ m = making'[i]
        BY <2>3
      <4>2. /\ Made(i)
            /\ GoodContent(m.content) => GoodContent(m.content)'
            /\ Safe(m.content.rows) => Safe(m.content.rows)'
        BY <1>1, <3>1, SoundStays DEF BackupInv
      <4>3. Dumped(m.content) => Dumped(m.content)'
        BY <2>3, <4>2 DEF Dumped, Honest
      <4>4. Collected(m) => Collected(m)'
        BY <4>2, <4>3 DEF Collected
      <4> QED
        BY <1>2, <4>1, <4>2, <4>4 DEF Made
    <3> QED
      BY <1>1, <2>3, <3>1, <3>2 DEF BackupTypeOK
  <2>4. CASE Deploy /\ applying.data = live.data
    BY <1>1, <2>3, <2>4 DEF Deploy, BackupTypeOK, Lives
  <2>5. \/ making' = Disturbed
        \/ making' = making /\ live' = live
        \/ Deploy /\ applying.data = live.data
    BY DEF Change, LoadState, Deploy
  <2> QED
    BY <2>1, <2>2, <2>4, <2>5
<1>4. Safe(live.rows)' /\ \A i \in Artifacts: Stored(i)' /\ Restored(i)'
  BY <1>2, <1>3, RowsStay, StoredStays, RestoredStays
<1> QED
  BY <1>1, <1>2, <1>3, <1>4 DEF BackupInv, BackupTypeOK

\* A step of one artifact leaves the others as they are.
LEMMA OneMoves ==
  ASSUME BackupInv, NEW i \in Artifacts, Onward,
         NEW m \in Makings, NEW f \in StoredFiles, NEW r \in Restorings,
         making' = [making EXCEPT ![i] = m], stored' = [stored EXCEPT ![i] = f],
         restoring' = [restoring EXCEPT ![i] = r],
         live' \in Lives, live'.data = live.data, live'.core = live.core, Safe(live.rows)',
         applying' \in {Rest} \cup [at: {"loaded"}, data: Nat \ {0}],
         counted' \in [versions: Nat, restores: Nat, crashes: Nat],
         Made(i)' /\ Stored(i)' /\ Restored(i)'
  PROVE  BackupInv'
<1>1. BackupTypeOK'
  BY DEF BackupInv, BackupTypeOK
<1>2. ASSUME NEW k \in Artifacts \ {i} PROVE Made(k)' /\ Stored(k)' /\ Restored(k)'
  <2>1. making'[k] = making[k] /\ stored'[k] = stored[k] /\ restoring'[k] = restoring[k]
    BY DEF BackupInv, BackupTypeOK
  <2> QED
    BY <2>1, MadeStays, StoredStays, RestoredStays
<1> QED
  BY <1>1, <1>2 DEF BackupInv

\* A step of making an artifact that leaves its file and the restores alone.
LEMMA MakingMoves ==
  ASSUME BackupInv, NEW i \in Artifacts, NEW m \in Makings,
         making' = [making EXCEPT ![i] = m], stored' = stored, restoring' = restoring,
         making[i].at \in Ended => m.at \in Ended,
         live' \in Lives, live'.data = live.data, live'.core = live.core, Safe(live.rows)',
         UNCHANGED <<applying, counted>>, Made(i)'
  PROVE  BackupInv'
<1>1. BackupTypeOK /\ Onward
  BY DEF BackupInv, BackupTypeOK, Onward
<1>2. PICK f \in StoredFiles, r \in Restorings : f = stored[i] /\ r = restoring[i]
  BY <1>1 DEF BackupTypeOK
<1>3. stored' = [stored EXCEPT ![i] = f] /\ restoring' = [restoring EXCEPT ![i] = r]
  BY <1>1, <1>2 DEF BackupTypeOK
<1>4. Stored(i)' /\ Restored(i)'
  BY <1>1, StoredStays, RestoredStays
<1> QED
  BY <1>1, <1>3, <1>4, OneMoves DEF BackupTypeOK

LEMMA CreateKeeps ==
  ASSUME BackupInv, NEW i \in Artifacts, Create(i)
  PROVE  BackupInv'
<1>1. PICK kind \in Kinds :
        making' = [making EXCEPT ![i] =
                     [at |-> "collect", left |-> Parts(kind), content |-> Blank(kind)]]
  BY DEF Create
<1>2. PICK m : m = [at |-> "collect", left |-> Parts(kind), content |-> Blank(kind)]
  OBVIOUS
<1>3. kind \in {"DATABASE", "CORE_CONFIG", "FULL"}
  BY BackupConstants
<1>4. Blank(kind) \in Contents
  <2>1. NoRows \in RowStatuses
    BY DEF NoRows, RowStatuses
  <2> QED
    BY <1>3, <2>1 DEF Blank, Contents
<1>5. Parts(kind) \in {<<>>, <<"dump">>, <<"stage">>, <<"dump", "stage">>}
  BY DEF Parts
<1>6. m \in Makings
  BY <1>2, <1>4, <1>5 DEF Makings, Parted
<1>7. /\ BackupTypeOK /\ SetRow(i, "RUNNING") /\ making[i] = Unmade
      /\ UNCHANGED <<stored, restoring, applying, counted>>
  BY DEF Create, BackupInv
<1>8. making'[i] = m
  BY <1>1, <1>2, <1>7 DEF BackupTypeOK
<1>9. making[i].at \notin Ended
  BY <1>7 DEF Unmade, Ended
<1>10. Onward
  BY <1>1, <1>7, <1>9 DEF Onward, BackupTypeOK
<1>11. live' \in Lives /\ live'.data = live.data /\ live'.core = live.core /\ Safe(live.rows)'
  BY <1>7, <1>10, RowWritten
<1>12. Made(i)'
  <2>1. m.at = "collect" /\ m.left = Parts(m.content.kind) /\ m.content = Blank(m.content.kind)
    BY <1>2 DEF Blank
  <2> QED
    BY <1>8, <2>1 DEF Made, Collected
<1> QED
  BY <1>1, <1>2, <1>6, <1>7, <1>9, <1>11, <1>12, MakingMoves

\* What a call that collects may have left, by kind.
LEMMA Collecting ==
  ASSUME BackupInv, NEW i \in Artifacts, making[i].at \in {"collect", "write", "record"}
  PROVE  /\ making[i] \in Parted
         /\ making[i].at = "collect" => Collected(making[i])
         /\ making[i].content \in Contents
  BY DEF BackupInv, BackupTypeOK, Makings, Unmade, Rest, Made, Parted

LEMMA DumpKeeps ==
  ASSUME BackupInv, NEW i \in Artifacts, DumpDatabase(i)
  PROVE  BackupInv'
<1>1. /\ making[i].at = "collect" /\ making[i].left # <<>> /\ Head(making[i].left) = "dump"
      /\ UNCHANGED <<live, stored, restoring, applying, counted>>
  BY DEF DumpDatabase, Collect
<1>2. PICK m \in Parted, c \in Contents : m = making[i] /\ c = m.content
  BY <1>1, Collecting
<1>3. Collected(m) /\ m.at = "collect"
  BY <1>1, <1>2, Collecting
<1>4. m.left = Parts(c.kind) /\ c = Blank(c.kind)
  BY <1>1, <1>2, <1>3 DEF Collected
<1>5. \/ c.kind = "DATABASE" /\ Tail(m.left) = <<>>
      \/ c.kind = "FULL" /\ Tail(m.left) = <<"stage">>
  BY <1>1, <1>2, <1>4 DEF Parts, Contents
<1>6. live \in Lives /\ Safe(live.rows)
  BY DEF BackupInv, BackupTypeOK
<1>7. PICK q \in BOOLEAN : q = Honest(live.data, live.clean, live.core)
  BY DEF Honest
<1>8. Quiet(m) = q
  <2>1. ~Begun(m)
    BY <1>2, <1>4 DEF Begun, Blank
  <2> QED
    BY <1>7, <2>1 DEF Quiet
<1>9. PICK d \in Contents : d = [c EXCEPT !.data = live.data, !.clean = live.clean,
                                          !.rows = live.rows, !.quiet = q]
  BY <1>6 DEF Contents, Lives
<1>10. PICK n \in Parted : n = [m EXCEPT !.left = Tail(@), !.content = d]
  BY <1>5 DEF Parted
<1>11. making' = [making EXCEPT ![i] = n]
  <2>1. making' = [making EXCEPT ![i].left = Tail(@),
                     ![i].content = [@ EXCEPT !.data = live.data, !.clean = live.clean,
                                           !.rows = live.rows, !.quiet = Quiet(making[i])]]
    BY DEF DumpDatabase
  <2>2. making \in [Artifacts -> Makings]
    BY DEF BackupInv, BackupTypeOK
  <2> QED
    BY <1>2, <1>8, <1>9, <1>10, <2>1, <2>2
<1>12. /\ n.at = "collect" /\ n.left = Tail(m.left) /\ n.content = d
       /\ d.kind = c.kind /\ d.data = live.data /\ d.clean = live.clean /\ d.rows = live.rows
       /\ d.quiet = q
  BY <1>2, <1>3, <1>9, <1>10 DEF Parted, Contents
<1>13. /\ making'[i] = n /\ making[i].at \notin Ended
       /\ live' = live
  BY <1>1, <1>11 DEF BackupInv, BackupTypeOK, Ended
<1>14. Onward
  BY <1>1, <1>11, <1>13 DEF Onward, BackupInv, BackupTypeOK
<1>15. Safe(live.rows)' /\ Safe(d.rows)'
  <2>1. Safe(d.rows)
    BY <1>6, <1>12
  <2> QED
    BY <1>13, <1>14, <2>1, RowsStay, SoundStays DEF BackupInv
<1>16. Made(i)'
  <2>1. d.data # 0
    BY <1>6, <1>12 DEF Lives
  <2>2. CASE c.kind = "DATABASE" /\ n.left = <<>>
    <3>1. GoodContent(d)'
      BY <1>12, <1>15, <2>1, <2>2 DEF GoodContent
    <3> QED
      BY <1>12, <1>13, <2>2, <3>1 DEF Made, Collected
  <2>3. CASE c.kind = "FULL" /\ n.left = <<"stage">>
    <3>1. Dumped(d)'
      BY <1>7, <1>12, <1>13, <1>15, <2>1, <2>3 DEF Dumped
    <3> QED
      BY <1>12, <1>13, <2>3, <3>1 DEF Made, Collected
  <2> QED
    BY <1>5, <1>12, <2>2, <2>3
<1>17. n \in Makings
  BY DEF Makings
<1> QED
  BY <1>1, <1>6, <1>11, <1>13, <1>15, <1>16, <1>17, MakingMoves

LEMMA StageKeeps ==
  ASSUME BackupInv, NEW i \in Artifacts, StageCoreFiles(i)
  PROVE  BackupInv'
<1>1. /\ making[i].at = "collect" /\ making[i].left # <<>> /\ Head(making[i].left) = "stage"
      /\ UNCHANGED <<live, stored, restoring, applying, counted>>
  BY DEF StageCoreFiles, Collect
<1>2. PICK m \in Parted, c \in Contents : m = making[i] /\ c = m.content
  BY <1>1, Collecting
<1>3. Collected(m) /\ m.at = "collect"
  BY <1>1, <1>2, Collecting
<1>4. live \in Lives /\ Safe(live.rows)
  BY DEF BackupInv, BackupTypeOK
<1>5. \/ c.kind = "CORE_CONFIG" /\ m.left = <<"stage">> /\ c = Blank(c.kind)
      \/ c.kind = "FULL" /\ m.left = <<"stage">> /\ Dumped(c)
  BY <1>1, <1>2, <1>3 DEF Collected, Parts, Contents, Dumped
<1>6. PICK q \in BOOLEAN : q = Quiet(m)
  BY <1>2 DEF Quiet, Honest, Contents
<1>7. PICK d \in Contents : d = [c EXCEPT !.core = live.core, !.quiet = q]
  BY <1>4 DEF Contents, Lives
<1>8. PICK n \in Parted : n = [m EXCEPT !.left = <<>>, !.content = d]
  BY DEF Parted
<1>9. making' = [making EXCEPT ![i] = n]
  <2>1. making' = [making EXCEPT ![i].left = Tail(@),
                     ![i].content = [@ EXCEPT !.core = live.core, !.quiet = Quiet(making[i])]]
    BY DEF StageCoreFiles
  <2>2. making \in [Artifacts -> Makings]
    BY DEF BackupInv, BackupTypeOK
  <2>3. m.left = <<"stage">>
    BY <1>5
  <2>4. Tail(m.left) = <<>>
    BY <2>3
  <2> QED
    BY <1>2, <1>6, <1>7, <1>8, <2>1, <2>2, <2>4
<1>10. /\ n.at = "collect" /\ n.left = <<>> /\ n.content = d
       /\ d.kind = c.kind /\ d.data = c.data /\ d.clean = c.clean /\ d.rows = c.rows
       /\ d.core = live.core /\ d.quiet = q
  BY <1>2, <1>3, <1>7, <1>8 DEF Parted, Contents
<1>11. /\ making'[i] = n /\ making[i].at \notin Ended
       /\ live' = live
  BY <1>1, <1>9 DEF BackupInv, BackupTypeOK, Ended
<1>12. Onward
  BY <1>1, <1>9, <1>11 DEF Onward, BackupInv, BackupTypeOK
<1>13. GoodContent(d)
  <2>1. CASE c.kind = "CORE_CONFIG" /\ c = Blank(c.kind)
    <3>1. Safe(c.rows)
      BY <2>1 DEF Safe, Blank, NoRows
    <3> QED
      BY <1>10, <2>1, <3>1 DEF GoodContent
  <2>2. CASE c.kind = "FULL" /\ Dumped(c)
    <3>1. Begun(m)
      BY <1>2, <1>3, <2>2 DEF Begun, Dumped, Contents
    <3>2. q => c.quiet
      BY <1>2, <1>6, <3>1 DEF Quiet
    <3> QED
      BY <1>10, <2>2, <3>2 DEF GoodContent, Dumped, Honest
  <2> QED
    BY <1>5, <2>1, <2>2
<1>14. GoodContent(d)' /\ Safe(live.rows)'
  BY <1>11, <1>12, <1>13, RowsStay, SoundStays DEF BackupInv
<1>15. Made(i)' /\ n \in Makings
  BY <1>10, <1>11, <1>14 DEF Made, Collected, Makings
<1> QED
  BY <1>1, <1>4, <1>9, <1>11, <1>14, <1>15, MakingMoves

LEMMA BeginFileKeeps ==
  ASSUME BackupInv, NEW i \in Artifacts, BeginFile(i)
  PROVE  BackupInv'
<1>1. /\ making[i].at = "collect" /\ making[i].left = <<>>
      /\ UNCHANGED <<live, restoring, applying, counted>>
      /\ making' = [making EXCEPT ![i].at = "write"]
      /\ stored' = [stored EXCEPT ![i] = Half]
  BY DEF BeginFile
<1>2. PICK m \in Parted, c \in Contents : m = making[i] /\ c = m.content
  BY <1>1, Collecting
<1>3. GoodContent(c)
  BY <1>1, <1>2, Collecting DEF Collected, Parts
<1>4. PICK n \in Parted : n = [m EXCEPT !.at = "write"]
  BY DEF Parted
<1>5. n.at = "write" /\ n.content = c
  BY <1>2, <1>4 DEF Parted
<1>6. /\ BackupTypeOK /\ making' = [making EXCEPT ![i] = n] /\ making'[i] = n
      /\ stored'[i] = Half /\ making[i].at \notin Ended
      /\ n \in Makings /\ Half \in StoredFiles
  BY <1>1, <1>2, <1>4 DEF BackupInv, BackupTypeOK, Makings, StoredFiles, Ended
<1>7. Onward
  BY <1>1, <1>6 DEF Onward, BackupTypeOK
<1>8. GoodContent(c)' /\ Safe(live.rows)' /\ Restored(i)'
  BY <1>1, <1>3, <1>6, <1>7, SoundStays, RowsStay, RestoredStays
<1>9. Made(i)' /\ Stored(i)'
  BY <1>5, <1>6, <1>8 DEF Made, Stored, Half
<1>10. PICK r \in Restorings : restoring' = [restoring EXCEPT ![i] = r]
  BY <1>1, <1>6 DEF BackupTypeOK
<1> QED
  BY <1>1, <1>6, <1>7, <1>8, <1>9, <1>10, OneMoves DEF BackupTypeOK

LEMMA EndFileKeeps ==
  ASSUME BackupInv, NEW i \in Artifacts, EndFile(i)
  PROVE  BackupInv'
<1>1. /\ making[i].at = "write"
      /\ UNCHANGED <<live, restoring, applying, counted>>
      /\ making' = [making EXCEPT ![i].at = "record"]
      /\ stored' = [stored EXCEPT ![i] =
            IF @.there THEN [whole |-> TRUE, there |-> TRUE, content |-> making[i].content]
            ELSE @]
  BY DEF EndFile
<1>2. PICK m \in Parted, c \in Contents : m = making[i] /\ c = m.content
  BY <1>1, Collecting
<1>3. GoodContent(c) /\ ~stored[i].whole
  BY <1>1, <1>2 DEF BackupInv, Made, Stored, Ended
<1>4. PICK n \in Parted : n = [m EXCEPT !.at = "record"]
  BY DEF Parted
<1>5. n.at = "record" /\ n.content = c
  BY <1>2, <1>4 DEF Parted
<1>6. PICK f \in StoredFiles :
        /\ f = IF stored[i].there THEN [whole |-> TRUE, there |-> TRUE, content |-> c]
               ELSE stored[i]
        /\ f.there => f.whole
        /\ f.whole => f.there /\ f.content = c
  <2>1. stored[i] \in StoredFiles
    BY DEF BackupInv, BackupTypeOK
  <2>2. PICK f \in StoredFiles :
          f = IF stored[i].there THEN [whole |-> TRUE, there |-> TRUE, content |-> c] ELSE stored[i]
    BY <2>1 DEF StoredFiles
  <2> QED
    BY <1>3, <2>2
<1>7. /\ BackupTypeOK /\ making' = [making EXCEPT ![i] = n] /\ making'[i] = n
      /\ stored' = [stored EXCEPT ![i] = f] /\ stored'[i] = f /\ making[i].at \notin Ended
      /\ n \in Makings
  BY <1>1, <1>2, <1>4, <1>6 DEF BackupInv, BackupTypeOK, Makings, Ended
<1>8. Onward
  BY <1>1, <1>7 DEF Onward, BackupTypeOK
<1>9. GoodContent(c)' /\ Safe(live.rows)' /\ Restored(i)'
  BY <1>1, <1>3, <1>7, <1>8, SoundStays, RowsStay, RestoredStays
<1>10. Made(i)' /\ Stored(i)'
  BY <1>5, <1>6, <1>7, <1>9 DEF Made, Stored, Ended
<1>11. PICK r \in Restorings : restoring' = [restoring EXCEPT ![i] = r]
  BY <1>1, <1>7 DEF BackupTypeOK
<1> QED
  <2>1. live' \in Lives /\ live'.data = live.data /\ live'.core = live.core
    BY <1>1, <1>7 DEF BackupTypeOK
  <2>2. /\ applying' \in {Rest} \cup [at: {"loaded"}, data: Nat \ {0}]
        /\ counted' \in [versions: Nat, restores: Nat, crashes: Nat]
    BY <1>1, <1>7 DEF BackupTypeOK
  <2> QED
    BY <1>6, <1>7, <1>8, <1>9, <1>10, <1>11, <2>1, <2>2, OneMoves

\* The end of making an artifact, with or without a row.
LEMMA SucceedKeeps ==
  ASSUME BackupInv, NEW i \in Artifacts, Succeed(i)
  PROVE  BackupInv'
<1>1. /\ making[i].at = "record" /\ SetRow(i, "SUCCEEDED")
      /\ making' = [making EXCEPT ![i] = Rest] /\ BackupTypeOK
      /\ UNCHANGED <<stored, restoring, applying, counted>>
  BY DEF Succeed, BackupInv
<1>2. making'[i] = Rest /\ Rest \in Makings /\ Rest.at \in Ended
  BY <1>1 DEF BackupTypeOK, Makings, Rest, Ended
<1>3. Onward
  BY <1>1, <1>2 DEF Onward, BackupTypeOK
<1>4. Sound(i)
  BY <1>1 DEF Sound, Ended, BackupInv, Made
<1>5. live' \in Lives /\ live'.data = live.data /\ live'.core = live.core /\ Safe(live.rows)'
  BY <1>1, <1>3, <1>4, RowWritten
<1>6. Made(i)'
  BY <1>2 DEF Made, Rest
<1> QED
  BY <1>1, <1>2, <1>5, <1>6, MakingMoves

LEMMA FailKeeps ==
  ASSUME BackupInv, NEW i \in Artifacts, Fail(i)
  PROVE  BackupInv'
<1>1. PICK m \in {Rest, [at |-> "discard"]} : making' = [making EXCEPT ![i] = m]
  BY DEF Fail
<1>2. /\ BackupTypeOK /\ UNCHANGED <<stored, restoring, applying, counted>>
      /\ SetRow(i, "FAILED") \/ live' = live
  BY DEF Fail, BackupInv
<1>3. making'[i] = m /\ m \in Makings /\ m.at \in Ended /\ m.at \in {"idle", "discard"}
  BY <1>1, <1>2 DEF BackupTypeOK, Makings, Rest, Ended
<1>4. Onward
  BY <1>1, <1>2, <1>3 DEF Onward, BackupTypeOK
<1>5. live' \in Lives /\ live'.data = live.data /\ live'.core = live.core /\ Safe(live.rows)'
  <2>1. CASE SetRow(i, "FAILED")
    BY <1>4, <2>1, RowWritten
  <2>2. CASE live' = live
    BY <1>2, <1>4, <2>2, RowsStay DEF BackupTypeOK
  <2> QED
    BY <1>2, <2>1, <2>2
<1>6. Made(i)'
  BY <1>3 DEF Made
<1> QED
  BY <1>1, <1>2, <1>3, <1>5, <1>6, MakingMoves

LEMMA DiscardKeeps ==
  ASSUME BackupInv, NEW i \in Artifacts, Discard(i)
  PROVE  BackupInv'
<1>1. /\ making[i].at = "discard" /\ making' = [making EXCEPT ![i] = Rest] /\ BackupTypeOK
      /\ UNCHANGED <<live, restoring, applying, counted>>
      /\ stored' \in {stored, [stored EXCEPT ![i] = NoFile]}
  BY DEF Discard, BackupInv
<1>2. PICK f \in {stored[i], NoFile} : stored' = [stored EXCEPT ![i] = f]
  BY <1>1 DEF BackupTypeOK
<1>3. /\ making'[i] = Rest /\ stored'[i] = f /\ f \in StoredFiles
      /\ Rest \in Makings /\ Rest.at \in Ended
  <2>1. stored[i] \in StoredFiles /\ NoFile \in StoredFiles
    BY <1>1 DEF BackupTypeOK, StoredFiles
  <2>2. making'[i] = Rest /\ stored'[i] = f
    BY <1>1, <1>2 DEF BackupTypeOK
  <2> QED
    BY <1>2, <2>1, <2>2 DEF Makings, Rest, Ended
<1>4. Onward
  BY <1>1, <1>2, <1>3 DEF Onward, BackupTypeOK
<1>5. Safe(live.rows)' /\ Stored(i)' /\ Restored(i)'
  BY <1>1, <1>3, <1>4, RowsStay, StoredStays, RestoredStays
<1>6. Made(i)'
  BY <1>3 DEF Made, Rest
<1>7. PICK r \in Restorings : restoring' = [restoring EXCEPT ![i] = r]
  BY <1>1 DEF BackupTypeOK
<1> QED
  BY <1>1, <1>2, <1>3, <1>4, <1>5, <1>6, <1>7, OneMoves DEF BackupTypeOK

-----------------------------------------------------------------------------
\* A step of a restore that leaves what is made and stored alone.
LEMMA RestoringMoves ==
  ASSUME BackupInv, NEW i \in Artifacts, NEW r \in Restorings,
         restoring' = [restoring EXCEPT ![i] = r], UNCHANGED <<stored, applying>>,
         \/ making' = Disturbed
         \/ making' = making /\ live'.data = live.data /\ live'.core = live.core,
         live' \in Lives, Safe(live.rows)',
         counted' \in [versions: Nat, restores: Nat, crashes: Nat], Restored(i)'
  PROVE  BackupInv'
<1>1. BackupTypeOK
  BY DEF BackupInv
<1>2. /\ making' \in [Artifacts -> Makings] /\ Onward
      /\ \A k \in Artifacts: Made(k)'
  <2>1. CASE making' = Disturbed
    BY <2>1, DisturbedStays
  <2>2. CASE making' = making /\ live'.data = live.data /\ live'.core = live.core
    <3>1. Onward
      BY <2>2 DEF Onward
    <3> QED
      BY <1>1, <2>2, <3>1, MadeStays DEF BackupTypeOK
  <2> QED
    BY <2>1, <2>2
<1>3. BackupTypeOK'
  BY <1>1, <1>2 DEF BackupTypeOK
<1>4. ASSUME NEW k \in Artifacts PROVE Stored(k)' /\ Restored(k)'
  <2>1. Stored(k)'
    BY <1>2, StoredStays
  <2>2. k # i => restoring'[k] = restoring[k]
    BY <1>1 DEF BackupTypeOK
  <2> QED
    BY <1>2, <2>1, <2>2, RestoredStays
<1> QED
  BY <1>2, <1>3, <1>4 DEF BackupInv

LEMMA BeginRestoreKeeps ==
  ASSUME BackupInv, NEW i \in Artifacts, BeginRestore(i)
  PROVE  BackupInv'
<1>1. /\ BackupTypeOK /\ SetRow(i, "RUNNING")
      /\ UNCHANGED <<stored, making, removing, applying>>
      /\ counted' = [counted EXCEPT !.restores = @ + 1]
  BY DEF BeginRestore, BackupInv
<1>2. PICK r \in Restorings : /\ r = [at |-> "read"]
                              /\ restoring' = [restoring EXCEPT ![i] = r]
  BY DEF BeginRestore, Restorings
<1>3. restoring'[i] = r
  BY <1>1, <1>2 DEF BackupTypeOK
<1>4. Onward
  BY <1>1 DEF Onward
<1>5. live' \in Lives /\ live'.data = live.data /\ live'.core = live.core /\ Safe(live.rows)'
  BY <1>1, <1>4, RowWritten
<1>6. Restored(i)'
  BY <1>2, <1>3 DEF Restored
<1>7. counted' \in [versions: Nat, restores: Nat, crashes: Nat]
  BY <1>1 DEF BackupTypeOK
<1> QED
  BY <1>1, <1>2, <1>5, <1>6, <1>7, RestoringMoves

\* What is decrypted is the content of a whole file.
LEMMA DecryptKeeps ==
  ASSUME BackupInv, NEW i \in Artifacts, Decrypt(i)
  PROVE  BackupInv'
<1>1. BackupTypeOK /\ UNCHANGED <<live, stored, making, applying, counted>>
  BY DEF Decrypt, BackupInv
<1>2. PICK f \in StoredFiles : f = stored[i]
  BY <1>1 DEF BackupTypeOK
<1>3. f.whole => f.content \in Contents /\ GoodContent(f.content) /\ Sound(i)
  <2>1. f.whole => f.content \in Contents
    <3>1. f \in {NoFile, Half} => ~f.whole
      BY DEF NoFile, Half
    <3>2. f \in [whole: {TRUE}, there: {TRUE}, content: Contents] => f.content \in Contents
      OBVIOUS
    <3> QED
      BY <3>1, <3>2 DEF StoredFiles
  <2>2. f.whole => GoodContent(f.content) /\ Sound(i)
    BY <1>2 DEF BackupInv, Stored, Sound
  <2> QED
    BY <2>1, <2>2
<1>4. PICK r : /\ restoring' = [restoring EXCEPT ![i] = r]
               /\ r = IF ~Readable(f) THEN [at |-> "fail"]
                      ELSE IF ~f.whole THEN [at |-> "record"]
                      ELSE [at |-> IF f.content.kind = "CORE_CONFIG" THEN "core" ELSE "database",
                            content |-> f.content]
  BY <1>2 DEF Decrypt
<1>5. \/ r = [at |-> "fail"]
      \/ f.whole /\ r = [at |-> IF f.content.kind = "CORE_CONFIG" THEN "core" ELSE "database",
                         content |-> f.content]
  BY <1>4 DEF Readable
<1>6. r \in Restorings
  BY <1>3, <1>5 DEF Restorings
<1>7. restoring'[i] = r
  BY <1>1, <1>4 DEF BackupTypeOK
<1>8. Onward
  BY <1>1 DEF Onward
<1>9. Restored(i)'
  <2>1. CASE r = [at |-> "fail"]
    BY <1>7, <2>1 DEF Restored
  <2>2. CASE f.whole /\ r = [at |-> IF f.content.kind = "CORE_CONFIG" THEN "core" ELSE "database",
                             content |-> f.content]
    <3>1. Sound(i)' /\ GoodContent(f.content)'
      BY <1>3, <1>8, <2>2, SoundStays DEF BackupInv
    <3>2. r.content = f.content /\ (r.at = "database" => f.content.kind # "CORE_CONFIG")
      BY <2>2
    <3> QED
      BY <1>7, <3>1, <3>2 DEF Restored
  <2> QED
    BY <1>5, <2>1, <2>2
<1>10. Safe(live.rows)'
  BY <1>1, <1>8, RowsStay
<1> QED
  BY <1>1, <1>4, <1>6, <1>9, <1>10, RestoringMoves DEF BackupTypeOK

\* The steps of a restore that write what the artifact holds.
LEMMA RestoreKeeps ==
  ASSUME BackupInv, NEW i \in Artifacts, RestoreDatabase(i) \/ RestoreCoreFiles(i)
  PROVE  BackupInv'
<1>1. BackupTypeOK /\ making' = Disturbed /\ UNCHANGED <<stored, applying, counted>>
  BY DEF RestoreDatabase, RestoreCoreFiles, BackupInv
<1>2. restoring[i].at \in {"database", "core"}
  BY DEF RestoreDatabase, RestoreCoreFiles
<1>3. PICK p \in [at: {"database", "core", "record", "fail"}, content: Contents] : p = restoring[i]
  BY <1>1, <1>2 DEF BackupTypeOK, Restorings, Rest
<1>4. PICK c \in Contents : c = p.content
  OBVIOUS
<1>5. Sound(i) /\ GoodContent(c) /\ Safe(c.rows)
  BY <1>2, <1>3, <1>4 DEF BackupInv, Restored, GoodContent
<1>6. PICK a \in {"core", "record", "fail"} : restoring' = [restoring EXCEPT ![i].at = a]
  <2>1. CASE RestoreDatabase(i)
    BY <2>1 DEF RestoreDatabase
  <2>2. CASE RestoreCoreFiles(i)
    BY <2>2 DEF RestoreCoreFiles
  <2> QED
    BY <2>1, <2>2
<1>7. PICK r \in [at: {"database", "core", "record", "fail"}, content: Contents] :
        r = [p EXCEPT !.at = a]
  OBVIOUS
<1>8. r.at = a /\ r.content = c /\ r \in Restorings
  BY <1>4, <1>7 DEF Restorings
<1>9. restoring' = [restoring EXCEPT ![i] = r] /\ restoring'[i] = r
  BY <1>1, <1>3, <1>6, <1>7 DEF BackupTypeOK
<1>10. Onward
  BY <1>1, DisturbedStays
<1>11. Sound(i)' /\ GoodContent(c)' /\ Safe(c.rows)'
  BY <1>5, <1>10, SoundStays DEF BackupInv
<1>12. Restored(i)'
  BY <1>6, <1>8, <1>9, <1>11 DEF Restored
<1>13. live \in Lives
  BY <1>1 DEF BackupTypeOK
<1>14. live' \in Lives /\ (live'.rows = live.rows \/ live'.rows = c.rows)
  <2>1. CASE RestoreDatabase(i)
    <3>1. c.data \in Nat \ {0}
      BY <1>3, <1>4, <1>5, <2>1 DEF RestoreDatabase, BackupInv, Restored, GoodContent, Contents
    <3>2. live' \in {Replaced(c), live}
      BY <1>3, <1>4, <2>1 DEF RestoreDatabase
    <3>3. Replaced(c) \in Lives /\ Replaced(c).rows = c.rows
      BY <1>13, <3>1 DEF Replaced, Lives, Contents
    <3> QED
      BY <1>13, <3>2, <3>3
  <2>2. CASE RestoreCoreFiles(i)
    <3>1. live' = [live EXCEPT !.core = c.core]
      BY <1>3, <1>4, <2>2 DEF RestoreCoreFiles
    <3> QED
      BY <1>13, <3>1 DEF Lives, Contents
  <2> QED
    BY <2>1, <2>2
<1>15. Safe(live.rows)'
  <2>1. CASE live'.rows = live.rows
    BY <1>10, <2>1, RowsStay
  <2>2. CASE live'.rows = c.rows
    BY <1>11, <2>2 DEF Safe
  <2> QED
    BY <1>14, <2>1, <2>2
<1>16. counted' \in [versions: Nat, restores: Nat, crashes: Nat]
  BY <1>1 DEF BackupTypeOK
<1> QED
  BY <1>1, <1>8, <1>9, <1>12, <1>14, <1>15, <1>16, RestoringMoves

LEMMA EndRestoreKeeps ==
  ASSUME BackupInv, NEW i \in Artifacts, EndRestore(i)
  PROVE  BackupInv'
<1>1. /\ BackupTypeOK /\ restoring' = [restoring EXCEPT ![i] = Rest]
      /\ UNCHANGED <<stored, making, removing, applying, counted>>
  BY DEF EndRestore, BackupInv
<1>2. Rest \in Restorings /\ restoring'[i] = Rest
  BY <1>1 DEF BackupTypeOK, Restorings
<1>3. Onward
  BY <1>1 DEF Onward
<1>4. Restored(i)'
  BY <1>2 DEF Restored, Rest
<1>5. PICK s \in {"FAILED", "SUCCEEDED"} :
        /\ live' = live \/ SetRow(i, s)
        /\ s = "SUCCEEDED" => restoring[i].at = "record"
  BY DEF EndRestore
<1>6. s = "SUCCEEDED" => Sound(i)
  BY <1>5 DEF BackupInv, Restored
<1>7. live' \in Lives /\ live'.data = live.data /\ live'.core = live.core /\ Safe(live.rows)'
  <2>1. CASE live' = live
    BY <1>1, <1>3, <2>1, RowsStay DEF BackupTypeOK
  <2>2. CASE SetRow(i, s)
    BY <1>3, <1>6, <2>2, RowWritten
  <2> QED
    BY <1>5, <2>1, <2>2
<1> QED
  BY <1>1, <1>2, <1>4, <1>7, RestoringMoves DEF BackupTypeOK

-----------------------------------------------------------------------------
\* A step that only removes, of rows and of files, keeps what is left.
LEMMA RemovalKeeps ==
  ASSUME BackupInv, NEW i \in Artifacts, SoftDelete(i) \/ PruneExpired(i) \/ MarkDeleted(i)
  PROVE  BackupInv'
<1>1. BackupTypeOK /\ UNCHANGED <<making, restoring, applying, counted>>
  BY DEF SoftDelete, PruneExpired, Remove, MarkDeleted, BackupInv
<1>2. PICK f \in {stored[i], NoFile} : stored' = [stored EXCEPT ![i] = f]
  BY <1>1 DEF SoftDelete, PruneExpired, Remove, MarkDeleted, BackupTypeOK
<1>3. /\ stored' \in [Artifacts -> StoredFiles]
      /\ \A k \in Artifacts: stored'[k] \in {stored[k], NoFile}
  <2>1. stored[i] \in StoredFiles /\ NoFile \in StoredFiles
    BY <1>1 DEF BackupTypeOK, StoredFiles
  <2> QED
    BY <1>1, <1>2, <2>1 DEF BackupTypeOK
<1>4. Onward
  BY <1>1, <1>3 DEF Onward
<1>5. live' = live \/ SetRow(i, "DELETED")
  BY DEF SoftDelete, PruneExpired, Remove, MarkDeleted
<1>6. live' \in Lives /\ live'.data = live.data /\ live'.core = live.core /\ Safe(live.rows)'
  <2>1. CASE live' = live
    BY <1>1, <1>4, <2>1, RowsStay DEF BackupTypeOK
  <2>2. CASE SetRow(i, "DELETED")
    BY <1>4, <2>2, RowWritten
  <2> QED
    BY <1>5, <2>1, <2>2
<1>7. \A k \in Artifacts: Made(k)' /\ Stored(k)' /\ Restored(k)'
  BY <1>1, <1>3, <1>4, <1>6, MadeStays, StoredStays, RestoredStays
<1> QED
  BY <1>1, <1>3, <1>6, <1>7 DEF BackupInv, BackupTypeOK

LEMMA CrashKeeps ==
  ASSUME BackupInv, Crash
  PROVE  BackupInv'
<1>1. /\ BackupTypeOK /\ UNCHANGED <<live, stored>>
      /\ counted' = [counted EXCEPT !.crashes = @ + 1] /\ applying' = Rest
      /\ making' = [i \in Artifacts |-> IF making[i] = Unmade THEN Unmade ELSE Rest]
      /\ restoring' = [i \in Artifacts |-> Rest]
  BY DEF Crash, BackupInv
<1>2. ASSUME NEW i \in Artifacts
      PROVE  /\ (making'[i] = Unmade /\ making[i] = Unmade) \/ making'[i] = Rest
             /\ restoring'[i] = Rest
  BY <1>1
<1>3. /\ making' \in [Artifacts -> Makings] /\ restoring' \in [Artifacts -> Restorings]
      /\ counted' \in [versions: Nat, restores: Nat, crashes: Nat]
  BY <1>1 DEF BackupTypeOK, Makings, Restorings
<1>4. Onward
  BY <1>1, <1>2 DEF Onward, Unmade, Rest, Ended
<1>5. ASSUME NEW i \in Artifacts PROVE Made(i)' /\ Restored(i)'
  BY <1>2 DEF Made, Restored, Unmade, Rest
<1>6. Safe(live.rows)' /\ \A i \in Artifacts: Stored(i)'
  BY <1>1, <1>4, RowsStay, StoredStays
<1> QED
  BY <1>1, <1>3, <1>5, <1>6 DEF BackupInv, BackupTypeOK

LEMMA BackupStep == BackupInv /\ [BackupNext]_backupVars => BackupInv'
<1> SUFFICES ASSUME BackupInv, [BackupNext]_backupVars PROVE BackupInv'
  OBVIOUS
<1>1. ASSUME NEW i \in Artifacts,
             \/ Create(i) \/ DumpDatabase(i) \/ StageCoreFiles(i) \/ BeginFile(i) \/ EndFile(i)
             \/ Succeed(i) \/ Fail(i) \/ Discard(i)
      PROVE  BackupInv'
  BY <1>1, CreateKeeps, DumpKeeps, StageKeeps, BeginFileKeeps, EndFileKeeps, SucceedKeeps,
     FailKeeps, DiscardKeeps
<1>2. ASSUME NEW i \in Artifacts,
             \/ BeginRestore(i) \/ Decrypt(i) \/ RestoreDatabase(i) \/ RestoreCoreFiles(i)
             \/ EndRestore(i) \/ SoftDelete(i) \/ PruneExpired(i) \/ MarkDeleted(i)
      PROVE  BackupInv'
  BY <1>2, BeginRestoreKeeps, DecryptKeeps, RestoreKeeps, EndRestoreKeeps, RemovalKeeps
<1>3. CASE UNCHANGED backupVars
  <2>1. Onward /\ BackupTypeOK /\ BackupTypeOK'
    BY <1>3 DEF Onward, backupVars, BackupInv, BackupTypeOK
  <2>2. Safe(live.rows)'
    BY <1>3, <2>1, RowsStay DEF backupVars
  <2> QED
    BY <1>3, <2>1, <2>2, MadeStays, StoredStays, RestoredStays DEF backupVars, BackupInv
<1> QED
  BY <1>1, <1>2, <1>3, SystemKeeps, CrashKeeps DEF BackupNext

LEMMA BackupStart == BackupInit => BackupInv
<1> SUFFICES ASSUME BackupInit PROVE BackupInv
  OBVIOUS
<1>1. BackupTypeOK
  <2>1. live \in Lives
    <3>1. [Artifacts -> {"none", "DELETED"}] \subseteq RowStatuses
      BY DEF RowStatuses
    <3>2. PICK d \in {1}, c \in {TRUE}, f \in {1}, r \in [Artifacts -> {"none", "DELETED"}] :
            live = [data |-> d, clean |-> c, core |-> f, rows |-> r]
      BY DEF BackupInit
    <3>3. r \in RowStatuses /\ d \in Nat \ {0} /\ c \in BOOLEAN /\ f \in Nat
      BY <3>1
    <3> QED
      BY <3>2, <3>3 DEF Lives
  <2>2. /\ stored \in [Artifacts -> StoredFiles] /\ making \in [Artifacts -> Makings]
        /\ restoring \in [Artifacts -> Restorings] /\ applying = Rest
    BY DEF BackupInit, StoredFiles, Makings, Restorings
  <2>3. counted \in [versions: Nat, restores: Nat, crashes: Nat]
    <3>1. MaxVersions \in Nat
      BY BackupConstants
    <3> QED
      BY <3>1 DEF BackupInit
  <2> QED
    BY <2>1, <2>2, <2>3 DEF BackupTypeOK
<1>2. Safe(live.rows)
  <2>1. \A i \in Artifacts: live.rows[i] # "SUCCEEDED"
    BY DEF BackupInit
  <2> QED
    BY <2>1 DEF Safe
<1>3. \A i \in Artifacts: Made(i) /\ Stored(i) /\ Restored(i)
  BY DEF BackupInit, Made, Stored, Restored, Unmade, NoFile, Rest
<1> QED
  BY <1>1, <1>2, <1>3 DEF BackupInv

(***************************************************************************)
(* Every artifact shown as SUCCEEDED can be relied on, for any artifacts,  *)
(* any number of calls that make, restore and remove them at a time,       *)
(* changes, applies and crashes (BackupsService without a lock).           *)
(***************************************************************************)
THEOREM SucceededHolds == BackupSpec => []SucceededIsTrue
<1>1. BackupInv => SucceededIsTrue
  BY DEF BackupInv, SucceededIsTrue, Safe, Sound, Stored, GoodContent
<1> QED
  BY <1>1, BackupStart, BackupStep, PTL DEF BackupSpec
=============================================================================
