----------------------------- MODULE Installer -----------------------------
(***************************************************************************)
(* The command line of a host, install.sh: install and install-proxy,      *)
(* update, enable-core and disable-core, up, down and uninstall.  A command*)
(* is a shell script without a transaction: it can stop between any two of *)
(* its steps (a failing command under set -e, a closed terminal, a reboot) *)
(* and the next command judges the host by the files it finds in APP_DIR.  *)
(* TLS, nginx, the firewall, DNS and the questions the wizard asks are left*)
(* out: they decide no branch below.                                       *)
(***************************************************************************)
EXTENDS Naturals, FiniteSets

CONSTANTS
  Cores,        \* engines a host can run: singbox, xray, mtproxy, amneziawg
  MaxSecrets,   \* bound: how often generate_env draws new secrets
  CutRemovals   \* TRUE: an installation may also stop while it removes the leftovers of another

Files == {"git", "compose", "env", "credentials", "conf", "inprogress", "complete"}
Roles == {"panel", "panel+proxy", "proxy"}
NoVolume == [pass |-> 0, owner |-> FALSE, token |-> 0]   \* secrets are counted from 1

VARIABLES
  files,      \* what of Files is in APP_DIR
  bin,        \* /usr/local/bin/overvpn exists
  env,        \* contents of .env: role (of INSTALL_CONF), the secrets drawn, enabled cores, COMPOSE_PROFILES
  volume,     \* the database: password it was created with, owner account, node token of the local proxy
  containers, \* services that run: "base" (panel or agent) and cores
  run,        \* the command in progress and where it is: [cmd, at, arg]
  last,       \* the latest command, when it ran to its end
  secrets     \* secrets drawn so far

hostVars == <<files, bin, env, volume, containers, run, last, secrets>>

Idle == [cmd |-> "none", at |-> "idle", arg |-> "none"]
NoEnv == [role |-> "panel", secret |-> 0, cores |-> {}, profiles |-> {}]

HostInit ==
  /\ files = {} /\ bin = FALSE /\ env = NoEnv /\ volume = NoVolume
  /\ containers = {} /\ run = Idle /\ last = Idle /\ secrets = 0

-----------------------------------------------------------------------------
\* Mutant: the marker of an unfinished installation is not looked at.
LooksComplete ==
  \/ {"complete", "env", "compose"} \subseteq files
  \/ bin /\ {"env", "compose", "credentials"} \subseteq files

\* The second disjunct is for hosts installed before there were markers.
IsComplete == "inprogress" \notin files /\ LooksComplete

HasPartial == ~IsComplete /\ (files # {} \/ bin)

\* Mutant: the profiles are computed before the flag they are made of is set.
ProfilesLate == IF env.role = "panel" THEN {} ELSE env.profiles

\* enabled_profiles_from_env: the cores compose starts by itself.
Profiles == IF env.role = "panel" THEN {} ELSE env.cores

At(cmds, place) == run.cmd \in cmds /\ run.at = place
GoTo(place) == run' = [run EXCEPT !.at = place]
Finish == run' = Idle /\ last' = run
Abandon == run' = Idle /\ UNCHANGED last

-----------------------------------------------------------------------------
(* Commands begin *)

\* ensure_clean_for_install: refuse over a finished installation, first wipe an unfinished one.
Install(role, build) ==
  /\ run = Idle /\ ~IsComplete /\ secrets < MaxSecrets
  /\ run' = [cmd |-> "install", at |-> IF HasPartial THEN "down" ELSE "deploy",
             arg |-> [role |-> role, build |-> build]]
  /\ last' = Idle
  /\ UNCHANGED <<files, bin, env, volume, containers, secrets>>

Update(build) ==
  /\ run = Idle /\ IsComplete
  /\ run' = [cmd |-> "update", at |-> "deploy", arg |-> [build |-> build]]
  /\ last' = Idle
  /\ UNCHANGED <<files, bin, env, volume, containers, secrets>>

Switch(cmd, c) ==
  /\ run = Idle /\ IsComplete /\ cmd \in {"enable", "disable"}
  /\ run' = [cmd |-> cmd, at |-> IF cmd = "enable" THEN "flag" ELSE "stop", arg |-> c]
  /\ last' = Idle
  /\ UNCHANGED <<files, bin, env, volume, containers, secrets>>

Uninstall(wipe) ==
  /\ run = Idle
  /\ run' = [cmd |-> "uninstall", at |-> "down", arg |-> wipe]
  /\ last' = Idle
  /\ UNCHANGED <<files, bin, env, volume, containers, secrets>>

-----------------------------------------------------------------------------
(* Removing: cleanup_partial_install and cmd_uninstall *)

Down ==
  /\ At({"install", "uninstall"}, "down") /\ GoTo("remove")
  /\ containers' = {}
  /\ volume' = IF run.cmd = "install" \/ run.arg THEN NoVolume ELSE volume
  /\ UNCHANGED <<files, bin, env, last, secrets>>

\* rm -rf takes the files in the order the directory has them.
RemoveFile(f) ==
  /\ At({"install", "uninstall"}, "remove") /\ f \in files
  /\ files' = files \ {f}
  /\ UNCHANGED <<bin, env, volume, containers, run, last, secrets>>

RemoveBin ==
  /\ At({"install", "uninstall"}, "remove") /\ files = {}
  /\ bin' = FALSE /\ env' = NoEnv
  /\ IF run.cmd = "install" THEN GoTo("deploy") /\ UNCHANGED last ELSE Finish
  /\ UNCHANGED <<files, volume, containers, secrets>>

-----------------------------------------------------------------------------
(* Installing and updating *)

\* fetch_repo replaces an APP_DIR that is no clone, with everything in it.
Deployed(build) ==
  IF ~build THEN files \union {"compose"}
  ELSE IF "git" \in files THEN files \union {"compose"} ELSE {"git", "compose"}

DeploySource ==
  /\ At({"install", "update"}, "deploy")
  /\ files' = Deployed(run.arg.build)
  /\ GoTo(IF run.cmd = "install" THEN "mark" ELSE "cli")
  /\ UNCHANGED <<bin, env, volume, containers, last, secrets>>

MarkInprogress ==
  /\ At({"install"}, "mark") /\ GoTo("cli")
  /\ files' = (files \ {"complete"}) \union {"inprogress"}
  /\ UNCHANGED <<bin, env, volume, containers, last, secrets>>

InstallCli ==
  /\ At({"install", "update"}, "cli")
  /\ bin' = TRUE
  /\ GoTo(IF run.cmd = "install" THEN "env" ELSE "domains")
  /\ UNCHANGED <<files, env, volume, containers, last, secrets>>

\* generate_env: .env with new secrets, then .credentials, then .install.conf.  A panel
\* without a proxy gets every core switched off.
GenerateEnv(cores) ==
  /\ At({"install"}, "env") /\ GoTo("credentials")
  /\ files' = files \union {"env"} /\ secrets' = secrets + 1
  /\ LET on == IF run.arg.role = "panel" THEN {} ELSE cores
     IN env' = [role |-> run.arg.role, secret |-> secrets + 1, cores |-> on, profiles |-> on]
  /\ UNCHANGED <<bin, volume, containers, last>>

WriteCredentials ==
  /\ At({"install"}, "credentials") /\ GoTo("conf")
  /\ files' = files \union {"credentials"}
  /\ UNCHANGED <<bin, env, volume, containers, last, secrets>>

WriteConf ==
  /\ At({"install"}, "conf") /\ GoTo("up")
  /\ files' = files \union {"conf"}
  /\ UNCHANGED <<bin, env, volume, containers, last, secrets>>

\* An update reads .install.conf and ends when it is not there.
SyncDomains ==
  /\ At({"update"}, "domains")
  /\ IF "conf" \in files THEN GoTo("up") /\ UNCHANGED last ELSE Abandon
  /\ UNCHANGED <<files, bin, env, volume, containers, secrets>>

\* A container of the database creates it when the volume is new.
Created == IF env.role # "proxy" /\ volume = NoVolume
           THEN [NoVolume EXCEPT !.pass = env.secret] ELSE volume

\* compose up -d starts what the profiles name; the cores that .env enables are recreated after it.
ComposeUp ==
  /\ At({"install", "update"}, "up") /\ GoTo("cores")
  /\ containers' = containers \union {"base"} \union env.profiles
  /\ volume' = Created
  /\ UNCHANGED <<files, bin, env, last, secrets>>

RecreateCores ==
  /\ At({"install", "update"}, "cores")
  /\ containers' = containers \union env.cores
  /\ IF run.cmd = "update" THEN Finish
     ELSE GoTo(IF env.role = "proxy" THEN "unmark" ELSE "owner") /\ UNCHANGED last
  /\ UNCHANGED <<files, bin, env, volume, secrets>>

\* bootstrap-admin connects with the password in .env; a database made with another one refuses it.
BootstrapOwner ==
  /\ At({"install"}, "owner")
  /\ IF volume.pass = env.secret
     THEN volume' = [volume EXCEPT !.owner = TRUE] /\ GoTo("proxy") /\ UNCHANGED last
     ELSE Abandon /\ UNCHANGED volume
  /\ UNCHANGED <<files, bin, env, containers, secrets>>

\* bootstrap_local_proxy writes the node token of .env into the database.
BootstrapLocalProxy ==
  /\ At({"install"}, "proxy") /\ GoTo("unmark")
  /\ volume' = IF env.role = "panel+proxy" THEN [volume EXCEPT !.token = env.secret] ELSE volume
  /\ UNCHANGED <<files, bin, env, containers, last, secrets>>

\* mark_install_complete removes one marker before it writes the other.
Unmark ==
  /\ At({"install"}, "unmark") /\ GoTo("complete")
  /\ files' = files \ {"inprogress"}
  /\ UNCHANGED <<bin, env, volume, containers, last, secrets>>

MarkComplete ==
  /\ At({"install"}, "complete") /\ Finish
  /\ files' = files \union {"complete"}
  /\ UNCHANGED <<bin, env, volume, containers, secrets>>

-----------------------------------------------------------------------------
(* Cores: cmd_enable_core writes flag and profiles, then starts the core;  *)
(* cmd_disable_core stops it first.                                        *)

StopCore ==
  /\ At({"disable"}, "stop") /\ GoTo("flag")
  /\ containers' = containers \ {run.arg}
  /\ UNCHANGED <<files, bin, env, volume, last, secrets>>

SetFlag ==
  /\ At({"enable", "disable"}, "flag") /\ GoTo("profiles")
  /\ env' = [env EXCEPT !.cores = IF run.cmd = "enable" THEN @ \union {run.arg} ELSE @ \ {run.arg}]
  /\ UNCHANGED <<files, bin, volume, containers, last, secrets>>

SetProfiles ==
  /\ At({"enable", "disable"}, "profiles")
  /\ env' = [env EXCEPT !.profiles = Profiles]
  /\ IF run.cmd = "enable" THEN GoTo("start") /\ UNCHANGED last ELSE Finish
  /\ UNCHANGED <<files, bin, volume, containers, secrets>>

StartEngine ==
  /\ At({"enable"}, "start") /\ Finish
  /\ containers' = containers \union {run.arg}
  /\ UNCHANGED <<files, bin, env, volume, secrets>>

\* overvpn up: compose up -d.
Up ==
  /\ run = Idle /\ IsComplete
  /\ containers' = containers \union {"base"} \union env.profiles
  /\ volume' = Created
  /\ last' = [Idle EXCEPT !.cmd = "up"]
  /\ UNCHANGED <<files, bin, env, run, secrets>>

\* overvpn down: compose down takes the services of the active profiles.
TakeDown ==
  /\ run = Idle /\ IsComplete
  /\ containers' = containers \ ({"base"} \union env.profiles)
  /\ last' = [Idle EXCEPT !.cmd = "down"]
  /\ UNCHANGED <<files, bin, env, volume, run, secrets>>

-----------------------------------------------------------------------------
Removing == run.at = "remove" \/ (run.cmd = "uninstall" /\ run.at = "down")

\* The script stops between two steps; an uninstall is let run to its end once it removes.
Interrupted ==
  /\ run # Idle /\ (Removing => CutRemovals /\ run.cmd = "install")
  /\ Abandon
  /\ UNCHANGED <<files, bin, env, volume, containers, secrets>>

HostNext ==
  \/ \E role \in Roles, build \in BOOLEAN : Install(role, build)
  \/ \E b \in BOOLEAN : Update(b) \/ Uninstall(b)
  \/ \E cmd \in {"enable", "disable"}, c \in Cores : Switch(cmd, c)
  \/ \E f \in Files : RemoveFile(f)
  \/ \E cores \in SUBSET Cores : GenerateEnv(cores)
  \/ Down \/ RemoveBin \/ DeploySource \/ MarkInprogress \/ InstallCli
  \/ WriteCredentials \/ WriteConf \/ SyncDomains \/ ComposeUp \/ RecreateCores
  \/ BootstrapOwner \/ BootstrapLocalProxy \/ Unmark \/ MarkComplete
  \/ StopCore \/ SetFlag \/ SetProfiles \/ StartEngine \/ Up \/ TakeDown \/ Interrupted

HostSpec == HostInit /\ [][HostNext]_hostVars

-----------------------------------------------------------------------------
\* A host that every later command takes for a finished panel has what an installation is for:
\* a database that the password in .env opens, with an owner in it, and a local agent whose
\* token the panel knows -- whatever commands were interrupted before, and whatever volume an
\* earlier installation left behind (is_install_complete, install.sh 2216-2231).
CompleteIsUsable ==
  (IsComplete /\ ~Removing /\ env.role # "proxy") =>
    /\ volume.pass = env.secret /\ volume.owner
    /\ env.role = "panel+proxy" => volume.token = env.secret

\* After enable-core or disable-core has run to its end, the flag in .env and the container
\* agree for that core, and on a host with a proxy the profiles do too, so that the next `up`
\* or update does not undo it -- also when an earlier attempt was interrupted.
CoreAsAsked ==
  (run = Idle /\ last.cmd \in {"enable", "disable"} /\ IsComplete) =>
    LET c == last.arg IN
    /\ (c \in env.cores) <=> (last.cmd = "enable")
    /\ (c \in containers) <=> (last.cmd = "enable")
    /\ env.role # "panel" => ((c \in env.profiles) <=> (last.cmd = "enable"))

\* "A crashed mid-install must never look "complete"." (install.sh 2217): an installation that
\* has not come to mark_install_complete is never taken for a finished one.  It is when the
\* cleaning of its leftovers stops half-way: rm -rf may have taken the marker first.
NeverLooksComplete == (IsComplete /\ run = Idle /\ env.role # "proxy") => volume.owner
=============================================================================
