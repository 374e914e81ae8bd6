----------------------------- MODULE CoreSidecar -----------------------------
(***************************************************************************)
(* One engine on one node, as the two sides of the shared volume see it:   *)
(* the configuration file, the last-known-good file, the reload request    *)
(* and its acknowledgement, and the sidecar that runs the core             *)
(* (deploy/sing-box/entrypoint.sh, deploy/xray/entrypoint.sh).  Who writes *)
(* the files is left to the modules that extend this one.                  *)
(***************************************************************************)
EXTENDS Naturals

CONSTANTS Configs,      \* the contents of a configuration file, known by their hashes
          Good,         \* those the core starts with; the others pass its check only
          Nothing,      \* no request, no acknowledgement
          Restarts,     \* xray: a reload stops and starts the core; sing-box: SIGHUP
          LateDeath,    \* a core may die of its configuration after SETTLE_SECONDS
          MaxOutages    \* how often the container goes down by itself

ASSUME SidecarAssumption ==
  /\ Good \subseteq Configs
  /\ {Restarts, LateDeath} \subseteq BOOLEAN
  /\ MaxOutages \in Nat

VARIABLES config,    \* content of CONFIG_PATH
          lkg,       \* content of the last-known-good path
          request,   \* content of REQUEST_PATH: [id, hash]
          ack,       \* content of ACK_PATH: [id, hash, ok]
          phase,     \* the entrypoint: clean, start or loop
          child,     \* the core process: up or down
          running,   \* the configuration the core was last started with
          handling,  \* the request the loop is working on
          loaded,    \* the core has reloaded for that request
          lastId,    \* last_request_id
          outages    \* how often the container went down by itself

fileVars == <<config, lkg, request, ack>>
coreVars == <<phase, child, running, handling, loaded, lastId, outages>>
sidecarVars == <<fileVars, coreVars>>

SidecarInit ==
  /\ config \in Good
  /\ lkg = config
  /\ request = Nothing
  /\ ack = Nothing
  /\ phase = "loop"
  /\ child = "up"
  /\ running = config
  /\ handling = Nothing
  /\ loaded = FALSE
  /\ lastId = Nothing
  /\ outages = 0

-----------------------------------------------------------------------------
(***************************************************************************)
(* The core reads the configuration file.  A configuration it cannot run   *)
(* with ends it before SETTLE_SECONDS are over, or later.                  *)
(***************************************************************************)
StartCore ==
  /\ running' = config
  /\ \/ child' = "up" /\ (config \in Good \/ LateDeath)
     \/ child' = "down" /\ config \notin Good

\* rm -f "$ACK_PATH" "$REQUEST_PATH"
Clean ==
  /\ phase = "clean"
  /\ request' = Nothing
  /\ ack' = Nothing
  /\ phase' = "start"
  /\ UNCHANGED <<config, lkg, child, running, handling, loaded, lastId, outages>>

\* The core is started, then the loop begins with an empty last_request_id.
Start ==
  /\ phase = "start"
  /\ StartCore
  /\ phase' = "loop"
  /\ lastId' = Nothing
  /\ UNCHANGED <<fileVars, handling, loaded, outages>>

(***************************************************************************)
(* The loop finds a request that it has not handled yet.  xray is stopped  *)
(* first.                                                                  *)
(***************************************************************************)
PickUp ==
  /\ phase = "loop" /\ child = "up" /\ handling = Nothing
  /\ request # Nothing
  /\ request.id # lastId
  /\ handling' = request
  /\ loaded' = FALSE
  /\ child' = IF Restarts THEN "down" ELSE "up"
  /\ UNCHANGED <<fileVars, phase, running, lastId, outages>>

\* SIGHUP, or the new start: the file is read while the loop sleeps.  SIGHUP
\* does nothing for a core that has died.
Reload ==
  /\ handling # Nothing /\ ~loaded
  /\ IF Restarts \/ child = "up" THEN StartCore ELSE UNCHANGED <<child, running>>
  /\ loaded' = TRUE
  /\ UNCHANGED <<fileVars, phase, handling, lastId, outages>>

\* Mutant of Acknowledge: the request is read again to remember its id.
AcknowledgeRereads ==
  /\ handling # Nothing /\ loaded
  /\ ack' = [id |-> handling.id, hash |-> handling.hash, ok |-> child = "up"]
  /\ IF Restarts /\ child = "down" THEN StartCore ELSE UNCHANGED <<child, running>>
  /\ lastId' = IF request = Nothing THEN Nothing ELSE request.id
  /\ handling' = Nothing
  /\ UNCHANGED <<config, lkg, request, phase, loaded, outages>>

(***************************************************************************)
(* After SETTLE_SECONDS the acknowledgement says whether the core is       *)
(* alive; xray is started once more if it is not.                          *)
(***************************************************************************)
Acknowledge ==
  /\ handling # Nothing /\ loaded
  /\ ack' = [id |-> handling.id, hash |-> handling.hash, ok |-> child = "up"]
  /\ IF Restarts /\ child = "down" THEN StartCore ELSE UNCHANGED <<child, running>>
  /\ lastId' = handling.id
  /\ handling' = Nothing
  /\ UNCHANGED <<config, lkg, request, phase, loaded, outages>>

\* A core that cannot run with its configuration dies after all.
DieLate ==
  /\ child = "up" /\ running \notin Good
  /\ child' = "down"
  /\ UNCHANGED <<fileVars, phase, running, handling, loaded, lastId, outages>>

(***************************************************************************)
(* The loop finds the core dead: the entrypoint exits and the container    *)
(* is started again (restart: unless-stopped).                             *)
(***************************************************************************)
Exit ==
  /\ phase = "loop" /\ child = "down" /\ handling = Nothing
  /\ phase' = "clean"
  /\ UNCHANGED <<fileVars, child, running, handling, loaded, lastId, outages>>

\* The container goes down by itself, whatever it was doing, and starts again.
Outage ==
  /\ outages < MaxOutages
  /\ outages' = outages + 1
  /\ phase' = "clean"
  /\ child' = "down"
  /\ handling' = Nothing
  /\ loaded' = FALSE
  /\ UNCHANGED <<fileVars, running, lastId>>

Sidecar == Clean \/ Start \/ PickUp \/ Reload \/ Acknowledge \/ DieLate \/ Exit

\* The sidecar has nothing to do: no request is waiting or in work.
Settled ==
  /\ phase = "loop" /\ child = "up" /\ handling = Nothing
  /\ request = Nothing \/ request.id = lastId

==============================================================================
