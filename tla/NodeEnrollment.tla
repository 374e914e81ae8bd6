--------------------------- MODULE NodeEnrollment ---------------------------
(***************************************************************************)
(* How a node gets and keeps the right to speak to the panel: the install  *)
(* token of the command an administrator runs on it, the node token that   *)
(* its registration is answered with, and the copy of that token the panel *)
(* keeps to push to the node (apps/api/src/agent, proxy-servers.service.ts,*)
(* apps/agent/src/panel/loop.ts, state.ts, server.ts).                     *)
(*                                                                         *)
(* A request is admitted by a guard that reads the row; its handler writes *)
(* the row later, with settings merged from what the guard had read.  The  *)
(* agent gives a request up after PANEL_TIMEOUT_MS; the panel does not.    *)
(***************************************************************************)
EXTENDS Naturals

CONSTANTS Slots,          \* requests the panel works on at the same time
          MaxInstalls,    \* install commands
          MaxRegistrations,      \* registrations
          MaxLosses       \* what TokenLost counts

Nil == 0     \* no token, no slot

ASSUME SlotsAssumption == Nil \notin Slots

VARIABLES server,     \* the row: status, install, fresh, node, secret (settings)
          calls,      \* what each slot works on, with the row its guard or require() read
          agent,      \* up, mem and file (nodeToken), saved, install (INSTALL_TOKEN), wait
          installs,   \* install tokens made so far
          tokens,     \* node tokens made so far
          losses      \* timeouts, crashes and installations that TokenLost names

enrollVars == <<server, calls, agent, installs, tokens, losses>>

InstallTokens == 1..MaxInstalls
NewServer == [status |-> "PENDING", install |-> Nil, fresh |-> FALSE,
            node |-> Nil, secret |-> Nil]
IdleCall == [kind |-> "idle", row |-> NewServer, answer |-> Nil]
Reports == {"heartbeat", "stats", "result"}

EnrollInit ==
  /\ server = NewServer
  /\ calls = [s \in Slots |-> IdleCall]
  /\ agent = [up |-> FALSE, mem |-> Nil, file |-> Nil, saved |-> TRUE,
              install |-> Nil, wait |-> Nil]
  /\ installs = 0
  /\ tokens = 0
  /\ losses = 0

Exists == server.status # "DELETED"
Admit(s, kind) == calls' = [calls EXCEPT ![s] = [kind |-> kind, row |-> server, answer |-> Nil]]
End(s) == calls' = [calls EXCEPT ![s] = IdleCall]

\* The agent loses sight of a token the panel has given out or will.
TokenLost == losses < MaxLosses /\ losses' = losses + 1

-----------------------------------------------------------------------------
(***************************************************************************)
(* The agent.  start reads the state file; without a token it registers,   *)
(* with one it reports, one request at a time.                             *)
(***************************************************************************)
AgentStart ==
  /\ ~agent.up /\ agent.install # Nil
  /\ agent' = [agent EXCEPT !.up = TRUE, !.mem = agent.file, !.saved = TRUE]
  /\ UNCHANGED <<server, calls, installs, tokens, losses>>

AgentCrash ==
  /\ agent.up
  /\ agent' = [agent EXCEPT !.up = FALSE, !.mem = Nil, !.wait = Nil]
  /\ IF ~agent.saved \/ agent.wait # Nil THEN TokenLost ELSE UNCHANGED losses
  /\ UNCHANGED <<server, calls, installs, tokens>>

Ready == agent.up /\ agent.saved /\ agent.wait = Nil

\* registerWithInstallToken sends, InstallTokenGuard admits.
AskRegister(s) ==
  /\ Ready /\ agent.mem = Nil
  /\ calls[s] = IdleCall
  /\ Exists /\ server.status # "DISABLED"
  /\ server.install = agent.install /\ server.fresh
  /\ Admit(s, "register")
  /\ agent' = [agent EXCEPT !.wait = s]
  /\ UNCHANGED <<server, installs, tokens, losses>>

\* heartbeat, stats or apply-result, admitted by NodeTokenGuard.
AskReport(s, kind) ==
  /\ Ready /\ agent.mem # Nil
  /\ calls[s] = IdleCall
  /\ Exists /\ server.status # "DISABLED" /\ server.node = agent.mem
  /\ Admit(s, kind)
  /\ agent' = [agent EXCEPT !.wait = s]
  /\ UNCHANGED <<server, installs, tokens, losses>>

\* mergeState, before saveAgentState.
GetToken(s) ==
  /\ agent.wait = s /\ calls[s].kind = "answered"
  /\ agent' = IF calls[s].answer = Nil
                THEN [agent EXCEPT !.wait = Nil]
                ELSE [agent EXCEPT !.wait = Nil, !.mem = calls[s].answer, !.saved = FALSE]
  /\ End(s)
  /\ UNCHANGED <<server, installs, tokens, losses>>

SaveState ==
  /\ agent.up /\ ~agent.saved
  /\ agent' = [agent EXCEPT !.file = agent.mem, !.saved = TRUE]
  /\ UNCHANGED <<server, calls, installs, tokens, losses>>

\* PANEL_TIMEOUT_MS is over; the handler goes on.
GiveUp ==
  /\ agent.wait # Nil
  /\ agent' = [agent EXCEPT !.wait = Nil]
  /\ TokenLost
  /\ UNCHANGED <<server, calls, installs, tokens>>

-----------------------------------------------------------------------------
\* The handlers of AgentService; an update of a deleted row throws.

Registered(t) ==
  server' = [server EXCEPT !.status = "ONLINE", !.secret = t,
                           !.node = t, !.install = Nil, !.fresh = FALSE]

Register(s) ==
  LET t == tokens + 1 IN
  /\ calls[s].kind = "register" /\ tokens < MaxRegistrations
  /\ IF Exists
       THEN /\ Registered(t)
            /\ tokens' = t
            /\ calls' = [calls EXCEPT ![s] = [IdleCall EXCEPT !.kind = "answered", !.answer = t]]
       ELSE /\ calls' = [calls EXCEPT ![s] = [IdleCall EXCEPT !.kind = "answered"]]
            /\ UNCHANGED <<server, tokens>>
  /\ UNCHANGED <<agent, installs, losses>>

\* Mutant of Merged: the whole row that the guard read is written back.
MergedRow(c, status) == [c.row EXCEPT !.status = status]

\* The settings the guard read are written back, with the last report merged in.
Merged(c, status) == [server EXCEPT !.status = status, !.secret = c.row.secret]

Report(s) ==
  LET c == calls[s] IN
  /\ c.kind \in Reports
  /\ \E status \in {"ONLINE", "ERROR"}:
       server' = CASE ~Exists -> server
                   [] Exists /\ c.kind = "heartbeat" -> Merged(c, status)
                   [] Exists /\ c.kind = "stats" -> Merged(c, server.status)
                   [] Exists /\ c.kind = "result" -> [server EXCEPT !.status = status]
  /\ calls' = [calls EXCEPT ![s] = [IdleCall EXCEPT !.kind = "answered"]]
  /\ UNCHANGED <<agent, installs, tokens, losses>>

\* Nobody waits for the answer any more.
Drop(s) ==
  /\ calls[s].kind = "answered" /\ agent.wait # s
  /\ End(s)
  /\ UNCHANGED <<server, agent, installs, tokens, losses>>

-----------------------------------------------------------------------------
\* The administrators: ProxyServersService.

\* Mutant of NewCommand: nodeTokenHash stays.
NewCommandKeeps ==
  server' = [server EXCEPT !.install = installs + 1, !.fresh = TRUE,
                           !.status = "PENDING", !.secret = Nil]

NewCommand ==
  server' = [server EXCEPT !.install = installs + 1, !.fresh = TRUE,
                           !.status = "PENDING", !.node = Nil, !.secret = Nil]

CreateInstallCommand ==
  /\ Exists /\ installs < MaxInstalls
  /\ NewCommand
  /\ installs' = installs + 1
  /\ UNCHANGED <<calls, agent, tokens, losses>>

\* installTokenExpiresAt is over.
InstallTokenExpires ==
  /\ server.fresh
  /\ server' = [server EXCEPT !.fresh = FALSE]
  /\ UNCHANGED <<calls, agent, installs, tokens, losses>>

\* applyWizard reads the row and writes its settings back.
ReadWizard(s) ==
  /\ Exists /\ calls[s] = IdleCall
  /\ Admit(s, "wizard")
  /\ UNCHANGED <<server, agent, installs, tokens, losses>>

WriteWizard(s) ==
  /\ calls[s].kind = "wizard"
  /\ IF Exists
       THEN server' = [server EXCEPT !.secret = calls[s].row.secret]
       ELSE UNCHANGED server
  /\ End(s)
  /\ UNCHANGED <<agent, installs, tokens, losses>>

\* update: settings replace the old ones, the token among them; disable, enable.
UpdateServer ==
  /\ Exists
  /\ \E secret \in {server.secret, Nil}, status \in {server.status, "DISABLED", "PENDING"}:
       server' = [server EXCEPT !.secret = secret, !.status = status]
  /\ UNCHANGED <<calls, agent, installs, tokens, losses>>

\* Only a node that is not the local one.
DeleteServer ==
  /\ Exists
  /\ server' = [server EXCEPT !.status = "DELETED", !.install = Nil, !.node = Nil,
                              !.secret = Nil, !.fresh = FALSE]
  /\ UNCHANGED <<calls, agent, installs, tokens, losses>>

(***************************************************************************)
(* The last install command is run on the machine of the node, after an    *)
(* uninstall that wiped the volumes or kept them (cmd_install_proxy,       *)
(* cmd_uninstall).  A command whose token is spent is of no use.           *)
(***************************************************************************)
Install(wipe) ==
  /\ installs # 0 /\ agent.install # installs
  /\ agent' = [up |-> TRUE, mem |-> IF wipe THEN Nil ELSE agent.file,
               file |-> IF wipe THEN Nil ELSE agent.file, saved |-> TRUE,
               install |-> installs, wait |-> Nil]
  /\ IF agent.wait # Nil \/ server.install # installs THEN TokenLost ELSE UNCHANGED losses
  /\ UNCHANGED <<server, calls, installs, tokens>>

EnrollNext ==
  \/ AgentStart \/ AgentCrash \/ SaveState \/ GiveUp
  \/ CreateInstallCommand \/ InstallTokenExpires \/ UpdateServer \/ DeleteServer
  \/ \E wipe \in BOOLEAN: Install(wipe)
  \/ \E s \in Slots:
       \/ AskRegister(s) \/ Register(s) \/ GetToken(s) \/ Report(s) \/ Drop(s)
       \/ ReadWizard(s) \/ WriteWizard(s)
       \/ \E kind \in Reports: AskReport(s, kind)

EnrollSpec == EnrollInit /\ [][EnrollNext]_enrollVars

-----------------------------------------------------------------------------
(***************************************************************************)
(* A node token, or an install token, that the row has given up does not   *)
(* come back, however late the handlers write that had read it (register,  *)
(* heartbeat and stats write columns of their own, agent.service.ts 43-56, *)
(* 88-96, 119-125).                                                        *)
(***************************************************************************)
RetiredStaysOut ==
  [][/\ server'.node \in {server.node, Nil} \/ server'.node = tokens + 1
     /\ server'.install \in {server.install, Nil} \/ server'.install = installs + 1]_enrollVars

\* The token the agent has, or will have once the answer that it waits for is there.
InHand ==
  {agent.mem, agent.file} \cup {calls[s].answer: s \in {agent.wait} \cap Slots}

(***************************************************************************)
(* As long as the agent gives no request up, keeps what it is answered and *)
(* is installed with a command that is still good, a node token that the   *)
(* panel accepts is in its hands: what administrators do meanwhile (a new  *)
(* command, the wizard, disabling) locks no node out that the panel shows  *)
(* as registered.                                                          *)
(***************************************************************************)
NodeHasItsToken ==
  losses = 0 => server.node \in {Nil} \cup InHand

=============================================================================
