----------------------------- MODULE AccessProofs -----------------------------
(***************************************************************************)
(* Proofs about NodeEnrollment, for any number of requests at once, and    *)
(* about AuthSessions, for any number of tabs and of tokens.               *)
(***************************************************************************)
EXTENDS NodeEnrollment, AuthSessions, FiniteSetTheorems, TLAPS

Statuses == {"PENDING", "ONLINE", "ERROR", "DISABLED", "DELETED"}
ServerRows == [status: Statuses, install: Nat, fresh: BOOLEAN, node: Nat, secret: Nat]
CallKinds == {"idle", "register", "wizard", "answered"} \cup Reports
Agents == [up: BOOLEAN, mem: Nat, file: Nat, saved: BOOLEAN, install: Nat,
           wait: Slots \cup {Nil}]

CallRows == [kind: CallKinds, row: ServerRows, answer: Nat]

EnrollTypeOK ==
  /\ server \in ServerRows
  /\ calls \in [Slots -> CallRows]
  /\ agent \in Agents
  /\ installs \in Nat /\ tokens \in Nat /\ losses \in Nat

\* Only a request that has been answered carries a token.
AnswersLast == \A s \in Slots: calls[s].answer # Nil => calls[s].kind = "answered"

\* A row with an open install command accepts no node token.
OneWayIn == server.install # Nil => server.node = Nil

\* The agent and its state file.
AgentState ==
  /\ ~agent.up => agent.mem = Nil /\ agent.wait = Nil
  /\ agent.up /\ agent.saved => agent.mem = agent.file
  /\ ~agent.saved => agent.wait = Nil

(***************************************************************************)
(* As long as nothing is lost: the registration in work is the one the     *)
(* agent waits for, and what the agent is about to learn or to save is     *)
(* what the panel accepts.                                                 *)
(***************************************************************************)
Followed ==
  /\ server.node \in {Nil} \cup InHand
  /\ \A s \in Slots: calls[s].kind = "register" => agent.wait = s
  /\ \A s \in Slots: agent.wait = s /\ calls[s].answer # Nil
                       => server.node \in {Nil, calls[s].answer}
  /\ ~agent.saved => server.node \in {Nil, agent.mem}

EnrollInv == EnrollTypeOK /\ AnswersLast /\ OneWayIn /\ AgentState /\ (losses = 0 => Followed)

\* The updates of the row and of the agent keep their types.
LEMMA RowUpdates ==
  ASSUME NEW r \in ServerRows, NEW t \in Nat, NEW st \in Statuses
  PROVE  /\ [r EXCEPT !.status = "ONLINE", !.secret = t, !.node = t,
                      !.install = 0, !.fresh = FALSE] \in ServerRows
         /\ [r EXCEPT !.install = t, !.fresh = TRUE, !.status = "PENDING",
                      !.node = 0, !.secret = 0] \in ServerRows
         /\ [r EXCEPT !.status = "DELETED", !.install = 0, !.node = 0,
                      !.secret = 0, !.fresh = FALSE] \in ServerRows
         /\ [r EXCEPT !.secret = t, !.status = st] \in ServerRows
         /\ [r EXCEPT !.status = st, !.secret = t] \in ServerRows
         /\ [r EXCEPT !.status = st] \in ServerRows
         /\ [r EXCEPT !.secret = t] \in ServerRows
         /\ [r EXCEPT !.fresh = FALSE] \in ServerRows
<1>1. [r EXCEPT !.status = "ONLINE", !.secret = t, !.node = t,
               !.install = 0, !.fresh = FALSE] \in ServerRows
  BY DEF ServerRows, Statuses
<1>2. [r EXCEPT !.install = t, !.fresh = TRUE, !.status = "PENDING",
               !.node = 0, !.secret = 0] \in ServerRows
  BY DEF ServerRows, Statuses
<1>3. [r EXCEPT !.status = "DELETED", !.install = 0, !.node = 0,
               !.secret = 0, !.fresh = FALSE] \in ServerRows
  BY DEF ServerRows, Statuses
<1>4. [r EXCEPT !.secret = t, !.status = st] \in ServerRows
  BY DEF ServerRows
<1>5. [r EXCEPT !.status = st, !.secret = t] \in ServerRows
  BY DEF ServerRows
<1>6. [r EXCEPT !.status = st] \in ServerRows /\ [r EXCEPT !.secret = t] \in ServerRows
  BY DEF ServerRows
<1>7. [r EXCEPT !.fresh = FALSE] \in ServerRows
  BY DEF ServerRows
<1> QED
  BY <1>1, <1>2, <1>3, <1>4, <1>5, <1>6, <1>7

LEMMA AgentUpdates ==
  ASSUME NEW r \in Agents, NEW t \in Nat, NEW s \in Slots \cup {0}
  PROVE  /\ [r EXCEPT !.up = TRUE, !.mem = t, !.saved = TRUE] \in Agents
         /\ [r EXCEPT !.up = FALSE, !.mem = 0, !.wait = 0] \in Agents
         /\ [r EXCEPT !.file = t, !.saved = TRUE] \in Agents
         /\ [r EXCEPT !.wait = s] \in Agents
         /\ [r EXCEPT !.wait = 0, !.mem = t, !.saved = FALSE] \in Agents
<1>1. [r EXCEPT !.up = TRUE, !.mem = t, !.saved = TRUE] \in Agents
  BY DEF Agents, Nil
<1>2. [r EXCEPT !.up = FALSE, !.mem = 0, !.wait = 0] \in Agents
  BY DEF Agents, Nil
<1>3. [r EXCEPT !.file = t, !.saved = TRUE] \in Agents
  BY DEF Agents, Nil
<1>4. [r EXCEPT !.wait = s] \in Agents
  BY DEF Agents, Nil
<1>5. [r EXCEPT !.wait = 0, !.mem = t, !.saved = FALSE] \in Agents
  BY DEF Agents, Nil
<1> QED
  BY <1>1, <1>2, <1>3, <1>4, <1>5

LEMMA AdmitTypes ==
  ASSUME EnrollTypeOK, NEW s \in Slots, NEW kind \in CallKinds, Admit(s, kind)
  PROVE  calls' \in [Slots -> CallRows]
BY DEF EnrollTypeOK, Admit, CallRows, Nil

LEMMA EndTypes ==
  ASSUME EnrollTypeOK
  PROVE  /\ NewServer \in ServerRows
         /\ \A answer \in Nat: [IdleCall EXCEPT !.kind = "answered", !.answer = answer] \in CallRows
         /\ [IdleCall EXCEPT !.kind = "answered"] \in CallRows
         /\ \A s \in Slots: End(s) => calls' \in [Slots -> CallRows]
<1>1. NewServer \in ServerRows
  BY DEF NewServer, ServerRows, Statuses, Nil
<1>2. IdleCall \in CallRows
  BY <1>1 DEF IdleCall, CallRows, CallKinds, Nil
<1>3. "answered" \in CallKinds
  BY DEF CallKinds
<1>4. \A answer \in Nat: [IdleCall EXCEPT !.kind = "answered", !.answer = answer] \in CallRows
  BY <1>2, <1>3 DEF CallRows
<1>5. [IdleCall EXCEPT !.kind = "answered"] \in CallRows
  BY <1>2, <1>3 DEF CallRows
<1> QED
  BY <1>1, <1>2, <1>4, <1>5 DEF End, EnrollTypeOK

LEMMA EnrollTypes == ASSUME EnrollTypeOK, EnrollNext PROVE EnrollTypeOK' /\ losses <= losses'
<1> USE SlotsAssumption DEF EnrollTypeOK, Nil
<1>1. TokenLost \/ losses' = losses => losses' \in Nat /\ losses <= losses'
  BY DEF TokenLost
<1>2. CASE AgentStart \/ AgentCrash \/ SaveState \/ GiveUp
  <2>1. agent.mem \in Nat /\ agent.file \in Nat
    BY DEF Agents
  <2>2. agent' \in Agents
    BY <1>2, <2>1, AgentUpdates DEF AgentStart, AgentCrash, SaveState, GiveUp
  <2> QED
    BY <1>1, <1>2, <2>2 DEF AgentStart, AgentCrash, SaveState, GiveUp
<1>3. CASE CreateInstallCommand \/ InstallTokenExpires
  <2>1. "PENDING" \in Statuses
    BY DEF Statuses
  <2>2. installs' \in Nat /\ installs + 1 \in Nat
    BY <1>3 DEF CreateInstallCommand, InstallTokenExpires
  <2>3. CASE CreateInstallCommand
    <3>1. server' = [server EXCEPT !.install = installs + 1, !.fresh = TRUE, !.status = "PENDING",
                                   !.node = 0, !.secret = 0]
      BY <2>3 DEF CreateInstallCommand, NewCommand
    <3>2. server' \in ServerRows
      BY <2>1, <2>2, <3>1, RowUpdates
    <3> QED
      BY <1>1, <2>2, <2>3, <3>2 DEF CreateInstallCommand
  <2>4. CASE InstallTokenExpires
    <3>1. server' = [server EXCEPT !.fresh = FALSE]
      BY <2>4 DEF InstallTokenExpires
    <3>2. server' \in ServerRows
      BY <2>1, <3>1, RowUpdates
    <3> QED
      BY <1>1, <2>4, <3>2 DEF InstallTokenExpires
  <2> QED
    BY <1>3, <2>3, <2>4
<1>4. CASE UpdateServer \/ DeleteServer
  <2>1. server.secret \in Nat /\ server.status \in Statuses
    BY DEF ServerRows
  <2>2. {"DISABLED", "PENDING"} \subseteq Statuses
    BY DEF Statuses
  <2>3. CASE UpdateServer
    <3>1. PICK secret \in {server.secret, 0}, status \in {server.status, "DISABLED", "PENDING"}:
            server' = [server EXCEPT !.secret = secret, !.status = status]
      BY <2>3 DEF UpdateServer
    <3>2. server' \in ServerRows
      BY <2>1, <2>2, <3>1, RowUpdates
    <3> QED
      BY <1>1, <2>3, <3>2 DEF UpdateServer
  <2>4. CASE DeleteServer
    <3>1. server' = [server EXCEPT !.status = "DELETED", !.install = 0, !.node = 0,
                                   !.secret = 0, !.fresh = FALSE]
      BY <2>4 DEF DeleteServer
    <3>2. server' \in ServerRows
      BY <2>1, <3>1, RowUpdates
    <3> QED
      BY <1>1, <2>4, <3>2 DEF DeleteServer
  <2> QED
    BY <1>4, <2>3, <2>4
<1>5. ASSUME NEW wipe \in BOOLEAN, Install(wipe) PROVE EnrollTypeOK' /\ losses <= losses'
  <2>1. agent' \in Agents
    BY <1>5 DEF Install, Agents
  <2> QED
    BY <1>1, <1>5, <2>1 DEF Install
<1>6. ASSUME NEW s \in Slots, AskRegister(s) \/ ReadWizard(s) \/ (\E kind \in Reports : AskReport(s, kind))
      PROVE  EnrollTypeOK' /\ losses <= losses'
  <2>1. \E kind \in CallKinds : Admit(s, kind)
    BY <1>6 DEF AskRegister, ReadWizard, AskReport, CallKinds
  <2>2. agent' \in Agents
    BY <1>6, AgentUpdates DEF AskRegister, ReadWizard, AskReport
  <2> QED
    BY <1>1, <1>6, <2>1, <2>2, AdmitTypes DEF AskRegister, ReadWizard, AskReport
<1>7. ASSUME NEW s \in Slots, Register(s) PROVE EnrollTypeOK' /\ losses <= losses'
  <2>1. tokens + 1 \in Nat
    OBVIOUS
  <2>2. "ONLINE" \in Statuses
    BY DEF Statuses
  <2>3. Registered(tokens + 1) => server' \in ServerRows
    BY <2>1, <2>2, RowUpdates DEF Registered
  <2> QED
    BY <1>1, <1>7, <2>1, <2>3, EndTypes DEF Register
<1>8. ASSUME NEW s \in Slots, Report(s) PROVE EnrollTypeOK' /\ losses <= losses'
  <2>1. PICK status \in {"ONLINE", "ERROR"}:
          server' = CASE ~Exists -> server
                      [] Exists /\ calls[s].kind = "heartbeat" -> Merged(calls[s], status)
                      [] Exists /\ calls[s].kind = "stats" -> Merged(calls[s], server.status)
                      [] Exists /\ calls[s].kind = "result" -> [server EXCEPT !.status = status]
    BY <1>8 DEF Report
  <2>2. calls[s].row.secret \in Nat /\ status \in Statuses /\ server.status \in Statuses
    BY DEF CallRows, ServerRows, Statuses
  <2>3. \A st \in Statuses: Merged(calls[s], st) \in ServerRows /\ [server EXCEPT !.status = st] \in ServerRows
    BY <2>2, RowUpdates DEF Merged
  <2>4. calls[s].kind \in Reports
    BY <1>8 DEF Report
  <2>5. server' \in ServerRows
    BY <2>1, <2>2, <2>3, <2>4 DEF Reports
  <2> QED
    BY <1>1, <1>8, <2>5, EndTypes DEF Report
<1>9. ASSUME NEW s \in Slots, GetToken(s) PROVE EnrollTypeOK' /\ losses <= losses'
  <2>1. calls[s].answer \in Nat
    BY DEF CallRows
  <2>2. agent' \in Agents
    BY <1>9, <2>1, AgentUpdates DEF GetToken
  <2> QED
    BY <1>1, <1>9, <2>2, EndTypes DEF GetToken
<1>10. ASSUME NEW s \in Slots, Drop(s) PROVE EnrollTypeOK' /\ losses <= losses'
  BY <1>1, <1>10, EndTypes DEF Drop
<1>11. ASSUME NEW s \in Slots, WriteWizard(s) PROVE EnrollTypeOK' /\ losses <= losses'
  <2>1. calls[s].row.secret \in Nat
    BY DEF CallRows, ServerRows
  <2>2. server' = server \/ server' = [server EXCEPT !.secret = calls[s].row.secret]
    BY <1>11 DEF WriteWizard
  <2>3. server.status \in Statuses
    BY DEF ServerRows
  <2>4. server' \in ServerRows
    BY <2>1, <2>2, <2>3, RowUpdates
  <2> QED
    BY <1>1, <1>11, <2>4, EndTypes DEF WriteWizard
<1> QED
  BY <1>2, <1>3, <1>4, <1>5, <1>6, <1>7, <1>8, <1>9, <1>10, <1>11 DEF EnrollNext

\* What is in the agent's hands, without the set.
LEMMA InHandIs ==
  ASSUME NEW t
  PROVE  t \in InHand <=> \/ t = agent.mem \/ t = agent.file
                          \/ agent.wait \in Slots /\ t = calls[agent.wait].answer
BY DEF InHand

LEMMA InHandIsNext ==
  ASSUME NEW t
  PROVE  (t \in InHand)' <=> \/ t' = agent'.mem \/ t' = agent'.file
                             \/ agent'.wait \in Slots /\ t' = calls'[agent'.wait].answer
BY DEF InHand

Kept == AnswersLast' /\ OneWayIn' /\ AgentState' /\ (losses' = 0 => Followed')

\* The agent's own steps.
LEMMA AgentKeeps ==
  ASSUME EnrollInv, EnrollTypeOK', losses <= losses',
         AgentStart \/ AgentCrash \/ SaveState \/ GiveUp
  PROVE  Kept
<1> USE SlotsAssumption DEF EnrollInv, EnrollTypeOK, AnswersLast, OneWayIn, AgentState, Followed, Kept
<1> DEFINE node == server.node
<1>1. /\ server' = server /\ calls' = calls
      /\ losses' = 0 => losses = 0
  BY DEF AgentStart, AgentCrash, SaveState, GiveUp, Agents
<1>2. AnswersLast' /\ OneWayIn'
  BY <1>1
<1>3. ASSUME losses = 0
      PROVE  /\ node \in {Nil, agent.mem, agent.file} \/ (agent.wait \in Slots /\ node = calls[agent.wait].answer)
  BY <1>3, InHandIs
<1>4. CASE AgentStart
  <2>1. /\ ~agent.up /\ agent'.up /\ agent'.mem = agent.file /\ agent'.file = agent.file
        /\ agent'.saved /\ agent'.wait = agent.wait /\ losses' = losses
    BY <1>4 DEF AgentStart, Agents
  <2> QED
    BY <1>1, <1>2, <1>3, <2>1, InHandIsNext
<1>5. CASE AgentCrash
  <2>1. /\ agent.up /\ ~agent'.up /\ agent'.mem = Nil /\ agent'.file = agent.file
        /\ agent'.saved = agent.saved /\ agent'.wait = Nil
        /\ losses' = 0 => agent.saved /\ agent.wait = Nil
    BY <1>5 DEF AgentCrash, Agents, TokenLost
  <2> QED
    BY <1>1, <1>2, <1>3, <2>1, InHandIsNext
<1>6. CASE SaveState
  <2>1. /\ agent'.up /\ agent'.mem = agent.mem /\ agent'.file = agent.mem
        /\ ~agent.saved /\ agent'.saved /\ agent'.wait = agent.wait /\ losses' = losses
    BY <1>6 DEF SaveState, Agents
  <2> QED
    BY <1>1, <1>2, <1>3, <2>1, InHandIsNext
<1>7. CASE GiveUp
  <2>1. losses' # 0 /\ agent'.wait = Nil /\ agent'.saved = agent.saved /\ agent'.up = agent.up
        /\ agent'.mem = agent.mem /\ agent'.file = agent.file
    BY <1>7 DEF GiveUp, Agents, TokenLost
  <2> QED
    BY <1>1, <1>2, <2>1
<1> QED
  BY <1>4, <1>5, <1>6, <1>7

\* What administrators do touches neither the agent nor the answers.
LEMMA AdminKeeps ==
  ASSUME EnrollInv, EnrollTypeOK',
         CreateInstallCommand \/ InstallTokenExpires \/ UpdateServer \/ DeleteServer
  PROVE  Kept
<1> USE SlotsAssumption DEF EnrollInv, EnrollTypeOK, AnswersLast, OneWayIn, AgentState, Followed, Kept
<1>1. agent' = agent /\ calls' = calls /\ losses' = losses
  BY DEF CreateInstallCommand, InstallTokenExpires, UpdateServer, DeleteServer
<1>2. \/ server'.node = server.node /\ server'.install = server.install
      \/ server'.node = Nil
  <2>1. CASE CreateInstallCommand
    BY <2>1 DEF CreateInstallCommand, NewCommand, ServerRows
  <2>2. CASE InstallTokenExpires
    BY <2>2 DEF InstallTokenExpires, ServerRows
  <2>3. CASE UpdateServer
    BY <2>3 DEF UpdateServer, ServerRows
  <2>4. CASE DeleteServer
    BY <2>4 DEF DeleteServer, ServerRows
  <2> QED
    BY <2>1, <2>2, <2>3, <2>4
<1>3. InHand' = InHand
  BY <1>1 DEF InHand
<1> QED
  BY <1>1, <1>2, <1>3

\* An installation finds a row that accepts no token, or it is a loss.
LEMMA InstallKeeps ==
  ASSUME EnrollInv, EnrollTypeOK', NEW wipe \in BOOLEAN, Install(wipe)
  PROVE  Kept
<1> USE SlotsAssumption DEF EnrollInv, EnrollTypeOK, AnswersLast, OneWayIn, AgentState, Followed, Kept
<1>1. /\ server' = server /\ calls' = calls
      /\ agent'.up /\ agent'.saved /\ agent'.wait = Nil /\ agent'.mem = agent'.file
      /\ losses' = 0 => losses = 0 /\ agent.wait = Nil /\ server.install = installs /\ installs # Nil
  BY DEF Install, TokenLost, Nil
<1>2. losses' = 0 => server.node = Nil
  BY <1>1
<1> QED
  BY <1>1, <1>2

\* A request is sent only by an agent that waits for nothing and has saved its token.
LEMMA AskKeeps ==
  ASSUME EnrollInv, EnrollTypeOK', NEW s \in Slots,
         AskRegister(s) \/ ReadWizard(s) \/ (\E kind \in Reports: AskReport(s, kind))
  PROVE  Kept
<1> USE SlotsAssumption DEF EnrollInv, EnrollTypeOK, AnswersLast, OneWayIn, AgentState, Followed, Kept
<1>1. /\ server' = server /\ losses' = losses /\ calls[s].answer = Nil
      /\ calls'[s].answer = Nil /\ \A r \in Slots \ {s}: calls'[r] = calls[r]
      /\ agent'.up = agent.up /\ agent'.mem = agent.mem /\ agent'.file = agent.file
      /\ agent'.saved = agent.saved
  BY DEF AskRegister, ReadWizard, AskReport, Admit, IdleCall, Agents
<1>2. \/ agent'.wait = s /\ agent.wait = Nil /\ agent.saved /\ agent.up
      \/ agent'.wait = agent.wait /\ calls'[s].kind = "wizard"
  BY DEF AskRegister, ReadWizard, AskReport, Admit, Ready, Agents
<1>3. AnswersLast' /\ OneWayIn'
  BY <1>1
<1>4. AgentState'
  BY <1>1, <1>2
<1>5. losses = 0 => Followed'
  <2> SUFFICES ASSUME losses = 0 PROVE Followed'
    OBVIOUS
  <2>1. server.node \in {Nil, agent.mem, agent.file} \/ (agent.wait \in Slots /\ server.node = calls[agent.wait].answer)
    BY InHandIs
  <2>2. server'.node \in {Nil} \cup InHand'
    BY <1>1, <1>2, <2>1, InHandIsNext
  <2> QED
    BY <1>1, <1>2, <2>2
<1> QED
  BY <1>1, <1>3, <1>4, <1>5

\* A registration is answered to the agent, which waits for it.
LEMMA RegisterKeeps ==
  ASSUME EnrollInv, EnrollTypeOK', NEW s \in Slots, Register(s)
  PROVE  Kept
<1> USE SlotsAssumption DEF EnrollInv, EnrollTypeOK, AnswersLast, OneWayIn, AgentState, Followed, Kept
<1>1. /\ agent' = agent /\ losses' = losses /\ calls[s].kind = "register"
      /\ calls[s].answer = Nil /\ calls'[s].kind = "answered"
      /\ \A r \in Slots \ {s}: calls'[r] = calls[r]
  BY DEF Register, IdleCall
<1>2. \/ /\ Exists /\ calls'[s].answer = tokens + 1
         /\ server'.node = tokens + 1 /\ server'.install = Nil
      \/ calls'[s].answer = Nil /\ server' = server
  <2>1. CASE Exists
    BY <2>1 DEF Register, Registered, IdleCall, ServerRows
  <2>2. CASE ~Exists
    BY <2>2 DEF Register, IdleCall
  <2> QED
    BY <2>1, <2>2
<1>3. AnswersLast' /\ OneWayIn' /\ AgentState'
  BY <1>1, <1>2
<1>4. losses = 0 => Followed'
  <2> SUFFICES ASSUME losses = 0 PROVE Followed'
    OBVIOUS
  <2>1. agent.wait = s /\ agent.saved
    BY <1>1 DEF Nil
  <2>2. server.node \in {Nil, agent.mem, agent.file} \/ server.node = calls[s].answer
    BY <2>1, InHandIs
  <2>3. server'.node \in {Nil} \cup InHand'
    BY <1>1, <1>2, <2>1, <2>2, InHandIsNext
  <2> QED
    BY <1>1, <1>2, <2>1, <2>3
<1> QED
  BY <1>1, <1>3, <1>4

\* The other handlers leave the tokens that admit a node alone.
LEMMA HandlersKeep ==
  ASSUME EnrollInv, EnrollTypeOK', NEW s \in Slots, Report(s) \/ Drop(s) \/ WriteWizard(s)
  PROVE  Kept
<1> USE SlotsAssumption DEF EnrollInv, EnrollTypeOK, AnswersLast, OneWayIn, AgentState, Followed, Kept
<1>1. /\ agent' = agent /\ losses' = losses
      /\ calls'[s].answer = Nil /\ calls'[s].kind \in {"idle", "answered"}
      /\ \A r \in Slots \ {s}: calls'[r] = calls[r]
      /\ agent.wait # s \/ calls[s].answer = Nil
  BY DEF Report, Drop, WriteWizard, End, IdleCall, Reports
<1>2. server'.node = server.node /\ server'.install = server.install
  <2>1. CASE Report(s)
    <3>1. PICK status \in {"ONLINE", "ERROR"}:
            server' = CASE ~Exists -> server
                        [] Exists /\ calls[s].kind = "heartbeat" -> Merged(calls[s], status)
                        [] Exists /\ calls[s].kind = "stats" -> Merged(calls[s], server.status)
                        [] Exists /\ calls[s].kind = "result" -> [server EXCEPT !.status = status]
      BY <2>1 DEF Report
    <3>2. calls[s].kind \in Reports
      BY <2>1 DEF Report
    <3> QED
      BY <3>1, <3>2 DEF Merged, Reports, ServerRows
  <2>2. CASE Drop(s)
    BY <2>2 DEF Drop
  <2>3. CASE WriteWizard(s)
    BY <2>3 DEF WriteWizard, ServerRows
  <2> QED
    BY <2>1, <2>2, <2>3
<1>3. AnswersLast' /\ OneWayIn' /\ AgentState'
  BY <1>1, <1>2
<1>4. losses = 0 => Followed'
  <2> SUFFICES ASSUME losses = 0 PROVE Followed'
    OBVIOUS
  <2>1. server.node \in {Nil, agent.mem, agent.file} \/ (agent.wait \in Slots /\ server.node = calls[agent.wait].answer)
    BY InHandIs
  <2>2. server'.node \in {Nil} \cup InHand'
    BY <1>1, <1>2, <2>1, InHandIsNext
  <2> QED
    BY <1>1, <1>2, <2>2
<1> QED
  BY <1>1, <1>3, <1>4

\* The answer arrives; the token before it is forgotten.
LEMMA GetTokenKeeps ==
  ASSUME EnrollInv, EnrollTypeOK', NEW s \in Slots, GetToken(s)
  PROVE  Kept
<1> USE SlotsAssumption DEF EnrollInv, EnrollTypeOK, AnswersLast, OneWayIn, AgentState, Followed, Kept
<1>1. /\ server' = server /\ losses' = losses /\ agent.wait = s /\ calls[s].kind = "answered"
      /\ calls'[s].answer = Nil /\ calls'[s].kind = "idle"
      /\ \A r \in Slots \ {s}: calls'[r] = calls[r]
  BY DEF GetToken, End, IdleCall
<1>2. agent'.wait = Nil /\ agent'.file = agent.file /\ agent'.up = agent.up
  BY DEF GetToken, Agents
<1>3. \/ calls[s].answer = Nil /\ agent'.mem = agent.mem /\ agent'.saved = agent.saved
      \/ calls[s].answer # Nil /\ agent'.mem = calls[s].answer /\ ~agent'.saved
  BY DEF GetToken, Agents
<1>4. agent.up
  BY <1>1 DEF Nil
<1>5. AnswersLast' /\ OneWayIn' /\ AgentState'
  BY <1>1, <1>2, <1>3, <1>4
<1>6. losses = 0 => Followed'
  <2> SUFFICES ASSUME losses = 0 PROVE Followed'
    OBVIOUS
  <2>1. server.node \in {Nil, agent.mem, agent.file} \/ server.node = calls[s].answer
    BY <1>1, InHandIs
  <2>2. server'.node \in {Nil} \cup InHand'
    BY <1>1, <1>2, <1>3, <2>1, InHandIsNext
  <2> QED
    BY <1>1, <1>2, <1>3, <2>2
<1> QED
  BY <1>1, <1>5, <1>6

LEMMA EnrollInductive == EnrollInv /\ [EnrollNext]_enrollVars => EnrollInv'
<1> SUFFICES ASSUME EnrollInv, [EnrollNext]_enrollVars PROVE EnrollInv'
  OBVIOUS
<1>1. CASE EnrollNext
  <2>1. EnrollTypeOK' /\ losses <= losses'
    BY <1>1, EnrollTypes DEF EnrollInv
  <2>2. Kept
    BY <1>1, <2>1, AgentKeeps, AdminKeeps, InstallKeeps, AskKeeps, RegisterKeeps,
       HandlersKeep, GetTokenKeeps DEF EnrollNext
  <2> QED
    BY <2>1, <2>2 DEF EnrollInv, Kept
<1>2. CASE UNCHANGED enrollVars
  BY <1>2 DEF enrollVars, EnrollInv, EnrollTypeOK, AnswersLast, OneWayIn, AgentState, Followed, InHand
<1> QED
  BY <1>1, <1>2

(***************************************************************************)
(* Unless the agent loses sight of a token itself, a node the panel shows  *)
(* as registered can speak to it, however many requests, late handlers and *)
(* acts of administrators cross.                                           *)
(***************************************************************************)
THEOREM NodeStaysIn == EnrollSpec => []NodeHasItsToken
<1>1. EnrollInit => EnrollInv
  <2> SUFFICES ASSUME EnrollInit PROVE EnrollInv
    OBVIOUS
  <2>1. EnrollTypeOK
    BY DEF EnrollInit, EnrollTypeOK, NewServer, IdleCall, ServerRows, CallRows, CallKinds,
           Agents, Statuses, Nil
  <2> QED
    BY <2>1 DEF EnrollInit, EnrollInv, AnswersLast, OneWayIn, AgentState, Followed, InHand,
                NewServer, IdleCall
<1>2. EnrollInv => NodeHasItsToken
  BY DEF EnrollInv, Followed, NodeHasItsToken
<1> QED
  BY <1>1, <1>2, EnrollInductive, PTL DEF EnrollSpec

(***************************************************************************)
(* What a row has given up, a node token or an install token, no handler   *)
(* brings back, however long ago it read the row.                          *)
(***************************************************************************)
THEOREM RetiredForGood == EnrollSpec => RetiredStaysOut
<1> DEFINE Out == /\ server'.node \in {server.node, Nil} \/ server'.node = tokens + 1
                  /\ server'.install \in {server.install, Nil} \/ server'.install = installs + 1
<1>1. EnrollInit => EnrollTypeOK
  BY DEF EnrollInit, EnrollTypeOK, NewServer, IdleCall, ServerRows, CallRows, CallKinds,
         Agents, Statuses, Nil
<1>2. EnrollTypeOK /\ [EnrollNext]_enrollVars => EnrollTypeOK'
  BY EnrollTypes DEF enrollVars, EnrollTypeOK
<1>3. ASSUME EnrollTypeOK, EnrollNext PROVE Out
  <2> USE DEF EnrollTypeOK
  <2>1. CASE server' = server
    BY <2>1
  <2>2. ASSUME NEW s \in Slots, Register(s) PROVE Out
    BY <1>3, <2>2 DEF Register, Registered, ServerRows
  <2>3. ASSUME NEW s \in Slots, Report(s) PROVE Out
    <3>1. PICK status \in {"ONLINE", "ERROR"}:
            server' = CASE ~Exists -> server
                        [] Exists /\ calls[s].kind = "heartbeat" -> Merged(calls[s], status)
                        [] Exists /\ calls[s].kind = "stats" -> Merged(calls[s], server.status)
                        [] Exists /\ calls[s].kind = "result" -> [server EXCEPT !.status = status]
      BY <2>3 DEF Report
    <3>2. calls[s].kind \in Reports
      BY <2>3 DEF Report
    <3> QED
      BY <1>3, <3>1, <3>2 DEF Merged, Reports, ServerRows
  <2>4. ASSUME NEW s \in Slots, WriteWizard(s) PROVE Out
    BY <1>3, <2>4 DEF WriteWizard, ServerRows
  <2>5. CASE CreateInstallCommand
    BY <1>3, <2>5 DEF CreateInstallCommand, NewCommand, ServerRows
  <2>6. CASE InstallTokenExpires
    BY <1>3, <2>6 DEF InstallTokenExpires, ServerRows
  <2>7. CASE UpdateServer
    BY <1>3, <2>7 DEF UpdateServer, ServerRows
  <2>8. CASE DeleteServer
    BY <1>3, <2>8 DEF DeleteServer, ServerRows
  <2> QED
    BY <1>3, <2>1, <2>2, <2>3, <2>4, <2>5, <2>6, <2>7, <2>8
       DEF EnrollNext, AgentStart, AgentCrash, SaveState, GiveUp, Install, AskRegister,
           GetToken, Drop, ReadWizard, AskReport
<1> QED
  BY <1>1, <1>2, <1>3, PTL DEF EnrollSpec, RetiredStaysOut

-----------------------------------------------------------------------------
(***************************************************************************)
(* The sessions of an administrator.                                       *)
(***************************************************************************)
Kinds == {"none", "login", "refresh", "logout", "enable", "confirm", "disable"}
Stages == {"idle", "create", "find", "claim", "claimed", "scan", "revoke", "write", "done", "failed"}
TokenRows == [state: {"free", "live", "stale", "revoked"}, family: Tokens \cup {None}]
TabCalls == [kind: Kinds, stage: Stages, token: Nat, seen: SUBSET Tokens, crossed: BOOLEAN]
TabStates == [access: BOOLEAN, call: TabCalls, shown: Nat]

SessionTypeOK ==
  /\ rows \in [Tokens -> TokenRows]
  /\ admin \in [secret: Nat, pending: Nat]
  /\ jar \in Nat
  /\ tabs \in [Tabs -> TabStates]

LEMMA StageType ==
  ASSUME NEW w \in TabStates, NEW st \in Stages
  PROVE  [w EXCEPT !.call.stage = st] \in TabStates
BY DEF TabStates, TabCalls

LEMMA CallType ==
  ASSUME NEW w \in TabStates, NEW k \in Kinds, NEW st \in Stages, NEW t \in Nat
  PROVE  [w EXCEPT !.call = [NoCall EXCEPT !.kind = k, !.stage = st, !.token = t]] \in TabStates
<1>1. NoCall \in TabCalls
  BY DEF NoCall, TabCalls, Kinds, Stages, None
<1>2. [NoCall EXCEPT !.kind = k, !.stage = st, !.token = t] \in TabCalls
  BY <1>1 DEF TabCalls
<1> QED
  BY <1>2 DEF TabStates

LEMMA TokenType ==
  ASSUME NEW w \in TabStates, NEW st \in Stages, NEW t \in Nat
  PROVE  [w EXCEPT !.call.stage = st, !.call.token = t] \in TabStates
<1>1. [w.call EXCEPT !.stage = st, !.token = t] \in TabCalls
  BY DEF TabStates, TabCalls
<1> QED
  BY <1>1 DEF TabStates

LEMMA ScanType ==
  ASSUME NEW w \in TabStates, NEW st \in Stages, NEW u \in SUBSET Tokens, NEW b \in BOOLEAN
  PROVE  [w EXCEPT !.call.stage = st, !.call.seen = u, !.call.crossed = b] \in TabStates
<1>1. [w.call EXCEPT !.stage = st, !.seen = u, !.crossed = b] \in TabCalls
  BY DEF TabStates, TabCalls
<1> QED
  BY <1>1 DEF TabStates

LEMMA CrossedType ==
  ASSUME NEW w \in TabStates, NEW b \in BOOLEAN
  PROVE  [w EXCEPT !.call.crossed = b] \in TabStates
BY DEF TabStates, TabCalls

LEMMA EndType ==
  ASSUME NEW w \in TabStates, NEW t \in Nat, NEW b \in BOOLEAN
  PROVE  /\ [w EXCEPT !.call = NoCall, !.shown = t] \in TabStates
         /\ [w EXCEPT !.call = NoCall] \in TabStates
         /\ [w EXCEPT !.call = NoCall, !.access = b] \in TabStates
<1>1. NoCall \in TabCalls
  BY DEF NoCall, TabCalls, Kinds, Stages, None
<1> QED
  BY <1>1 DEF TabStates

\* What each step of tab p does to the tabs.
LEMMA TabTypes ==
  ASSUME SessionTypeOK, NEW p \in Tabs, TabStep(p)
  PROVE  tabs' \in [Tabs -> TabStates] /\ jar' \in Nat
<1> USE DEF SessionTypeOK
<1>1. /\ tabs[p] \in TabStates /\ tabs[p].call.token \in Nat /\ tabs[p].call.kind \in Kinds
      /\ tabs[p].access \in BOOLEAN /\ tabs[p].shown \in Nat
  BY DEF TabStates, TabCalls
<1>2. /\ admin.pending \in Nat /\ None \in Nat /\ Tokens \subseteq Nat /\ Secrets \subseteq Nat
      /\ Scanned(p) \in SUBSET Tokens
  BY SessionsAssumption DEF None, Tokens, Secrets, Scanned, Created, Family
<1>3. \A k \in Kinds, st \in Stages, t \in Nat : Call(p, k, st, t) => tabs' \in [Tabs -> TabStates]
  <2> SUFFICES ASSUME NEW k \in Kinds, NEW st \in Stages, NEW t \in Nat, Call(p, k, st, t)
               PROVE  tabs' \in [Tabs -> TabStates]
    OBVIOUS
  <2>1. [tabs[p] EXCEPT !.call = [NoCall EXCEPT !.kind = k, !.stage = st, !.token = t]] \in TabStates
    BY <1>1, CallType
  <2> QED
    BY <2>1 DEF Call
<1>4. \A st \in Stages : Stage(p, st) => tabs' \in [Tabs -> TabStates]
  BY <1>1, StageType DEF Stage
<1>5. CASE Login(p) \/ Refresh(p) \/ Logout(p) \/ EnableTotp(p) \/ ConfirmTotp(p) \/ DisableTotp(p)
  BY <1>2, <1>3, <1>5 DEF Login, Refresh, Logout, EnableTotp, ConfirmTotp, DisableTotp, Kinds, Stages
<1>6. CASE FindToken(p) \/ ClaimToken(p) \/ Revoke(p)
  BY <1>4, <1>6 DEF FindToken, ClaimToken, Revoke, Stages
<1>7. CASE CreateFamily(p)
  <2>1. PICK t \in Tokens : tabs' = [tabs EXCEPT ![p].call.stage = "done", ![p].call.token = t]
    BY <1>7 DEF CreateFamily
  <2>2. t \in Nat /\ "done" \in Stages
    BY <1>2 DEF Stages
  <2>3. [tabs[p] EXCEPT !.call.stage = "done", !.call.token = t] \in TabStates
    BY <1>1, <2>2, TokenType
  <2> QED
    BY <1>7, <2>1, <2>3 DEF CreateFamily
<1>8. CASE Rotate(p)
  <2> DEFINE t == tabs[p].call.token
  <2>1. PICK u \in Tokens:
          tabs' = [q \in Tabs |->
               IF q = p THEN [tabs[p] EXCEPT !.call.stage = "done", !.call.token = u]
               ELSE [tabs[q] EXCEPT !.call.crossed =
                       @ \/ (tabs[q].call.stage = "revoke" /\ t \in tabs[q].call.seen)]]
    BY <1>8 DEF Rotate
  <2>2. [tabs[p] EXCEPT !.call.stage = "done", !.call.token = u] \in TabStates
    BY <1>1, <1>2, TokenType DEF Stages
  <2>3. ASSUME NEW q \in Tabs
        PROVE  [tabs[q] EXCEPT !.call.crossed =
                  @ \/ (tabs[q].call.stage = "revoke" /\ t \in tabs[q].call.seen)] \in TabStates
    <3> DEFINE b == tabs[q].call.crossed \/ (tabs[q].call.stage = "revoke" /\ t \in tabs[q].call.seen)
    <3>1. tabs[q] \in TabStates /\ b \in BOOLEAN
      BY DEF TabStates, TabCalls
    <3> QED
      BY <3>1, CrossedType
  <2>4. tabs' \in [Tabs -> TabStates]
    BY <2>1, <2>2, <2>3
  <2> QED
    BY <1>8, <2>4 DEF Rotate
<1>9. CASE Scan(p)
  <2>1. (\E u \in Scanned(p) : Locked(u, p)) \in BOOLEAN
    OBVIOUS
  <2>2. "revoke" \in Stages
    BY DEF Stages
  <2>3. [tabs[p] EXCEPT !.call.stage = "revoke", !.call.seen = Scanned(p),
                        !.call.crossed = \E u \in Scanned(p) : Locked(u, p)] \in TabStates
    BY <1>1, <1>2, <2>1, <2>2, ScanType
  <2> QED
    BY <1>9, <2>3 DEF Scan
<1>10. CASE StorePending(p) \/ StoreSecret(p)
  <2>1. \A t \in Nat : /\ [tabs[p] EXCEPT !.call = NoCall, !.shown = t] \in TabStates
                       /\ [tabs[p] EXCEPT !.call = NoCall] \in TabStates
    BY <1>1, EndType
  <2>2. CASE StorePending(p)
    <3>1. PICK t \in Secrets : tabs' = [tabs EXCEPT ![p].call = NoCall, ![p].shown = t]
      BY <2>2 DEF StorePending
    <3>2. [tabs[p] EXCEPT !.call = NoCall, !.shown = t] \in TabStates
      BY <1>2, <2>1, <3>1
    <3> QED
      BY <2>2, <3>1, <3>2 DEF StorePending
  <2>3. CASE StoreSecret(p)
    BY <2>1, <2>3 DEF StoreSecret
  <2> QED
    BY <2>2, <2>3, <1>10
<1>11. CASE Answer(p)
  <2>1. (SignedIn(p) \/ tabs[p].call.kind = "disable") \in BOOLEAN
    BY DEF SignedIn
  <2>2. [tabs[p] EXCEPT !.call = NoCall, !.access = SignedIn(p) \/ tabs[p].call.kind = "disable"] \in TabStates
    BY <1>1, <1>2, <2>1, EndType
  <2> QED
    BY <1>1, <1>2, <1>11, <2>2 DEF Answer
<1>12. CASE LoseAnswer(p)
  <2> DEFINE b == tabs[p].access /\ tabs[p].call.kind \notin {"refresh", "logout"}
  <2>1. b \in BOOLEAN
    BY <1>1
  <2>2. [tabs[p] EXCEPT !.call = NoCall, !.access = b] \in TabStates
    BY <1>1, <1>2, <2>1, EndType
  <2>3. tabs' = [tabs EXCEPT ![p] = [tabs[p] EXCEPT !.call = NoCall, !.access = b]]
    BY <1>12 DEF LoseAnswer
  <2> QED
    BY <1>12, <2>2, <2>3 DEF LoseAnswer
<1> QED
  BY <1>5, <1>6, <1>7, <1>8, <1>9, <1>10, <1>11, <1>12 DEF TabStep

LEMMA RowTypes ==
  ASSUME SessionTypeOK, NEW p \in Tabs, TabStep(p),
         At(p, {"refresh"}, "claimed") => tabs[p].call.token \in Tokens
  PROVE  rows' \in [Tokens -> TokenRows] /\ admin' \in [secret: Nat, pending: Nat]
<1> USE DEF SessionTypeOK
<1>1. /\ tabs[p].call.token \in Nat /\ admin.secret \in Nat /\ admin.pending \in Nat
      /\ None \in Nat /\ Secrets \subseteq Nat
  BY SessionsAssumption DEF TabStates, TabCalls, None, Secrets
<1>2. \A t \in Tokens : /\ [rows[t] EXCEPT !.state = "revoked"] \in TokenRows
                        /\ rows[t].family \in Tokens \cup {None}
  BY DEF TokenRows
<1>3. \A f \in Tokens \cup {None} : [state |-> "live", family |-> f] \in TokenRows
  BY DEF TokenRows
<1>4. CASE CreateFamily(p)
  BY <1>3, <1>4 DEF CreateFamily, NewToken
<1>5. CASE FindToken(p)
  BY <1>2, <1>5 DEF FindToken
<1>6. CASE Rotate(p)
  <2> DEFINE t == tabs[p].call.token
  <2>1. PICK u \in Tokens : rows' = [NewToken(u, rows[t].family) EXCEPT ![t].state = "revoked"]
    BY <1>6 DEF Rotate
  <2>2. t \in Tokens
    BY <1>6 DEF Rotate
  <2> DEFINE new == NewToken(u, rows[t].family)
  <2>3. new \in [Tokens -> TokenRows]
    BY <1>2, <1>3, <2>2 DEF NewToken
  <2>4. \A r \in TokenRows : [r EXCEPT !.state = "revoked"] \in TokenRows
    BY DEF TokenRows
  <2>5. rows' = [new EXCEPT ![t] = [new[t] EXCEPT !.state = "revoked"]]
    BY <2>1
  <2> HIDE DEF t, new
  <2>6. rows' \in [Tokens -> TokenRows]
    BY <2>3, <2>4, <2>5
  <2> QED
    BY <1>6, <2>6 DEF Rotate
<1>7. CASE Revoke(p)
  BY <1>1, <1>2, <1>7 DEF Revoke
<1>8. CASE StorePending(p)
  BY <1>1, <1>8 DEF StorePending
<1>9. CASE StoreSecret(p)
  BY <1>1, <1>9 DEF StoreSecret, Confirmed
<1> QED
  BY <1>4, <1>5, <1>6, <1>7, <1>8, <1>9
     DEF TabStep, Login, Refresh, ClaimToken, Scan, Logout, EnableTotp, ConfirmTotp, DisableTotp,
         Answer, LoseAnswer

-----------------------------------------------------------------------------
\* The tokens are created one after the other, each in a family that has begun.
Numbered ==
  /\ \E n \in 0..MaxSessions : Created = 1..n
  /\ \A t \in Created : rows[t].family \in Created
  /\ ended \subseteq Created

\* What the tabs and the cookie hold.
HoldsCreated(p) ==
  /\ tabs[p].call.seen \subseteq Created
  /\ tabs[p].call.kind \in {"none", "login", "logout", "disable", "refresh"}
       => tabs[p].call.token \in Created \cup {None}
  /\ tabs[p].call.kind = "refresh" => tabs[p].call.token # None
  /\ tabs[p].call.kind = "none" => tabs[p].call.stage = "idle"
  /\ tabs[p].call.stage = "revoke" => tabs[p].call.kind \in {"refresh", "logout", "disable"}

AllHeld == jar \in Created \cup {None} /\ \A p \in Tabs : HoldsCreated(p)

\* A claimed token can still be used, and is claimed once.
Claims(p) == At(p, {"refresh"}, "claimed")
Claimed ==
  /\ \A p \in Tabs : Claims(p) => rows[tabs[p].call.token].state \in Unrevoked
  /\ \A p, q \in Tabs : Claims(p) /\ Claims(q) /\ p # q => tabs[p].call.token # tabs[q].call.token

\* At most one token of a family can be used.
Usable(t) == rows[t].state \in Unrevoked
Single == \A t, u \in Tokens :
            Usable(t) /\ Usable(u) /\ rows[t].family = rows[u].family => t = u

\* A revocation that no rotation has crossed has seen what it is to end.
Caught ==
  \A p \in Tabs : tabs[p].call.stage = "revoke" /\ ~tabs[p].call.crossed =>
    \A u \in Tokens : Usable(u) /\ rows[u].family \in Meant(tabs[p].call) => u \in tabs[p].call.seen

\* A confirmation writes the secret whose code was entered.
Confirming == \A p \in Tabs : At(p, {"confirm"}, "write") => tabs[p].call.token \in proved

SessionInv ==
  /\ SessionTypeOK /\ Numbered /\ AllHeld /\ Claimed /\ Single /\ EndedIsEnded
  /\ Caught /\ Confirming /\ SecretProved

LEMMA CreatedIs ==
  ASSUME Numbered
  PROVE  /\ Cardinality(Created) + 1 \notin Created
         /\ \A u \in Tokens : u = Cardinality(Created) + 1
              => \E n \in 0..MaxSessions : Created \cup {u} = 1..n
<1>1. PICK n \in 0..MaxSessions : Created = 1..n
  BY DEF Numbered
<1>2. Cardinality(Created) = n
  BY <1>1, FS_Interval, SessionsAssumption
<1>3. ASSUME NEW u \in Tokens, u = n + 1
      PROVE  \E m \in 0..MaxSessions : Created \cup {u} = 1..m
  <2>1. n + 1 \in 0..MaxSessions
    BY <1>3, SessionsAssumption DEF Tokens
  <2>2. Created \cup {u} = 1..(n + 1)
    BY <1>1, <1>3
  <2> QED
    BY <2>1, <2>2
<1> QED
  BY <1>1, <1>2, <1>3

\* The created tokens and the families revoked depend on the rows alone.
LEMMA SameRows ==
  ASSUME rows' = rows
  PROVE  /\ Created' = Created
         /\ \A t : Usable(t)' <=> Usable(t)
         /\ \A c : Meant(c)' = Meant(c)
BY DEF Created, Usable, Meant

(***************************************************************************)
(* A step of one tab that changes no row and ends no family.               *)
(***************************************************************************)
LEMMA QuietStep ==
  ASSUME SessionInv, SessionTypeOK', NEW p \in Tabs,
         UNCHANGED <<rows, ended>>, proved \subseteq proved',
         \A q \in Tabs \ {p} : tabs'[q] = tabs[q],
         jar' \in Created \cup {None},
         HoldsCreated(p)',
         Claims(p)' => /\ rows[tabs'[p].call.token].state \in Unrevoked
                       /\ ~Locked(tabs'[p].call.token, p),
         tabs'[p].call.stage # "revoke",
         At(p, {"confirm"}, "write")' => tabs'[p].call.token \in proved',
         admin'.secret # None => admin'.secret \in proved'
  PROVE  SessionInv'
<1> USE SameRows DEF SessionInv
<1>1. Numbered'
  BY DEF Numbered
<1>2. AllHeld'
  <2>1. ASSUME NEW q \in Tabs \ {p} PROVE HoldsCreated(q)'
    BY <2>1 DEF AllHeld, HoldsCreated
  <2> QED
    BY <2>1 DEF AllHeld
<1>3. Claimed'
  <2>1. ASSUME NEW q \in Tabs \ {p} PROVE Claims(q)' <=> Claims(q)
    BY <2>1 DEF Claims, At
  <2> QED
    BY <2>1 DEF Claimed, Claims, Locked, At
<1>4. Single' /\ EndedIsEnded'
  BY DEF Single, EndedIsEnded, Usable
<1>5. Caught'
  <2> SUFFICES ASSUME NEW q \in Tabs, tabs'[q].call.stage = "revoke", ~tabs'[q].call.crossed,
                      NEW u \in Tokens, Usable(u)', (rows[u].family \in Meant(tabs[q].call))'
               PROVE  u \in tabs'[q].call.seen
    BY DEF Caught
  <2>1. tabs'[q] = tabs[q]
    OBVIOUS
  <2>2. Usable(u) /\ rows[u].family \in Meant(tabs[q].call)
    BY <2>1 DEF Usable, Meant
  <2> QED
    BY <2>1, <2>2 DEF Caught
<1>6. Confirming'
  BY DEF Confirming, At
<1>7. SecretProved'
  BY DEF SecretProved
<1> QED
  BY <1>1, <1>2, <1>3, <1>4, <1>5, <1>6, <1>7

\* What the operators that set a request leave in it.
LEMMA CallSets ==
  ASSUME SessionTypeOK, NEW p \in Tabs, NEW kind, NEW stage, NEW token, Call(p, kind, stage, token)
  PROVE  /\ tabs'[p].call.kind = kind /\ tabs'[p].call.stage = stage
         /\ tabs'[p].call.token = token /\ tabs'[p].call.seen = {}
         /\ \A q \in Tabs \ {p} : tabs'[q] = tabs[q]
BY DEF Call, NoCall, SessionTypeOK, TabStates

LEMMA StageSets ==
  ASSUME SessionTypeOK, NEW p \in Tabs, NEW stage, Stage(p, stage)
  PROVE  /\ tabs'[p].call.kind = tabs[p].call.kind /\ tabs'[p].call.stage = stage
         /\ tabs'[p].call.token = tabs[p].call.token /\ tabs'[p].call.seen = tabs[p].call.seen
         /\ \A q \in Tabs \ {p} : tabs'[q] = tabs[q]
BY DEF Stage, SessionTypeOK, TabStates, TabCalls

LEMMA BeginKeeps ==
  ASSUME SessionInv, SessionTypeOK', NEW p \in Tabs,
         \/ Login(p) \/ Refresh(p) \/ Logout(p) \/ EnableTotp(p) \/ ConfirmTotp(p) \/ DisableTotp(p)
  PROVE  SessionInv'
<1> USE DEF SessionInv
<1>1. /\ jar \in Created \cup {None} /\ None \notin Created
      /\ UNCHANGED <<rows, ended, jar, admin>> /\ proved \subseteq proved'
  BY DEF AllHeld, Created, Tokens, None,
         Login, Refresh, Logout, EnableTotp, ConfirmTotp, DisableTotp
<1>2. PICK kind, stage, token :
        /\ Call(p, kind, stage, token)
        /\ \/ kind \in {"login", "enable", "disable"} /\ token = None
           \/ kind = "refresh" /\ token = jar /\ jar # None
           \/ kind = "logout" /\ token = jar
           \/ kind = "confirm" /\ token \in proved'
        /\ stage \in {"create", "find", "scan", "write"}
  <2>1. CASE Login(p)
    BY <2>1 DEF Login
  <2>2. CASE Refresh(p)
    BY <2>2 DEF Refresh
  <2>3. CASE Logout(p)
    BY <2>3 DEF Logout
  <2>4. CASE EnableTotp(p)
    BY <2>4 DEF EnableTotp
  <2>5. CASE ConfirmTotp(p)
    BY <2>5 DEF ConfirmTotp
  <2>6. CASE DisableTotp(p)
    BY <2>6 DEF DisableTotp
  <2> QED
    BY <2>1, <2>2, <2>3, <2>4, <2>5, <2>6
<1>3. /\ tabs'[p].call.kind = kind /\ tabs'[p].call.stage = stage
      /\ tabs'[p].call.token = token /\ tabs'[p].call.seen = {}
      /\ \A q \in Tabs \ {p} : tabs'[q] = tabs[q]
  BY <1>2, CallSets
<1>4. HoldsCreated(p)'
  BY <1>1, <1>2, <1>3, SameRows DEF HoldsCreated
<1>5. ~Claims(p)'
  BY <1>2, <1>3 DEF Claims, At
<1>6. At(p, {"confirm"}, "write")' => tabs'[p].call.token \in proved'
  BY <1>2, <1>3 DEF At
<1>7. tabs'[p].call.stage # "revoke"
  BY <1>2, <1>3
<1>8. admin'.secret # None => admin'.secret \in proved'
  BY <1>1 DEF SecretProved
<1> QED
  BY <1>1, <1>3, <1>4, <1>5, <1>6, <1>7, <1>8, QuietStep

\* The row is looked at again when it is claimed, and nobody else holds it.
LEMMA ClaimKeeps ==
  ASSUME SessionInv, SessionTypeOK', NEW p \in Tabs,
         ClaimToken(p) \/ (FindToken(p) /\ rows' = rows)
  PROVE  SessionInv'
<1> USE DEF SessionInv
<1>1. UNCHANGED <<rows, ended, jar, admin, proved>> /\ tabs[p].call.kind = "refresh"
  BY DEF ClaimToken, FindToken, At
<1>2. PICK stage :
        /\ Stage(p, stage) /\ stage \in {"scan", "failed", "claim", "claimed"}
        /\ stage = "claimed" => rows[tabs[p].call.token].state \in Unrevoked /\ ~Locked(tabs[p].call.token, p)
  BY DEF ClaimToken, FindToken, Claimable
<1>3. /\ tabs'[p].call.kind = "refresh" /\ tabs'[p].call.stage = stage
      /\ tabs'[p].call.token = tabs[p].call.token /\ tabs'[p].call.seen = tabs[p].call.seen
      /\ \A q \in Tabs \ {p} : tabs'[q] = tabs[q]
  BY <1>1, <1>2, StageSets
<1>4. HoldsCreated(p)' /\ jar' \in Created \cup {None}
  BY <1>1, <1>2, <1>3, SameRows DEF HoldsCreated, AllHeld
<1>5. Claims(p)' => /\ rows[tabs'[p].call.token].state \in Unrevoked
                    /\ ~Locked(tabs'[p].call.token, p)
  BY <1>2, <1>3 DEF Claims, At
<1>6. ~At(p, {"confirm"}, "write")' /\ tabs'[p].call.stage # "revoke"
  BY <1>2, <1>3 DEF At
<1>7. admin'.secret # None => admin'.secret \in proved'
  BY <1>1 DEF SecretProved
<1> QED
  BY <1>1, <1>3, <1>4, <1>5, <1>6, <1>7, QuietStep

\* A request ends; StoreSecret writes the secret whose code was entered.
LEMMA EndKeeps ==
  ASSUME SessionInv, SessionTypeOK', NEW p \in Tabs,
         StorePending(p) \/ StoreSecret(p) \/ Answer(p) \/ LoseAnswer(p)
  PROVE  SessionInv'
<1> USE DEF SessionInv
<1>1. UNCHANGED <<rows, ended, proved>>
  BY DEF StorePending, StoreSecret, Answer, LoseAnswer
<1>2. tabs'[p].call = NoCall /\ \A q \in Tabs \ {p} : tabs'[q] = tabs[q]
  BY DEF StorePending, StoreSecret, Answer, LoseAnswer, SessionTypeOK, TabStates
<1>3. HoldsCreated(p)' /\ ~Claims(p)' /\ ~At(p, {"confirm"}, "write")' /\ tabs'[p].call.stage # "revoke"
  BY <1>2 DEF HoldsCreated, Claims, At, NoCall
<1>4. jar' \in Created \cup {None}
  <2>1. SignedIn(p) => tabs[p].call.token \in Created \cup {None}
    BY DEF SignedIn, AllHeld, HoldsCreated
  <2> QED
    BY <2>1 DEF AllHeld, StorePending, StoreSecret, Answer, LoseAnswer
<1>5. admin'.secret # None => admin'.secret \in proved'
  <2>1. CASE StoreSecret(p)
    BY <1>1, <2>1 DEF StoreSecret, Confirmed, Confirming
  <2>2. CASE ~StoreSecret(p)
    BY <1>1, <2>2 DEF StorePending, Answer, LoseAnswer, SecretProved, SessionTypeOK
  <2> QED
    BY <2>1, <2>2
<1> QED
  BY <1>1, <1>2, <1>3, <1>4, <1>5, QuietStep

\* A step that changes the states of rows alone, and makes none usable.
LEMMA MeantStays ==
  ASSUME SessionInv, \A u \in Tokens : rows'[u].family = rows[u].family,
         NEW q \in Tabs, tabs[q].call.stage = "revoke"
  PROVE  Meant(tabs[q].call) = {rows'[u].family :
            u \in IF tabs[q].call.kind = "disable" \/ tabs[q].call.token = None
                    THEN tabs[q].call.seen ELSE {tabs[q].call.token}}
<1>1. /\ tabs[q].call.seen \subseteq Tokens
      /\ tabs[q].call.token # None => tabs[q].call.token \in Tokens
  BY DEF SessionInv, AllHeld, HoldsCreated, Created
<1> QED
  BY <1>1 DEF Meant

LEMMA StateStep ==
  ASSUME SessionInv, SessionTypeOK', NEW P \in SUBSET Tabs,
         \A q \in Tabs \ P : tabs'[q] = tabs[q],
         \A u \in Tokens : /\ rows'[u].family = rows[u].family
                           /\ rows'[u].state = "free" <=> rows[u].state = "free"
                           /\ Usable(u)' => Usable(u),
         \A q \in Tabs \ P : Claims(q) => rows'[tabs[q].call.token].state \in Unrevoked,
         \A q \in P : /\ ~Claims(q)' /\ ~At(q, {"confirm"}, "write")'
                      /\ tabs'[q].call.stage # "revoke" /\ HoldsCreated(q)',
         UNCHANGED <<jar, proved>>,
         ended' \subseteq Created, EndedIsEnded', SecretProved'
  PROVE  SessionInv'
<1> USE DEF SessionInv
<1>1. Created' = Created
  BY DEF Created
<1>2. Numbered'
  BY <1>1 DEF Numbered, Created
<1>3. AllHeld'
  <2>1. ASSUME NEW q \in Tabs \ P PROVE HoldsCreated(q)'
    BY <1>1, <2>1 DEF AllHeld, HoldsCreated
  <2> QED
    BY <1>1, <2>1 DEF AllHeld
<1>4. Claimed'
  <2>1. ASSUME NEW q \in Tabs \ P PROVE Claims(q)' <=> Claims(q)
    BY <2>1 DEF Claims, At
  <2> QED
    BY <2>1 DEF Claimed, Claims, At
<1>5. Single'
  BY DEF Single
<1>6. Caught'
  <2> SUFFICES ASSUME NEW q \in Tabs, tabs'[q].call.stage = "revoke", ~tabs'[q].call.crossed,
                      NEW u \in Tokens, Usable(u)', (rows[u].family \in Meant(tabs[q].call))'
               PROVE  u \in tabs'[q].call.seen
    BY DEF Caught
  <2>1. tabs'[q] = tabs[q]
    OBVIOUS
  <2>2. rows[u].family \in Meant(tabs[q].call)
    BY <2>1, MeantStays DEF Meant
  <2> QED
    BY <2>1, <2>2 DEF Caught
<1>7. Confirming'
  BY DEF Confirming, At
<1> QED
  BY <1>1, <1>2, <1>3, <1>4, <1>5, <1>6, <1>7

\* A stale token is given up by the request that presents it.
LEMMA StaleKeeps ==
  ASSUME SessionInv, SessionTypeOK', NEW p \in Tabs, FindToken(p), rows' # rows
  PROVE  SessionInv'
<1> USE DEF SessionInv
<1> DEFINE t == tabs[p].call.token
<1>1. /\ rows' = [rows EXCEPT ![t].state = "revoked"] /\ rows[t].state = "stale"
      /\ ~Locked(t, p) /\ Stage(p, "failed") /\ UNCHANGED <<jar, proved, admin, ended>>
      /\ tabs[p].call.kind = "refresh"
  BY DEF FindToken, At
<1>2. /\ tabs'[p].call.kind = "refresh" /\ tabs'[p].call.stage = "failed"
      /\ tabs'[p].call.token = t /\ tabs'[p].call.seen = tabs[p].call.seen
      /\ \A q \in Tabs \ {p} : tabs'[q] = tabs[q]
  BY <1>1, StageSets
<1>3. \A u \in Tokens : /\ rows'[u].family = rows[u].family
                        /\ rows'[u].state = IF u = t THEN "revoked" ELSE rows[u].state
  BY <1>1 DEF SessionTypeOK, TokenRows
<1> HIDE DEF t
<1>4. \A u \in Tokens : /\ rows'[u].family = rows[u].family
                        /\ rows'[u].state = "free" <=> rows[u].state = "free"
                        /\ Usable(u)' => Usable(u)
  BY <1>1, <1>3 DEF Usable, Unrevoked
<1>5. Created' = Created
  BY <1>4 DEF Created
<1>6. \A q \in Tabs \ {p} : Claims(q) => rows'[tabs[q].call.token].state \in Unrevoked
  <2> SUFFICES ASSUME NEW q \in Tabs \ {p}, Claims(q)
               PROVE  rows'[tabs[q].call.token].state \in Unrevoked
    OBVIOUS
  <2>1. tabs[q].call.token # t
    BY <1>1 DEF Locked, Claims
  <2>2. tabs[q].call.token \in Tokens
    BY DEF AllHeld, HoldsCreated, Claims, At, Created
  <2> QED
    BY <1>3, <2>1, <2>2 DEF Claimed
<1>7. ~Claims(p)' /\ ~At(p, {"confirm"}, "write")' /\ tabs'[p].call.stage # "revoke" /\ HoldsCreated(p)'
  <2>1. HoldsCreated(p)
    BY DEF AllHeld
  <2>2. HoldsCreated(p)'
    BY <1>1, <1>2, <1>5, <2>1 DEF HoldsCreated, t
  <2> QED
    BY <1>2, <2>2 DEF Claims, At
<1>8. EndedIsEnded' /\ SecretProved' /\ ended' \subseteq Created
  BY <1>1, <1>4, <1>5 DEF EndedIsEnded, SecretProved, Usable, Numbered, Created
<1> DEFINE P == {p}
<1>9. P \in SUBSET Tabs /\ (\A q \in Tabs \ P : tabs'[q] = tabs[q])
  BY <1>2
<1>10. \A q \in Tabs \ P : Claims(q) => rows'[tabs[q].call.token].state \in Unrevoked
  BY <1>6
<1>11. \A q \in P : /\ ~Claims(q)' /\ ~At(q, {"confirm"}, "write")'
                   /\ tabs'[q].call.stage # "revoke" /\ HoldsCreated(q)'
  BY <1>7
<1> HIDE DEF P
<1> QED
  BY <1>1, <1>4, <1>8, <1>9, <1>10, <1>11, StateStep

LEMMA ExpiryKeeps ==
  ASSUME SessionInv, SessionTypeOK', NEW t \in Tokens, TokenExpires(t)
  PROVE  SessionInv'
<1> USE DEF SessionInv
<1>1. /\ rows' = [rows EXCEPT ![t].state = "stale"] /\ rows[t].state = "live"
      /\ UNCHANGED <<tabs, jar, proved, admin, ended>>
  BY DEF TokenExpires
<1>2. \A u \in Tokens : /\ rows'[u].family = rows[u].family
                        /\ rows'[u].state = IF u = t THEN "stale" ELSE rows[u].state
  BY <1>1 DEF SessionTypeOK, TokenRows
<1>3. \A u \in Tokens : /\ rows'[u].family = rows[u].family
                        /\ rows'[u].state = "free" <=> rows[u].state = "free"
                        /\ Usable(u)' <=> Usable(u)
  BY <1>1, <1>2 DEF Usable, Unrevoked
<1>4. \A q \in Tabs : Claims(q) => rows'[tabs[q].call.token].state \in Unrevoked
  <2> SUFFICES ASSUME NEW q \in Tabs, Claims(q)
               PROVE  rows'[tabs[q].call.token].state \in Unrevoked
    OBVIOUS
  <2>1. tabs[q].call.token \in Tokens
    BY DEF AllHeld, HoldsCreated, Claims, At, Created
  <2> QED
    BY <1>3, <2>1 DEF Claimed, Usable
<1>5. EndedIsEnded' /\ SecretProved' /\ ended' \subseteq Created
  BY <1>1, <1>3 DEF EndedIsEnded, SecretProved, Usable, Numbered, Created
<1> DEFINE P == {}
<1>6. P \in SUBSET Tabs /\ Tabs \ P = Tabs
  OBVIOUS
<1> HIDE DEF P
<1> QED
  BY <1>1, <1>3, <1>4, <1>5, <1>6, StateStep DEF P

(***************************************************************************)
(* A step that creates token u in family f.                                *)
(***************************************************************************)
LEMMA NewIsFree ==
  ASSUME SessionInv, NEW u \in Tokens, u = Cardinality(Created) + 1
  PROVE  /\ u \notin Created /\ u # None /\ ~Usable(u)
         /\ \E n \in 0..MaxSessions : Created \cup {u} = 1..n
<1>1. u \notin Created /\ \E n \in 0..MaxSessions : Created \cup {u} = 1..n
  BY CreatedIs DEF SessionInv
<1>2. u # None
  BY DEF Tokens, None
<1>3. ~Usable(u)
  BY <1>1 DEF Created, Usable, Unrevoked
<1> QED
  BY <1>1, <1>2, <1>3

LEMMA GrowStep ==
  ASSUME SessionInv, SessionTypeOK', NEW p \in Tabs, NEW u \in Tokens, u = Cardinality(Created) + 1,
         NEW f, f \in Created \cup {u}, f \notin ended,
         rows'[u].state = "live", rows'[u].family = f,
         \A x \in Tokens \ {u} : /\ rows'[x].family = rows[x].family
                                 /\ rows'[x].state = "free" <=> rows[x].state = "free"
                                 /\ Usable(x)' => Usable(x) /\ rows[x].family # f,
         tabs'[p].call.stage = "done", tabs'[p].call.kind = tabs[p].call.kind,
         tabs'[p].call.kind \in {"login", "refresh"},
         tabs'[p].call.token = u, tabs'[p].call.seen = tabs[p].call.seen,
         \A q \in Tabs \ {p} :
           /\ tabs'[q].call.kind = tabs[q].call.kind /\ tabs'[q].call.stage = tabs[q].call.stage
           /\ tabs'[q].call.token = tabs[q].call.token /\ tabs'[q].call.seen = tabs[q].call.seen
           /\ Claims(q) => rows'[tabs[q].call.token].state \in Unrevoked
           /\ tabs[q].call.stage = "revoke" /\ ~tabs'[q].call.crossed
                => ~tabs[q].call.crossed /\ f \notin Meant(tabs[q].call),
         UNCHANGED <<jar, proved, admin, ended>>
  PROVE  SessionInv'
<1> USE DEF SessionInv
<1>1. /\ u \notin Created /\ u # None
      /\ \E n \in 0..MaxSessions : Created \cup {u} = 1..n
  BY NewIsFree
<1>2. Created' = Created \cup {u}
  BY DEF Created
<1>3. Numbered'
  BY <1>1, <1>2 DEF Numbered, Created
<1>4. AllHeld'
  <2>1. ASSUME NEW q \in Tabs PROVE HoldsCreated(q)'
    BY <1>1, <1>2, <2>1 DEF AllHeld, HoldsCreated
  <2> QED
    BY <1>2, <2>1 DEF AllHeld
<1>5. Claimed'
  <2>1. ASSUME NEW q \in Tabs \ {p} PROVE Claims(q)' <=> Claims(q)
    BY <2>1 DEF Claims, At
  <2>2. ~Claims(p)'
    BY DEF Claims, At
  <2> QED
    BY <2>1, <2>2 DEF Claimed
<1>6. Single'
  BY DEF Single, Usable
<1>7. EndedIsEnded'
  <2>1. \A x \in Created' : rows'[x].family \in ended => ~Usable(x)'
    BY <1>2 DEF EndedIsEnded, Usable, Created
  <2> QED
    BY <2>1 DEF EndedIsEnded, Usable
<1>8. Caught'
  <2> SUFFICES ASSUME NEW q \in Tabs, tabs'[q].call.stage = "revoke", ~tabs'[q].call.crossed,
                      NEW x \in Tokens, Usable(x)', (rows[x].family \in Meant(tabs[q].call))'
               PROVE  x \in tabs'[q].call.seen
    BY DEF Caught
  <2>1. q # p
    OBVIOUS
  <2>2. /\ tabs[q].call.stage = "revoke" /\ ~tabs[q].call.crossed /\ f \notin Meant(tabs[q].call)
        /\ tabs'[q].call.seen = tabs[q].call.seen /\ tabs'[q].call.token = tabs[q].call.token
        /\ tabs'[q].call.kind = tabs[q].call.kind
    BY <2>1
  <2>3. /\ tabs[q].call.seen \subseteq Tokens \ {u}
        /\ tabs[q].call.token # None => tabs[q].call.token \in Tokens \ {u}
    BY <1>1, <2>2 DEF AllHeld, HoldsCreated, Created
  <2>4. (Meant(tabs[q].call))' = Meant(tabs[q].call)
    <3>1. PICK S \in SUBSET (Tokens \ {u}) :
            S = IF tabs[q].call.kind = "disable" \/ tabs[q].call.token = None
                  THEN tabs[q].call.seen ELSE {tabs[q].call.token}
      BY <2>3
    <3>2. S = IF tabs'[q].call.kind = "disable" \/ tabs'[q].call.token = None
                THEN tabs'[q].call.seen ELSE {tabs'[q].call.token}
      BY <2>2, <3>1
    <3>3. \A y \in S : rows'[y].family = rows[y].family
      OBVIOUS
    <3>4. Meant(tabs[q].call) = {rows[y].family : y \in S}
      BY <3>1 DEF Meant
    <3>5. (Meant(tabs[q].call))' = {rows'[y].family : y \in S}
      BY <3>2 DEF Meant
    <3> QED
      BY <3>3, <3>4, <3>5
  <2>5. x # u /\ rows[x].family \in Meant(tabs[q].call)
    BY <2>2, <2>4
  <2> QED
    BY <2>2, <2>5 DEF Caught
<1>9. Confirming' /\ SecretProved'
  BY DEF Confirming, At, SecretProved
<1> QED
  BY <1>3, <1>4, <1>5, <1>6, <1>7, <1>8, <1>9

\* A login opens a family of its own, which nothing has ended.
LEMMA CreateKeeps ==
  ASSUME SessionInv, SessionTypeOK', NEW p \in Tabs, CreateFamily(p)
  PROVE  SessionInv'
<1> USE DEF SessionInv
<1>1. PICK u \in Tokens :
        /\ u = Cardinality(Created) + 1
        /\ rows' = [rows EXCEPT ![u] = [state |-> "live", family |-> u]]
        /\ tabs' = [tabs EXCEPT ![p].call.stage = "done", ![p].call.token = u]
        /\ UNCHANGED <<admin, jar, proved, ended>>
  BY DEF CreateFamily, NewToken
<1>2. u \notin Created /\ u # None
  BY <1>1, NewIsFree
<1>3. /\ tabs'[p].call.stage = "done" /\ tabs'[p].call.kind = tabs[p].call.kind
      /\ tabs'[p].call.token = u /\ tabs'[p].call.seen = tabs[p].call.seen
      /\ \A q \in Tabs \ {p} : tabs'[q] = tabs[q]
  BY <1>1 DEF SessionTypeOK, TabStates, TabCalls
<1>4. /\ rows'[u].state = "live" /\ rows'[u].family = u
      /\ \A x \in Tokens \ {u} : rows'[x] = rows[x]
  BY <1>1 DEF SessionTypeOK
<1>5. u \notin ended /\ \A x \in Created : rows[x].family # u
  BY <1>2 DEF Numbered
<1>6. \A x \in Tokens \ {u} : /\ rows'[x].family = rows[x].family
                              /\ rows'[x].state = "free" <=> rows[x].state = "free"
                              /\ Usable(x)' => Usable(x) /\ rows[x].family # u
  BY <1>4, <1>5 DEF Usable, Unrevoked, Created
<1>7. ASSUME NEW q \in Tabs \ {p}
      PROVE  /\ Claims(q) => rows'[tabs[q].call.token].state \in Unrevoked
             /\ tabs[q].call.stage = "revoke" => u \notin Meant(tabs[q].call)
  <2>1. /\ tabs[q].call.seen \subseteq Created
        /\ Claims(q) => tabs[q].call.token \in Created
        /\ tabs[q].call.stage = "revoke" /\ tabs[q].call.token # None => tabs[q].call.token \in Created
    BY DEF AllHeld, HoldsCreated, Claims, At
  <2>2. tabs[q].call.stage = "revoke" => u \notin Meant(tabs[q].call)
    BY <1>5, <2>1 DEF Meant
  <2>3. Claims(q) => rows'[tabs[q].call.token].state \in Unrevoked
    BY <1>2, <1>4, <2>1 DEF Claimed, Created
  <2> QED
    BY <2>2, <2>3
<1>8. \A q \in Tabs \ {p} :
           /\ tabs'[q].call.kind = tabs[q].call.kind /\ tabs'[q].call.stage = tabs[q].call.stage
           /\ tabs'[q].call.token = tabs[q].call.token /\ tabs'[q].call.seen = tabs[q].call.seen
           /\ Claims(q) => rows'[tabs[q].call.token].state \in Unrevoked
           /\ tabs[q].call.stage = "revoke" /\ ~tabs'[q].call.crossed
                => ~tabs[q].call.crossed /\ u \notin Meant(tabs[q].call)
  BY <1>3, <1>7
<1>9. tabs'[p].call.kind \in {"login", "refresh"}
  BY <1>3 DEF CreateFamily, At
<1>10. ASSUME NEW f, f = u PROVE SessionInv'
  <2>1. f \in Created \cup {u} /\ f \notin ended /\ rows'[u].family = f /\ rows'[u].state = "live"
    BY <1>4, <1>5, <1>10
  <2>2. \A x \in Tokens \ {u} : /\ rows'[x].family = rows[x].family
                                /\ rows'[x].state = "free" <=> rows[x].state = "free"
                                /\ Usable(x)' => Usable(x) /\ rows[x].family # f
    BY <1>6, <1>10
  <2>3. \A q \in Tabs \ {p} :
           /\ tabs'[q].call.kind = tabs[q].call.kind /\ tabs'[q].call.stage = tabs[q].call.stage
           /\ tabs'[q].call.token = tabs[q].call.token /\ tabs'[q].call.seen = tabs[q].call.seen
           /\ Claims(q) => rows'[tabs[q].call.token].state \in Unrevoked
           /\ tabs[q].call.stage = "revoke" /\ ~tabs'[q].call.crossed
                => ~tabs[q].call.crossed /\ f \notin Meant(tabs[q].call)
    BY <1>8, <1>10
  <2>4. u = Cardinality(Created) + 1 /\ UNCHANGED <<jar, proved, admin, ended>>
    BY <1>1
  <2>5. /\ tabs'[p].call.stage = "done" /\ tabs'[p].call.kind = tabs[p].call.kind
        /\ tabs'[p].call.token = u /\ tabs'[p].call.seen = tabs[p].call.seen
    BY <1>3
  <2> HIDE DEF SessionInv
  <2> QED
    BY <1>9, <2>1, <2>2, <2>3, <2>4, <2>5, GrowStep
<1> QED
  BY <1>10

(***************************************************************************)
(* A rotation replaces the usable token of its family.  A revocation that  *)
(* is to end the family has seen that token, and now knows it was crossed. *)
(***************************************************************************)
LEMMA RotateKeeps ==
  ASSUME SessionInv, SessionTypeOK', NEW p \in Tabs, Rotate(p)
  PROVE  SessionInv'
<1> USE DEF SessionInv
<1> DEFINE old == tabs[p].call.token
<1>0. PICK t, f : t = old /\ f = rows[old].family
  OBVIOUS
<1>1. PICK u \in Tokens :
        /\ u = Cardinality(Created) + 1
        /\ rows' = [NewToken(u, rows[old].family) EXCEPT ![old].state = "revoked"]
        /\ tabs' = [q \in Tabs |->
               IF q = p THEN [tabs[p] EXCEPT !.call.stage = "done", !.call.token = u]
               ELSE [tabs[q] EXCEPT !.call.crossed =
                       @ \/ (tabs[q].call.stage = "revoke" /\ old \in tabs[q].call.seen)]]
        /\ UNCHANGED <<admin, jar, proved, ended>>
  BY DEF Rotate
<1>2. u \notin Created /\ u # None
  BY <1>1, NewIsFree
<1>3. Claims(p) /\ tabs[p].call.kind = "refresh"
  BY DEF Rotate, Claims, At
<1>4. t \in Created /\ Usable(t)
  BY <1>0, <1>3 DEF Claimed, Usable, AllHeld, HoldsCreated, Claims, At
<1>5. f \in Created /\ f \notin ended
  BY <1>0, <1>4 DEF Numbered, EndedIsEnded, Usable
<1>6. /\ tabs'[p].call.stage = "done" /\ tabs'[p].call.kind = tabs[p].call.kind
      /\ tabs'[p].call.token = u /\ tabs'[p].call.seen = tabs[p].call.seen
  <2>1. tabs'[p] = [tabs[p] EXCEPT !.call.stage = "done", !.call.token = u]
    BY <1>1
  <2>2. tabs[p] \in TabStates
    BY DEF SessionTypeOK
  <2> QED
    BY <2>1, <2>2 DEF TabStates, TabCalls
<1>7. \A q \in Tabs \ {p} :
           /\ tabs'[q].call.kind = tabs[q].call.kind /\ tabs'[q].call.stage = tabs[q].call.stage
           /\ tabs'[q].call.token = tabs[q].call.token /\ tabs'[q].call.seen = tabs[q].call.seen
           /\ tabs'[q].call.crossed = (tabs[q].call.crossed \/
                                        (tabs[q].call.stage = "revoke" /\ t \in tabs[q].call.seen))
  <2> SUFFICES ASSUME NEW q \in Tabs \ {p}
               PROVE  /\ tabs'[q].call.kind = tabs[q].call.kind /\ tabs'[q].call.stage = tabs[q].call.stage
                      /\ tabs'[q].call.token = tabs[q].call.token /\ tabs'[q].call.seen = tabs[q].call.seen
                      /\ tabs'[q].call.crossed = (tabs[q].call.crossed \/
                                        (tabs[q].call.stage = "revoke" /\ t \in tabs[q].call.seen))
    OBVIOUS
  <2>1. PICK b : b = (tabs[q].call.crossed \/ (tabs[q].call.stage = "revoke" /\ t \in tabs[q].call.seen))
    OBVIOUS
  <2>2. tabs'[q] = [tabs[q] EXCEPT !.call.crossed = b]
    BY <1>0, <1>1, <2>1
  <2>3. tabs[q] \in TabStates
    BY DEF SessionTypeOK
  <2>4. /\ tabs'[q].call.kind = tabs[q].call.kind /\ tabs'[q].call.stage = tabs[q].call.stage
        /\ tabs'[q].call.token = tabs[q].call.token /\ tabs'[q].call.seen = tabs[q].call.seen
        /\ tabs'[q].call.crossed = b
    BY <2>2, <2>3 DEF TabStates, TabCalls
  <2> QED
    BY <2>1, <2>4
<1>8. t \in Tokens /\ t # u
  BY <1>2, <1>4 DEF Created
<1>9. /\ rows'[u] = [state |-> "live", family |-> f]
      /\ rows'[t] = [rows[t] EXCEPT !.state = "revoked"]
      /\ \A x \in Tokens \ {u, t} : rows'[x] = rows[x]
  <2>1. rows' = [[rows EXCEPT ![u] = [state |-> "live", family |-> f]] EXCEPT ![t].state = "revoked"]
    BY <1>0, <1>1 DEF NewToken
  <2> QED
    BY <1>8, <2>1 DEF SessionTypeOK
<1>10. \A x \in Tokens : rows[x].family = f /\ Usable(x) => x = t
  BY <1>0, <1>4, <1>8 DEF Single
<1>11. \A x \in Tokens \ {u} : /\ rows'[x].family = rows[x].family
                               /\ rows'[x].state = "free" <=> rows[x].state = "free"
                               /\ Usable(x)' => Usable(x) /\ rows[x].family # f
  <2>1. rows'[t].state = "revoked" /\ rows'[t].family = rows[t].family
    BY <1>8, <1>9 DEF SessionTypeOK, TokenRows
  <2>2. ~Usable(t)' /\ rows[t].state # "free"
    BY <1>4, <2>1 DEF Usable, Unrevoked
  <2>3. \A x \in Tokens \ {u, t} : /\ rows'[x].family = rows[x].family
                                   /\ rows'[x].state = rows[x].state
                                   /\ Usable(x)' <=> Usable(x)
    BY <1>9 DEF Usable
  <2> QED
    BY <1>10, <2>1, <2>2, <2>3
<1>12. ASSUME NEW q \in Tabs \ {p}
       PROVE  /\ Claims(q) => rows'[tabs[q].call.token].state \in Unrevoked
              /\ tabs[q].call.stage = "revoke" /\ ~tabs'[q].call.crossed
                   => ~tabs[q].call.crossed /\ f \notin Meant(tabs[q].call)
  <2>1. ASSUME Claims(q) PROVE rows'[tabs[q].call.token].state \in Unrevoked
    <3>1. tabs[q].call.token # t
      BY <1>0, <1>3, <2>1 DEF Claimed
    <3>2. tabs[q].call.token \in Tokens /\ tabs[q].call.token # u
      BY <1>2, <2>1 DEF AllHeld, HoldsCreated, Claims, At, Created
    <3> QED
      BY <1>9, <2>1, <3>1, <3>2 DEF Claimed
  <2>2. ASSUME tabs[q].call.stage = "revoke", ~tabs'[q].call.crossed
        PROVE  ~tabs[q].call.crossed /\ f \notin Meant(tabs[q].call)
    <3>1. ~tabs[q].call.crossed /\ t \notin tabs[q].call.seen
      BY <1>7, <2>2
    <3> QED
      BY <1>0, <1>4, <1>8, <2>2, <3>1 DEF Caught
  <2> QED
    BY <2>1, <2>2
<1>13. \A q \in Tabs \ {p} :
           /\ tabs'[q].call.kind = tabs[q].call.kind /\ tabs'[q].call.stage = tabs[q].call.stage
           /\ tabs'[q].call.token = tabs[q].call.token /\ tabs'[q].call.seen = tabs[q].call.seen
           /\ Claims(q) => rows'[tabs[q].call.token].state \in Unrevoked
           /\ tabs[q].call.stage = "revoke" /\ ~tabs'[q].call.crossed
                => ~tabs[q].call.crossed /\ f \notin Meant(tabs[q].call)
  BY <1>7, <1>12
<1>14. /\ f \in Created \cup {u} /\ rows'[u].state = "live" /\ rows'[u].family = f
       /\ tabs'[p].call.kind \in {"login", "refresh"}
  BY <1>3, <1>5, <1>6, <1>9
<1>15. u = Cardinality(Created) + 1 /\ UNCHANGED <<jar, proved, admin, ended>>
  BY <1>1
<1> HIDE DEF SessionInv
<1> QED
  BY <1>5, <1>6, <1>11, <1>13, <1>14, <1>15, GrowStep

\* The scan sees every usable token of the families it is to end.
LEMMA ScanKeeps ==
  ASSUME SessionInv, SessionTypeOK', NEW p \in Tabs, Scan(p)
  PROVE  SessionInv'
<1> USE SameRows DEF SessionInv
<1>1. /\ At(p, {"refresh", "logout", "disable"}, "scan")
      /\ tabs' = [tabs EXCEPT ![p].call.stage = "revoke", ![p].call.seen = Scanned(p),
                              ![p].call.crossed = \E u \in Scanned(p) : Locked(u, p)]
      /\ UNCHANGED <<rows, admin, jar, proved, ended>>
  BY DEF Scan
<1>2. /\ tabs'[p].call.kind = tabs[p].call.kind /\ tabs'[p].call.stage = "revoke"
      /\ tabs'[p].call.token = tabs[p].call.token /\ tabs'[p].call.seen = Scanned(p)
      /\ \A q \in Tabs \ {p} : tabs'[q] = tabs[q]
  BY <1>1 DEF SessionTypeOK, TabStates, TabCalls
<1>3. Scanned(p) \subseteq Created
  BY DEF Scanned, Family
<1>4. Numbered' /\ Single' /\ EndedIsEnded'
  BY <1>1 DEF Numbered, Single, EndedIsEnded, Usable
<1>5. AllHeld'
  <2>1. ASSUME NEW q \in Tabs PROVE HoldsCreated(q)'
    BY <1>1, <1>2, <1>3, <2>1 DEF AllHeld, HoldsCreated, At
  <2> QED
    BY <1>1, <2>1 DEF AllHeld
<1>6. Claimed'
  <2>1. ASSUME NEW q \in Tabs, Claims(q)' PROVE q # p /\ Claims(q) /\ tabs'[q] = tabs[q]
    BY <1>2, <2>1 DEF Claims, At
  <2> QED
    BY <1>1, <2>1 DEF Claimed
<1>7. Caught'
  <2> SUFFICES ASSUME NEW q \in Tabs, tabs'[q].call.stage = "revoke", ~tabs'[q].call.crossed,
                      NEW u \in Tokens, Usable(u)', (rows[u].family \in Meant(tabs[q].call))'
               PROVE  u \in tabs'[q].call.seen
    BY DEF Caught
  <2>1. Usable(u) /\ u \in Created /\ rows[u].family \in Meant(tabs'[q].call)
    BY <1>1 DEF Usable, Unrevoked, Created, Meant
  <2>2. CASE q # p
    BY <1>2, <2>1, <2>2 DEF Caught
  <2>3. CASE q = p
    BY <1>2, <2>1, <2>3 DEF Meant, Scanned, Family, Usable
  <2> QED
    BY <2>2, <2>3
<1>8. Confirming' /\ SecretProved'
  <2>1. Confirming'
    <3> SUFFICES ASSUME NEW q \in Tabs, tabs'[q].call.kind = "confirm", tabs'[q].call.stage = "write"
                 PROVE  tabs'[q].call.token \in proved
      BY <1>1 DEF Confirming, At
    <3>1. tabs'[q] = tabs[q]
      BY <1>2
    <3> QED
      BY <3>1 DEF Confirming, At
  <2> QED
    BY <1>1, <2>1 DEF SecretProved
<1> QED
  BY <1>4, <1>5, <1>6, <1>7, <1>8

(***************************************************************************)
(* A revocation waits until nobody holds a token it has seen, and then     *)
(* revokes them all.                                                       *)
(***************************************************************************)
LEMMA RevokeKeeps ==
  ASSUME SessionInv, SessionTypeOK', NEW p \in Tabs, Revoke(p)
  PROVE  SessionInv'
<1> USE DEF SessionInv
<1> DEFINE c == tabs[p].call
<1>1. /\ c.stage = "revoke" /\ \A u \in c.seen : ~Locked(u, p)
      /\ rows' = [u \in Tokens |-> IF u \in c.seen THEN [rows[u] EXCEPT !.state = "revoked"] ELSE rows[u]]
      /\ ended' = IF c.crossed THEN ended ELSE ended \cup Meant(c)
      /\ admin' = IF c.kind = "disable" THEN [secret |-> None, pending |-> None] ELSE admin
      /\ UNCHANGED <<jar, proved>>
  BY DEF Revoke
<1>2. PICK stage \in {"failed", "done"} : Stage(p, stage)
  BY DEF Revoke
<1>3. /\ tabs'[p].call.kind = c.kind /\ tabs'[p].call.stage = stage
      /\ tabs'[p].call.token = c.token /\ tabs'[p].call.seen = c.seen
      /\ \A q \in Tabs \ {p} : tabs'[q] = tabs[q]
  BY <1>2, StageSets
<1>4. /\ c.seen \subseteq Created /\ c.kind \in {"refresh", "logout", "disable"}
      /\ c.token \in Created \cup {None}
  BY <1>1 DEF AllHeld, HoldsCreated
<1>5. \A u \in Tokens : /\ rows'[u].family = rows[u].family
                        /\ rows'[u].state = IF u \in c.seen THEN "revoked" ELSE rows[u].state
  BY <1>1 DEF SessionTypeOK, TokenRows
<1>6. Meant(c) \subseteq Created
  <2>1. c.kind = "disable" \/ c.token = None \/ c.token \in Created
    BY <1>4
  <2> QED
    BY <1>4, <2>1 DEF Numbered, Meant
<1>7. c.crossed \/ \A u \in Tokens : Usable(u) /\ rows[u].family \in Meant(c) => u \in c.seen
  BY <1>1 DEF Caught
<1>8. ASSUME NEW q \in Tabs \ {p}, Claims(q) PROVE rows'[tabs[q].call.token].state \in Unrevoked
  <2>1. tabs[q].call.token \notin c.seen
    BY <1>1, <1>8 DEF Locked, Claims
  <2>2. tabs[q].call.token \in Tokens
    BY <1>8 DEF AllHeld, HoldsCreated, Claims, At, Created
  <2> QED
    BY <1>5, <1>8, <2>1, <2>2 DEF Claimed
<1> HIDE DEF c
<1>9. \A u \in Tokens : /\ rows'[u].family = rows[u].family
                        /\ rows'[u].state = "free" <=> rows[u].state = "free"
                        /\ Usable(u)' => Usable(u) /\ u \notin c.seen
  BY <1>4, <1>5 DEF Usable, Unrevoked, Created
<1>10. Created' = Created
  BY <1>9 DEF Created
<1>11. ended' \subseteq Created
  BY <1>1, <1>6 DEF Numbered
<1>12. EndedIsEnded'
  <2> SUFFICES ASSUME NEW u \in Created, rows[u].family \in ended', Usable(u)'
               PROVE  FALSE
    BY <1>9, <1>10 DEF EndedIsEnded, Usable, Created
  <2>1. u \in Tokens /\ Usable(u) /\ u \notin c.seen
    BY <1>9 DEF Created
  <2>2. rows[u].family \notin ended
    BY <2>1 DEF EndedIsEnded, Usable
  <2>3. ~c.crossed /\ rows[u].family \in Meant(c)
    BY <1>1, <2>2
  <2> QED
    BY <1>7, <2>1, <2>3
<1>13. SecretProved'
  BY <1>1 DEF SecretProved
<1>14. ~Claims(p)' /\ ~At(p, {"confirm"}, "write")' /\ tabs'[p].call.stage # "revoke" /\ HoldsCreated(p)'
  <2>1. HoldsCreated(p)'
    BY <1>2, <1>3, <1>4, <1>10 DEF HoldsCreated, AllHeld, c
  <2> QED
    BY <1>2, <1>3, <2>1 DEF Claims, At
<1> DEFINE P == {p}
<1>15. P \in SUBSET Tabs /\ (\A q \in Tabs \ P : tabs'[q] = tabs[q])
  BY <1>3
<1>16. \A q \in Tabs \ P : Claims(q) => rows'[tabs[q].call.token].state \in Unrevoked
  BY <1>8
<1>17. \A q \in P : /\ ~Claims(q)' /\ ~At(q, {"confirm"}, "write")'
                    /\ tabs'[q].call.stage # "revoke" /\ HoldsCreated(q)'
  BY <1>14
<1> HIDE DEF P
<1> QED
  BY <1>1, <1>9, <1>11, <1>12, <1>13, <1>15, <1>16, <1>17, StateStep

LEMMA SessionInductive == SessionInv /\ [Next]_vars => SessionInv'
<1> SUFFICES ASSUME SessionInv, [Next]_vars PROVE SessionInv'
  OBVIOUS
<1>1. ASSUME NEW p \in Tabs, TabStep(p) PROVE SessionInv'
  <2>1. At(p, {"refresh"}, "claimed") => tabs[p].call.token \in Tokens
    BY DEF SessionInv, AllHeld, HoldsCreated, At, Created
  <2>2. SessionTypeOK'
    BY <1>1, <2>1, TabTypes, RowTypes DEF SessionInv, SessionTypeOK
  <2> QED
    BY <1>1, <2>2, BeginKeeps, ClaimKeeps, StaleKeeps, EndKeeps, CreateKeeps, RotateKeeps,
       ScanKeeps, RevokeKeeps DEF TabStep
<1>2. ASSUME NEW t \in Tokens, TokenExpires(t) PROVE SessionInv'
  <2>1. [rows[t] EXCEPT !.state = "stale"] \in TokenRows
    BY DEF SessionInv, SessionTypeOK, TokenRows
  <2>2. SessionTypeOK'
    BY <1>2, <2>1 DEF TokenExpires, SessionInv, SessionTypeOK
  <2> QED
    BY <1>2, <2>2, ExpiryKeeps
<1>3. CASE UNCHANGED vars
  BY <1>3 DEF vars, SessionInv, SessionTypeOK, Numbered, AllHeld, HoldsCreated, Claimed, Claims, At,
              Single, Usable, EndedIsEnded, Caught, Meant, Confirming, SecretProved, Created
<1> QED
  BY <1>1, <1>2, <1>3 DEF Next

LEMMA SessionsBegin == Init => SessionInv
<1> SUFFICES ASSUME Init PROVE SessionInv
  OBVIOUS
<1> USE DEF Init
<1>1. NoCall \in TabCalls
  BY DEF NoCall, TabCalls, Kinds, Stages, None
<1>2. SessionTypeOK
  BY <1>1 DEF SessionTypeOK, TokenRows, TabStates, None
<1>3. Created = {} /\ Created = 1..0
  BY DEF Created
<1>4. Numbered
  <2>1. 0 \in 0..MaxSessions
    BY SessionsAssumption
  <2> QED
    BY <1>3, <2>1 DEF Numbered
<1>5. AllHeld
  BY DEF AllHeld, HoldsCreated, NoCall, None
<1>6. Claimed /\ Confirming
  BY DEF Claimed, Claims, Confirming, At, NoCall
<1>7. Single /\ EndedIsEnded
  BY <1>3 DEF Single, EndedIsEnded, Usable, Unrevoked
<1>8. Caught /\ SecretProved
  BY DEF Caught, SecretProved, NoCall
<1> QED
  BY <1>2, <1>4, <1>5, <1>6, <1>7, <1>8 DEF SessionInv

(***************************************************************************)
(* However the refreshes, logins, logouts and two-factor requests of any   *)
(* number of tabs cross, and whatever is lost, a family has at most one    *)
(* token that can be used.                                                 *)
(***************************************************************************)
THEOREM OneTokenLives == Spec => []OneLive
<1>1. SessionInv => OneLive
  <2> SUFFICES ASSUME SessionInv, NEW t \in Created
               PROVE  Cardinality({u \in Family(t) : rows[u].state \in Unrevoked}) <= 1
    BY DEF OneLive
  <2> DEFINE S == {u \in Family(t) : rows[u].state \in Unrevoked}
  <2>1. \A u, v \in S : u = v
    BY DEF SessionInv, Single, Usable, Family, Created
  <2>2. S = {} \/ \E u : S = {u}
    BY <2>1
  <2> HIDE DEF S
  <2>3. Cardinality(S) = 0 \/ Cardinality(S) = 1
    BY <2>2, FS_EmptySet, FS_Singleton
  <2> QED
    BY <2>3 DEF S
<1> QED
  BY <1>1, SessionsBegin, SessionInductive, PTL DEF Spec

(***************************************************************************)
(* A family that a reuse, a logout or the end of two-factor sign-in has    *)
(* ended stays ended.                                                      *)
(***************************************************************************)
THEOREM EndedForGood == Spec => []EndedIsEnded
<1>1. SessionInv => EndedIsEnded
  BY DEF SessionInv
<1> QED
  BY <1>1, SessionsBegin, SessionInductive, PTL DEF Spec

\* The secret a login asks for is one the administrator has proved to have.
THEOREM SecretIsKnown == Spec => []SecretProved
<1>1. SessionInv => SecretProved
  BY DEF SessionInv
<1> QED
  BY <1>1, SessionsBegin, SessionInductive, PTL DEF Spec
=============================================================================
