-------------------------- MODULE SupervisedApply --------------------------
(***************************************************************************)
(* The engines that run under a supervisor: mtproxy.provider.ts and        *)
(* amneziawg.provider.ts with deploy/mtproxy/supervisor.py and             *)
(* deploy/amneziawg/supervisor.py.  The provider writes the configuration  *)
(* and a request on a shared volume and waits for the acknowledgement with *)
(* its id; the supervisor starts one process (MTProxy) or one interface    *)
(* (AmneziaWG) for each inbound of the configuration it finds.             *)
(* A configuration gives each tag a revision, 0 where it has none.         *)
(***************************************************************************)
EXTENDS Naturals, FiniteSets

CONSTANTS Tags,      \* tags of inbounds
          MaxRequests \* bound: requests of the provider

Engines == {"MTPROXY", "AMNEZIAWG"}
Empty == [t \in Tags |-> 0]

VARIABLES
  engine,     \* which of the two this is
  file,       \* the configuration file
  asked,      \* id in the request file, 0 if there is none
  answer,     \* [id, status] in the acknowledgement file
  provider,   \* [stage, id, previous, wanted, back, status]
  supervisor, \* [stage, id, last, file, left, again]
  served,     \* what is served: the revision of each process or interface
  state,      \* AmneziaWG: the tags in its state file
  disturbed   \* history: the container has stopped since the last request

supervisedVars == <<engine, file, asked, answer, provider, supervisor, served, state, disturbed>>

NoAck == [id |-> 0, status |-> "none"]
Off == [stage |-> "off", id |-> 0, last |-> 0, file |-> Empty, left |-> {}, again |-> FALSE]
TagsOf(c) == {t \in Tags : c[t] # 0}

SupervisedInit ==
  /\ engine \in Engines
  /\ file = Empty
  /\ asked = 0
  /\ answer = NoAck
  /\ provider = [stage |-> "idle", id |-> 0, previous |-> Empty, wanted |-> Empty,
                 back |-> FALSE, status |-> "none"]
  /\ supervisor = Off
  /\ served = Empty
  /\ state = {}
  /\ disturbed = FALSE

-----------------------------------------------------------------------------
(* The provider.  previous is what it has read; replace is atomic.         *)
ReplaceFile == \E T \in SUBSET Tags :
  /\ provider.stage \in {"idle", "returned"} /\ provider.id < MaxRequests
  /\ file' = [t \in Tags |-> IF t \in T THEN provider.id + 1 ELSE 0]
  /\ provider' = [provider EXCEPT !.stage = "request", !.previous = file, !.wanted = file',
                                  !.back = FALSE, !.status = "none"]
  /\ UNCHANGED <<engine, asked, answer, supervisor, served, state, disturbed>>

\* The file is not replaced, or it is and the directory cannot be synced: both
\* return FAILED without a rollback.
ReplaceFileFails == \E T \in SUBSET Tags :
  /\ provider.stage \in {"idle", "returned"} /\ provider.id < MaxRequests
  /\ \/ UNCHANGED file
     \/ file' = [t \in Tags |-> IF t \in T THEN provider.id + 1 ELSE 0]
  /\ provider' = [provider EXCEPT !.stage = "returned", !.previous = file, !.wanted = file',
                                  !.back = FALSE, !.status = "NOT_REPLACED"]
  /\ UNCHANGED <<engine, asked, answer, supervisor, served, state, disturbed>>

\* The request is written, or it cannot be and the provider gives up.
Ask == /\ provider.stage = "request"
       /\ asked' \in {asked, provider.id + 1}
       /\ provider' = [provider EXCEPT !.stage = "wait", !.id = @ + 1]
       /\ disturbed' = FALSE
       /\ UNCHANGED <<engine, file, answer, supervisor, served, state>>

\* For comparison: an acknowledgement of any request is taken for an answer.
AnswersAny(a) == a.status = "ok"
Answers(a) == a.status = "ok" /\ a.id = provider.id

Accepted == /\ provider.stage = "wait" /\ Answers(answer)
            /\ provider' = [provider EXCEPT !.stage = "health"]
            /\ UNCHANGED <<engine, file, asked, answer, supervisor, served, state, disturbed>>

\* An apply that failed writes the previous configuration and asks again; a
\* rollback that failed, or that cannot write the file, ends the call.
Failed ==
  \/ /\ ~provider.back
     /\ provider' = [provider EXCEPT !.stage = "request", !.back = TRUE]
     /\ file' = provider.previous
  \/ /\ provider' = [provider EXCEPT !.stage = "returned", !.status = "FAILED"]
     /\ UNCHANGED file

\* An error, or no acknowledgement in time, or no fresh heartbeat in time.
GiveUp == /\ \/ provider.stage = "wait"
             \/ provider.stage = "health" /\ disturbed
          /\ Failed
          /\ UNCHANGED <<engine, asked, answer, supervisor, served, state, disturbed>>

\* The heartbeat may still be fresh when the supervisor has stopped since.
Healthy == /\ provider.stage = "health"
           /\ provider' = [provider EXCEPT !.stage = "returned",
                !.status = IF provider.back THEN "ROLLED_BACK" ELSE "SUCCEEDED"]
           /\ UNCHANGED <<engine, file, asked, answer, supervisor, served, state, disturbed>>

-----------------------------------------------------------------------------
(* The supervisor: both read the file when they start on a request; the    *)
(* hash in the request is looked at for its form only.                     *)
ToApply(id) ==
  [supervisor EXCEPT !.stage = IF engine = "MTPROXY" THEN "settle" ELSE "interfaces",
                     !.id = id, !.file = file, !.left = TagsOf(file) \cup state]

\* MTProxy stops its processes before it starts others.
StoppedFor == IF engine = "MTPROXY" THEN Empty ELSE served

Boot == /\ supervisor.stage = "off"
        /\ asked' = 0 /\ answer' = NoAck
        /\ supervisor' = ToApply(0)
        /\ served' = StoppedFor
        /\ UNCHANGED <<engine, file, provider, state, disturbed>>

Poll == /\ supervisor.stage = "poll" /\ asked \notin {0, supervisor.last}
        /\ supervisor' = ToApply(asked)
        /\ served' = StoppedFor
        /\ UNCHANGED <<engine, file, asked, answer, provider, state, disturbed>>

Reported(status) == [supervisor EXCEPT !.stage = IF supervisor.id = 0 THEN "poll" ELSE "ack",
                                       !.left = {}, !.again = status = "error"]

\* MTProxy: all processes outlive the time to settle, or none is kept; a failed
\* restart is tried once more, acknowledged as failed either way; a failed start of
\* the container ends it.
Settle ==
  /\ supervisor.stage = "settle"
  /\ \/ /\ served' = supervisor.file
        /\ supervisor' = Reported(IF supervisor.again THEN "error" ELSE "ok")
     \/ /\ served' = Empty
        /\ supervisor' = IF supervisor.id = 0 THEN Off
                         ELSE IF supervisor.again THEN Reported("error")
                         ELSE [supervisor EXCEPT !.again = TRUE, !.file = file]
  /\ UNCHANGED <<engine, file, asked, answer, provider, state, disturbed>>

\* AmneziaWG: interfaces of the state file that are not wanted go down first; each
\* wanted one goes down if the state file has it, and up, which fails when it is up.
Obsolete == supervisor.left \ TagsOf(supervisor.file)

TakeDownInterface == \E t \in Obsolete :
  /\ supervisor.stage = "interfaces"
  /\ served' = [served EXCEPT ![t] = 0]
  /\ supervisor' = [supervisor EXCEPT !.left = @ \ {t}]
  /\ UNCHANGED <<engine, file, asked, answer, provider, state, disturbed>>

BringUp == \E t \in supervisor.left :
  LET gone == t \in state \/ served[t] = 0 IN
  /\ supervisor.stage = "interfaces" /\ Obsolete = {}
  /\ \/ /\ gone
        /\ served' = [served EXCEPT ![t] = supervisor.file[t]]
        /\ supervisor' = [supervisor EXCEPT !.left = @ \ {t}]
     \/ /\ served' = [served EXCEPT ![t] = IF gone THEN 0 ELSE @]
        /\ supervisor' = Reported("error")
  /\ UNCHANGED <<engine, file, asked, answer, provider, state, disturbed>>

\* The state file is written when every interface is up.
SaveState == /\ supervisor.stage = "interfaces" /\ supervisor.left = {}
             /\ state' = TagsOf(supervisor.file)
             /\ supervisor' = Reported("ok")
             /\ UNCHANGED <<engine, file, asked, answer, provider, served, disturbed>>

Ack == /\ supervisor.stage = "ack"
       /\ answer' = [id |-> supervisor.id, status |-> IF supervisor.again THEN "error" ELSE "ok"]
       /\ supervisor' = [Off EXCEPT !.stage = "poll", !.last = supervisor.id]
       /\ UNCHANGED <<engine, file, asked, provider, served, state, disturbed>>

\* The container stops: by itself, because an MTProxy process has ended, or with the
\* host.  Its interfaces and processes go with it; its volumes stay.
Stop == /\ supervisor.stage # "off" /\ provider.id < MaxRequests
        /\ supervisor' = Off
        /\ served' = Empty
        /\ disturbed' = TRUE
        /\ UNCHANGED <<engine, file, asked, answer, provider, state>>

ProviderStep == ReplaceFile \/ ReplaceFileFails \/ Ask \/ Accepted \/ GiveUp \/ Healthy
SupervisorStep == Boot \/ Poll \/ Settle \/ TakeDownInterface \/ BringUp \/ SaveState \/ Ack

SupervisedNext == ProviderStep \/ SupervisorStep \/ Stop

SupervisedSpec == SupervisedInit /\ [][SupervisedNext]_supervisedVars

-----------------------------------------------------------------------------
Returned(statuses) == provider.stage = "returned" /\ provider.status \in statuses
Promised == IF provider.status = "SUCCEEDED" THEN provider.wanted ELSE provider.previous

\* What an apply reports is what is in place and served: after a success the wanted
\* configuration, after a rollback the previous one, each inbound as the file says,
\* whatever was late, refused or restarted on the way; MTProxy serves nothing else.
ReportedIsServed ==
  Returned({"SUCCEEDED", "ROLLED_BACK"}) =>
    /\ file = Promised
    /\ ~disturbed => /\ \A t \in TagsOf(Promised) : served[t] = Promised[t]
                     /\ engine = "MTPROXY" => served = Promised

=============================================================================
