---------------------------- MODULE SystemApply ----------------------------
(***************************************************************************)
(* apply, applyViaAgent and applySystem of CoreApplyService                *)
(* (apps/api/src/core/core-apply.service.ts 115-396, 613-682) on top of    *)
(* LocalApply: several proxy servers, those with an agentBaseUrl pushed to *)
(* over HTTP without any lock, and the limit enforcer's apply of all of    *)
(* them, which ends by clearing needsApply of every user.                  *)
(***************************************************************************)
EXTENDS LocalApply

CONSTANTS Local,      \* the co-located proxy
          Systems     \* the calls of applySystem

\* The calls of apply that system s makes, one per proxy; the others are mutations.
Call(s, p) == <<s, p>>
SystemCalls == {Call(s, p): s \in Systems, p \in Proxies}

ASSUME SystemApplyAssumption ==
  /\ Local \in Proxies
  /\ SystemCalls \subseteq Applies

VARIABLES known,     \* the proxy servers in the database that are not disabled
          agents,    \* those with an agentBaseUrl
          node,      \* what each engine of each remote node was rendered from
          post,      \* POST /v1/apply of each call, as the node sees it
          sys,       \* where each system call is
          todo,      \* the proxies it has left
          userRev0   \* the revisions of the users when it started

nodeVars == <<known, agents, node, post>>
sysVars == <<sys, todo, userRev0>>
allVars == <<vars, nodeVars, sysVars>>

NoPost == [state |-> "none", body |-> [e \in Engines |-> NoState], at |-> 1, ok |-> TRUE]

SystemInit ==
  /\ Init
  /\ target = [a \in Applies |-> Local]
  /\ known = {Local}
  /\ agents = {}
  /\ node = [p \in Proxies |-> [e \in Engines |-> NoState]]
  /\ post = [a \in Applies |-> NoPost]
  /\ sys = [s \in Systems |-> "idle"]
  /\ todo = [s \in Systems |-> {}]
  /\ userRev0 = [s \in Systems |-> userRev]

-----------------------------------------------------------------------------
\* A proxy server is created, PENDING and without agentBaseUrl.
CreateProxy(p) ==
  /\ p \notin known
  /\ known' = known \cup {p}
  /\ UNCHANGED <<vars, agents, node, post, sysVars>>

\* Its agent registers with an agentBaseUrl.
Register(p) ==
  /\ p \in known \ (agents \cup {Local})
  /\ agents' = agents \cup {p}
  /\ UNCHANGED <<vars, known, node, post, sysVars>>

\* apply: to the agent when there is one, else to the panel's own volumes,
\* be the proxy the co-located one or not (143-146).
Dispatch(a, p) ==
  IF p \in agents
    THEN /\ pc[a] = "idle"
         /\ target' = [target EXCEPT ![a] = p]
         /\ Goto(a, "build")
         /\ UNCHANGED <<dbVars, deployed, lock, eng, loaded, result, outcome>>
    ELSE Start(a, p)

\* buildAgentDesired loads one engine after the other.
Build(a) ==
  /\ pc[a] = "build"
  /\ \/ /\ loaded' = [loaded EXCEPT ![a][eng[a]] = Desired(eng[a], target[a])]
        /\ IF eng[a] < N THEN eng' = [eng EXCEPT ![a] = @ + 1] /\ UNCHANGED pc
                         ELSE Goto(a, "push") /\ UNCHANGED eng
        /\ UNCHANGED <<result, outcome>>
     \/ Return(a, "FAILED")
  /\ UNCHANGED <<dbVars, deployed, lock, target, nodeVars, sysVars>>

\* postApply
Push(a) ==
  /\ pc[a] = "push"
  /\ post' = [post EXCEPT ![a] = [state |-> "handled", body |-> loaded[a], at |-> 1, ok |-> TRUE]]
  /\ Goto(a, "wait")
  /\ UNCHANGED <<dbVars, deployed, lock, target, eng, loaded, result, outcome>>
  /\ UNCHANGED <<known, agents, node, sysVars>>

(***************************************************************************)
(* The agent applies one engine; a failure may leave the new configuration.*)
(***************************************************************************)
Handle(a) ==
  LET e == post[a].at
      p == target[a] IN
  /\ post[a].state = "handled"
  /\ \E ok \in BOOLEAN:
     /\ \/ node' = [node EXCEPT ![p][e] = post[a].body[e]]
        \/ ~ok /\ UNCHANGED node
     /\ post' = [post EXCEPT ![a] = [state |-> IF e < N THEN "handled" ELSE "answered",
                                     body |-> @.body,
                                     at |-> IF e < N THEN e + 1 ELSE e,
                                     ok |-> @.ok /\ ok]]
  /\ UNCHANGED <<vars, known, agents, sysVars>>

\* Mutant of MarkPushed: the inbounds of the other proxies too.
MarkPushedEverywhere(p) ==
  inbDirty' = [i \in Inbounds |-> inbDirty[i] /\ i \notin rows]

\* The inbounds of the proxy are marked whatever their revisions.
MarkPushed(p) ==
  inbDirty' = [i \in Inbounds |-> inbDirty[i] /\ ~(i \in rows /\ InbProxy[i] = p)]

(***************************************************************************)
(* The answer, its transaction or its failure, or the time is over while   *)
(* the node goes on.                                                       *)
(***************************************************************************)
Answer(a) ==
  /\ pc[a] = "wait"
  /\ \/ /\ post[a].state = "answered" /\ post[a].ok
        /\ MarkPushed(target[a])
        /\ Recorded(a, "SUCCEEDED")
     \/ Return(a, "FAILED") /\ UNCHANGED inbDirty
  /\ UNCHANGED <<rows, inbRev, userRev, userDirty, pending, reconciled>>
  /\ UNCHANGED <<deployed, lock, target, nodeVars, sysVars>>

-----------------------------------------------------------------------------
(***************************************************************************)
(* applySystem, one at a time under the limit enforcer's lock: it lists    *)
(* the proxies, applies to one after the other, the local one first, and   *)
(* clears the users when every apply has SUCCEEDED.                        *)
(***************************************************************************)
StartSystem(s) ==
  /\ sys[s] = "idle"
  /\ \A t \in Systems: sys[t] # "run"
  /\ sys' = [sys EXCEPT ![s] = "run"]
  /\ todo' = [todo EXCEPT ![s] = known]
  /\ userRev0' = [userRev0 EXCEPT ![s] = userRev]
  /\ UNCHANGED <<vars, nodeVars>>

\* The calls system s has made are over.
Idle(s) == \A p \in Proxies: pc[Call(s, p)] \in {"idle", "done"}

NextProxy(s, p) ==
  /\ sys[s] = "run" /\ Idle(s)
  /\ p \in todo[s]
  /\ Local \in todo[s] => p = Local
  /\ todo' = [todo EXCEPT ![s] = @ \ {p}]
  /\ Dispatch(Call(s, p), p)
  /\ UNCHANGED <<nodeVars, sys, userRev0>>

\* Mutant of AllSucceeded: one is enough.
SomeSucceeded(s) == \E p \in Proxies: outcome[Call(s, p)] = "SUCCEEDED"

AllSucceeded(s) == \A p \in Proxies: outcome[Call(s, p)] \in {"SUCCEEDED", "none"}

EndSystem(s) ==
  /\ sys[s] = "run" /\ Idle(s) /\ todo[s] = {}
  /\ sys' = [sys EXCEPT ![s] = "done"]
  /\ userDirty' = [u \in Users |-> userDirty[u] /\ ~AllSucceeded(s)]
  /\ UNCHANGED <<rows, inbRev, inbDirty, userRev, pending, reconciled>>
  /\ UNCHANGED <<deployed, lock, callVars, nodeVars, todo, userRev0>>

\* An administrator's mutation, or the wizard, applies to a proxy.
MutationApply(a, p) ==
  /\ a \notin SystemCalls
  /\ p \in known
  /\ Dispatch(a, p)
  /\ UNCHANGED <<nodeVars, sysVars>>

\* Inbounds are created on proxies that are known.
KnownMutate ==
  /\ Mutate
  /\ \A i \in rows': InbProxy[i] \in known
  /\ UNCHANGED <<nodeVars, sysVars>>

SystemNext ==
  \/ KnownMutate
  \/ \E p \in Proxies: CreateProxy(p) \/ Register(p)
  \/ \E a \in Applies:
       \/ (Step(a) /\ UNCHANGED <<nodeVars, sysVars>>)
       \/ Build(a) \/ Push(a) \/ Handle(a) \/ Answer(a)
       \/ \E p \in Proxies: MutationApply(a, p)
  \/ (Expire /\ UNCHANGED <<nodeVars, sysVars>>)
  \/ \E s \in Systems: StartSystem(s) \/ EndSystem(s) \/ \E p \in Proxies: NextProxy(s, p)

SystemSpec == SystemInit /\ [][SystemNext]_allVars

-----------------------------------------------------------------------------
(***************************************************************************)
(* As InboundHonest of LocalApply, for the inbounds of the panel's own     *)
(* node.  An apply for a node whose agent has not registered goes to the   *)
(* panel's volumes too, where it leaves them without those inbounds.       *)
(***************************************************************************)
LocalInboundHonest ==
  \A i \in rows: InbProxy[i] = Local /\ ~inbDirty[i]
                   => deployed[InbEngine[i]].inb[i] = inbRev[i]

(***************************************************************************)
(* Whatever is applied or pushed to the other nodes meanwhile, while the   *)
(* panel's volumes hold a configuration of its own node they have every    *)
(* inbound of it that no longer needs an apply, at its current revision.   *)
(***************************************************************************)
VolumesHonest ==
  \A i \in rows:
    InbProxy[i] = Local /\ ~inbDirty[i] /\ deployed[InbEngine[i]].of = {Local}
      => deployed[InbEngine[i]].inb[i] = inbRev[i]

\* An older push to the same node was made: pushes take no lock.
Overtaken(c, e, u, rev) ==
  \E a \in Applies \ {c}: /\ target[a] = target[c] /\ post[a].state # "none"
                          /\ post[a].body[e].user[u] < rev

(***************************************************************************)
(* When applySystem clears a user's flag (665-670), the cores that each of *)
(* its applies went to, the panel's own or those of the node it was pushed *)
(* to, run at least the revision the user had when it began, unless an     *)
(* older push to that node was handled after its own.                      *)
(***************************************************************************)
SystemReaches ==
  [][\A s \in Systems, u \in Users:
       sys[s] = "run" /\ sys'[s] = "done" /\ userDirty[u] /\ ~userDirty'[u]
         => \A p \in Proxies, e \in Engines:
              LET c == Call(s, p) IN
              pc[c] # "idle" =>
                IF post[c].state = "none"
                  THEN deployed[e].user[u] >= userRev0[s][u]
                  ELSE \/ node[p][e].user[u] >= userRev0[s][u]
                       \/ Overtaken(c, e, u, userRev0[s][u])]_allVars

=============================================================================
