------------------------------ MODULE NodeSync ------------------------------
(***************************************************************************)
(* How the configuration of a registered node follows the panel: changes   *)
(* raise a revision per engine (inbounds.service.ts, bumpDesiredRevision), *)
(* the panel pushes what it has (applyViaAgent), the agent pulls what is   *)
(* above the revision it has (apps/agent/src/panel/loop.ts) and both go    *)
(* through ApplyService of the agent (apps/agent/src/core/apply.ts).       *)
(* A push and a pull may be worked on side by side: nothing in the agent   *)
(* keeps them apart, and they share the files of an engine.  Who may speak *)
(* to whom is NodeEnrollment's; what an engine makes of a request to       *)
(* reload is CoreSidecar's.                                                *)
(***************************************************************************)
EXTENDS Naturals, FiniteSets, FiniteSetsExt

CONSTANTS Engines,      \* enabledEngines of the node
          MaxChanges,   \* changes of inbounds
          MaxPushes,    \* applies of the panel
          MaxFaults     \* files and engines that fail, requests given up, restarts

ASSUME SyncAssumption == {MaxChanges, MaxPushes, MaxFaults} \subseteq Nat

Jobs == {"pull", "push"}

VARIABLES content,   \* the version of the inbounds of each engine
          desired,   \* ProxyCoreState.desiredRevision
          applied,   \* ProxyCoreState.appliedRevision
          live,      \* the version each engine of the node runs
          ran,       \* the versions it was reloaded with
          file,      \* the version in the configuration file of the engine
          cand,      \* the version in its candidate file, if there is one
          previous,  \* what a job read in the file before it wrote
          crossed,   \* the engines that the other job handled at the same time
          nodeRev,   \* appliedRevision of ApplyService, in memory
          job,       \* the pull and the push: step, revision, versions, engines left, ok
          clean,     \* the last change was made with nothing in flight, and since
                     \* then the jobs have not handled one engine at the same time
          pushes, faults

fileVars == <<live, ran, file, cand, previous, crossed>>
syncVars == <<content, desired, applied, fileVars, nodeRev, job, clean, pushes, faults>>

NoBody == [e \in Engines |-> 0]
NoJob == [step |-> "idle", rev |-> 0, body |-> NoBody, left |-> {}, ok |-> TRUE, told |-> TRUE]

SyncInit ==
  /\ content = NoBody /\ live = NoBody /\ file = NoBody
  /\ cand = [e \in Engines |-> {}]
  /\ previous = [j \in Jobs |-> 0] /\ crossed = [j \in Jobs |-> {}]
  /\ desired = NoBody /\ applied = NoBody
  /\ ran = [e \in Engines |-> {0}]
  /\ nodeRev = 0
  /\ job = [j \in Jobs |-> NoJob]
  /\ clean = FALSE
  /\ pushes = 0 /\ faults = 0

Put(j, r) == job' = [job EXCEPT ![j] = r]
Fault == faults < MaxFaults /\ faults' = faults + 1
Quiet == \A j \in Jobs: job[j] = NoJob

Highest(revs) == Max({revs[e]: e \in Engines})

-----------------------------------------------------------------------------
\* An inbound or an assignment of engine e is changed, in one transaction.
Change(e) ==
  /\ content[e] < MaxChanges
  /\ content' = [content EXCEPT ![e] = @ + 1]
  /\ desired' = [desired EXCEPT ![e] = @ + 1]
  /\ clean' = (Quiet /\ Highest(desired') > nodeRev)
  /\ UNCHANGED <<applied, fileVars, nodeRev, job, pushes, faults>>

\* applyViaAgent begins: buildAgentDesired.
StartPush ==
  /\ job["push"] = NoJob /\ pushes < MaxPushes
  /\ Put("push", [NoJob EXCEPT !.step = "build", !.left = Engines])
  /\ pushes' = pushes + 1
  /\ UNCHANGED <<content, desired, applied, fileVars, nodeRev, clean, faults>>

\* tick, after a heartbeat that went well: pullDesired, buildDesiredState.
StartPull ==
  /\ job["pull"] = NoJob
  /\ Put("pull", [NoJob EXCEPT !.step = "build", !.left = Engines])
  /\ UNCHANGED <<content, desired, applied, fileVars, nodeRev, clean, pushes, faults>>

\* revision = Math.max(revision, state.desiredRevision)
Raised(r, d) == Max({r, d})

\* One engine is loaded, in a transaction of its own.
Load(j, e) ==
  /\ job[j].step = "build" /\ e \in job[j].left
  /\ Put(j, [job[j] EXCEPT !.left = @ \ {e}, !.body[e] = content[e],
                           !.rev = Raised(@, desired[e]),
                           !.step = IF job[j].left = {e} THEN "sent" ELSE "build"])
  /\ UNCHANGED <<content, desired, applied, fileVars, nodeRev, clean, pushes, faults>>

\* The agent skips a revision that it has.
Newer(r) == r > nodeRev

(***************************************************************************)
(* The body reaches ApplyService, or is lost on the way.  tick ends with   *)
(* nothing to do when the revision is not above the agent's.               *)
(***************************************************************************)
Arrive(j) ==
  /\ job[j].step = "sent"
  /\ IF j = "pull" /\ ~Newer(job[j].rev)
       THEN Put(j, NoJob) /\ UNCHANGED faults
       ELSE \/ Put(j, [job[j] EXCEPT !.step = "apply", !.left = Engines]) /\ UNCHANGED faults
            \/ Put(j, NoJob) /\ Fault
  /\ UNCHANGED <<content, desired, applied, fileVars, nodeRev, clean, pushes>>

(***************************************************************************)
(* applyEngine, for one engine after the other.  The candidate file has    *)
(* the same name for every job, and so have the request to reload and its  *)
(* answer.                                                                 *)
(***************************************************************************)
InEngine == {"write", "place", "reload", "undo", "again"}

First(engines) == CHOOSE e \in engines: TRUE
Current(j) == First(job[j].left)

\* The other jobs that are at work on engine e.
Beside(j, e) == {k \in Jobs \ {j}: job[k].step \in InEngine /\ Current(k) = e}

GoesTo(j, step) == Put(j, [job[j] EXCEPT !.step = step])

\* An engine is done with, and the next one follows.
EngineDone(j, e) == Put(j, [job[j] EXCEPT !.step = "apply", !.left = @ \ {e}])

EngineFailed(j, e) ==
  Put(j, [job[j] EXCEPT !.step = "apply", !.left = @ \ {e}, !.ok = FALSE])

\* readOptional: what the file holds is kept for a rollback.
ReadPrevious(j) ==
  LET e == Current(j)
      crossing == IF Beside(j, e) = {} THEN {} ELSE {j} \cup Beside(j, e) IN
  /\ job[j].step = "apply" /\ job[j].left # {}
  /\ \/ /\ GoesTo(j, "write")
        /\ previous' = [previous EXCEPT ![j] = file[e]]
        /\ crossed' = [k \in Jobs |-> IF k \in crossing THEN crossed[k] \cup {e} ELSE crossed[k]]
        /\ clean' = (clean /\ crossing = {})
        /\ UNCHANGED faults
     \/ Fault /\ EngineFailed(j, e) /\ UNCHANGED <<previous, crossed, clean>>
  /\ UNCHANGED <<content, desired, applied, live, ran, file, cand, nodeRev, pushes>>

\* atomicWrite(candidatePath, content)
WriteCandidate(j) ==
  /\ job[j].step = "write"
  /\ \/ /\ cand' = [cand EXCEPT ![Current(j)] = {job[j].body[Current(j)]}]
        /\ GoesTo(j, "place") /\ UNCHANGED faults
     \/ Fault /\ GoesTo(j, "undo") /\ UNCHANGED cand
  /\ UNCHANGED <<content, desired, applied, live, ran, file, previous, crossed,
                 nodeRev, clean, pushes>>

(***************************************************************************)
(* replace(candidatePath, configPath): whatever the candidate holds by     *)
(* now; it is ENOENT when the other job has renamed or removed it.         *)
(***************************************************************************)
ReplaceConfig(j) ==
  /\ job[j].step = "place"
  /\ \/ /\ \E v \in cand[Current(j)]: file' = [file EXCEPT ![Current(j)] = v]
        /\ cand' = [cand EXCEPT ![Current(j)] = {}]
        /\ GoesTo(j, "reload") /\ UNCHANGED faults
     \/ /\ \/ cand[Current(j)] = {} /\ UNCHANGED faults
           \/ Fault
        /\ GoesTo(j, "undo") /\ UNCHANGED <<file, cand>>
  /\ UNCHANGED <<content, desired, applied, live, ran, previous, crossed, nodeRev, clean, pushes>>

\* The engine loads what its file holds.
Loads(e, v) ==
  /\ live' = [live EXCEPT ![e] = v]
  /\ ran' = [ran EXCEPT ![e] = @ \cup {v}]

\* applyEngine is through: what it has read is forgotten.
Forget(j) == previous' = [previous EXCEPT ![j] = 0]

\* Another job's request to reload is written over this one.
Superseded(j, e) ==
  (\E k \in Beside(j, e): job[k].step \in {"reload", "again"}) /\ UNCHANGED faults

(***************************************************************************)
(* reloadEngine: an engine that fails may run the file or not; its      *)
(* request may be superseded as well.                                      *)
(***************************************************************************)
ReloadEngine(j) ==
  LET e == Current(j) IN
  /\ job[j].step = "reload"
  /\ \/ Loads(e, file[e]) /\ EngineDone(j, e) /\ Forget(j) /\ UNCHANGED faults
     \/ /\ Fault \/ Superseded(j, e)
        /\ Loads(e, file[e]) \/ UNCHANGED <<live, ran>>
        /\ GoesTo(j, "undo") /\ UNCHANGED previous
  /\ UNCHANGED <<content, desired, applied, file, cand, crossed, nodeRev, clean, pushes>>

(***************************************************************************)
(* The rollback: the previous configuration is written and reloaded, as    *)
(* well as that goes; then the candidate is removed, whosever it is.       *)
(***************************************************************************)
RollBack(j) ==
  LET e == Current(j) IN
  /\ job[j].step = "undo"
  /\ \/ /\ file' = [file EXCEPT ![e] = previous[j]]
        /\ GoesTo(j, "again") /\ UNCHANGED <<cand, faults>>
     \/ /\ cand' = [cand EXCEPT ![e] = {}]
        /\ Fault /\ EngineFailed(j, e) /\ UNCHANGED file
  /\ Forget(j)
  /\ UNCHANGED <<content, desired, applied, live, ran, crossed, nodeRev, clean, pushes>>

ReloadPrevious(j) ==
  LET e == Current(j) IN
  /\ job[j].step = "again"
  /\ \/ Loads(e, file[e]) /\ UNCHANGED faults
     \/ UNCHANGED <<live, ran>> /\ (Fault \/ Superseded(j, e))
  /\ cand' = [cand EXCEPT ![e] = {}]
  /\ EngineFailed(j, e)
  /\ UNCHANGED <<content, desired, applied, file, previous, crossed, nodeRev, clean, pushes>>

ApplyEngine(j) ==
  ReadPrevious(j) \/ WriteCandidate(j) \/ ReplaceConfig(j) \/ ReloadEngine(j)
  \/ RollBack(j) \/ ReloadPrevious(j)

\* Mutant of Remember: one engine that succeeded is enough.
RememberAlways(j) == nodeRev' = job[j].rev

\* if (overallSuccess) this.appliedRevision = desired.revision
Remember(j) == nodeRev' = IF job[j].ok THEN job[j].rev ELSE nodeRev

\* apply returns; the result is on its way to the panel.
EndApply(j) ==
  /\ job[j].step = "apply" /\ job[j].left = {}
  /\ Remember(j)
  /\ GoesTo(j, "result")
  /\ UNCHANGED <<content, desired, applied, fileVars, clean, pushes, faults>>

\* postApply has timed out at the panel: FAILED, while the node goes on.
PushTimeout ==
  /\ job["push"].step \in {"sent", "apply", "result"} \cup InEngine /\ job["push"].told
  /\ Fault
  /\ Put("push", [job["push"] EXCEPT !.told = FALSE])
  /\ UNCHANGED <<content, desired, applied, fileVars, nodeRev, clean, pushes>>

(***************************************************************************)
(* The panel is told.  A push that succeeded and a result of a pull write  *)
(* the revision that they carry, whatever the counter is by now; a result  *)
(* that is lost is not sent again.                                         *)
(***************************************************************************)
\* Mutant of Record: the outcome of the engines is not looked at.
RecordAll(j) ==
  /\ desired' = [e \in Engines |-> job[j].rev]
  /\ applied' = [e \in Engines |-> job[j].rev]

Record(j) ==
  IF job[j].ok
    THEN /\ desired' = [e \in Engines |-> job[j].rev]
         /\ applied' = [e \in Engines |-> job[j].rev]
    ELSE /\ desired' = IF j = "pull" THEN [e \in Engines |-> job[j].rev] ELSE desired
         /\ UNCHANGED applied

Told(j) ==
  /\ job[j].step = "result"
  /\ \/ Record(j) /\ job[j].told /\ UNCHANGED faults
     \/ ~job[j].told /\ UNCHANGED <<desired, applied, faults>>
     \/ Fault /\ UNCHANGED <<desired, applied>>
  /\ Put(j, NoJob) /\ crossed' = [crossed EXCEPT ![j] = {}]
  /\ UNCHANGED <<content, live, ran, file, cand, previous, nodeRev, clean, pushes>>

\* The agent restarts: what it was working on is gone, and the revision it had.
Restart ==
  /\ Fault
  /\ nodeRev' = 0
  /\ job' = [j \in Jobs |-> IF job[j].step \in {"idle", "build", "sent"} /\ j = "push"
                             THEN job[j] ELSE NoJob]
  /\ previous' = [j \in Jobs |-> 0] /\ crossed' = [j \in Jobs |-> {}]
  /\ UNCHANGED <<content, desired, applied, live, ran, file, cand, clean, pushes>>

Work(j) ==
  Arrive(j) \/ ApplyEngine(j) \/ EndApply(j) \/ Told(j) \/ \E e \in Engines: Load(j, e)

SyncNext ==
  \/ \E e \in Engines: Change(e)
  \/ StartPush \/ StartPull \/ PushTimeout \/ Restart
  \/ \E j \in Jobs: Work(j)

(***************************************************************************)
(* The agent ticks every heartbeatIntervalSec and what has begun goes on.  *)
(* Nobody has to push.                                                     *)
(***************************************************************************)
SyncSpec ==
  /\ SyncInit /\ [][SyncNext]_syncVars
  /\ WF_syncVars(StartPull)
  /\ \A j \in Jobs: WF_syncVars(Work(j))

-----------------------------------------------------------------------------
Revisions == 0..(MaxChanges * Cardinality(Engines))

Same == live = content

(***************************************************************************)
(* A change that was made with nothing in flight, and that raised the      *)
(* highest revision above the node's, reaches the engines of the node      *)
(* whatever fails, restarts or gets lost meanwhile, whether or not anyone  *)
(* pushes and in whatever order a push and a pull go through the engines:  *)
(* unless the next change comes first, or the two of them handle the same  *)
(* engine at the same time.                                                *)
(***************************************************************************)
CleanChangeArrives == clean ~> (Same \/ ~clean)

(***************************************************************************)
(* The panel records as applied the revision of one push or pull, of which *)
(* every engine that no other one handled at the same time was reloaded    *)
(* with the version it carries (agent.service.ts 155-216,                  *)
(* core-apply.service.ts 289-325).                                         *)
(***************************************************************************)
RecordedRan ==
  [][applied' # applied =>
       \E j \in Jobs: /\ \A e \in Engines: applied'[e] = job[j].rev
                      /\ \A e \in Engines \ crossed[j]: job[j].body[e] \in ran[e]]_syncVars
=============================================================================
