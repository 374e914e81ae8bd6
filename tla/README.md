# OverVPN: verification project

OverVPN is a control plane for proxy cores (sing-box, Xray, MTProxy, AmneziaWG). A NestJS panel (`apps/api`) keeps
users, inbounds and plans in PostgreSQL, renders a configuration per engine, installs it through files on a shared
volume, and collects traffic; agents (`apps/agent`) do the same on remote nodes; `install.sh` sets hosts up. This
directory holds TLA+ modules translated from that code, the TLC configurations that check them on small instances,
and proofs checked by TLAPS. Paths below are relative to the repository; `core/`, `workers/` and so on stand for
`apps/api/src/core/` etc. `PROJECT.json` has the lines each definition stands for, the hazards with the properties
aimed at them, a mutant of the code for every property, and the theorems.

## 1. Inventory

| Part | State | Operations | Interacts through | What makes it correct |
|---|---|---|---|---|
| Distributed lock (`core/distributed-lock.ts`) | a Redis key with a token and an expiry; per call: `ownershipError`, the renewal in flight | `tryWithLock`, `renew`, `verify`, release, all with tokens compared in Lua | taken by the apply of the local node, by every worker, by the update checker | one operation at a time; a lost lock is noticed; a dead holder's lock comes free |
| Engine provider (`core/sing-box.provider.ts`, `core/xray.provider.ts`, `core/core-adapters.ts`) | configuration, candidate and last-known-good files, reload request and acknowledgement | `validate`, `apply` with rollback, `requestReload`, `checkHealth` | shared volume with the sidecar | what `apply` returns is what the core does |
| Core sidecar (`deploy/sing-box/entrypoint.sh`, `deploy/xray/entrypoint.sh`) | the core process, `last_request_id` | start, pick up a request, reload, acknowledge, exit | shared volume; container runtime | no request lost to a restart; the core ends with the file on disk |
| MTProxy and AmneziaWG (`core/mtproxy.provider.ts`, `core/amneziawg.provider.ts`, `deploy/*/supervisor.py`) | their files, a process or interface per inbound | as above, with supervisors in Python | as above | as above |
| State loader and renderers (`core/core-state.loader.ts`, `core/*renderer*`) | none | `load` in one transaction per engine, `renderConfig` | database | an engine gets its proxy's inbounds and the users that are active; it accepts what it is given |
| Apply of the local node (`CoreApplyService.applyLocal`) | `CoreApplyRecord`s, `needsApply` and `revision` of inbounds and users, `ProxyCoreState` | start a record, lock, load and apply each engine, one transaction of marks | lock, providers, mutations that run meanwhile | a cleared flag means deployed; a reconciled change is deployed; cores never go back |
| Apply of nodes and of the system (`apply`, `applyViaAgent`, `applySystem`) | the same rows, `agentBaseUrl` | dispatch, push over HTTP, apply to every proxy, clear users | agents, limit enforcer | the same across nodes |
| Inbounds, users, plans (`inbounds/`, `users/`, `plans/`) | their rows, assignments, credentials, PENDING records | create, change, remove, assign, rotate, set a plan | each mutation bumps a revision, then may apply | a change is never forgotten; assignments follow the plan |
| Panel side of agents (`agent/`, `proxy-servers/`) | `ProxyServer` row with a JSON `settings`, `ProxyCoreState` | register, heartbeat, stats, desired, apply-result, install command, wizard | HTTP from agents, applies | a node's token and revision survive concurrent requests |
| Agent (`apps/agent/src`) | `appliedRevision` and hashes in memory, credentials on disk | pull loop, `/v1/apply`, `/v1/reload` | HTTP with the panel, volumes with its cores | a node converges to the newest desired state |
| Traffic collector (`workers/traffic-collector.service.ts`, `traffic-accounting.ts`) | `TrafficCursor`, `TrafficDelta`, used bytes, `accountingEpoch` | read counters, charge the growth in one Serializable transaction | providers, resets, worker lock | no byte charged twice, none lost while a core stays up |
| Daily aggregator (`workers/daily-usage-aggregator.service.ts`) | `UsageDaily`, `aggregatedAt` | fold a batch of deltas, prune | worker lock | each delta counted once |
| Limit enforcer (`workers/limit-enforcer.service.ts`, `limit-enforcement.ts`) | status, hold, reset schedule of users | evaluate, reset, apply the system | collector, sessions, apply | a user over a limit is cut off, and comes back |
| Online sessions (`workers/online-session-*.ts`) | `OnlineSession` | upsert, disconnect, sweep, prune | providers, enforcer | a session is open exactly while seen |
| Worker scheduler and health (`workers/worker-*.ts`) | intervals; a JSON per worker in Redis | `setInterval`, mark running/success/failure, staleness | all workers | overlapping runs exclude each other |
| Update checker, notifications (`workers/update-checker.service.ts`, `notifications/`) | status, last notified version and health in Redis | check, notify once | lock, GitHub, Telegram | a new version is announced, once per run that finds it |
| Sessions of administrators (`auth/`, `apps/web` AuthContext) | `RefreshToken` families, TOTP secrets | login, refresh with rotation and reuse detection, logout, TOTP | database, tabs of one browser | a revoked family stays dead |
| Backups (`backups/`) | `BackupArtifact`, files | create, restore, delete, prune | pg tools, core files, reload | an artifact shown as good can be restored |
| Subscriptions (`subscriptions/`) | rate limit counters in Redis | render a profile per format | public HTTP | a profile offers what the cores serve |
| Web editor, shared schemas (`apps/web`, `packages/shared`) | the form | edit an inbound, parse a request | API | an edit changes what it touches and nothing else |
| Hosts (`install.sh`, `deploy/`) | `.env`, `.install.conf`, volumes, nginx, certificates | install, update, enable a core, domains, uninstall | containers | a command that stops anywhere can be repeated |
| Settings, system, audit, health, common, config, infrastructure, scripts | rows and caches | CRUD, metrics, logging, bootstrapping | all | no protocol of their own |

What is hard here: a mutation runs while an apply is between its loads and its marks; an apply takes seconds and spans
files, a reload and a health check, any of which fails alone; a lock with an expiry can be lost by a live holder; a
core's counter starts again from zero at each restart; a push to a node times out while the node goes on; handlers
write back what they have read before; a shell command stops between any two steps; the panel may die anywhere.

## 2. Plan

The core of the system is the path from a row in the database to the process that serves it; it came first, bottom
up. Then the nodes, the workers, the accounts and the hosts.

| Modules | Checked | Proved |
|---|---|---|
| `DistLock`, `DistLockFaults`, abstract `Mutex` | safety, refinement, liveness | safety and refinement: `ProviderApplyProofs` |
| `CoreSidecar`, `ProviderApply`, `SupervisedApply` | safety, liveness of the first two | safety: `ProviderApplyProofs` |
| `LocalApply` over an abstract lock and abstract providers | safety | all its properties: `SystemApplyProofs` |
| `SystemApply`, which extends `LocalApply` by nodes, pushes and `applySystem` | safety | all its properties: `SystemApplyProofs` |
| `Serving`, `Assignments` | safety | all their properties: `ServingProofs` |
| `NodeEnrollment`, `AuthSessions` | safety | all their properties: `AccessProofs` |
| `Installer`, `Backups` | safety | all their properties that hold: `InstallerProofs` |
| `DailyUsage`, `NodeSync`, `UserLimits`, `OnlineSessions` | safety, liveness of the last three | safety: `WorkersProofs` |
| `TrafficAccounting` | safety | its property: `TrafficProofs` |
| `Endpoints` over `InboundSettings`, `Sites` | safety | all their properties that hold: `EndpointsProofs` |
| `UpdateChecks` | liveness | – |

Composition: `SystemApply` extends `LocalApply`; `ProviderApply` extends `CoreSidecar`; `DistLockFaults` extends
`DistLock`; `Serving` and `Assignments` speak of the same users and inbounds (`PanelRows`). The layers meet in promises rather than in one large state space: `LocalApply` uses the lock that `Mutex`
specifies, which `DistLock` is shown and proved to implement, and providers whose outcomes mean what `ProviderApply`
and `SupervisedApply` show; an apply is one step of `Serving`, `UserLimits` and `Backups`.

## 3. Modules

### DistLock, DistLockFaults, Mutex

`DistLock` is `tryWithLock` on one key. `token` and `ttl` are the Redis key; `pc`, `lost` (`ownershipError`), `renewal`
(`renewalPromise`), `since`, `age` and `work` are the closure of each call. `SetKey`/`SetReply` are `SET NX PX` and its
answer, `TimerFires` the interval, `RenewExec`/`RenewReply` the Lua script and the handling of its result, `Verify` and
`AfterVerify` `assertOwned.verify`, `BeginWork`/`EndWork` a stretch of the operation that starts with `assertOwned()`,
`EndOperation` its end, `Release` the releasing script. Time is discrete: `Tick` lets it pass and waits for what is
due, so `Latency` bounds a round trip and `WorkMax` a stretch without a check. `Mutex` is what the callers count on: at
most one call inside; the refinement maps a call to "inside" while it `Believes` to own the key: from the answer to its
`SET` until it is told of a loss or ends. An operation that has been told works on until its next `assertOwned()`, so at
most one call believes while two may be at work (`WorkStaggered`, §6). `DistLockFaults` adds what the timing
excludes: Redis loses the key (`Vanish`), and time passes although something is overdue (`LateTick`). Each is bounded
(`MaxVanish`, `MaxStall`), and a history variable `doubt` measures for how long a call has wrongly believed.

### CoreSidecar, ProviderApply, SupervisedApply

The shared volume and both of its users. `CoreSidecar` is the shell loop: `Clean`/`Start` at container start, `PickUp`
of a request whose id is new, `Reload` (SIGHUP for sing-box, stop and start for Xray: constant `Restarts`),
`Acknowledge`, `Exit` when the core has died, `Outage` of the container. `ProviderApply` is the call: read the previous
configuration (`Begin`), save it as last known good (`Save`), rename the candidate (`Replace`), write the request
(`Request`), wait for the acknowledgement that matches id and hash (`Await`), check the health (`Verify`), and on any
error the same again with the previous configuration (`Restore`, `Rerequest`, `Reawait`, `Reverify`). `ApiDies` ends a
call anywhere; a property that needs the panel to live says so (`Uncut`). The history variable `notice` is "due" from a
write of the file to the request that follows it. Assumptions: a core that can run a
configuration is up within `SETTLE_SECONDS`; a bad configuration is one that passes `check` and still cannot run;
calls are serialised by the lock. `SupervisedApply` is the same for MTProxy and AmneziaWG, whose supervisors run one
process or interface per inbound and whose reload is not all or nothing: `ReplaceFile` and `Ask` are the provider's
half, `Poll`, `Settle`, `TakeDownInterface`, `BringUp`, `SaveState` and `Ack` the supervisor's, which brings what it
runs (`served`) to the `file` and answers with the id it was asked with.

### LocalApply, SystemApply

`LocalApply` is `applyLocal` with everything that may change under it. A revision stands for the contents of a row; a
desired state is the revisions it was made of. Mutations (`CreateInbound`, `ChangeInbound`, `RemoveInbound`,
`ChangeAssignment`, `ChangeUser`) are one transaction each and happen at any time. A call goes through `Start`, `Lock`,
then `Load` and `Deploy` for each engine (each load is a transaction of its own, as in `core-state.loader.ts`), then
`Commit`: the transaction that clears `needsApply` where the loaded revision is still current and marks PENDING
records as reconciled. `deployed` is what each engine runs and of which proxy (`of`). `Crash` leaves the lock until
`Expire`. A user's change gets its `createdAt` inside a longer transaction: of the calls under way at its commit some
had started before (`missed`) and some while it was open (`early`), any of them either, and a call closes every record
that it has not missed.

`SystemApply` adds the nodes: `Dispatch` chooses between the push and the local volumes by `agentBaseUrl` alone, so that
an apply for a node whose agent has not registered is made on the panel's volumes, as in the code; `Build`,
`Push`, `Answer` are `applyViaAgent`, `Handle` the agent that applies engine after engine while the caller may have
given up; `StartSystem`, `NextProxy`, `EndSystem` are `applySystem`, over every proxy that is not disabled.

### NodeEnrollment, NodeSync

`NodeEnrollment` is how a node is let in: the install token of a command, the registration that exchanges it for a
node token, the copy of that token the panel keeps to push, the agent's state file, the wizard, disabling and removal.
A request is two steps, the guard that reads the row and the handler that writes what it has merged. `NodeSync` is how
the configuration of a registered node follows the panel: revisions per engine, pushes, the pull loop, the revision
the agent remembers, results that get lost. A push and a pull run side by side through the steps of `applyEngine`
(`ReadPrevious`, `WriteCandidate`, `ReplaceConfig`, `ReloadEngine`, `RollBack`, `ReloadPrevious`) over the files they
share: `file`, `cand`, and the request to reload. The history variable `crossed` holds the engines that both handled at
the same time.

### TrafficAccounting, DailyUsage, UserLimits, OnlineSessions

`TrafficAccounting`: a user's counters and their accounting. `carried`/`start` are the core, whose counter is their
difference; `user`, `cursor` and `deltas` are the rows. A run of the collector goes through `Capture` (lock, time),
`Read` per engine, `Answered` (the verify after the reads), `BeginTx` (the transaction's snapshot), `VerifyOwned` (the one at
its end), `CommitTx` or `Abort`. `Conflict` is what Serializable refuses: a row the transaction writes was written since
its snapshot. `Delta`, `Generation` and `SampleKey` are `computeTrafficDelta`. `upTo` and `base` are history variables.
`DailyUsage` is the aggregator: runs that may overlap when the lock was lost, a batch of deltas per Serializable
transaction. `UserLimits` is the status of one user between administrators, who write what they computed from an older
reading, the clock, the traffic and the enforcer. An edit is the columns it writes and the row it made; it is `odd` if
it sets a next reset of its own or writes back one it had read before a scheduled reset. `OnlineSessions` are the rows of one user's sessions between the
collector, which writes some time after it was told who is connected, and the sweeper. The proxies know who is
`Connected`; AmneziaWG knows only which peers were `Handshaken` since their interface came up, which every apply
restarts (`InterfaceRestarts`).

### Assignments, Serving, Endpoints, InboundSettings

`Assignments`: plans, users and the inbounds they give, under concurrent READ COMMITTED transactions. `Serving`: what
each inbound serves after an apply of the rows, and what a subscription offers of the same rows; an engine refuses a
whole configuration for one credential it cannot use, and an inbound whose apply failed goes on serving what it had.
`InboundSettings`: which settings an inbound of each protocol has, in every place of the code that names them one by
one: write schemas, storage, public configuration, the fields of the editor, the configurations of the engines, the
adapters of the profiles and the links of the panel. `Endpoints`: one inbound from its creation (API, editor, or the
presets of the installation) through edits in both modes of the editor and calls of the API to what its engine and its
clients are given. A request passes what the API fills in (`Patched`: host and certificate paths of the installation),
the schema (`Parsed`), the storage (`Stored`) and the parse for the audit record (`ReadsBack`), which refuses what could
not be read again. Whether the installation has default certificate paths is a variable that never changes. A setting
has two values, a secret a version; the two tables a property compares come from different files of the code, so that
a setting missing from one of them is a violation.

### AuthSessions

The refresh tokens of one administrator: `rows` with their families, the cookie `jar` that the tabs of one browser
share, and each tab's call with the stages of its transaction (`find`, `claim`, `create`, `scan`, `revoke`), which are
steps of their own because READ COMMITTED lets another transaction commit between them; and the set-up, confirmation
and removal of TOTP.

### Installer, Sites, Backups, UpdateChecks

`Installer`: the commands of `install.sh` as scripts whose steps are actions; a command can stop between any two, and
the next one judges the host by its files. `Sites`: the commands that give a host its domains, with certbot's renewals.
`Backups`: artifacts made of a live database and the core's files, restored and removed by calls that take no lock.
`UpdateChecks`: scheduled and requested checks, the status, notification and health they leave in Redis.

### Modules for TLC

A run costs little more when two components that share no variable are checked side by side, so most `MC` modules
hold several; a variable `part` says which one an instance runs, and only its actions are taken and fair.

| Module | Parts |
|---|---|
| `MCJobs` | `DistLock`; `ProviderApply`; `UserLimits`; `OnlineSessions` |
| `MCWorkers` | `DistLockFaults`; `TrafficAccounting`; `DailyUsage` |
| `MCHosts` | `ProviderApply`; `SupervisedApply`; `Installer`; `Backups` |
| `MCLocalApply` | `LocalApply`; `Endpoints` |
| `MCSystemApply`, `MCSystem` | `SystemApply`; in the second also `UpdateChecks` |
| `MCAccess` | `NodeEnrollment`; `AuthSessions` |
| `MCNode` | `NodeSync`; `Sites` |
| `MCPanel` | `Serving`; `Assignments` |
| `MCInstaller` | `Installer` |

## 4. Runs

| Run | Shows | Bounds |
|---|---|---|
| `jobs` | `WorkStaggered`, `ImplementsMutex`, `LockIsFreed`: who believes to hold the lock is alone, two operations work together only after one has outlasted its lease, and the lock is freed after a crash. `NoReloadLost`, `LastKnownGood`, `CoreComesBack`: no reload is lost, what is kept as good ran, the core recovers. `ResetOnce`, `DisabledByHand`, `StatusSettles`, `DirtyIsApplied`: statuses, holds and resets. `ClosedForCause`, `SessionsClose`: sessions | Ttl 5, renewal every tick, latency 1, work 3: an operation may outlast the 2 ticks that are left, so two do work at once; two calls are enough to overlap. xray, two applies, two good configurations and a bad one, an outage and crashes of the panel at any moment; no failing files or late deaths (§6). Four moments, a quota, an expiry or a limit of devices, one administrator with one edit, one failed apply; two devices, one of them on AmneziaWG |
| `workers` | `DoubtBounded`: with a vanished key and stalls, a call is wrong for a bounded time only. `EachByteOnce`: no byte is charged twice or lost. `EachDeltaOnce`: each delta enters its day once | one vanish, two late ticks, Ttl 3. One engine, two directions, two runs, one lost lock, one reset, two bytes; from rows a first capture has left, three more captures (counters that come back to old values after a restart need them). Two runs, two days, batches of two of four deltas |
| `hosts` | `OutcomeIsReal`, `ReportedIsServed`: what an apply returns is what the engine serves. `CompleteIsUsable`, `CoreAsAsked`: an installation taken for finished can be used. `SucceededIsTrue`: an artifact shown as good is | sing-box, two applies, failing files, a crash, an outage, a late death; two inbounds of a supervisor and three requests; two cores and two installations; two artifacts of one version of the data or one of two |
| `local_flags` | `InboundHonest`, `UserHonestLast`, `ReconciledIsDeployed`: flags and records are true. `NoStaleDeploy`: no core goes back. `ClientsFit`, `UntouchedStays`: clients get what the engine demands, an edit changes what it touches | two calls, two engines with an inbound each, one user, two revisions. Every protocol with a certificate path and those with certificates also without, a creation and two changes: a download lies between the second and the third; one field per form, with the name or a secret |
| `system` | `VolumesHonest`, `SystemReaches`: the same with pushes, nodes without an agent and system applies; a system apply clears a user only after the cores its applies went to had the change. `ChecksSettle`: the status becomes true and a version that stays is announced | two proxies, whose agent registers at any moment or never, one inbound, one user of two revisions, one system call and one mutation. Two runs of the check and one that is asked for, two newer commits, one fault |
| `access` | `NodeHasItsToken`, `RetiredStaysOut`: a node keeps its token and a retired one stays out. `OneLive`, `EndedIsEnded`, `SecretProved`: a family has one usable token and none once ended | two requests at once, two install commands and registrations, one loss; two tabs, three tokens, two secrets |
| `node` | `CleanChangeArrives`, `RecordedRan`: a change made while nothing is in flight arrives, and what is recorded ran. `AppliedIsServed`: after a command that puts names into effect, site, addresses and certificate agree | two engines with a change each, one push beside the pulls, one fault anywhere: the same engine and different ones are handled at once. Two names, four commands |
| `panel` | `PlanFollowed`: assignments follow the plan. `OfferedIsServed`, `RevokedIsOut`: a profile is served as it says, who is not entitled is out | two inbounds of the engines that refuse a configuration for one credential, one user, two versions; two plans, two requests |
| `system_clear` | Violation of `UserHonest`: the last statement of `applySystem` clears a user changed meanwhile | one proxy |
| `system_volumes` | Violation of `LocalInboundHonest`: an apply for a node without a registered agent takes the panel's inbounds off its cores, and leaves them marked as applied | as in `system` |
| `installer_clean` | Violation of `NeverLooksComplete`: an interrupted clean-up leaves files that look like a finished installation | one core |
| `name_alone` | Violation of `NameAlone`: an edit of the name and another setting sends only the name, and an edit of the name of an MTProxy inbound sends everything | two protocols, two edits |

The four violations are disagreements between the code and what its documentation, tests or interface say; the
findings in `PROJECT.json` quote both sides. What only grows in the code has a bound in a guard (`MaxRev`, `MaxBytes`,
`MaxEpoch`, `MaxClock`, `MaxOutages`, `MaxLost`, ...), and the proofs hold for every value of most of them.
Deadlock is not checked where the calls of an instance are finite: when all are over the model rests, as the system
does between requests. Symmetry is used only in runs without liveness. Run `system` has a view that leaves out
`pending` and `reconciled`: actions write them and no guard, other variable or property of the run depends on them.

Fairness. `LockIsFreed`: time passes and Redis answers within its latency (weak fairness of `Tick` and of each call's
commands), a stretch of the operation ends (weak fairness of `EndWork`), and an operation that verifies again and again
ends some day (strong fairness of `EndOperation`); crashes, taking the lock and working are not fair. `CoreComesBack`:
the sidecar's loop and the container's restart policy keep going (weak fairness of the sidecar's steps, its outages
excluded), and a call that has started goes on or rolls back (weak fairness of its steps); outages and calls are not
fair. It speaks of a panel that does not die in an apply (`Uncut`). `ChecksSettle`: the interval fires, a lock left behind expires, a check that has begun goes on (time-outs of its
requests). `CleanChangeArrives`: the pull loop runs and what it has begun goes on. `StatusSettles` and
`DirtyIsApplied`: time passes, the enforcer's interval fires and an administrator's transaction ends. `SessionsClose`:
time passes, the collector and the sweeper run. What may fail in these runs fails a bounded number of times.

## 5. Proofs

Every theorem is about the component's own specification and for any values of its constants that satisfy the named
assumptions of its module; the assumptions below are added. A bound such as `MaxRev` is any number. A proof module may
speak of several components; between them the theorems state every safety property the passing runs check.

**`ProviderApplyProofs`**, the lock: any set of calls and any times with `Timely` (`Period + 2 * Latency < Ttl`, which
the defaults of 20 s and 60 s meet) and any `WorkMax`:
`Exclusion`, `WorkStaggers` (`WorkStaggered`), and `Implements`, the refinement of `Mutex`. Mutual exclusion is not inductive: that a
call works says nothing about the key. `LockInv` adds `Lease`: while a call is active and has not been told of a loss,
either the key holds its token and what is left of the expiry covers what may still pass before the next renewal
(`Leased`), or a renewal is on its way (`Unstarted`, `Sticky`, `Acquired`). From two such leases on one key
follows that the calls are one. An operation at work that was told of a loss has worked for nearly what its key has lost
of the expiry (`Outlasts`), so when another begins, which needs the key, it has worked for nearly the whole. `DoubtEnds` is about `DistLockFaults`, without `Timely`: `FInv` adds, while
no tick was late (`Punctual`), how long a call may have been wrong at each point of the renewal cycle (`Doubted`).

**`ProviderApplyProofs`**, the engines: `TruthTold` (`OutcomeIsReal`) assumes nothing. What a call reports is true because an
acknowledgement with its id cannot be older than its request: ids are not used twice (`Fresh`), one call is at work
(`Alone`) and holds the configuration it wrote (`Held`), so the core that has reloaded for this id reads it
(`Truthful`). `SupervisedReported` (`ReportedIsServed`) says the same of the supervised engines, for any number of
inbounds and requests, while the container has not stopped since the last request (`disturbed`): what the supervisor has in hand of the last request
is the file as it is (`TakenAsItIs`), what it has put in place of it grows to the whole (`Progress`), and an answer with
the id of the last request is an answer to that file (`AnswerServed`). `ReloadsArrive` (`NoReloadLost`) assumes nothing:
files may fail, cores die and the panel die anywhere. Once a request for the file as it is has been written, either it
is still to be picked up or in hand, or the core has loaded the file since (`Pending`). `KeptIsGood` (`LastKnownGood`)
assumes that files do not fail and cores do not die late; `Verified` says which phases may have an unproven
configuration on disk. §6 says what goes wrong otherwise.

**`SystemApplyProofs`**, the local applies: any sets of rows, users and calls and any number of engines.

* `UsersHonest` (`UserHonestLast`): a cleared flag says nothing by itself of what an engine runs, so `UserInv` adds
  that no core is ahead of the database (`Bounded`), that what is about to be deployed lies between what runs and the
  database (`Forward`), and that a user no longer dirty was loaded as it is (`UserLoaded`).
* `NeverBack` (`NoStaleDeploy`): what the holder has loaded is at least what its engine runs, because it loaded after
  taking the lock (`Monotone`).
* `InboundsHonest` (`InboundHonest`), assuming `OneNode`: all inbounds and all calls are of one proxy. `InboundInv(p)`
  is stated for the inbounds of one proxy, and is used again below.
* `ChangesDeployed` (`ReconciledIsDeployed`) assumes nothing: a record that is open, or was closed by a call that did
  not begin while its transaction was open, is of a change that the call's loads have seen (`ChangesClosed`,
  `Arrived`); one closed too early leaves the user's flag standing, because the marks compare revisions.

They share `Base`: the types, and where a call may be while it has the lock (`Locked`, `Blank`, `Ahead`, `Placed`).

**`SystemApplyProofs`**, nodes and the system: any proxies, engines, rows and calls, whenever agents register. `SystemBase`
is `Base`, the types of the nodes, and `Directed`: one that pushes is for a node with an agent, while a call at work on
the panel's volumes may be for any. A step of a push leaves everything `LocalApply` reasons about alone but the marks of
another node's inbounds. `LocalVolumesHonest` (`VolumesHonest`): what an engine was rendered from is of one proxy, and
when that is the panel's node it has every inbound of it without a mark; `InboundHonest` of one node rests on the same
lemmas.
`SystemAppliesReach` (`SystemReaches`) needs `ReachInv`: since it began the users' revisions only grew (`Since`), what
a call of it has loaded or sent is therefore new enough (`Bears`), and if the call succeeded, what it placed is still
there: on the panel's cores because they never go back (`Here`, from `Monotone`), on a node engine by engine as the
push is handled (`There`), unless the push of another call came after it (`Overtaken`). Without `Overtaken` the
property is false: with three revisions TLC finds a mutation's push that was built first and is handled last. Which of
the two it was is decided when the call begins, so the property asks of the cores the call went to; of a node without
an agent these are the panel's (§6).

**`AccessProofs`**: any number of requests and tabs, of tokens and of secrets. `NodeStaysIn` (`NodeHasItsToken`):
`EnrollInv` follows a new token from the registration's answer to the agent's memory and file (`Followed`, `AgentState`),
until the agent itself lost one. `RetiredForGood` (`RetiredStaysOut`) needs only the types: whatever a handler has
read, what it writes leaves a token alone, clears it or makes a new one. `OneTokenLives`, `EndedForGood` and `SecretIsKnown` share `SessionInv`: tokens are
numbered as they are made (`Numbered`), tabs, cookie and rows hold only such (`AllHeld`), of a family one call at a
time has claimed the token it will replace (`Claimed`), so at most one is usable (`Single`); a scan for reuse that has
begun sees every token there is (`Caught`), and what is confirmed was proved (`Confirming`).

**`ServingProofs`**: any inbounds, users and statuses. `OfferIsKept` (`OfferedIsServed`) and `OutForGood`
(`RevokedIsOut`) say of rows without a mark what `Clean` adds for each inbound: the engine that last took a
configuration took the one rendered from the row (`Configured`), and user by user the credential in it is the row's
(`Agreed`). An apply that fails leaves the marks, whatever it has done to which engine. `PlansFollowed`
(`PlanFollowed`), any plans, users, inbounds and requests: a request writes what it has read stages before. What
`Current` says is that a request not `crossed` by another still reads the same assignments, inbounds of the plan and
members, so its sync gives each of them what the plan says; who was crossed is excepted by the property itself.

**`InstallerProofs`**: any cores and any number of secrets. `FinishedIsUsable` (`CompleteIsUsable`) assumes that a
removal of leftovers runs to its end (`~CutRemovals`; run `installer_clean` shows the other case): at
each step of an installation or an update the files say that it is not finished, or it can be used (`Installing`,
`Updating`). `CoreIsAsAsked`
(`CoreAsAsked`) assumes nothing; `Switching` says what is already written at each step of a switch.
`SucceededHolds` (`SucceededIsTrue`), any artifacts, calls and crashes, rests on rows that travel: a dump contains the
rows of its day, and a restore brings them back. `BackupInv` therefore says of every copy of the rows, in the database,
in an artifact or in the hands of a call (`Made`, `Stored`, `Restored`), that it calls SUCCEEDED only what is sound,
and `Onward` that nothing sound becomes anything but removed.

**`WorkersProofs`**: `DeltasCountOnce` (`EachDeltaOnce`), any runs, days and deltas and any size of a batch: what a
run has read is still there and not folded unless its transaction will be refused (`Untouched`). `RecordIsTrue`
(`RecordedRan`), any engines, revisions and faults, and a push and a pull in any order: a job that handles an engine
alone finds its own candidate and its own file there (`Placed`), because the other one, if it comes to the same engine
meanwhile, is noted for both, so an engine it is done with without a failure was reloaded with its version (`Reloaded`).
`ResetsOnce` (`ResetOnce`), any period, profiles and edits: `ResetsPast` says that the next reset of the row, and of
any edit still to be written that is not `odd`, lies behind the period that was reset; it needs the arithmetic of
periods (`Periods`, `NextReset`). `StaysDisabled` (`DisabledByHand`), an action property, needs the types: whatever the
enforcer has evaluated, it leaves a status set by hand as it is. `NotClosedUnseen` (`ClosedForCause`) likewise: any
timeouts, retention and number of snapshots, a partial snapshot closes no session and the sweeper closes one only after
its timeout.

**`TrafficProofs`**: `BytesOnce` (`EachByteOnce`), any collectors, engines, restarts and resets, with finitely many
engines (`TrafficAssumption`). What a core had carried when it was read, and the part of it from before its last start,
make a reading, and readings of a core have an order (`Precedes`): the later one has carried more, and either no start
lies between them or all of the earlier one is from before it. `Past` says that every sample and cursor is a reading of
the past, `Ordered` that the samples that may still be charged are in the order of their captures. That is inductive
because nobody captures while a run reads with the lock (`LastCapture`), and one that has lost it is over once it has
read (`Viable`). A charge is then at most what was carried between two readings. None is lost because a transaction adds
to the usage what its cursors move, or sees an old accounting epoch and charges nothing (`Epochs`). What `MapThenSumSet`
adds up is not computed by induction, which the provers cannot do for an operator, but by contradiction: of the subsets
for which a law of sums failed one would be smallest (`LeastSubset`).

**`EndpointsProofs`**: `ProfilesFit` (`ClientsFit`) and `ProfilesStay` (`UntouchedStays`), any of the protocols
(`ProtocolsAssumption`) and any number of changes. The tables of `InboundSettings` are compared protocol by protocol in
lemmas; a row is `Sound` when it has its protocol's settings and all its secrets. What an update leaves alone needs what
its request is about: `About` says that a request carries the row's own value for whatever the names it touches do not
cover, however the form, the defaults and the host that implies an SNI made it, so each value with untouched origins is
stored again as it was. `NamesAreServed` (`AppliedIsServed`), any hosts (`HostsAssumption`: the word "ip" is no host),
names and commands: while a command runs its names may not be served yet, but the steps it has left will bring it about
in the order they stand (`Promised`); a step done or cut short keeps the promise or ends the command. Once it is kept,
the site on disk is the one loaded (`SiteKept`), so a reboot and the renewals change nothing.

Only model-checked, because TLAPS does not reason about ENABLED here: liveness, `LockIsFreed`,
`CoreComesBack`, `CleanChangeArrives`, `StatusSettles`, `DirtyIsApplied`, `SessionsClose`, `ChecksSettle`. The four violations are
counterexamples and have nothing to prove.

## 6. Behaviours to know of

What reading the code for the modules brought up, beside the four violations above. No run states these; where one
limits a property, its module or constant is named.

### Applies

* User flags are global and applies are per node: a successful apply of the panel's own node hides that a remote node
  lacks a change (`core/core-apply.service.ts:547`); with several engines, a user changed between the loads of two is
  marked applied although the first lacks it (1181). `UserHonestLast` speaks of the last engine for that reason.
* Two applies of the panel's volumes can be at work together. The lock expires after 60 s and is renewed every 20 s
  (`config/environment.ts` 274, 539); after a failed renewal an operation works on to its next `assertOwned()`, and there is
  none inside `provider.apply` (`core/core-apply.service.ts:821`), which may wait for two reloads of 20 s each and for
  health checks: more than the 40 s that are left. `WorkStaggered` says how much an operation must have overrun for
  that; `LocalApply`, `ProviderApply` and their properties take the holder of the lock as the only call at work.
* An apply that begins while the transaction of a user's change is open closes its PENDING record although its loads
  may have come before the commit: `createdAt` is stamped at the start (`users/users.service.ts:327`, 533) and compared with
  `startedAt` (`core/core-apply.service.ts:548`). The record is wrong then; `ReconciledIsDeployed` says that the user's flag
  still stands, or that the last engine has the change.
* Pushes to one node take no lock (248): an older one may arrive last. A system apply clears the users all the same
  (`Overtaken` in `SystemReaches`), and a push marks the inbounds without comparing revisions (302).
* An apply for a remote proxy without an `agentBaseUrl` (not registered yet, or reached by pulls only) is made on the
  panel's own volumes (143): run `system_volumes`. The panel's inbounds leave its cores until the next apply of its own
  node, the call counts as succeeded, and a system apply clears the users although that node never had the change.
  `VolumesHonest` therefore speaks of volumes that hold the panel's own node, and `SystemReaches` of the cores that a
  call went to.
* An inbound mutation whose apply fails is not retried unless some user is dirty; a removed inbound whose apply fails
  goes on being served and has no row that says so.
* `replace` renames and then syncs the directory; when the sync fails the new file is in place but `wroteCurrent` is
  still false, so nothing is rolled back (`core/sing-box.provider.ts:274`). The outcome is FAILED, which promises
  nothing.
* When the panel dies between `replace` and the rollback of a bad configuration, the next apply saves that
  configuration as last known good (273), and nobody takes the bad one back; `LastKnownGood` and `CoreComesBack` speak of
  a panel that has not died in an apply (`Uncut`).
* `verify()` joins a renewal that is in flight (`core/distributed-lock.ts:133`), which Redis may have answered before
  the key vanished.
* AmneziaWG: a failed apply may leave orphan interfaces, and `up` then fails until the container restarts; a failure
  at boot is only logged while the heartbeat stays fresh. An MTProxy supervisor without children has a fresh heartbeat.
  When the address of an inbound changes the supervisor translates only the new /24, so credentials of the old network
  have no internet until they are rotated.

### Nodes

* A write of the wizard that races a registration reverts or drops the stored token, despite the comment at
  `proxy-servers.service.ts` 239; a heartbeat admitted before a server is disabled undoes it; a registration in flight
  clears a newer install token. An install token can be exchanged twice (the interface calls it one-time).
* An uninstall that keeps the volumes leaves `state.json`, so a new `INSTALL_TOKEN` is never used.
* The agent remembers one revision, the highest of its engines: after a lost result a change of an engine with a lower
  one stays hidden, and a late result lowers a revision in the panel. Changes of users raise no revision at all: a node
  that cannot be pushed to has them with the next change of an inbound.
* A push and a pull that handle one engine at the same time share its candidate file, its configuration file and its
  request to reload (`apps/agent/src/core/apply.ts:150`). One may install and reload the other's configuration under its
  own revision, or find the candidate gone, roll back, and undo what the other has just recorded. Without the
  exceptions for this (`crossed`, `clean`) TLC finds `RecordedRan` and `CleanChangeArrives` false.
* Plan changes bump `CoreState` and not `ProxyCoreState`, so nodes do not pull them.

### Accounts and traffic

* A user's usage loses what a core carried between the last sample and a restart, and after a reset what it carries up
  to the next sample. A restart goes unnoticed when the new counter has overtaken the old one
  (`traffic-accounting.ts:64`). One counter is kept per user and engine, the last (`traffic-collector.service.ts:202`),
  while MTProxy and AmneziaWG report one per inbound.
* An administrator's update writes back the status, expiry and next reset it has read, which `UserDetailPage` sends
  along; EXPIRED or LIMITED set by hand are undone by the next run of the enforcer; a raised quota leaves LIMITED until
  then. One that was read before a scheduled reset puts the old next reset back (`users/users.service.ts:297`), and the
  user is reset twice; `ResetOnce` excepts such edits (`stale`).
* A device that has left AmneziaWG stays listed, open and counted against the limit of simultaneous devices until its
  interface restarts (`core/amneziawg.provider.ts:386`). Xray's fallback names users without addresses, so no device
  is counted while it lasts.
* Requests that put users on a plan, change it or set assignments by hand compute the assignments from what they have
  read; two that cross may leave a user with other inbounds than its plan has (`crossed` in `PlanFollowed`). Setting a
  plan races its update, and row locks of the two may deadlock (one is aborted).

### Inbounds and subscriptions

* A change of the Shadowsocks method keeps credentials of the old key length: the engine refuses its whole
  configuration and subscriptions answer 503 until they are rotated. Addresses of WireGuard peers are random without a
  check that they are unique. The limit of 16 MTProxy inbounds is checked outside the transaction. 0.0.0.0 and a specific address with the same port pass the panel and fail in the engine.
* Hysteria2 links omit alpn and its client bandwidth is not swapped; a profile with only xHTTP renders `urltest`
  without outbounds.
* The editor: an inbound with ACME can be saved only with a new name; the TLS mode cannot be switched; simple mode sets
  the public port to the listening port and ignores the picked MTProxy port; obfuscation numbers of AmneziaWG are
  dropped on save; PEM contents are replaced by default paths; stale forms overwrite the changes of others. Without
  default certificate paths an inbound of Trojan over Xray cannot be saved even with a certificate typed in, because
  `sanitizeInboundForm` builds its preset, which throws.
* Without default certificate paths and with an IP address as public host `buildDefaultInboundSettings` throws for
  every protocol, those without TLS included (`packages/shared/src/inbound-defaults.ts:301`).
* The code `inbound_settings_migration_required` is never answered: `tryStorageFromInbound` catches only what it
  expects, while an old row makes the parse throw first (`inbounds/inbounds.service.ts:1404`).
* Updates of gRPC, TCP, xHTTP and MTProxy inbounds that leave out a defaulted field fail; an AmneziaWG update without
  an address moves to 10.66.0.1/24; an empty `i1` is accepted and then refused when the row is read.

### Sign-in

* A rotation that is not committed when a logout or the scan for reuse runs survives it (`crossed` in `EndedIsEnded`).
  Two tabs, or a lost answer, present one cookie twice and are signed out. A refresh that fails leaves the cookie.

### Hosts

* An interrupted clean-up leaves files that look complete (`CutRemovals`). After an uninstall that keeps the volumes
  a new installation has another database password; `bootstrap-admin` fails and the retry's clean-up wipes the kept
  volume. `overvpn update --build` on a slim installation removes `APP_DIR` with `.env` and then exits.
  `enable-core` does not recreate the api container. A stop between the writes of flag and profiles leaves them
  disagreeing until the command is repeated.
* Domains: `install-proxy --vpn-host` never issues a certificate although its usage says so; after `set-domain` to a
  new panel host, `config nginx` before `config certs` (the order of `docs/pages/reference/cli.html`) writes a site
  whose certificate does not exist, and no later command recovers; `config certs` on a panel does not copy the
  certificate to the engines; on a proxy `config sync` resets the clients' host to the IP address; on a host without
  nginx `config apply` exits at the missing certbot. `Sites` lets certbot renew only between commands: a hook that runs
  during an apply can leave certificate and key of different lineages.
* The settings keep the first `subPublicBaseUrl`, so the panel offers the old address after `set-domain`.

### Backups and updates

* `pg_restore` exits 1 on any error, a refused connection included, which the code takes for warnings
  (`backups/backups.service.ts:595`): SUCCEEDED although nothing was restored. A delete during a running creation
  leaves a SUCCEEDED row without a file; a prune that races a restore resurrects a row; a crash leaves RUNNING for
  ever; a restored dump brings back the rows of artifacts it contains. Restoring a database, or a core's files, leaves
  flags clean with another core. Two restores at once can mix database and core. Without `BACKUP_ENCRYPT` half a file
  passes as restored.
* A version is marked announced even if Telegram is off or fails; manual checks run without the lock, so two can
  announce twice. A worker that crash-loops before finishing is shown RUNNING, and `markFailure` is written outside
  the lock.

## 7. Not modelled

Settings, system, audit and health have no protocol of their own. The text of configurations, profiles, links and
pages, logging and metrics are data. Of the parts that are modelled in part: the lock-out after failed logins, the rate
limit and the status page of subscriptions, clone and import of inbounds, bulk actions (loops over what is modelled),
the parsing of counters, listings, the firewall, DNS and the questions of the installation wizard, the runner scripts
and the validation of the environment are left out.
