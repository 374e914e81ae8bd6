------------------------------- MODULE MCJobs -------------------------------
(***************************************************************************)
(* For TLC: the lock (DistLock), a core under its sidecar with the applies *)
(* that hold the lock one at a time (ProviderApply), a user's limits       *)
(* (UserLimits) and the sessions of its devices (OnlineSessions).  They    *)
(* share no variable: an instance runs one of them, so that a disjunction  *)
(* of their actions is as fair as the action of the part that runs.        *)
(***************************************************************************)
EXTENDS DistLock, ProviderApply, UserLimits, OnlineSessions

CONSTANT good1

VARIABLE part

allVars == <<vars, providerVars, userVars, sessionVars, part>>

NoneOrTwo == {0, 2}
OneAdmin == {"admin"}
TwoDevices == {"phone", "laptop"}
TheLaptop == {"laptop"}

\* No limit of seats: more than there are devices.
AnySeats == 9

\* A quota with a reset per period, an expiry, a limit of devices.
SomeProfiles ==
  {[expire |-> None, limit |-> 1, strategy |-> "DAILY", seats |-> AnySeats, events |-> 1],
   [expire |-> 2, limit |-> None, strategy |-> "NO_RESET", seats |-> AnySeats, events |-> 1],
   [expire |-> None, limit |-> None, strategy |-> "NO_RESET", seats |-> 1, events |-> 2]}

SomeInputs ==
  {[action |-> "update"],
   [action |-> "update", status |-> "ACTIVE", limit |-> None],
   [action |-> "update", status |-> "LIMITED"],
   [action |-> "update", next |-> 0],
   [action |-> "update", status |-> "EXPIRED", strategy |-> "NO_RESET"],
   [action |-> "disable"], [action |-> "enable"], [action |-> "reset-traffic"],
   [action |-> "extend"], [action |-> "remove"],
   [action |-> "set-plan",
    plan |-> [expire |-> None, limit |-> 1, seats |-> 1, strategy |-> "DAILY"]]}

\* The two good configurations are alike; of the parts that do not run, one state.
JobsInit ==
  /\ Init /\ ProviderInit /\ UserInit /\ SessionInit
  /\ part \in {"lock", "reload", "limits", "sessions"}
  /\ config = good1
  /\ part # "reload" => \A a \in Applies : desired[a] = good1
  /\ part # "limits" => user.seats = 1

Lock(action) == part = "lock" /\ action /\ UNCHANGED <<providerVars, userVars, sessionVars, part>>
Core(action) == part = "reload" /\ action /\ UNCHANGED <<vars, userVars, sessionVars, part>>
Limits(action) == part = "limits" /\ action /\ UNCHANGED <<vars, providerVars, sessionVars, part>>
Sessions(action) == part = "sessions" /\ action /\ UNCHANGED <<vars, providerVars, userVars, part>>

JobsSpec ==
  /\ JobsInit
  /\ [][\/ Lock(Next) \/ Core(ProviderNext)
        \/ Limits(UserNext) \/ Sessions(SessionNext)]_allVars
  /\ WF_allVars(\/ Lock(Tick) \/ Core(Sidecar /\ UNCHANGED applyVars)
                \/ Limits(TimePasses) \/ Sessions(ClockTicks))
  /\ WF_allVars(Limits(Enforce) \/ Sessions(Sweep))
  /\ \A a \in Admins : WF_allVars(Limits(AdminWrites(a)) \/ Sessions(Capture \/ Collect))
  /\ \A c \in Calls :
       /\ WF_allVars(Lock(Commands(c)) \/ Core(step[c] # "idle" /\ (Apply(c) \/ Rollback(c))))
       /\ WF_allVars(Lock(EndWork(c)))
       /\ SF_allVars(Lock(EndOperation(c)))

\* Liveness, in an instance that runs the part it is about.
LockIsFreed == part = "lock" => LockFreed
CoreComesBack == part = "reload" => CoreRecovers
StatusSettles == part = "limits" => StatusRests
DirtyIsApplied == part = "limits" => DirtyRests
SessionsClose == part = "sessions" => GoneIsClosed
=============================================================================
