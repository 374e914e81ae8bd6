------------------------------ MODULE UserLimits ------------------------------
(***************************************************************************)
(* The status of a user: what administrators set (users.service.ts), what  *)
(* the limit enforcer finds (limit-enforcer.service.ts), and the traffic   *)
(* and sessions it looks at.  Administrators work in READ COMMITTED and    *)
(* write what they computed from a row that they have read before; the     *)
(* enforcer is Serializable, with the time its run began.  The epoch of    *)
(* the accounting is TrafficAccounting's, what an apply does SystemApply's.*)
(***************************************************************************)
EXTENDS Integers

CONSTANTS MaxNow,       \* the now stops there
          Admins,       \* requests of administrators under way
          Profiles,     \* the inputs of create
          Inputs,       \* the inputs of update and of bulk
          MaxEdits,     \* how many of them
          Counts,       \* devices connected at a time
          Hold,         \* IDENTITY_LIMIT_HOLD_MS
          ResetEvery,   \* of a reset strategy
          MaxFailures   \* applies that fail

VARIABLES now,
          user,       \* the row
          devices,    \* distinct devices in the open sessions (countIdentitiesByUser)
          events,      \* bytes and changes of devices still to come
          edit,       \* per administrator: the columns it is about to write, the row it has made
          enforcer,   \* its run: step, at, the row and the devices of its snapshot
          edits, failures,
          lastOver,   \* the last run that saw too many devices, since the hold was cleared
          resets,     \* scheduled resets per period
          stale       \* a next reset was written that is an administrator's own, or older than
                      \* a reset

userVars == <<now, user, devices, events, edit, enforcer, edits, failures, lastOver, resets, stale>>

NoEdit == [on |-> FALSE]
NoRun == [step |-> "idle", at |-> 0, row |-> <<>>, devices |-> 0]
Given(input, field) == field \in DOMAIN input

\* What is null is None; a strategy that resets is DAILY, whatever its period.
None == -1
Dates == Nat \cup {None}
Strategies == {"NO_RESET", "DAILY"}
Statuses == {"ACTIVE", "DISABLED", "EXPIRED", "LIMITED"}
Reasons == {"none", "manual", "expired", "quota", "device"}

Rows == [expire: Dates, limit: Dates, used: Nat, strategy: Strategies, next: Dates,
         seats: Nat, status: Statuses, reason: Reasons, hold: Dates,
         deleted: BOOLEAN, needsApply: BOOLEAN]

Plans == [expire: Dates, limit: Dates, strategy: Strategies, seats: Nat]

ASSUME UserConstants ==
  /\ MaxNow \in Nat /\ Hold \in Nat /\ ResetEvery \in Nat \ {0} /\ Counts \subseteq Nat
  /\ Profiles \subseteq [expire: Dates, limit: Dates, strategy: Strategies, seats: Nat,
                        events: Nat]
  /\ \A i \in Inputs:
       /\ Given(i, "expire") => i.expire \in Dates
       /\ Given(i, "limit") => i.limit \in Dates
       /\ Given(i, "next") => i.next \in Dates
       /\ Given(i, "seats") => i.seats \in Nat
       /\ Given(i, "strategy") => i.strategy \in Strategies
       /\ Given(i, "status") => i.status \in Statuses
       /\ i.action = "set-plan" => i.plan \in Plans

-----------------------------------------------------------------------------
(***************************************************************************)
(* user-domain.ts and limit-enforcement.ts.                                *)
(***************************************************************************)
Expired(row, t) == row.expire # None /\ row.expire <= t
OverQuota(row) == row.limit # None /\ row.used >= row.limit
St(status, reason) == [status |-> status, reason |-> reason]

normalizeUserStatus(row, status, reason, t) ==
  CASE status = "DISABLED" -> St("DISABLED", "manual")
    [] status = "EXPIRED" -> St("EXPIRED", "expired")
    [] status = "LIMITED" -> St("LIMITED", IF reason = "device" THEN "device" ELSE "quota")
    [] OTHER -> CASE Expired(row, t) -> St("EXPIRED", "expired")
                  [] ~Expired(row, t) /\ OverQuota(row) -> St("LIMITED", "quota")
                  [] OTHER -> St("ACTIVE", "none")

\* Mutant of calculateNextResetAt: the boundary at hand, not the next one.
ResetAtThisBoundary(strategy, from) ==
  IF strategy = "NO_RESET" THEN None ELSE (from \div ResetEvery) * ResetEvery

calculateNextResetAt(strategy, from) ==
  IF strategy = "NO_RESET" THEN None ELSE (from \div ResetEvery + 1) * ResetEvery

\* Mutant of Held: the end of the hold is not compared with the time.
HeldForever(row, t) == row.reason = "device" /\ row.hold # None

Held(row, t) ==
  row.status = "LIMITED" /\ row.reason = "device" /\ row.hold # None /\ row.hold > t

evaluateEnforcedStatus(row, n, t) ==
  CASE row.status = "DISABLED" -> St("DISABLED", "manual")
    [] OTHER -> CASE Expired(row, t) -> St("EXPIRED", "expired")
                  [] ~Expired(row, t) /\ OverQuota(row) -> St("LIMITED", "quota")
                  [] ~Expired(row, t) /\ ~OverQuota(row)
                       /\ (n > row.seats \/ Held(row, t)) -> St("LIMITED", "device")
                  [] OTHER -> St("ACTIVE", "none")

nextHold(st, over, t, previous) ==
  IF st # St("LIMITED", "device") THEN None
  ELSE IF over THEN t + Hold ELSE previous

-----------------------------------------------------------------------------
\* create, with what the plan does not give taken from the input.
Created(p) ==
  LET st == normalizeUserStatus([expire |-> p.expire, limit |-> p.limit, used |-> 0],
                                "ACTIVE", "none", 0)
  IN  [expire |-> p.expire, limit |-> p.limit, used |-> 0, strategy |-> p.strategy,
       next |-> calculateNextResetAt(p.strategy, 0), seats |-> p.seats,
       status |-> st.status, reason |-> st.reason, hold |-> None,
       deleted |-> FALSE, needsApply |-> TRUE]

UserInit ==
  \E p \in Profiles:
    /\ now = 0 /\ devices = 0 /\ events = p.events
    /\ user = Created(p)
    /\ edit = [a \in Admins |-> NoEdit]
    /\ enforcer = NoRun
    /\ edits = 0 /\ failures = 0
    /\ lastOver = None
    /\ resets = [i \in 0..(MaxNow \div ResetEvery) |-> 0]
    /\ stale = FALSE

\* identityLimitHoldUntil is cleared, or left as it is (undefined).
HoldCleared(st) == st # St("LIMITED", "device")

WithStatus(row, st) ==
  [row EXCEPT !.status = st.status, !.reason = st.reason,
              !.hold = IF HoldCleared(st) THEN None ELSE @]

\* update: every column that the input does not give is written as it was read.
Or(input, field, old) == IF Given(input, field) THEN input[field] ELSE old

Updated(row, input) ==
  LET new == [row EXCEPT !.expire = Or(input, "expire", @), !.limit = Or(input, "limit", @),
                         !.strategy = Or(input, "strategy", @),
                         !.seats = Or(input, "seats", @)]
      next == IF Given(input, "next") THEN input.next
              ELSE IF Given(input, "strategy") THEN calculateNextResetAt(new.strategy, now)
              ELSE row.next
  IN  WithStatus([new EXCEPT !.next = next],
                 normalizeUserStatus(new, Or(input, "status", row.status), row.reason, now))

\* bulkUpdate: each action writes its own columns.
Unblocked(row) == IF row.status = "DISABLED" THEN "DISABLED" ELSE "ACTIVE"

Extended(row) == IF row.expire # None /\ row.expire > now THEN row.expire + 1 ELSE now + 1

Bulk(row, input) ==
  LET new == CASE input.action = "reset-traffic" ->
                    [row EXCEPT !.used = 0, !.next = calculateNextResetAt(row.strategy, now)]
               [] input.action = "extend" -> [row EXCEPT !.expire = Extended(row)]
               [] input.action = "set-plan" ->
                    [row EXCEPT !.expire = input.plan.expire, !.limit = input.plan.limit,
                                !.seats = input.plan.seats, !.strategy = input.plan.strategy,
                                !.next = calculateNextResetAt(input.plan.strategy, now)]
               [] OTHER -> row
      wanted == CASE input.action = "disable" -> "DISABLED"
                  [] input.action = "enable" -> "ACTIVE"
                  [] OTHER -> Unblocked(row)
  IN  WithStatus(new, normalizeUserStatus(new, wanted, row.reason, now))

\* remove: the row stays, with the hold it has.
Removed(row) == [row EXCEPT !.status = "DISABLED", !.reason = "manual", !.deleted = TRUE]

Edited(row, input) ==
  CASE input.action = "update" -> Updated(row, input)
    [] input.action = "remove" -> Removed(row)
    [] OTHER -> Bulk(row, input)

\* The columns of the statement; needsApply is one of each.
Columns(input, new) ==
  LET own == CASE input.action = "update" -> {"expire", "limit", "strategy", "next", "seats"}
               [] input.action = "remove" -> {"deleted"}
               [] input.action = "reset-traffic" -> {"used", "next"}
               [] input.action = "extend" -> {"expire"}
               [] input.action = "set-plan" -> {"expire", "limit", "strategy", "next", "seats"}
               [] OTHER -> {}
      hold == IF input.action # "remove" /\ HoldCleared(St(new.status, new.reason))
                THEN {"hold"} ELSE {}
  IN  own \cup hold \cup {"status", "reason", "needsApply"}

\* findFirst or findMany with deletedAt null, and what is computed from it.
AdminReads(a) ==
  /\ ~edit[a].on /\ edits < MaxEdits /\ ~user.deleted
  /\ \E input \in Inputs:
       LET new == [Edited(user, input) EXCEPT !.needsApply = TRUE] IN
       edit' = [edit EXCEPT ![a] = [on |-> TRUE, row |-> new, cols |-> Columns(input, new),
                                    odd |-> Given(input, "next")]]
  /\ edits' = edits + 1
  /\ UNCHANGED <<now, devices, events, user, enforcer, failures, lastOver, resets, stale>>

\* update where id: the row may have changed, or have been deleted, meanwhile.
Written(cols, new, row) == [f \in DOMAIN row |-> IF f \in cols THEN new[f] ELSE row[f]]

AdminWrites(a) ==
  /\ edit[a].on
  /\ user' = Written(edit[a].cols, edit[a].row, user)
  /\ stale' = (stale \/ (edit[a].odd /\ "next" \in edit[a].cols))
  /\ lastOver' = IF "hold" \in edit[a].cols THEN None ELSE lastOver
  /\ edit' = [edit EXCEPT ![a] = NoEdit]
  /\ UNCHANGED <<now, devices, events, enforcer, edits, failures, resets>>

\* The traffic collector adds what it has counted.
Traffic ==
  /\ ~user.deleted
  /\ events > 0 /\ events' = events - 1
  /\ user' = [user EXCEPT !.used = @ + 1]
  /\ UNCHANGED <<now, devices, edit, enforcer, edits, failures, lastOver, resets, stale>>

-----------------------------------------------------------------------------
\* runOnce: the time of the run, and the snapshot of its transaction.
EnforcerReads ==
  /\ enforcer.step = "idle"
  /\ enforcer' = [step |-> "evaluate", at |-> now, row |-> user,
                  devices |-> devices]
  /\ UNCHANGED <<now, devices, events, user, edit, edits, failures, lastOver, resets, stale>>

Due(row) == row.strategy # "NO_RESET" /\ row.next # None /\ row.next <= enforcer.at
Repair(row) == (row.strategy = "NO_RESET") # (row.next = None)

\* What the run makes of the row; nothing, and the row is skipped.
Enforced(row) ==
  LET used == IF Due(row) THEN 0 ELSE row.used
      next == IF Due(row) \/ Repair(row)
                THEN calculateNextResetAt(row.strategy, enforcer.at) ELSE row.next
      st == evaluateEnforcedStatus([row EXCEPT !.used = used], enforcer.devices, enforcer.at)
      hold == nextHold(st, enforcer.devices > row.seats, enforcer.at, row.hold)
      changed == St(row.status, row.reason) # st
  IN  [row EXCEPT !.used = used, !.next = next, !.hold = hold,
                  !.status = st.status, !.reason = st.reason,
                  !.needsApply = @ \/ changed]

\* Mutant of Conflict: READ COMMITTED, the row is overwritten.
ConflictNever(row) == FALSE

\* Serializable: a row that has changed since the snapshot is not overwritten.
Conflict(row) == user # row

\* Mutant of Pending: only users that are not deleted.
PendingLiving(row) == row.needsApply /\ ~row.deleted

(***************************************************************************)
(* The transaction ends.  Rows of deleted users are not evaluated; they    *)
(* do count for pendingApply.  After a conflict the run has failed.        *)
(***************************************************************************)
Pending(row) == row.needsApply

\* A next reset that was read before is older than this one.
Passed == [a \in Admins |-> IF edit[a].on THEN [edit[a] EXCEPT !.odd = TRUE] ELSE edit[a]]

EnforcerWrites ==
  LET row == enforcer.row
      new == IF row.deleted THEN row ELSE Enforced(row)
      reset == ~row.deleted /\ Due(row)
      over == new # row /\ new.hold = enforcer.at + Hold
  IN
  /\ enforcer.step = "evaluate"
  /\ IF new # row /\ Conflict(row)
       THEN /\ enforcer' = NoRun
            /\ UNCHANGED <<user, edit, lastOver, resets>>
       ELSE /\ user' = IF new # row THEN new ELSE user
            /\ resets' = IF reset THEN [resets EXCEPT ![enforcer.at \div ResetEvery] = @ + 1]
                         ELSE resets
            /\ edit' = IF reset THEN Passed ELSE edit
            /\ lastOver' = IF over THEN enforcer.at
                           ELSE IF user'.reason # "device" THEN None ELSE lastOver
            /\ enforcer' = IF Pending(user') THEN [NoRun EXCEPT !.step = "apply"] ELSE NoRun
  /\ UNCHANGED <<now, devices, events, edits, failures, stale>>

\* applySystem: clears needsApply of all users, or fails.
EnforcerApplies ==
  /\ enforcer.step = "apply"
  /\ \/ user' = [user EXCEPT !.needsApply = FALSE] /\ UNCHANGED failures
     \/ failures < MaxFailures /\ failures' = failures + 1 /\ UNCHANGED user
  /\ enforcer' = NoRun
  /\ UNCHANGED <<now, devices, events, edit, edits, lastOver, resets, stale>>

Enforce == EnforcerReads \/ EnforcerWrites \/ EnforcerApplies

-----------------------------------------------------------------------------
\* Time passes, and the sessions that are counted change (OnlineSessions).
TimePasses ==
  /\ now < MaxNow /\ now' = now + 1
  /\ UNCHANGED <<user, devices, events, edit, enforcer, edits, failures, lastOver, resets, stale>>

Move ==
  /\ events > 0 /\ events' = events - 1
  /\ devices' \in Counts \ {devices}
  /\ UNCHANGED <<now, user, edit, enforcer, edits, failures, lastOver, resets, stale>>

UserNext ==
  \/ TimePasses \/ Move \/ Traffic \/ Enforce
  \/ \E a \in Admins: AdminReads(a) \/ AdminWrites(a)

(***************************************************************************)
(* The interval of the enforcer goes on (worker-scheduler.service.ts), and *)
(* a request of an administrator comes to its end.                         *)
(***************************************************************************)
UserFair ==
  /\ WF_userVars(TimePasses) /\ WF_userVars(Enforce)
  /\ \A a \in Admins: WF_userVars(AdminWrites(a))

UserSpec == UserInit /\ [][UserNext]_userVars /\ UserFair

-----------------------------------------------------------------------------
(***************************************************************************)
(* Once an administrator has disabled a user, no run of the enforcer       *)
(* enables it, even one that had read the row before                       *)
(* (limit-enforcement.ts 66, limit-enforcer.service.ts 242, Serializable). *)
(***************************************************************************)
DisabledByHand ==
  [][user.status = "DISABLED" /\ user'.status # "DISABLED" =>
       \E a \in Admins: edit[a].on /\ ~edit'[a].on]_userVars

(***************************************************************************)
(* Usage is reset by the schedule once per period, unless an administrator *)
(* has written one of its own, or one read before a reset, over the next   *)
(* (limit-enforcer.service.ts 103-145, user-domain.ts 55-75,               *)
(* users.service.ts 297-302).                                              *)
(***************************************************************************)
ResetOnce == ~stale => \A i \in DOMAIN resets: resets[i] <= 1

(***************************************************************************)
(* When administrators and clients have come to rest, the status agrees    *)
(* for good with expiry, quota and devices, whatever wrote the row last.   *)
(***************************************************************************)
Rightful ==
  \/ user.deleted \/ user.status = "DISABLED"
  \/ user.status = "EXPIRED" /\ Expired(user, now)
  \/ user.reason = "quota" /\ OverQuota(user) /\ ~Expired(user, now)
  \/ /\ ~Expired(user, now) /\ ~OverQuota(user)
     /\ IF devices > user.seats THEN user.reason = "device"
        ELSE user.status = "ACTIVE" \/ (lastOver # None /\ now < lastOver + Hold)

StatusRests == <>[]Rightful

\* Whatever marks the user, deleted or not, is applied in the end, and the enforcer rests.
DirtyRests == user.needsApply ~> ~user.needsApply
=============================================================================
