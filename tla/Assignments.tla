---------------------------- MODULE Assignments ----------------------------
(***************************************************************************)
(* Plans, users and the inbounds they are assigned to: plans.service.ts,   *)
(* plan-assignment-sync.service.ts, and the parts of users.service.ts and  *)
(* inbounds.service.ts that set a plan or an assignment.  Requests run at  *)
(* once in READ COMMITTED transactions: each reads, waits for the rows     *)
(* another has updated, and writes what it has computed from its reading.  *)
(***************************************************************************)
EXTENDS PanelRows, Naturals, FiniteSets

CONSTANTS Plans, NoPlan,
          Calls,       \* requests under way at once
          MaxRenewals  \* bound: credentials made for one assignment

ASSUME NoPlanIsNone == NoPlan \notin Plans

VARIABLES
  plans,     \* Plan: [status, inbounds]
  users,     \* User: [plan, deleted]
  assign,    \* UserInboundAssignment: [status, version] of each user and inbound
  inbounds,  \* the inbounds that exist
  calls,     \* requests: [kind, stage, plan, users, ids, found, crossed]
  manual,    \* history: assignments an administrator has set since the last sync
  crossed    \* history: users whose last sync crossed another change of theirs

plansVars == <<plans, users, assign, inbounds, calls, manual, crossed>>

NoRow == [status |-> "none", version |-> 0]
NoCall == [kind |-> "none", stage |-> "idle", plan |-> NoPlan, users |-> {}, ids |-> {},
           found |-> [u \in Users |-> [i \in Inbounds |-> "none"]], crossed |-> FALSE]

PlansInit ==
  /\ plans \in [Plans -> {[status |-> "ACTIVE", inbounds |-> {}]}]
  /\ users = [u \in Users |-> [plan |-> NoPlan, deleted |-> FALSE]]
  /\ assign = [u \in Users |-> [i \in Inbounds |-> NoRow]]
  /\ inbounds \in SUBSET Inbounds
  /\ calls = [c \in Calls |-> NoCall]
  /\ manual = {}
  /\ crossed = {}

Living == {u \in Users : ~users[u].deleted}
OnPlan(p) == {u \in Living : users[u].plan = p}
RowStatuses == [u \in Users |-> [i \in Inbounds |-> assign[u][i].status]]

Idle(c) == calls[c].stage = "idle"
At(c, kind, stage) == calls[c].kind = kind /\ calls[c].stage = stage
Enter(c, kind, stage, p, us, ids) ==
  calls' = [calls EXCEPT ![c] = [NoCall EXCEPT !.kind = kind, !.stage = stage, !.plan = p,
                                               !.users = us, !.ids = ids]]

UserHeld(u, c) == \E d \in Calls \ {c} : At(d, "setPlan", "held") /\ u \in calls[d].users
PlanHeld(p, c) == \E d \in Calls \ {c} : calls[d].kind = "updatePlan" /\ calls[d].plan = p

-----------------------------------------------------------------------------
(* History: whose changes cross.  Two calls concern each other when they   *)
(* have a plan or a user in common.                                        *)
Concern(d, p, us) == ~Idle(d) /\ (calls[d].users \cap us # {} \/ (p # NoPlan /\ calls[d].plan = p))
Over(c, p, us) == [d \in Calls |-> IF d = c THEN NoCall
                                   ELSE [calls[d] EXCEPT !.crossed = @ \/ Concern(d, p, us)]]
Crosses(c, p, us) == calls[c].crossed \/ \E d \in Calls \ {c} : Concern(d, p, us)

Abort(c) == /\ calls' = [calls EXCEPT ![c] = NoCall]
            /\ UNCHANGED <<plans, users, assign, inbounds, manual, crossed>>

-----------------------------------------------------------------------------
(* syncUserToInboundIds: what was read ACTIVE and is not wanted is turned  *)
(* off, what is wanted and was not read ACTIVE gets another credential.    *)
Enabled(row, found) ==
  [status |-> "ACTIVE", version |-> IF found = "none" THEN 1 ELSE row.version + 1]

Synced(row, found, wanted) ==
  IF found = "ACTIVE" THEN (IF wanted THEN row ELSE [row EXCEPT !.status = "DISABLED"])
                      ELSE (IF wanted THEN Enabled(row, found) ELSE row)

\* The rows a sync would write, and whether each is still as the write needs it.
Writes(c) == {x \in calls[c].users \X Inbounds :
                (calls[c].found[x[1]][x[2]] = "ACTIVE") # (x[2] \in calls[c].ids)}
Possible(c) == \A x \in Writes(c) :
  /\ x[2] \in inbounds
  /\ (calls[c].found[x[1]][x[2]] = "none") = (assign[x[1]][x[2]].status = "none")

SyncRows(c) ==
  /\ \A x \in Writes(c) : assign[x[1]][x[2]].version < MaxRenewals
  /\ assign' = [u \in Users |-> [i \in Inbounds |->
       IF u \in calls[c].users THEN Synced(assign[u][i], calls[c].found[u][i], i \in calls[c].ids)
                               ELSE assign[u][i]]]
  /\ manual' = {x \in manual : x[1] \notin calls[c].users}
  /\ crossed' = IF Crosses(c, calls[c].plan, calls[c].users)
                  THEN crossed \cup calls[c].users \cup OnPlan(calls[c].plan)
                  ELSE crossed \ calls[c].users
  /\ calls' = Over(c, calls[c].plan, calls[c].users)

-----------------------------------------------------------------------------
(* users.update, users.create and the bulk set-plan: the plan is resolved; *)
(* the user is written and stays locked; then the inbounds of the plan and *)
(* the assignments are read.                                               *)
SetPlan(c) == \E u \in Living, p \in Plans \cup {NoPlan} :
  /\ Idle(c)
  /\ p # NoPlan => plans[p].status = "ACTIVE"
  /\ Enter(c, "setPlan", "resolved", p, {u}, {})
  /\ UNCHANGED <<plans, users, assign, inbounds, manual, crossed>>

\* The foreign key refuses a plan that is gone; update by id writes a user deleted since.
HoldUser(c) ==
  LET p == calls[c].plan IN
  /\ At(c, "setPlan", "resolved")
  /\ \A u \in calls[c].users : ~UserHeld(u, c)
  /\ \/ p # NoPlan /\ plans[p].status = "GONE" /\ Abort(c)
     \/ /\ p # NoPlan => plans[p].status # "GONE"
        /\ calls' = [calls EXCEPT ![c].stage = "held",
             ![c].ids = IF p = NoPlan THEN {} ELSE plans[p].inbounds,
             ![c].found = RowStatuses]
        /\ UNCHANGED <<plans, users, assign, inbounds, manual, crossed>>

CommitUser(c) ==
  /\ At(c, "setPlan", "held")
  /\ \/ ~Possible(c) /\ Abort(c)
     \/ /\ Possible(c)
        /\ users' = [u \in Users |-> IF u \in calls[c].users
                                       THEN [users[u] EXCEPT !.plan = calls[c].plan] ELSE users[u]]
        /\ SyncRows(c)
        /\ UNCHANGED <<plans, inbounds>>

-----------------------------------------------------------------------------
(* plans.update with inboundIds: the row of the plan stays locked, the     *)
(* users on it and their assignments are read, all are written at the end. *)
UpdatePlan(c) == \E p \in Plans, ids \in SUBSET inbounds :
  /\ Idle(c) /\ plans[p].status # "GONE" /\ ~PlanHeld(p, c)
  /\ calls' = [calls EXCEPT ![c] = [kind |-> "updatePlan", stage |-> "read", plan |-> p,
                 users |-> OnPlan(p), ids |-> ids, found |-> RowStatuses, crossed |-> FALSE]]
  /\ UNCHANGED <<plans, users, assign, inbounds, manual, crossed>>

CommitPlan(c) ==
  /\ At(c, "updatePlan", "read")
  /\ \A x \in Writes(c) : ~UserHeld(x[1], c)
  /\ \/ ~(Possible(c) /\ calls[c].ids \subseteq inbounds) /\ Abort(c)
     \/ /\ Possible(c) /\ calls[c].ids \subseteq inbounds
        /\ plans' = [plans EXCEPT ![calls[c].plan].inbounds = calls[c].ids]
        /\ SyncRows(c)
        /\ UNCHANGED <<users, inbounds>>

\* plans.archive changes no assignment and no user.
ArchivePlan(p) == /\ plans[p].status = "ACTIVE" /\ \A c \in Calls : ~PlanHeld(p, c)
                  /\ plans' = [plans EXCEPT ![p].status = "ARCHIVED"]
                  /\ UNCHANGED <<users, assign, inbounds, calls, manual, crossed>>

\* For comparison: a plan removed without counting its users.
UnusedAlways(p) == TRUE

\* plans.remove counts the users first; the foreign key sets their plan to null.
Unused(p) == OnPlan(p) = {}

RemovePlan(c) == \E p \in Plans :
  /\ Idle(c) /\ plans[p].status # "GONE" /\ Unused(p)
  /\ Enter(c, "removePlan", "counted", p, {}, {})
  /\ UNCHANGED <<plans, users, assign, inbounds, manual, crossed>>

DeletePlan(c) ==
  LET p == calls[c].plan IN
  /\ At(c, "removePlan", "counted")
  /\ ~PlanHeld(p, c) /\ ~\E d \in Calls : At(d, "setPlan", "held") /\ calls[d].plan = p
  /\ plans' = [plans EXCEPT ![p] = [status |-> "GONE", inbounds |-> {}]]
  /\ users' = [u \in Users |-> IF users[u].plan = p THEN [users[u] EXCEPT !.plan = NoPlan] ELSE users[u]]
  /\ crossed' = IF Crosses(c, p, OnPlan(p)) THEN crossed \cup OnPlan(p) ELSE crossed
  /\ calls' = Over(c, p, OnPlan(p))
  /\ UNCHANGED <<assign, inbounds, manual>>

-----------------------------------------------------------------------------
(* Changes of single assignments and of inbounds by an administrator.      *)
ReadAssignment(c) == \E u \in Living, i \in inbounds :
  /\ Idle(c)
  /\ calls' = [calls EXCEPT ![c] = [NoCall EXCEPT !.kind = "add", !.stage = "read",
                 !.users = {u}, !.ids = {i}, !.found = RowStatuses]]
  /\ UNCHANGED <<plans, users, assign, inbounds, manual, crossed>>

StoreAssignment(c) == \E u \in calls[c].users, i \in calls[c].ids :
  LET found == calls[c].found[u][i] IN
  /\ At(c, "add", "read") /\ ~UserHeld(u, c)
  /\ \/ ~(i \in inbounds /\ (found = "none") = (assign[u][i].status = "none")) /\ Abort(c)
     \/ /\ i \in inbounds /\ (found = "none") = (assign[u][i].status = "none")
        /\ assign[u][i].version < MaxRenewals
        /\ assign' = [assign EXCEPT ![u][i] = Enabled(@, found)]
        /\ manual' = manual \cup {<<u, i>>}
        /\ calls' = Over(c, NoPlan, {u})
        /\ UNCHANGED <<plans, users, inbounds, crossed>>

\* removeAssignment and rotateCredential.
ChangeAssignment(u, i) ==
  /\ assign[u][i].status # "none" /\ \A c \in Calls : ~UserHeld(u, c)
  /\ \/ /\ assign' = [assign EXCEPT ![u][i].status = "DISABLED"]
        /\ manual' = manual \cup {<<u, i>>}
     \/ /\ assign[u][i].version < MaxRenewals
        /\ assign' = [assign EXCEPT ![u][i].version = @ + 1]
        /\ UNCHANGED manual
  /\ calls' = [d \in Calls |-> [calls[d] EXCEPT !.crossed = @ \/ Concern(d, NoPlan, {u})]]
  /\ UNCHANGED <<plans, users, inbounds, crossed>>

\* inbounds.remove: assignments and entries of plans go with the row.
DropInbound(i) ==
  /\ i \in inbounds
  /\ \A c \in Calls : calls[c].stage # "held"
  /\ inbounds' = inbounds \ {i}
  /\ assign' = [u \in Users |-> [assign[u] EXCEPT ![i] = NoRow]]
  /\ plans' = [p \in Plans |-> [plans[p] EXCEPT !.inbounds = @ \ {i}]]
  /\ manual' = {x \in manual : x[2] # i}
  /\ UNCHANGED <<users, calls, crossed>>

\* users.remove keeps the row, its plan and its assignments.
SoftDeleteUser(u) == /\ u \in Living /\ \A c \in Calls : ~UserHeld(u, c)
                     /\ users' = [users EXCEPT ![u].deleted = TRUE]
                     /\ UNCHANGED <<plans, assign, inbounds, calls, manual, crossed>>

PlansNext ==
  \/ \E c \in Calls : \/ SetPlan(c) \/ HoldUser(c) \/ CommitUser(c) \/ UpdatePlan(c)
                      \/ CommitPlan(c) \/ RemovePlan(c) \/ DeletePlan(c)
                      \/ ReadAssignment(c) \/ StoreAssignment(c)
  \/ \E p \in Plans : ArchivePlan(p)
  \/ \E u \in Users, i \in Inbounds : ChangeAssignment(u, i)
  \/ \E i \in Inbounds : DropInbound(i)
  \/ \E u \in Users : SoftDeleteUser(u)

PlansSpec == PlansInit /\ [][PlansNext]_plansVars

-----------------------------------------------------------------------------
Follows(u) == \A i \in inbounds : <<u, i>> \notin manual =>
  (assign[u][i].status = "ACTIVE") = (users[u].plan # NoPlan /\ i \in plans[users[u].plan].inbounds)

\* A living user has the inbounds of the plan, but for those an administrator has
\* set by hand since, whatever plans are changed, archived or removed and whatever
\* inbounds disappear; a change that crossed another is made up by the next sync.
PlanFollowed == \A u \in Living \ crossed : Follows(u)

=============================================================================
