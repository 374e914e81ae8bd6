------------------------------ MODULE DistLock ------------------------------
(***************************************************************************)
(* RedisDistributedLock (apps/api/src/core/distributed-lock.ts) on one     *)
(* key: several calls of tryWithLock, in one or more API processes, the    *)
(* Redis key with its expiry, the renewal timer of every call and the      *)
(* renewal it keeps in flight.                                             *)
(*                                                                         *)
(* Time is discrete.  Tick is the only action that lets time pass; it      *)
(* waits for what is due, so Spec describes processes whose event loop     *)
(* runs and whose round trips to Redis take at most Latency.  The module   *)
(* DistLockFaults adds stalled processes and a Redis that loses the key.   *)
(***************************************************************************)
EXTENDS Naturals

CONSTANTS Calls,      \* the calls of tryWithLock on the key, each with its own token
          NoCall,     \* the key does not exist
          Ttl,        \* ttlMs
          MinPeriod,  \* the 1_000 ms floor of the renewal period
          Latency,    \* the longest round trip to Redis
          WorkMax     \* the longest stretch of an operation without assertOwned

ASSUME CallsAssumption == NoCall \notin Calls
ASSUME TimeAssumption ==
  /\ Ttl \in Nat \ {0}
  /\ MinPeriod \in Nat \ {0}
  /\ Latency \in Nat
  /\ WorkMax \in Nat

VARIABLES token,    \* the value of the key: the call whose token it holds
          ttl,      \* what is left of the key's expiry; 0: none was set
          pc,       \* where each call of tryWithLock is
          lost,     \* ownershipError # null
          renewal,  \* renewalPromise: none, sent to Redis, or answered yes or no
          since,    \* time since the interval timer fired
          age,      \* time since the command in flight was sent
          work      \* time since the operation's last assertOwned

vars == <<token, ttl, pc, lost, renewal, since, age, work>>

\* Mutant of Period: renewing once per expiry.
PeriodOfTtl == Ttl

(***************************************************************************)
(* setInterval(..., Math.max(1_000, Math.floor(ttlMs / 3)))                *)
(***************************************************************************)
Period == IF Ttl \div 3 > MinPeriod THEN Ttl \div 3 ELSE MinPeriod

(***************************************************************************)
(* A renewal period and two round trips fit into the expiry: 20 s and two  *)
(* round trips into 60 s by default.  Nothing is assumed of WorkMax: one   *)
(* provider.apply may outlast the expiry.                                  *)
(***************************************************************************)
Timely == Period + 2 * Latency < Ttl

\* The operation passed to tryWithLock is running.
Active == {"running", "working", "verifying"}
Releasing == {"finishing", "aborting"}
Final == {"refused", "ok", "failed", "crashed"}
PCs == {"idle", "set"} \cup Active \cup Releasing \cup Final

\* The call runs its operation and no renewal has told it that the key is lost.
Believes(c) == pc[c] \in Active /\ ~lost[c]

Init ==
  /\ token = NoCall
  /\ ttl = 0
  /\ pc = [c \in Calls |-> "idle"]
  /\ lost = [c \in Calls |-> FALSE]
  /\ renewal = [c \in Calls |-> "none"]
  /\ since = [c \in Calls |-> 0]
  /\ age = [c \in Calls |-> 0]
  /\ work = [c \in Calls |-> 0]

-----------------------------------------------------------------------------
\* Mutants of SetKey: SET without NX, SET without PX.
SetKeyNoNX(c) ==
  /\ pc[c] = "idle"
  /\ token' = c
  /\ ttl' = Ttl
  /\ pc' = [pc EXCEPT ![c] = "set"]
  /\ UNCHANGED <<lost, renewal, since, age, work>>

SetKeyNoPX(c) ==
  /\ pc[c] = "idle"
  /\ token = NoCall
  /\ token' = c
  /\ pc' = [pc EXCEPT ![c] = "set"]
  /\ UNCHANGED <<ttl, lost, renewal, since, age, work>>

(***************************************************************************)
(* Redis executes SET key token PX ttl NX for call c.                      *)
(***************************************************************************)
SetKey(c) ==
  /\ pc[c] = "idle"
  /\ IF token = NoCall
       THEN /\ token' = c
            /\ ttl' = Ttl
            /\ pc' = [pc EXCEPT ![c] = "set"]
       ELSE /\ pc' = [pc EXCEPT ![c] = "refused"]
            /\ UNCHANGED <<token, ttl>>
  /\ age' = [age EXCEPT ![c] = 0]
  /\ UNCHANGED <<lost, renewal, since, work>>

(***************************************************************************)
(* The answer OK arrives: the interval timer starts, then the operation.   *)
(* Or the connection fails: the call throws and the key is left to expire. *)
(***************************************************************************)
SetReply(c) ==
  /\ pc[c] = "set"
  /\ \/ pc' = [pc EXCEPT ![c] = "running"]
     \/ pc' = [pc EXCEPT ![c] = "failed"]
  /\ age' = [age EXCEPT ![c] = 0]
  /\ UNCHANGED <<token, ttl, lost, renewal, since, work>>

(***************************************************************************)
(* renew(): nothing when ownership is already known to be lost; one        *)
(* renewal at a time, a second caller waits for the one in flight.         *)
(***************************************************************************)
Renew(c) ==
  IF lost[c] \/ renewal[c] # "none"
    THEN UNCHANGED <<renewal, age>>
    ELSE /\ renewal' = [renewal EXCEPT ![c] = "sent"]
         /\ age' = [age EXCEPT ![c] = 0]

TimerFires(c) ==
  /\ pc[c] \in Active
  /\ since[c] = Period
  /\ since' = [since EXCEPT ![c] = 0]
  /\ Renew(c)
  /\ UNCHANGED <<token, ttl, pc, lost, work>>

(***************************************************************************)
(* Redis executes RENEW_LOCK_LUA: compare the token, then PEXPIRE.         *)
(***************************************************************************)
RenewExec(c) ==
  /\ renewal[c] = "sent"
  /\ IF token = c
       THEN /\ ttl' = Ttl
            /\ renewal' = [renewal EXCEPT ![c] = "yes"]
       ELSE /\ renewal' = [renewal EXCEPT ![c] = "no"]
            /\ UNCHANGED ttl
  /\ UNCHANGED <<token, pc, lost, since, age, work>>

\* What a pending verify() does once renew() has returned.
AfterVerify(c, isLost) ==
  IF pc[c] # "verifying" THEN pc[c] ELSE IF isLost THEN "aborting" ELSE "running"

\* Mutant of RenewReply: if (!renewed) is missing.
RenewReplyTrusts(c) ==
  /\ renewal[c] # "none"
  /\ pc' = [pc EXCEPT ![c] = AfterVerify(c, FALSE)]
  /\ renewal' = [renewal EXCEPT ![c] = "none"]
  /\ age' = [age EXCEPT ![c] = 0]
  /\ UNCHANGED <<token, ttl, lost, since, work>>

(***************************************************************************)
(* The renewal settles: with the script's answer, or with an error of the  *)
(* connection, executed or not.  A refusal and an error both set           *)
(* ownershipError for good.                                                *)
(***************************************************************************)
RenewReply(c) ==
  /\ renewal[c] # "none"
  /\ \E isLost \in BOOLEAN:
       /\ renewal[c] \in {"sent", "no"} => isLost
       /\ lost' = [lost EXCEPT ![c] = isLost]
       /\ pc' = [pc EXCEPT ![c] = AfterVerify(c, isLost)]
  /\ renewal' = [renewal EXCEPT ![c] = "none"]
  /\ age' = [age EXCEPT ![c] = 0]
  /\ UNCHANGED <<token, ttl, since, work>>

-----------------------------------------------------------------------------
\* Mutant of BeginWork: assertOwned() forgotten.
BeginWorkUnchecked(c) ==
  /\ pc[c] = "running"
  /\ pc' = [pc EXCEPT ![c] = "working"]
  /\ UNCHANGED <<token, ttl, lost, renewal, since, age, work>>

(***************************************************************************)
(* The operation: assertOwned() and then a stretch of work that does not   *)
(* look at the lock (a provider.apply, a transaction); verify(), which     *)
(* renews first; an exception; its end, followed by a last assertOwned().  *)
(***************************************************************************)
BeginWork(c) ==
  /\ pc[c] = "running"
  /\ ~lost[c]
  /\ pc' = [pc EXCEPT ![c] = "working"]
  /\ UNCHANGED <<token, ttl, lost, renewal, since, age, work>>

EndWork(c) ==
  /\ pc[c] = "working"
  /\ pc' = [pc EXCEPT ![c] = "running"]
  /\ work' = [work EXCEPT ![c] = 0]
  /\ UNCHANGED <<token, ttl, lost, renewal, since, age>>

Verify(c) ==
  /\ pc[c] = "running"
  /\ pc' = [pc EXCEPT ![c] = IF lost[c] THEN "aborting" ELSE "verifying"]
  /\ Renew(c)
  /\ UNCHANGED <<token, ttl, lost, since, work>>

EndOperation(c) ==
  /\ pc[c] = "running"
  /\ \/ pc' = [pc EXCEPT ![c] = IF lost[c] THEN "aborting" ELSE "finishing"]
     \/ pc' = [pc EXCEPT ![c] = "aborting"]
  /\ UNCHANGED <<token, ttl, lost, renewal, since, age, work>>

(***************************************************************************)
(* Redis executes RELEASE_LOCK_LUA (compare the token, then DEL), or the   *)
(* command fails; either way the outcome of the operation stands.  The     *)
(* connection is FIFO: a renewal sent earlier is executed first.           *)
(***************************************************************************)
Release(c) ==
  /\ pc[c] \in Releasing
  /\ renewal[c] # "sent"
  /\ \/ /\ token = c
        /\ token' = NoCall
        /\ ttl' = 0
     \/ UNCHANGED <<token, ttl>>
  /\ pc' = [pc EXCEPT ![c] = IF pc[c] = "finishing" THEN "ok" ELSE "failed"]
  /\ UNCHANGED <<lost, renewal, since, age, work>>

\* The API process dies; what it has sent may still be executed.
Crash(c) ==
  /\ pc[c] \in {"set"} \cup Active \cup Releasing
  /\ pc' = [pc EXCEPT ![c] = "crashed"]
  /\ UNCHANGED <<token, ttl, lost, renewal, since, age, work>>

-----------------------------------------------------------------------------
(***************************************************************************)
(* Time passes: the key's expiry runs down and the key goes with it.       *)
(***************************************************************************)
PassTime ==
  /\ token' = IF ttl = 1 THEN NoCall ELSE token
  /\ ttl' = IF ttl = 0 THEN 0 ELSE ttl - 1
  /\ since' = [c \in Calls |-> IF pc[c] \in Active /\ since[c] < Period
                                 THEN since[c] + 1 ELSE since[c]]
  /\ age' = [c \in Calls |-> IF pc[c] = "set" \/ renewal[c] # "none"
                               THEN age[c] + 1 ELSE age[c]]
  /\ work' = [c \in Calls |-> IF pc[c] = "working"
                                THEN work[c] + 1 ELSE work[c]]
  /\ UNCHANGED <<pc, lost, renewal>>

\* No timer, answer or end of a stretch of work of c is overdue.
Prompt(c) ==
  /\ pc[c] \in Active => since[c] < Period
  /\ pc[c] = "set" \/ renewal[c] # "none" => age[c] < Latency
  /\ pc[c] = "working" => work[c] < WorkMax

Tick ==
  /\ \A c \in Calls: Prompt(c)
  /\ PassTime

Commands(c) == SetReply(c) \/ TimerFires(c) \/ RenewExec(c) \/ RenewReply(c) \/ Release(c)
Operation(c) == BeginWork(c) \/ EndWork(c) \/ Verify(c) \/ EndOperation(c)

Next ==
  \/ Tick
  \/ \E c \in Calls: SetKey(c) \/ Commands(c) \/ Operation(c) \/ Crash(c)

Spec == Init /\ [][Next]_vars

(***************************************************************************)
(* Time goes on, commands settle, a stretch of work ends, and operations,  *)
(* which are finite code, get to their end.                                *)
(***************************************************************************)
Fairness ==
  /\ WF_vars(Tick)
  /\ \A c \in Calls: /\ WF_vars(Commands(c))
                     /\ WF_vars(EndWork(c))
                     /\ SF_vars(EndOperation(c))

LiveSpec == Spec /\ Fairness

-----------------------------------------------------------------------------
\* The variables stay in their types: the clocks within the bounds that Tick enforces.
TypeOK ==
  /\ token \in Calls \cup {NoCall}
  /\ ttl \in 0 .. Ttl
  /\ pc \in [Calls -> PCs]
  /\ lost \in [Calls -> BOOLEAN]
  /\ renewal \in [Calls -> {"none", "sent", "yes", "no"}]
  /\ since \in [Calls -> 0 .. Period]
  /\ age \in [Calls -> 0 .. Latency]
  /\ work \in [Calls -> 0 .. WorkMax]

(***************************************************************************)
(* Two operations never both take themselves for the owner of the key      *)
(* (tryWithLock, lines 121-182), although a key is only leased and the     *)
(* call that lets it lapse is never told.                                  *)
(***************************************************************************)
MutualExclusion == \A c, d \in Calls: Believes(c) /\ Believes(d) => c = d

(***************************************************************************)
(* Nothing stops an operation at work whose renewal has failed: when the   *)
(* key it no longer renews runs out, the next holder may begin beside it.  *)
(* How early that can happen is bounded: of two operations at work at      *)
(* once, one had worked for Ttl - Period - 2 * Latency since its last      *)
(* assertOwned() when the other began.                                     *)
(***************************************************************************)
Longer(c, d) == work[c] + Period + 2 * Latency >= work[d] + Ttl

WorkStaggered ==
  \A c, d \in Calls :
    c # d /\ pc[c] = "working" /\ pc[d] = "working" => Longer(c, d) \/ Longer(d, c)

(***************************************************************************)
(* A lock is never stuck: whatever crashes, answers are lost or releases   *)
(* fail, the key is free again after a while (the expiry of SET ... PX).   *)
(***************************************************************************)
LockFreed == []<>(token = NoCall)

(***************************************************************************)
(* The lock implements the abstract Mutex: the owners are the operations   *)
(* that take themselves for the owner, and a call that has learnt of its   *)
(* loss, or has ended, never owns the key again.                           *)
(***************************************************************************)
Owners == {c \in Calls: Believes(c)}
Past == {c \in Calls: pc[c] \in Releasing \cup Final \/ (pc[c] \in Active /\ lost[c])}

M == INSTANCE Mutex WITH owners <- Owners, past <- Past
ImplementsMutex == M!Spec
=============================================================================
