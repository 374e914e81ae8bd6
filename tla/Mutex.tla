-------------------------------- MODULE Mutex --------------------------------
(***************************************************************************)
(* What the callers of RedisDistributedLock.tryWithLock rely on: at any    *)
(* time at most one operation on a key believes that it owns the key, and  *)
(* an operation that has given the key up never gets it back.              *)
(***************************************************************************)
CONSTANT Calls   \* the calls of tryWithLock on one key

VARIABLES owners,   \* the calls that own the key
          past      \* the calls that will not own it any more

mutexVars == <<owners, past>>

Init ==
  /\ owners = {}
  /\ past = {}

Enter(c) ==
  /\ owners = {}
  /\ c \notin past
  /\ owners' = {c}
  /\ UNCHANGED past

Leave(c) ==
  /\ c \in owners
  /\ owners' = owners \ {c}
  /\ past' = past \cup {c}

\* Refused, or gone before it came to own the key.
GiveUp(c) ==
  /\ c \notin owners
  /\ past' = past \cup {c}
  /\ UNCHANGED owners

Next == \E c \in Calls: Enter(c) \/ Leave(c) \/ GiveUp(c)

Spec == Init /\ [][Next]_mutexVars
==============================================================================
