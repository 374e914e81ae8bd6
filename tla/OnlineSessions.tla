---------------------------- MODULE OnlineSessions ----------------------------
(***************************************************************************)
(* The rows of online sessions of one user, kept by two workers that do    *)
(* not exclude each other: the collector, which asks the cores who is      *)
(* connected and writes what it was told some time later                   *)
(* (online-session-collector.service.ts), and the sweeper, which closes    *)
(* what was not seen for long (online-session-sweeper.service.ts).         *)
(* A device has one connection; its key is the device.                     *)
(***************************************************************************)
EXTENDS Naturals, FiniteSets

CONSTANTS Devices,      \* devices of the user
          Remembered,   \* those that use AmneziaWG
          MaxTime,      \* the clock stops there
          Timeout,      \* ONLINE_SESSION_TIMEOUT_MS
          Retention,    \* retention of closed sessions
          MaxMoves,     \* connects and disconnects
          MaxPartial    \* snapshots that lack a core

ASSUME SessionConstants ==
  /\ {MaxTime, Timeout, Retention, MaxMoves, MaxPartial} \subseteq Nat
  /\ Remembered \subseteq Devices

VARIABLES clock, sessions, snap, moves, partials,
          online,   \* devices that are connected
          shaken,   \* peers with a handshake since their interface is up
          deleted   \* the user is deleted

sessionVars == <<clock, online, shaken, deleted, sessions, snap, moves, partials>>

Never == MaxTime + 1
Times == 0..MaxTime
NoSession == [known |-> FALSE, seen |-> 0, closed |-> Never]
NoSnapshot == [taken |-> FALSE, at |-> 0, clients |-> {}, partial |-> FALSE]

SessionInit ==
  /\ clock = 0
  /\ online = {}
  /\ shaken = {}
  /\ deleted = FALSE
  /\ sessions = [d \in Devices |-> NoSession]
  /\ snap = NoSnapshot
  /\ moves = 0
  /\ partials = 0

ClockTicks ==
  /\ clock < MaxTime
  /\ clock' = clock + 1
  /\ UNCHANGED <<online, shaken, deleted, sessions, snap, moves, partials>>

\* A client connects or disconnects.  AmneziaWG has no connections: a peer shakes hands, and
\* nothing tells that it has gone.
ComeOrGo(d) ==
  /\ moves < MaxMoves
  /\ online' = IF d \in online THEN online \ {d} ELSE online \cup {d}
  /\ shaken' = shaken \cup ({d} \cap Remembered)
  /\ moves' = moves + 1
  /\ UNCHANGED <<clock, deleted, sessions, snap, partials>>

\* awg-quick down and up, at every apply: those who are there shake hands again.
InterfaceRestarts ==
  /\ shaken' = shaken \cap online
  /\ UNCHANGED <<clock, online, deleted, sessions, snap, moves, partials>>

\* The user is deleted, early enough for the timeout to pass before the clock stops.
Delete ==
  /\ clock + Timeout < MaxTime
  /\ ~deleted /\ deleted' = TRUE
  /\ UNCHANGED <<clock, online, shaken, sessions, snap, moves, partials>>

IsOpen(d) == sessions[d].known /\ sessions[d].closed = Never

\* Aggregate distinct concurrent devices: open and seen since the cutoff.
ActiveDevices(now) == {d \in Devices: IsOpen(d) /\ sessions[d].seen + Timeout >= now}

-----------------------------------------------------------------------------
\* getOnlineClients of an engine that knows its connections, and of AmneziaWG.
Connected == online \ Remembered
Handshaken == shaken
Listed == Connected \cup Handshaken

\* getOnlineClients of all engines: complete, or partial when one does not answer.
Answers ==
  {[taken |-> TRUE, at |-> clock, clients |-> Listed, partial |-> FALSE]} \cup
  {[taken |-> TRUE, at |-> clock, clients |-> C, partial |-> TRUE]: C \in SUBSET Listed}

Capture ==
  /\ ~snap.taken
  /\ snap' \in Answers
  /\ partials' = IF snap'.partial THEN partials + 1 ELSE partials
  /\ partials' <= MaxPartial
  /\ UNCHANGED <<clock, online, shaken, deleted, sessions, moves>>

\* Mutant of Closes: a snapshot that lacks a core closes as well.
ClosesAlways(d) == IsOpen(d) /\ d \notin snap.clients

\* if (!snapshot.partial): updateMany with sessionKey notIn seenConnectionIds
Closes(d) == IsOpen(d) /\ d \notin snap.clients /\ ~snap.partial

Seen == [known |-> TRUE, seen |-> snap.at, closed |-> Never]

(***************************************************************************)
(* The transaction of the collector.  Serializable: it runs at one moment, *)
(* or is rolled back and the run is over.  Clients of a deleted user are not  *)
(* resolved, although their sessions count as seen.                        *)
(***************************************************************************)
Collect ==
  /\ snap.taken
  /\ sessions' = [d \in Devices |->
       CASE d \in snap.clients /\ ~deleted -> Seen
         [] Closes(d) -> [sessions[d] EXCEPT !.closed = snap.at]
         [] OTHER -> sessions[d]]
  /\ snap' = NoSnapshot
  /\ UNCHANGED <<clock, online, shaken, deleted, moves, partials>>

\* Mutant of Swept: nothing is closed, only pruned.
SweptPrunes(s) ==
  IF s.closed # Never /\ s.closed + Retention < clock THEN NoSession ELSE s

\* The sweeper, one Serializable transaction: closes, then prunes.
Swept(s) ==
  LET c == IF s.known /\ s.closed = Never /\ s.seen + Timeout < clock
             THEN [s EXCEPT !.closed = clock] ELSE s IN
  IF c.closed # Never /\ c.closed + Retention < clock THEN NoSession ELSE c

Sweep ==
  /\ sessions' = [d \in Devices |-> Swept(sessions[d])]
  /\ UNCHANGED <<clock, online, shaken, deleted, snap, moves, partials>>

SessionNext ==
  \/ ClockTicks \/ Delete \/ InterfaceRestarts \/ Capture \/ Collect \/ Sweep
  \/ \E d \in Devices: ComeOrGo(d)

\* The intervals of both workers go on.
SessionFair ==
  WF_sessionVars(ClockTicks) /\ WF_sessionVars(Capture \/ Collect) /\ WF_sessionVars(Sweep)

SessionSpec == SessionInit /\ [][SessionNext]_sessionVars /\ SessionFair

-----------------------------------------------------------------------------
(***************************************************************************)
(* A session is closed only when a snapshot of all cores lacks it, or when *)
(* it was not seen for the timeout: a core that does not answer throws     *)
(* nobody out of the count.                                                *)
(***************************************************************************)
ClosedForCause ==
  [][\A d \in Devices: IsOpen(d) /\ ~IsOpen(d)' =>
       \/ snap.taken /\ ~snap.partial /\ d \notin snap.clients
       \/ sessions[d].seen + Timeout < clock]_sessionVars

(***************************************************************************)
(* The session of a device that is listed no more, or whose user is        *)
(* deleted, is not open for ever, whichever of the two workers sees it.    *)
(* A device that has left AmneziaWG is listed until its interface restarts.*)
(***************************************************************************)
GoneIsClosed ==
  \A d \in Devices:
    ((d \notin Listed \/ deleted) /\ IsOpen(d)) ~> ((d \in Listed /\ ~deleted) \/ ~IsOpen(d))
=============================================================================
