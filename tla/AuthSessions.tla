---------------------------- MODULE AuthSessions ----------------------------
(***************************************************************************)
(* The sessions of one administrator: apps/api/src/auth/auth.service.ts,   *)
(* its controller, and the panel in the browser (AuthContext.tsx and       *)
(* api/client.ts).  A login opens a family of refresh tokens; a refresh    *)
(* replaces the token of the cookie by another of its family; a token that *)
(* comes a second time ends the family.  The transactions are READ         *)
(* COMMITTED: a row another transaction has updated is waited for and      *)
(* looked at again, a row another transaction inserts is not seen.         *)
(***************************************************************************)
EXTENDS Naturals, FiniteSets

CONSTANTS Tabs,         \* tabs of the panel in one browser; they share its cookie
          MaxSessions,  \* bound: refresh tokens created
          MaxSecrets    \* bound: TOTP secrets created

ASSUME SessionsAssumption == {MaxSessions, MaxSecrets} \subseteq Nat

None == 0
Tokens == 1..MaxSessions
Secrets == 1..MaxSecrets
Unrevoked == {"live", "stale"}
NoCall == [kind |-> "none", stage |-> "idle", token |-> None, seen |-> {}, crossed |-> FALSE]

VARIABLES
  rows,     \* RefreshToken: [state, family]; stale: past expiresAt and not revoked
  admin,    \* AdminUser: [secret, pending]
  jar,      \* the refresh cookie of the browser
  tabs,     \* [access, call, shown]: the access token, the request under way, and
            \* the TOTP secret the page shows
  proved,   \* history: the secrets of which the administrator has entered a code
  ended     \* history: families ended while none of their tokens was being rotated

vars == <<rows, admin, jar, tabs, proved, ended>>

Created == {t \in Tokens : rows[t].state # "free"}
KnownSecrets == {admin.secret, admin.pending} \cup {tabs[p].shown : p \in Tabs} \cup proved

Init == /\ rows = [t \in Tokens |-> [state |-> "free", family |-> None]]
        /\ admin = [secret |-> None, pending |-> None]
        /\ jar = None
        /\ tabs = [p \in Tabs |-> [access |-> FALSE, call |-> NoCall, shown |-> None]]
        /\ proved = {}
        /\ ended = {}

Idle(p) == tabs[p].call.stage = "idle"
At(p, kinds, stage) == tabs[p].call.kind \in kinds /\ tabs[p].call.stage = stage
Call(p, kind, stage, token) ==
  tabs' = [tabs EXCEPT ![p].call = [NoCall EXCEPT !.kind = kind, !.stage = stage, !.token = token]]
Stage(p, stage) == tabs' = [tabs EXCEPT ![p].call.stage = stage]

\* The row of t is locked: its token is claimed and the transaction is not over.
Locked(t, p) == \E q \in Tabs \ {p} : At(q, {"refresh"}, "claimed") /\ tabs[q].call.token = t

-----------------------------------------------------------------------------
(* Login: the row of the administrator is read first, the token is created *)
(* in a transaction afterwards.                                            *)
Login(p) == /\ Idle(p) /\ ~tabs[p].access
            /\ Call(p, "login", "create", None)
            /\ UNCHANGED <<rows, admin, jar, proved, ended>>

NewToken(t, family) == [rows EXCEPT ![t] = [state |-> "live", family |-> family]]

CreateFamily(p) ==
  /\ At(p, {"login"}, "create")
  /\ \E t \in Tokens : /\ t = Cardinality(Created) + 1
                       /\ rows' = NewToken(t, t)
                       /\ tabs' = [tabs EXCEPT ![p].call.stage = "done", ![p].call.token = t]
  /\ UNCHANGED <<admin, jar, proved, ended>>

-----------------------------------------------------------------------------
(* A tab refreshes when it is opened and when a request is answered 401;   *)
(* requests of one tab share one refresh.                                  *)
Refresh(p) == /\ Idle(p) /\ jar # None
              /\ Call(p, "refresh", "find", jar)
              /\ UNCHANGED <<rows, admin, jar, proved, ended>>

FindToken(p) ==
  LET t == tabs[p].call.token IN
  /\ At(p, {"refresh"}, "find")
  /\ \/ rows[t].state = "revoked" /\ Stage(p, "scan") /\ UNCHANGED rows
     \/ /\ rows[t].state = "stale" /\ ~Locked(t, p)
        /\ rows' = [rows EXCEPT ![t].state = "revoked"]
        /\ Stage(p, "failed")
     \/ rows[t].state = "live" /\ Stage(p, "claim") /\ UNCHANGED rows
  /\ UNCHANGED <<admin, jar, proved, ended>>

\* The update waits for a row another transaction has claimed and then looks at
\* its condition again; expiresAt is compared with the time the request began.
\* For comparison: a claim that does not look at revokedAt.
ClaimableAlways(t) == TRUE

Claimable(t) == rows[t].state \in Unrevoked

ClaimToken(p) ==
  LET t == tabs[p].call.token IN
  /\ At(p, {"refresh"}, "claim") /\ ~Locked(t, p)
  /\ Stage(p, IF Claimable(t) THEN "claimed" ELSE "scan")
  /\ UNCHANGED <<rows, admin, jar, proved, ended>>

Rotate(p) ==
  LET t == tabs[p].call.token
      f == rows[t].family
  IN /\ At(p, {"refresh"}, "claimed")
     /\ \E u \in Tokens :
          /\ u = Cardinality(Created) + 1
          /\ rows' = [NewToken(u, f) EXCEPT ![t].state = "revoked"]
          /\ tabs' = [q \in Tabs |->
               IF q = p THEN [tabs[p] EXCEPT !.call.stage = "done", !.call.token = u]
               ELSE [tabs[q] EXCEPT !.call.crossed =
                       @ \/ (tabs[q].call.stage = "revoke" /\ t \in tabs[q].call.seen)]]
     /\ UNCHANGED <<admin, jar, proved, ended>>

-----------------------------------------------------------------------------
(* Revocation of a family, or of all tokens of the administrator: the rows *)
(* that exist when the statement begins, each updated unless it has been   *)
(* revoked by the time it is reached.                                      *)
Family(t) == {u \in Created : rows[u].family = rows[t].family}

\* For comparison: the presented token alone.
ScannedOne(p) == {u \in {tabs[p].call.token} \ {None} : rows[u].state \in Unrevoked}

Scanned(p) ==
  {u \in IF tabs[p].call.kind = "disable" \/ tabs[p].call.token = None
           THEN Created ELSE Family(tabs[p].call.token) : rows[u].state \in Unrevoked}

Scan(p) == /\ At(p, {"refresh", "logout", "disable"}, "scan")
           /\ tabs' = [tabs EXCEPT
                ![p].call.stage = "revoke",
                ![p].call.seen = Scanned(p),
                ![p].call.crossed = \E u \in Scanned(p) : Locked(u, p)]
           /\ UNCHANGED <<rows, admin, jar, proved, ended>>

\* The families the call is to end.
Meant(c) == {rows[u].family : u \in IF c.kind = "disable" \/ c.token = None THEN c.seen ELSE {c.token}}

Revoke(p) ==
  LET c == tabs[p].call IN
  /\ c.stage = "revoke"
  /\ \A u \in c.seen : ~Locked(u, p)
  /\ rows' = [u \in Tokens |-> IF u \in c.seen THEN [rows[u] EXCEPT !.state = "revoked"] ELSE rows[u]]
  /\ ended' = IF c.crossed THEN ended ELSE ended \cup Meant(c)
  /\ admin' = IF c.kind = "disable" THEN [secret |-> None, pending |-> None] ELSE admin
  /\ Stage(p, IF c.kind = "refresh" THEN "failed" ELSE "done")
  /\ UNCHANGED <<jar, proved>>

Logout(p) == /\ Idle(p) /\ tabs[p].access
             /\ Call(p, "logout", "scan", jar)
             /\ UNCHANGED <<rows, admin, jar, proved, ended>>

-----------------------------------------------------------------------------
(* Two-factor sign-in: each request reads the row, checks the code against *)
(* what it has read, and writes in a transaction afterwards.               *)
EnableTotp(p) == /\ Idle(p) /\ tabs[p].access
                 /\ Call(p, "enable", "write", None)
                 /\ UNCHANGED <<rows, admin, jar, proved, ended>>

StorePending(p) ==
  /\ At(p, {"enable"}, "write")
  /\ \E s \in Secrets \ KnownSecrets :
       /\ \A r \in Secrets \ KnownSecrets : s <= r
       /\ admin' = [admin EXCEPT !.pending = s]
       /\ tabs' = [tabs EXCEPT ![p].call = NoCall, ![p].shown = s]
  /\ UNCHANGED <<rows, jar, proved, ended>>

\* The code entered is of the secret this tab shows; token holds the secret read.
ConfirmTotp(p) ==
  /\ Idle(p) /\ tabs[p].access /\ tabs[p].shown # None
  /\ admin.pending = tabs[p].shown
  /\ Call(p, "confirm", "write", admin.pending)
  /\ proved' = proved \cup {tabs[p].shown}
  /\ UNCHANGED <<rows, admin, jar, ended>>

\* For comparison: what is pending when the confirmation writes.
ConfirmedLate(c) == [secret |-> admin.pending, pending |-> None]

Confirmed(c) == [secret |-> c.token, pending |-> None]

StoreSecret(p) == /\ At(p, {"confirm"}, "write")
                  /\ admin' = Confirmed(tabs[p].call)
                  /\ tabs' = [tabs EXCEPT ![p].call = NoCall]
                  /\ UNCHANGED <<rows, jar, proved, ended>>

DisableTotp(p) == /\ Idle(p) /\ tabs[p].access /\ admin.secret # None
                  /\ Call(p, "disable", "scan", None)
                  /\ UNCHANGED <<rows, admin, jar, proved, ended>>

-----------------------------------------------------------------------------
(* The answer, or its loss.  A failed refresh leaves the cookie as it is.  *)
SignedIn(p) == tabs[p].call.kind \in {"login", "refresh"} /\ tabs[p].call.stage = "done"

Answer(p) ==
  /\ tabs[p].call.stage \in {"done", "failed"}
  /\ jar' = IF SignedIn(p) THEN tabs[p].call.token
            ELSE IF tabs[p].call.kind = "logout" THEN None ELSE jar
  /\ tabs' = [tabs EXCEPT ![p].call = NoCall,
                          ![p].access = SignedIn(p) \/ tabs[p].call.kind = "disable"]
  /\ UNCHANGED <<rows, admin, proved, ended>>

LoseAnswer(p) ==
  /\ tabs[p].call.stage \in {"done", "failed"}
  /\ tabs' = [tabs EXCEPT ![p].call = NoCall,
                          ![p].access = @ /\ tabs[p].call.kind \notin {"refresh", "logout"}]
  /\ UNCHANGED <<rows, admin, jar, proved, ended>>

TokenExpires(t) == /\ rows[t].state = "live" /\ \A u \in Created : rows[u].state # "stale"
                   /\ rows' = [rows EXCEPT ![t].state = "stale"]
                   /\ UNCHANGED <<admin, jar, tabs, proved, ended>>

TabStep(p) == \/ Login(p) \/ CreateFamily(p) \/ Refresh(p) \/ FindToken(p) \/ ClaimToken(p)
              \/ Rotate(p) \/ Scan(p) \/ Revoke(p) \/ Logout(p) \/ EnableTotp(p)
              \/ StorePending(p) \/ ConfirmTotp(p) \/ StoreSecret(p) \/ DisableTotp(p)
              \/ Answer(p) \/ LoseAnswer(p)

Next == (\E p \in Tabs : TabStep(p)) \/ (\E t \in Tokens : TokenExpires(t))

Spec == Init /\ [][Next]_vars

-----------------------------------------------------------------------------
\* However refreshes of several tabs cross, a family has one token that can be used.
OneLive == \A t \in Created : Cardinality({u \in Family(t) : rows[u].state \in Unrevoked}) <= 1

\* A family ended by a reuse, a logout or the end of two-factor sign-in, with no
\* rotation of it under way at that moment, never has a usable token again.
EndedIsEnded == \A t \in Created : rows[t].family \in ended => rows[t].state \notin Unrevoked

\* The secret a login asks for is one whose code the administrator has entered,
\* whatever set-ups and confirmations cross: nobody is asked for a code he never had.
SecretProved == admin.secret # None => admin.secret \in proved

=============================================================================
