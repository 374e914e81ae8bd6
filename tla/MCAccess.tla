------------------------------ MODULE MCAccess ------------------------------
(***************************************************************************)
(* For TLC: how nodes (NodeEnrollment) and administrators (AuthSessions)   *)
(* are let in.  They share no variable: an instance runs one of them.      *)
(***************************************************************************)
EXTENDS NodeEnrollment, AuthSessions, TLC

VARIABLE part

TabSymmetry == Permutations(Tabs)

AccessInit ==
  /\ EnrollInit /\ Init
  /\ part \in {"enrollment", "sessions"}

AccessNext ==
  \/ part = "enrollment" /\ EnrollNext /\ UNCHANGED <<vars, part>>
  \/ part = "sessions" /\ Next /\ UNCHANGED <<enrollVars, part>>

AccessSpec == AccessInit /\ [][AccessNext]_<<enrollVars, vars, part>>
=============================================================================
