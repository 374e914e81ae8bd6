----------------------------- MODULE PanelRows -----------------------------
(***************************************************************************)
(* The users and the inbounds of the panel, which its requests assign to   *)
(* each other (Assignments) and its cores serve (Serving).                 *)
(***************************************************************************)
CONSTANTS Users, Inbounds
============================================================================
