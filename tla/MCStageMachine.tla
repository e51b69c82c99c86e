--------------------------- MODULE MCStageMachine ---------------------------
(* StageMachine on small instances: each cfg gives the constants their values. *)
EXTENDS StageMachine
=============================================================================
