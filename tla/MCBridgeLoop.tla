---------------------------- MODULE MCBridgeLoop ----------------------------
(* BridgeLoop on small instances: each cfg gives the constants their values. *)
EXTENDS BridgeLoop
=============================================================================
