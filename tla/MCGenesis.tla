------------------------------ MODULE MCGenesis ------------------------------
(* Genesis on small instances: each cfg gives the constants their values. *)
EXTENDS Genesis
=============================================================================
