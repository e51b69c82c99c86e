---------------------------- MODULE MCReviewHold ----------------------------
(* ReviewHold on small instances: each cfg gives the constants their values. *)
EXTENDS ReviewHold
=============================================================================
