--------------------------- MODULE MCLocalServers ---------------------------
(* LocalServers on small instances: each cfg gives the constants their values. *)
EXTENDS LocalServers
=============================================================================
