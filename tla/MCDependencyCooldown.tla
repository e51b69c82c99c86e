------------------------ MODULE MCDependencyCooldown ------------------------
(* DependencyCooldown on a small instance: the cfg gives the constants their values. *)
EXTENDS DependencyCooldown
=============================================================================
