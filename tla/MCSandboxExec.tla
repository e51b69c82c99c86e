--------------------------- MODULE MCSandboxExec ---------------------------
(* One call of each backend; the values are in SandboxExec.cfg. *)
EXTENDS SandboxExec
=============================================================================
