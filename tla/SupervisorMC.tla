----------------------------- MODULE SupervisorMC -----------------------------
(* A single plugin, freshly installed.                                      *)
EXTENDS Supervisor

CONSTANTS mail
=============================================================================
