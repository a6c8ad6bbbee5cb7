------------------------------ MODULE MCHostCmd ------------------------------
(* HostCmd for TLC. *)
EXTENDS HostCmd

=============================================================================
