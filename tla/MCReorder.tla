------------------------------ MODULE MCReorder ------------------------------
(* Reorder for TLC. *)
EXTENDS Reorder

=============================================================================
