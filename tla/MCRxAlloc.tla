----------------------------- MODULE MCRxAlloc -----------------------------
(* RxAlloc for TLC. *)
EXTENDS RxAlloc

=============================================================================
