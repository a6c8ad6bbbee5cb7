---------------------------- MODULE MCNotifWait ----------------------------
(* TLC instances of NotifWait.                                             *)
EXTENDS NotifWait, TLC

(* Waiters, commands and aborters are each interchangeable.                *)
Symmetry == Permutations(Waiters) \cup Permutations(Cmds)
              \cup Permutations(Aborters)

=============================================================================
