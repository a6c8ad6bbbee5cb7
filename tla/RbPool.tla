------------------------------- MODULE RbPool -------------------------------
(***************************************************************************)
(* What the receive path promises about its buffers, whatever the lists,   *)
(* counters and work items that do it (RxAlloc implements this module).    *)
(*                                                                         *)
(* A fixed stock of buffers circulates between the queues and the NIC.  A  *)
(* queue that loses pages to the stack is owed as many, and is paid back   *)
(* in batches of a fixed size, never more than it is owed.  In an          *)
(* emergency it lends buffers to itself, and has them all back when it     *)
(* ends.  Nothing else changes the stock.                                  *)
(***************************************************************************)
EXTENDS Integers

CONSTANTS
    Queues,     \* the receive queues
    Size,       \* buffers in circulation at the start
    Batch       \* buffers of one payment

VARIABLES
    stock,      \* buffers with a page, with the queues or with the NIC
    owed,       \* buffers the allocator owes a queue
    lent        \* buffers a queue in emergency waits for itself

vars == <<stock, owed, lent>>

None == [q \in Queues |-> 0]

Init == stock = Size /\ owed = None /\ lent = None

\* The stack keeps the page of a buffer of queue q.
Lose(q) ==
    /\ stock > 0
    /\ stock' = stock - 1
    /\ \/ owed' = [owed EXCEPT ![q] = @ + 1] /\ UNCHANGED lent
       \/ lent' = [lent EXCEPT ![q] = @ + 1] /\ UNCHANGED owed

Pay(q) ==
    /\ owed[q] >= Batch
    /\ stock' = stock + Batch
    /\ owed' = [owed EXCEPT ![q] = @ - Batch]
    /\ UNCHANGED lent

Repay(q, n) ==
    /\ n <= lent[q]
    /\ stock' = stock + n
    /\ lent' = [lent EXCEPT ![q] = @ - n]
    /\ UNCHANGED owed

\* The device is initialised again.
Reset == stock' = Size /\ owed' = None /\ lent' = None

Next ==
    \/ \E q \in Queues : \/ Lose(q)
                         \/ Pay(q)
                         \/ \E n \in 1..Size : Repay(q, n)
    \/ Reset

Spec == Init /\ [][Next]_vars

=============================================================================
