------------------------------ MODULE RxAlloc ------------------------------
(***************************************************************************)
(* The receive buffers of the PCIe transport (pcie/rx.c): the rings of the *)
(* multi-queue devices, and the allocator that refills them.               *)
(*                                                                         *)
(* A buffer descriptor (rxb) goes round: posted in a ring, filled by the   *)
(* NIC and reported in a queue's completion table, then back to rx_free if *)
(* its page was not taken, or to rx_used without a page.  Every            *)
(* RX_CLAIM_REQ_ALLOC of those a queue posts one request for a work item,  *)
(* which puts pages into as many descriptors; the queue claims the result  *)
(* later.  When the work item lags too far behind, the queue is in         *)
(* emergency and allocates pages itself.                                   *)
(*                                                                         *)
(* The NAPI poll of every queue, the work item and the NIC run             *)
(* concurrently; one action makes at most one access to what they share:   *)
(* a critical section of rba->lock or one access to req_pending or         *)
(* req_ready.  rxq->lock is held by the poll, or nobody else wants it.     *)
(* Lists of descriptors are modelled by their lengths.                     *)
(***************************************************************************)
EXTENDS Integers, FiniteSets, Sums

CONSTANTS
    Queues,             \* the receive queues
    DefQ,               \* queue 0, which gets all buffers at the start
    QSize,              \* rxq->queue_size, and num_rx_bufs
    RX_CLAIM_REQ_ALLOC, \* buffers of one request
    RX_POST_REQ_ALLOC,  \* empty descriptors that come with a request
    Block,              \* the 8 of the write pointer and of the emergency
    MaxSplit,           \* IWL_RX_MAX_SPLIT_RBS
    AllocFails,         \* whether GFP_ATOMIC allocations may fail
    MaxStarts           \* bound: times the device is stopped and started

Claim == RX_CLAIM_REQ_ALLOC
PoolSize == Cardinality(Queues)
              * (RX_CLAIM_REQ_ALLOC - RX_POST_REQ_ALLOC)

ASSUME RxAllocAssumption ==
    /\ IsFiniteSet(Queues)
    /\ DefQ \in Queues
    /\ {QSize, Block, MaxSplit} \subseteq Nat \ {0}
    /\ RX_POST_REQ_ALLOC \in Nat \ {0}
    /\ RX_CLAIM_REQ_ALLOC \in Nat
    /\ RX_POST_REQ_ALLOC < RX_CLAIM_REQ_ALLOC
    /\ AllocFails \in BOOLEAN
    /\ MaxStarts \in Nat

VARIABLES
    ring,           \* posted in the ring's table and not yet filled
    hidden,         \* those of them the NIC has not been told of
    used_bd,        \* completions not read yet
    frags,          \* the first of them found to be fragments of one frame
    free_count,     \* rxq->rx_free and its length
    rx_used,        \* rxq->rx_used
    used_count,     \* rxq->used_count
    split,          \* rxq->incomplete_split_rb
    pc,             \* where the poll of the queue is
    r,              \* completions it has seen and not yet handled
    handled,        \* it has handled some: its budget may be used up
    seen,           \* rb_pending_alloc
    emergency,      \* emergency
    count,          \* count
    rxbs,           \* descriptors to recycle
    rbd_empty,      \* rba->rbd_empty
    rbd_allocated,  \* rba->rbd_allocated
    req_pending,    \* rba->req_pending
    req_ready,      \* rba->req_ready
    rx_alloc,       \* the work item is queued
    wpc,            \* where the work item is
    pending,        \* its local variables
    local_empty,
    local_allocated,
    enabled,        \* STATUS_DEVICE_ENABLED
    bug,            \* a BUG_ON or WARN of this code was hit
    starts          \* what is left of the bound

nic == <<ring, hidden, used_bd, frags>>
lists == <<free_count, rx_used, used_count>>
poll == <<split, pc, r, handled, seen, emergency, count, rxbs>>
rba == <<rbd_empty, rbd_allocated, req_pending, req_ready, rx_alloc>>
work == <<wpc, pending, local_empty, local_allocated>>
vars == <<nic, lists, poll, rba, work, enabled, bug, starts>>

All(v) == [q \in Queues |-> v]

\* _iwl_pcie_rx_init(): the pool goes to the allocator and to the default
\* queue, whose descriptors get pages.
Init ==
    /\ ring = All(0) /\ hidden = All(0) /\ used_bd = All(0) /\ frags = All(0)
    /\ free_count = [All(0) EXCEPT ![DefQ] = QSize - 1]
    /\ rx_used = All(0) /\ used_count = All(0)
    /\ split = All(FALSE) /\ r = All(0) /\ seen = All(0)
    /\ handled = All(FALSE) /\ emergency = All(FALSE)
    /\ count = All(0) /\ rxbs = All(0)
    /\ pc = [All("idle") EXCEPT ![DefQ] = "restock"]
    /\ rbd_empty = PoolSize /\ rbd_allocated = 0
    /\ req_pending = 0 /\ req_ready = 0 /\ rx_alloc = FALSE
    /\ wpc = "idle" /\ pending = 0
    /\ local_empty = 0 /\ local_allocated = 0
    /\ enabled = TRUE /\ bug = FALSE /\ starts = MaxStarts

----------------------------------------------------------------------------
(* The NIC is external: it fills a buffer it knows of, from any ring, and  *)
(* reports it in any queue.  A frame may be split over several buffers;    *)
(* whether a completion is such a fragment is chosen when it is looked at. *)

Visible(q) == ring[q] - hidden[q]

NicFills(p, q) ==
    /\ enabled
    /\ Visible(p) > 0
    /\ ring' = [ring EXCEPT ![p] = @ - 1]
    /\ used_bd' = [used_bd EXCEPT ![q] = @ + 1]
    /\ UNCHANGED <<hidden, frags, lists, poll, rba, work, enabled, bug, starts>>

----------------------------------------------------------------------------
(* iwl_pcie_rx_handle() of queue q. *)

Goto(q, to) == pc' = [pc EXCEPT ![q] = to]

\* NAPI calls the handler; r is read from the status area.
Poll(q) ==
    /\ pc[q] = "idle"
    /\ used_bd[q] > 0
    /\ r' = [r EXCEPT ![q] = used_bd[q]]
    /\ Goto(q, "loop")
    /\ UNCHANGED <<split, handled, seen, emergency, count, rxbs, nic, lists,
                   rba, work, enabled, bug, starts>>

\* Mutant: what an emergency left in rx_used stays there.
OutWithoutAlloc(q, alarm) == Goto(q, "restock")

\* "unallocated emergency RBDs must be allocated on exit".
Out(q, alarm) ==
    Goto(q, IF alarm /\ count[q] > 0 THEN "alloc_out" ELSE "restock")

\* Everything seen is handled, or the budget is used up.
LoopEnds(q) ==
    /\ pc[q] = "loop"
    /\ r[q] = 0 \/ handled[q]
    /\ Out(q, emergency[q])
    /\ UNCHANGED <<split, r, handled, seen, emergency, count, rxbs, nic, lists,
                   rba, work, enabled, bug, starts>>

\* The n buffers of a frame, or of as much of it as is too long, are taken
\* out of the completion table.
Handle(q, n, incomplete, alarm) ==
    /\ used_bd' = [used_bd EXCEPT ![q] = @ - n]
    /\ frags' = [frags EXCEPT ![q] = 0]
    /\ r' = [r EXCEPT ![q] = @ - n]
    /\ split' = [split EXCEPT ![q] = incomplete]
    /\ count' = [count EXCEPT ![q] = IF alarm THEN @ + n ELSE @]
    /\ IF incomplete \/ split[q]
       THEN /\ free_count' = [free_count EXCEPT ![q] = @ + n]
            /\ Goto(q, "claim")
            /\ UNCHANGED rxbs
       ELSE /\ rxbs' = [rxbs EXCEPT ![q] = n]
            /\ Goto(q, "recycle")
            /\ UNCHANGED free_count

\* All that is seen are fragments of a frame: they are left unread.
NoFrame(q, alarm) ==
    /\ frags' = [frags EXCEPT ![q] = r[q]]
    /\ Out(q, alarm)
    /\ UNCHANGED <<split, r, count, rxbs, used_bd, free_count>>

\* iwl_pcie_rx_count_rbs() and what is done with its result.
HandleFrame(q, alarm) ==
    /\ handled' = [handled EXCEPT ![q] = TRUE]
    /\ \/ \E n \in (frags[q] + 1)..MaxSplit :
            n <= r[q] /\ Handle(q, n, FALSE, alarm)
       \/ r[q] >= MaxSplit /\ Handle(q, MaxSplit, TRUE, alarm)
       \/ r[q] < MaxSplit /\ NoFrame(q, alarm)

\* Mutant: a queue waits for the allocator, however long that takes.
AlarmNever(q, n) == FALSE

Alarm(q, n) == n >= QSize \div 2 /\ ~emergency[q]

\* The head of the loop reads req_pending.
LoopBegins(q) ==
    LET n == req_pending * Claim
    IN  /\ pc[q] = "loop"
        /\ r[q] > 0
        /\ seen' = [seen EXCEPT ![q] = n]
        /\ IF Alarm(q, n)
           THEN /\ Goto(q, "alarm")
                /\ UNCHANGED <<split, r, handled, count, rxbs, used_bd, frags,
                               free_count>>
           ELSE HandleFrame(q, emergency[q])
        /\ UNCHANGED <<emergency, ring, hidden, rx_used, used_count, rba,
                       work, enabled, bug, starts>>

EmergencyBegins(q) ==
    /\ pc[q] = "alarm"
    /\ rbd_empty' = rbd_empty + rx_used[q]
    /\ rx_used' = [rx_used EXCEPT ![q] = 0]
    /\ emergency' = [emergency EXCEPT ![q] = TRUE]
    /\ HandleFrame(q, TRUE)
    /\ UNCHANGED <<seen, ring, hidden, used_count, rbd_allocated,
                   req_pending, req_ready, rx_alloc, work, enabled, bug,
                   starts>>

AfterRecycle(left) == IF left = 0 THEN "claim" ELSE "recycle"

\* iwl_pcie_rx_recycle_rbd(): the op mode left the page and it could be
\* mapped again.
RecycleKept(q) ==
    /\ pc[q] = "recycle"
    /\ rxbs' = [rxbs EXCEPT ![q] = @ - 1]
    /\ free_count' = [free_count EXCEPT ![q] = @ + 1]
    /\ Goto(q, AfterRecycle(rxbs[q] - 1))
    /\ UNCHANGED <<split, r, handled, seen, emergency, count, nic, rx_used,
                   used_count, rba, work, enabled, bug, starts>>

\* Mutant: no request when the claim of the last one has failed.
PostsAtFirst(n) == n = RX_POST_REQ_ALLOC

PostsAt(n) == n % Claim = RX_POST_REQ_ALLOC

\* The page is gone: iwl_pcie_rx_reuse_rbd().  Not counted in an emergency.
RecycleTaken(q) ==
    LET n == used_count[q] + 1
        posts == ~emergency[q] /\ PostsAt(n)
    IN  /\ pc[q] = "recycle"
        /\ rxbs' = [rxbs EXCEPT ![q] = @ - 1]
        /\ used_count' = [used_count EXCEPT
                            ![q] = IF emergency[q] THEN @ ELSE n]
        /\ IF posts
           THEN /\ rbd_empty' = rbd_empty + rx_used[q] + 1
                /\ rx_used' = [rx_used EXCEPT ![q] = 0]
                /\ Goto(q, "post")
           ELSE /\ rx_used' = [rx_used EXCEPT ![q] = @ + 1]
                /\ Goto(q, AfterRecycle(rxbs[q] - 1))
                /\ UNCHANGED rbd_empty
        /\ UNCHANGED <<split, r, handled, seen, emergency, count, nic,
                       free_count, rbd_allocated, req_pending, req_ready,
                       rx_alloc, work, enabled, bug, starts>>

Post(q) ==
    /\ pc[q] = "post"
    /\ req_pending' = req_pending + 1
    /\ rx_alloc' = TRUE
    /\ Goto(q, AfterRecycle(rxbs[q]))
    /\ UNCHANGED <<split, r, handled, seen, emergency, count, rxbs, nic, lists,
                   rbd_empty, rbd_allocated, req_ready, work, enabled, bug,
                   starts>>

\* Every Block buffers of an emergency the ring is refilled at once.
NextFrame(q) ==
    /\ IF emergency[q] /\ count[q] >= Block
       THEN /\ count' = [count EXCEPT ![q] = 0]
            /\ emergency' = [emergency EXCEPT
                               ![q] = seen[q] >= QSize \div 3]
            /\ Goto(q, "alloc")
       ELSE Goto(q, "loop") /\ UNCHANGED <<count, emergency>>
    /\ seen' = [seen EXCEPT ![q] = 0]

\* Mutant: a queue claims as soon as it has posted.
MayClaimEarly(q) == used_count[q] >= RX_POST_REQ_ALLOC

\* iwl_pcie_rx_allocator_get(): atomic_dec_if_positive().
MayClaim(q) == used_count[q] >= Claim

ClaimReady(q) ==
    /\ pc[q] = "claim"
    /\ MayClaim(q) /\ req_ready > 0
    /\ req_ready' = req_ready - 1
    /\ Goto(q, "take")
    /\ UNCHANGED <<split, r, handled, seen, emergency, count, rxbs, nic, lists,
                   rbd_empty, rbd_allocated, req_pending, rx_alloc, work,
                   enabled, bug, starts>>

ClaimNothing(q) ==
    /\ pc[q] = "claim"
    /\ ~MayClaim(q) \/ req_ready = 0
    /\ NextFrame(q)
    /\ UNCHANGED <<split, r, handled, rxbs, nic, lists, rba, work, enabled,
                   bug, starts>>

\* The list is not tested: an empty one would be a stray pointer.
Take(q) ==
    /\ pc[q] = "take"
    /\ bug' = (bug \/ rbd_allocated < Claim)
    /\ rbd_allocated' = rbd_allocated - Claim
    /\ free_count' = [free_count EXCEPT ![q] = @ + Claim]
    /\ used_count' = [used_count EXCEPT ![q] = @ - Claim]
    /\ NextFrame(q)
    /\ UNCHANGED <<split, r, handled, rxbs, nic, rx_used, rbd_empty,
                   req_pending, req_ready, rx_alloc, work, enabled, starts>>

\* iwl_pcie_rxq_alloc_rbs(): a page for every descriptor in rx_used, until
\* an allocation fails.
AllocRbs(q) ==
    /\ pc[q] \in {"alloc", "alloc_out"}
    /\ \E n \in 0..rx_used[q] :
         /\ n = rx_used[q] \/ AllocFails
         /\ rx_used' = [rx_used EXCEPT ![q] = @ - n]
         /\ free_count' = [free_count EXCEPT ![q] = @ + n]
    /\ Goto(q, IF pc[q] = "alloc" THEN "restock_again" ELSE "restock")
    /\ UNCHANGED <<split, r, handled, seen, emergency, count, rxbs, nic,
                   used_count, rba, work, enabled, bug, starts>>

\* Mutant: one entry too many is written.
RestockedOneMore(q) ==
    /\ ring' = [ring EXCEPT ![q] = @ + free_count[q] + 1]
    /\ hidden' = [hidden EXCEPT ![q] = (@ + free_count[q] + 1) % Block]
    /\ free_count' = [free_count EXCEPT ![q] = 0]

\* iwl_pcie_rxmq_restock(): all of rx_free goes into the ring, without a look
\* at its space; the NIC is told of whole blocks.
Restocked(q) ==
    /\ ring' = [ring EXCEPT ![q] = @ + free_count[q]]
    /\ hidden' = [hidden EXCEPT ![q] = (@ + free_count[q]) % Block]
    /\ free_count' = [free_count EXCEPT ![q] = 0]

\* The local variables go out of scope.
Return(q) ==
    /\ Goto(q, "idle")
    /\ r' = [r EXCEPT ![q] = 0]
    /\ handled' = [handled EXCEPT ![q] = FALSE]
    /\ seen' = [seen EXCEPT ![q] = 0]
    /\ emergency' = [emergency EXCEPT ![q] = FALSE]
    /\ count' = [count EXCEPT ![q] = 0]

Restock(q) ==
    /\ pc[q] \in {"restock", "restock_again"}
    /\ IF enabled THEN Restocked(q)
                  ELSE UNCHANGED <<ring, hidden, free_count>>
    /\ IF pc[q] = "restock_again"
       THEN /\ r' = [r EXCEPT ![q] = used_bd[q]]
            /\ Goto(q, "loop")
            /\ UNCHANGED <<handled, seen, emergency, count>>
       ELSE Return(q)
    /\ UNCHANGED <<split, rxbs, used_bd, frags, rx_used, used_count, rba, work,
                   enabled, bug, starts>>

----------------------------------------------------------------------------
(* iwl_pcie_rx_allocator(), the work item. *)

WorkBegins ==
    /\ wpc = "idle" /\ rx_alloc
    /\ rx_alloc' = FALSE
    /\ pending' = req_pending
    /\ wpc' = "swap"
    /\ UNCHANGED <<local_empty, local_allocated, rbd_empty, rbd_allocated,
                   req_pending, req_ready, nic, lists, poll, enabled,
                   bug, starts>>

WorkSwap ==
    /\ wpc = "swap"
    /\ local_empty' = rbd_empty
    /\ rbd_empty' = 0
    /\ wpc' = "loop"
    /\ UNCHANGED <<pending, local_allocated, rbd_allocated, req_pending,
                   req_ready, rx_alloc, nic, lists, poll, enabled, bug,
                   starts>>

\* One request: pages for Claim descriptors (GFP_KERNEL allocations are
\* repeated until they succeed), then atomic_dec().
WorkAllocates ==
    /\ wpc = "loop"
    /\ pending > 0
    /\ bug' = (bug \/ local_empty < Claim)
    /\ local_empty' = local_empty - Claim
    /\ local_allocated' = Claim
    /\ req_pending' = req_pending - 1
    /\ pending' = pending - 1
    /\ wpc' = IF pending = 1 THEN "reread" ELSE "splice"
    /\ UNCHANGED <<rbd_empty, rbd_allocated, req_ready, rx_alloc,
                   nic, lists, poll, enabled, starts>>

WorkRereads ==
    /\ wpc = "reread"
    /\ pending' = req_pending
    /\ wpc' = "splice"
    /\ UNCHANGED <<local_empty, local_allocated, rba, nic, lists, poll,
                   enabled, bug, starts>>

WorkSplices ==
    /\ wpc = "splice"
    /\ rbd_allocated' = rbd_allocated + local_allocated
    /\ local_allocated' = 0
    /\ local_empty' = local_empty + rbd_empty
    /\ rbd_empty' = 0
    /\ wpc' = "ready"
    /\ UNCHANGED <<pending, req_pending, req_ready, rx_alloc, nic,
                   lists, poll, enabled, bug, starts>>

\* Mutant: new requests are looked for after the descriptors were fetched.
WorkReadyRereads ==
    /\ wpc = "ready"
    /\ req_ready' = req_ready + 1
    /\ pending' = IF pending = 0 THEN req_pending ELSE pending
    /\ wpc' = "loop"
    /\ UNCHANGED <<local_empty, local_allocated, rbd_empty, rbd_allocated,
                   req_pending, rx_alloc, nic, lists, poll, enabled, bug,
                   starts>>

WorkReady ==
    /\ wpc = "ready"
    /\ req_ready' = req_ready + 1
    /\ wpc' = "loop"
    /\ UNCHANGED <<pending, local_empty, local_allocated, rbd_empty,
                   rbd_allocated, req_pending, rx_alloc, nic, lists,
                   poll, enabled, bug, starts>>

WorkEnds ==
    /\ wpc = "loop"
    /\ pending = 0
    /\ rbd_empty' = rbd_empty + local_empty
    /\ local_empty' = 0
    /\ wpc' = "idle"
    /\ UNCHANGED <<pending, local_allocated, rbd_allocated, req_pending,
                   req_ready, rx_alloc, nic, lists, poll, enabled, bug,
                   starts>>

Work == \/ WorkBegins \/ WorkSwap \/ WorkAllocates \/ WorkRereads
        \/ WorkSplices \/ WorkReady \/ WorkEnds

----------------------------------------------------------------------------
(* Stop and start of the device. *)

StopDevice ==
    /\ enabled
    /\ starts > 0
    /\ enabled' = FALSE
    /\ starts' = starts - 1
    /\ UNCHANGED <<nic, lists, poll, rba, work, bug>>

\* _iwl_pcie_rx_init(): the polls have ended with the interrupts, and
\* cancel_work_sync() takes the work item off its queue or waits for it.
RxInit ==
    /\ ~enabled
    /\ \A q \in Queues : pc[q] = "idle"
    /\ wpc = "idle"
    /\ ring' = All(0) /\ hidden' = All(0)
    /\ used_bd' = All(0) /\ frags' = All(0)
    /\ free_count' = [All(0) EXCEPT ![DefQ] = QSize - 1]
    /\ rx_used' = All(0) /\ used_count' = All(0)
    /\ split' = All(FALSE)
    /\ pc' = [All("idle") EXCEPT ![DefQ] = "restock"]
    /\ rbd_empty' = PoolSize /\ rbd_allocated' = 0
    /\ req_pending' = 0 /\ req_ready' = 0 /\ rx_alloc' = FALSE
    /\ enabled' = TRUE
    /\ UNCHANGED <<r, handled, seen, emergency, count, rxbs, work, bug,
                   starts>>

----------------------------------------------------------------------------

PollStep(q) ==
    \/ LoopEnds(q) \/ LoopBegins(q) \/ EmergencyBegins(q)
    \/ RecycleKept(q) \/ RecycleTaken(q) \/ Post(q)
    \/ ClaimReady(q) \/ ClaimNothing(q) \/ Take(q)
    \/ AllocRbs(q) \/ Restock(q)

Next ==
    \/ \E p, q \in Queues : NicFills(p, q)
    \/ \E q \in Queues : Poll(q) \/ PollStep(q)
    \/ Work
    \/ StopDevice
    \/ RxInit

Spec == Init /\ [][Next]_vars

\* Polls that have begun go on and a completion is polled for (its interrupt
\* stays pending), the work item runs, and a stopped device is started.
FairSpec ==
    /\ Spec
    /\ \A q \in Queues : WF_vars(Poll(q)) /\ WF_vars(PollStep(q))
    /\ WF_vars(Work)
    /\ WF_vars(RxInit)

----------------------------------------------------------------------------

TypeOK ==
    /\ {ring, hidden, used_bd, frags, free_count, rx_used, used_count, r, seen,
        count, rxbs} \subseteq [Queues -> Nat]
    /\ {split, handled, emergency} \subseteq [Queues -> BOOLEAN]
    /\ pc \in [Queues -> {"idle", "loop", "alarm", "recycle", "post", "claim",
                          "take", "alloc", "alloc_out", "restock",
                          "restock_again"}]
    /\ {rbd_empty, rbd_allocated, local_empty, local_allocated} \subseteq Nat
    /\ {req_pending, req_ready, pending, starts} \subseteq Nat
    /\ wpc \in {"idle", "swap", "loop", "reread", "splice", "ready"}
    /\ {rx_alloc, enabled, bug} \subseteq BOOLEAN

\* "List should never be empty": the BUG_ON(list_empty()) of the allocator
\* never fires, and iwl_pcie_rx_allocator_get(), which does not test its list,
\* finds RX_CLAIM_REQ_ALLOC buffers in it, however the polls of the queues,
\* the work item and a restart interleave.
NeverBug == ~bug

\* iwl_pcie_rxmq_restock() puts all of rx_free into the ring without asking
\* iwl_rxq_space(): the ring always has room for it, also when all buffers
\* of all queues meet in one ring.
RingFits == \A q \in Queues : ring[q] <= QSize - 1

\* The requests in the hands of the allocator are exactly those the queues'
\* used_count entitles them to: none is lost between the two counters and the
\* work item, and none is posted twice, although any queue may claim what
\* another one asked for.
Moving(q) == IF pc[q] \in {"post", "take"} THEN 1 ELSE 0
Entitled == [q \in Queues |->
    ((used_count[q] + Claim - RX_POST_REQ_ALLOC) \div Claim) - Moving(q)]
InWork == IF wpc \in {"reread", "splice", "ready"} THEN 1 ELSE 0
RequestsMatch == Total(Entitled) = req_pending + InWork + req_ready

\* The lists and counters implement the ledger of RbPool: no step loses a
\* buffer, pays a queue what it is not owed, or leaves an emergency with
\* buffers that nobody will claim back.
Stock == [q \in Queues |-> ring[q] + used_bd[q] + rxbs[q] + free_count[q]]
Lent == [q \in Queues |-> IF emergency[q] \/ pc[q] = "alloc"
                          THEN rx_used[q] ELSE 0]
Pool == INSTANCE RbPool WITH Size <- QSize - 1, Batch <- Claim,
                             stock <- Total(Stock), owed <- used_count,
                             lent <- Lent
ImplementsPool == Pool!Spec

\* Every buffer but those of the allocator's initial pool is with the NIC, in
\* a queue, owed to a queue or lent: "otherwise ... they will be handed to
\* the allocator with no tracking in the RBD allocator counters, which will
\* lead to them never being claimed back by the queue".
CreditKept == Total(Stock) + Total(used_count) + Total(Lent) = QSize - 1

\* Receiving goes on: when no ring has a buffer the NIC knows of, some ring
\* gets one.  The polls do it with what they recycle, claim or allocate
\* themselves; a queue without completions is not polled and claims nothing.
Stalled == enabled /\ \A q \in Queues : Visible(q) = 0
RxGoesOn == Stalled ~> ~Stalled

=============================================================================
