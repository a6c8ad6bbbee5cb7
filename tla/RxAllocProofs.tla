--------------------------- MODULE RxAllocProofs ----------------------------
(* The allocator's BUG_ON never fires, the rings never overflow and no       *)
(* request is lost, for any number of queues and any sizes; and the receive  *)
(* path implements RbPool.                                                   *)
(*                                                                           *)
(* The heart of the inductive invariant is Backed: every request the work    *)
(* item has still to serve comes with RX_CLAIM_REQ_ALLOC empty descriptors,  *)
(* and each queue has, beyond those, a deposit in the allocator (Slack) that *)
(* makes up for the ones it will not bring along when it posts its next      *)
(* request.                                                                  *)
EXTENDS RxAlloc, FiniteSetTheorems, TLAPS

(* Some of the steps below need more than the five seconds of the default. *)
USE SMTT(30)

-----------------------------------------------------------------------------
(* Laws of Total, and of \div and %, for any argument: how the sum over the  *)
(* queues changes when one queue changes, and how the quotient and the       *)
(* remainder change when the dividend does.                                  *)

\* A row of n cells.
LEMMA RowFacts ==
  ASSUME NEW x, NEW n \in Nat
  PROVE  /\ IsFiniteSet({x} \X (1..n))
         /\ Cardinality({x} \X (1..n)) = n
<1> DEFINE f == [k \in 1..n |-> <<x, k>>]
<1>1. f \in Bijection(1..n, {x} \X (1..n))
  BY DEF Bijection, Injection, IsInjective, Surjection
<1>2. ExistsBijection(1..n, {x} \X (1..n))
  BY <1>1, Zenon DEF ExistsBijection
<1>3. IsFiniteSet(1..n) /\ Cardinality(1..n) = n
  BY FS_Interval
<1> QED BY <1>2, <1>3, FS_Bijection, Zenon

\* The sum over a finite domain is a natural number.
LEMMA TotalType ==
  ASSUME NEW S, IsFiniteSet(S), NEW f \in [S -> Nat]
  PROVE  IsFiniteSet(Cells(f)) /\ Total(f) \in Nat
<1> DEFINE Rows == {{x} \X (1..f[x]) : x \in S}
           row == [x \in S |-> {x} \X (1..f[x])]
<1>1. row \in Surjection(S, Rows)
  BY Zenon DEF Surjection
<1>2. IsFiniteSet(Rows)
  BY <1>1, FS_Surjection, Zenon
<1>3. ASSUME NEW R \in Rows PROVE IsFiniteSet(R)
  <2>1. PICK x \in S : R = {x} \X (1..f[x])
    BY Zenon
  <2> QED BY <2>1, RowFacts, Zenon
<1>4. IsFiniteSet(UNION Rows)
  BY <1>2, <1>3, FS_UNION, Zenon
<1> QED BY <1>4, FS_CardinalityType, Zenon DEF Cells, Total

\* The cells outside the row of x.
Rest(f, x) == {c \in Cells(f) : c[1] # x}

\* The total without one row, and the row.
LEMMA TotalSplit ==
  ASSUME NEW S, IsFiniteSet(S), NEW f \in [S -> Nat], NEW x \in S
  PROVE  /\ Cardinality(Rest(f, x)) \in Nat
         /\ Total(f) = Cardinality(Rest(f, x)) + f[x]
<1> DEFINE R == Rest(f, x)
           T == {x} \X (1..f[x])
<1>1. IsFiniteSet(R) /\ Cardinality(R) \in Nat
  BY TotalType, FS_Subset, FS_CardinalityType, Zenon DEF Rest
<1>2. IsFiniteSet(T) /\ Cardinality(T) = f[x]
  BY RowFacts, Zenon
<1>3. Cells(f) = R \cup T /\ R \cap T = {}
  BY DEF Rest, Cells
<1>4. Cardinality(R \cap T) = 0
  BY <1>3, FS_EmptySet, Zenon
<1>5. Cardinality(R \cup T)
        = Cardinality(R) + Cardinality(T) - Cardinality(R \cap T)
  BY <1>1, <1>2, FS_Union, Zenon
<1> QED BY <1>1, <1>2, <1>3, <1>4, <1>5 DEF Total

\* A change of one value changes the sum by as much.
LEMMA TotalUpdate ==
  ASSUME NEW S, IsFiniteSet(S), NEW f \in [S -> Nat], NEW g \in [S -> Nat],
         NEW x \in S, \A y \in S \ {x} : g[y] = f[y]
  PROVE  Total(g) = Total(f) - f[x] + g[x]
<1>1. Rest(g, x) = Rest(f, x)
  <2>1. ASSUME NEW c
        PROVE  c \in Rest(f, x) <=> \E y \in S \ {x} : c \in {y} \X (1..f[y])
    BY Zenon DEF Rest, Cells
  <2>2. ASSUME NEW c
        PROVE  c \in Rest(g, x) <=> \E y \in S \ {x} : c \in {y} \X (1..g[y])
    BY Zenon DEF Rest, Cells
  <2> QED BY <2>1, <2>2, Zenon
<1> QED BY <1>1, TotalSplit

\* No value exceeds the sum.
LEMMA TotalBounds ==
  ASSUME NEW S, IsFiniteSet(S), NEW f \in [S -> Nat], NEW x \in S
  PROVE  Total(f) \in Nat /\ f[x] <= Total(f)
BY TotalSplit, TotalType

\* The sum of zeros.
LEMMA TotalZero ==
  ASSUME NEW S, NEW f \in [S -> Nat], \A x \in S : f[x] = 0
  PROVE  Total(f) = 0
<1>1. Cells(f) = {}
  BY DEF Cells
<1> QED BY <1>1, FS_EmptySet, Zenon DEF Total

----------------------------------------------------------------------------
(* Quotients and remainders. *)

\* Quotient and remainder, as used_count is divided by RX_CLAIM_REQ_ALLOC.
LEMMA DivMod ==
  ASSUME NEW C \in Nat \ {0}, NEW x \in Int
  PROVE  /\ x \div C \in Int
         /\ x % C \in 0..(C - 1)
         /\ x = C * (x \div C) + (x % C)
OBVIOUS

\* They are the only ones.
LEMMA DivModUnique ==
  ASSUME NEW C \in Nat \ {0}, NEW x \in Int, NEW k \in Int,
         NEW m \in 0..(C - 1), x = C * k + m
  PROVE  x % C = m /\ x \div C = k
OBVIOUS

\* One more: the quotient grows when the remainder wraps around.
LEMMA DivModNext ==
  ASSUME NEW C \in Nat \ {0}, NEW x \in Int
  PROVE  /\ x % C = C - 1 => /\ (x + 1) % C = 0
                             /\ (x + 1) \div C = (x \div C) + 1
         /\ x % C # C - 1 => /\ (x + 1) % C = (x % C) + 1
                             /\ (x + 1) \div C = x \div C
<1> DEFINE k == x \div C
           m == x % C
<1>0. k \in Int /\ m \in 0..(C - 1) /\ x = C * k + m
  BY DivMod, Zenon
<1> HIDE DEF k, m
<1>1. CASE m = C - 1
  <2>1. x + 1 = C * (k + 1) + 0
    BY <1>1, <1>0
  <2>2. k + 1 \in Int /\ 0 \in 0..(C - 1) /\ x + 1 \in Int
    BY <1>0
  <2>3. (x + 1) % C = 0 /\ (x + 1) \div C = k + 1
    BY <2>1, <2>2, DivModUnique, Zenon
  <2> QED BY <1>1, <2>3, Zenon DEF k, m
<1>2. CASE m # C - 1
  <2>1. x + 1 = C * k + (m + 1)
    BY <1>2, <1>0
  <2>2. k \in Int /\ m + 1 \in 0..(C - 1) /\ x + 1 \in Int
    BY <1>0, <1>2
  <2>3. (x + 1) % C = m + 1 /\ (x + 1) \div C = k
    BY <2>1, <2>2, DivModUnique, Zenon
  <2> QED BY <1>2, <2>3, Zenon DEF k, m
<1> QED BY <1>1, <1>2, Zenon

\* C less: the remainder stays.
LEMMA DivModLess ==
  ASSUME NEW C \in Nat \ {0}, NEW x \in Int
  PROVE  (x - C) % C = x % C /\ (x - C) \div C = (x \div C) - 1
<1> DEFINE k == x \div C
           m == x % C
<1>0. k \in Int /\ m \in 0..(C - 1) /\ x = C * k + m
  BY DivMod, Zenon
<1> HIDE DEF k, m
<1>1. x - C = C * (k - 1) + m
  BY <1>0
<1>2. k - 1 \in Int /\ x - C \in Int
  BY <1>0
<1>3. (x - C) % C = m /\ (x - C) \div C = k - 1
  BY <1>0, <1>1, <1>2, DivModUnique, Zenon
<1> QED BY <1>3, Zenon DEF k, m

\* The remainder is P exactly when it is zero P further down.
LEMMA ModShift ==
  ASSUME NEW C \in Nat \ {0}, NEW x \in Int, NEW P \in 0..(C - 1)
  PROVE  x % C = P <=> (x + C - P) % C = 0
<1> DEFINE y == x + C - P
<1>1. ASSUME x % C = P PROVE y % C = 0
  <2> DEFINE k == x \div C
  <2>1. k \in Int /\ x = C * k + P
    BY <1>1, DivMod, Zenon
  <2> HIDE DEF k
  <2> DEFINE q == k + 1
  <2>2. y = C * q + 0 /\ y \in Int /\ q \in Int /\ 0 \in 0..(C - 1)
    BY <2>1
  <2> HIDE DEF y, q
  <2> QED BY <2>2, DivModUnique, Zenon
<1>2. ASSUME y % C = 0 PROVE x % C = P
  <2> DEFINE k == y \div C
  <2>1. k \in Int /\ y = C * k + 0
    BY <1>2, DivMod
  <2> HIDE DEF k
  <2> DEFINE q == k - 1
  <2>2. x = C * q + P /\ q \in Int
    BY <2>1
  <2> HIDE DEF q
  <2> QED BY <2>2, DivModUnique, Zenon
<1> QED BY <1>1, <1>2, Zenon

-----------------------------------------------------------------------------
(* The invariant.                                                            *)

QueuePcs == {"idle", "loop", "alarm", "recycle", "post", "claim", "take",
             "alloc", "alloc_out", "restock", "restock_again"}

RingTypes ==
    /\ ring \in [Queues -> Nat] /\ hidden \in [Queues -> Nat]
    /\ used_bd \in [Queues -> Nat] /\ frags \in [Queues -> Nat]

ListTypes ==
    /\ free_count \in [Queues -> Nat] /\ rx_used \in [Queues -> Nat]
    /\ used_count \in [Queues -> Nat]

PollTypes ==
    /\ r \in [Queues -> Nat] /\ seen \in [Queues -> Nat]
    /\ count \in [Queues -> Nat] /\ rxbs \in [Queues -> Nat]

FlagTypes ==
    /\ split \in [Queues -> BOOLEAN] /\ handled \in [Queues -> BOOLEAN]
    /\ emergency \in [Queues -> BOOLEAN]
    /\ pc \in [Queues -> QueuePcs]

RbaTypes ==
    /\ rbd_empty \in Nat /\ rbd_allocated \in Nat
    /\ local_empty \in Nat /\ local_allocated \in Nat
    /\ req_pending \in Nat /\ req_ready \in Nat

WorkTypes ==
    /\ pending \in Nat /\ starts \in Nat
    /\ wpc \in {"idle", "swap", "loop", "reread", "splice", "ready"}
    /\ rx_alloc \in BOOLEAN /\ enabled \in BOOLEAN /\ bug \in BOOLEAN

Types ==
    RingTypes /\ ListTypes /\ PollTypes /\ FlagTypes /\ RbaTypes /\ WorkTypes

\* How far a queue is past its last request: at zero it posts the next one.
Ahead(q) == used_count[q] + Claim - RX_POST_REQ_ALLOC
Odd(q) == Ahead(q) % Claim

\* rx_used holds no counted descriptors: they went to the allocator when the
\* emergency began.
Direct(q) == emergency[q] \/ pc[q] \in {"alloc", "alloc_out"}

Slack == [q \in Queues |->
            IF pc[q] = "post" THEN Claim
            ELSE IF Direct(q) THEN Odd(q)
            ELSE IF rx_used[q] < Odd(q) THEN Odd(q) - rx_used[q] ELSE 0]

Taking == [q \in Queues |-> IF pc[q] = "take" THEN 1 ELSE 0]
Readying == IF wpc = "ready" THEN 1 ELSE 0

Backed == rbd_empty + local_empty >= Claim * req_pending + Total(Slack)

AllocatedMatch ==
    rbd_allocated = Claim * (req_ready + Readying + Total(Taking))

WorkInv ==
    /\ pending <= req_pending
    /\ wpc = "idle" => pending = 0
    /\ wpc \in {"idle", "swap"} => local_empty = 0
    /\ wpc \in {"loop", "ready"} => local_empty >= Claim * pending
    /\ local_allocated = IF wpc \in {"reread", "splice"} THEN Claim ELSE 0

QueueInv(q) ==
    /\ r[q] <= used_bd[q]
    /\ pc[q] = "idle" => r[q] = 0 /\ ~emergency[q]
    /\ pc[q] = "recycle" => rxbs[q] > 0
    /\ pc[q] \notin {"recycle", "post"} => rxbs[q] = 0
    /\ pc[q] = "post" => /\ ~emergency[q]
                         /\ Odd(q) = 0
                         /\ used_count[q] >= RX_POST_REQ_ALLOC
    /\ pc[q] = "take" => used_count[q] >= Claim
    /\ pc[q] = "alarm" => ~emergency[q]
    /\ pc[q] = "alloc_out" => emergency[q]

\* What an emergency leaves in rx_used is in its count, and is gone when it
\* ends; only so when allocations succeed.
EmergencyInv(q) ==
    /\ emergency[q] /\ pc[q] \in {"loop", "recycle", "claim", "take"}
         => rx_used[q] + rxbs[q] <= count[q]
    /\ pc[q] = "restock_again" => rx_used[q] = 0
    /\ emergency[q] /\ pc[q] = "restock" => rx_used[q] = 0

Kept == Total(Stock) + Total(used_count) + Total(Lent) <= QSize - 1

Sums == Backed /\ AllocatedMatch /\ RequestsMatch /\ Kept

Settled == ~AllocFails => CreditKept /\ \A q \in Queues : EmergencyInv(q)

QueuesInv == \A q \in Queues : QueueInv(q)

Inv == Types /\ QueuesInv /\ WorkInv /\ Sums /\ Settled /\ NeverBug

\* What the assumption on the constants gives.
LEMMA Constants ==
  /\ IsFiniteSet(Queues) /\ DefQ \in Queues
  /\ QSize \in Nat \ {0} /\ Block \in Nat \ {0} /\ MaxSplit \in Nat \ {0}
  /\ Claim \in Nat \ {0} /\ RX_POST_REQ_ALLOC \in Nat \ {0}
  /\ RX_POST_REQ_ALLOC < Claim
  /\ RX_POST_REQ_ALLOC \in 0..(Claim - 1)
  /\ AllocFails \in BOOLEAN /\ MaxStarts \in Nat
BY RxAllocAssumption DEF Claim

\* The remainder and the quotient behind Slack and Entitled.
LEMMA AheadFacts ==
  ASSUME NEW u \in Nat
  PROVE  LET x == u + Claim - RX_POST_REQ_ALLOC
         IN  /\ x \in Nat
             /\ x \div Claim \in Nat
             /\ x % Claim \in 0..(Claim - 1)
             /\ u >= RX_POST_REQ_ALLOC => x \div Claim >= 1
<1> DEFINE x == u + Claim - RX_POST_REQ_ALLOC
           k == x \div Claim
           m == x % Claim
<1>1. x \in Nat /\ (u >= RX_POST_REQ_ALLOC => x >= Claim)
  BY Constants
<1> HIDE DEF x
<1>2. k \in Int /\ m \in 0..(Claim - 1) /\ x = Claim * k + m
  BY <1>1, DivMod, Constants
<1> HIDE DEF k, m
<1>3. k >= 0
  <2> SUFFICES ASSUME k <= -1 PROVE FALSE
    BY <1>2
  <2>1. Claim * k <= -Claim
    BY <1>2, Constants
  <2> QED BY <1>1, <1>2, <2>1, Constants
<1>4. x >= Claim => k >= 1
  <2> SUFFICES ASSUME k = 0, x >= Claim PROVE FALSE
    BY <1>2, <1>3
  <2>1. Claim * k = 0
    BY Constants
  <2> QED BY <1>1, <1>2, <2>1, Constants
<1> QED BY <1>1, <1>2, <1>3, <1>4 DEF x, k, m

\* The functions that are summed have natural values.
SumTypes == /\ Stock \in [Queues -> Nat] /\ Lent \in [Queues -> Nat]
            /\ Entitled \in [Queues -> Nat] /\ Slack \in [Queues -> Nat]
            /\ Taking \in [Queues -> Nat]

\* The functions that are summed over the queues are into the naturals.
LEMMA FunTypes == Types /\ QueuesInv => SumTypes
<1> SUFFICES ASSUME Types, QueuesInv PROVE SumTypes
  BY Zenon
<1>1. Stock \in [Queues -> Nat] /\ Lent \in [Queues -> Nat]
  BY DEF Types, RingTypes, ListTypes, PollTypes, FlagTypes, RbaTypes, WorkTypes, Stock,
       Lent
<1>2. ASSUME NEW q \in Queues
      PROVE  /\ Odd(q) \in 0..(Claim - 1)
             /\ (Ahead(q) \div Claim) - Moving(q) \in Nat
  <2>1. used_count[q] \in Nat
    BY Zenon DEF Types, RingTypes, ListTypes, PollTypes, FlagTypes, RbaTypes, WorkTypes
  <2>2. pc[q] \in {"post", "take"} => used_count[q] >= RX_POST_REQ_ALLOC
    BY <2>1, Constants DEF QueuesInv, QueueInv
  <2>3. /\ Ahead(q) \div Claim \in Nat
        /\ Odd(q) \in 0..(Claim - 1)
        /\ used_count[q] >= RX_POST_REQ_ALLOC => Ahead(q) \div Claim >= 1
    BY <2>1, AheadFacts, Zenon DEF Ahead, Odd
  <2> QED BY <2>2, <2>3 DEF Moving
<1>3. Entitled \in [Queues -> Nat]
  BY <1>2, Zenon DEF Entitled, Ahead
<1>4. Slack \in [Queues -> Nat]
  BY <1>2, Constants DEF Slack, Types, ListTypes
<1>5. Taking \in [Queues -> Nat]
  BY Zenon DEF Taking
<1> QED BY <1>1, <1>3, <1>4, <1>5, Zenon DEF SumTypes

\* The same in the next state.
LEMMA FunTypesNext == Types' /\ QueuesInv' => SumTypes'
BY FunTypes, PTL

\* The state of queue p as far as the invariant looks at it.
Same(p) ==
    /\ ring'[p] = ring[p] /\ used_bd'[p] = used_bd[p]
    /\ free_count'[p] = free_count[p] /\ rx_used'[p] = rx_used[p]
    /\ used_count'[p] = used_count[p] /\ r'[p] = r[p]
    /\ count'[p] = count[p] /\ rxbs'[p] = rxbs[p]
    /\ emergency'[p] = emergency[p] /\ pc'[p] = pc[p]

\* A step of one queue changes the sums by what it changes there, and leaves
\* the invariants of the other queues alone.
LEMMA QueueStep ==
  ASSUME Types, QueuesInv, Types', NEW q \in Queues,
         QueueInv(q)', \A p \in Queues \ {q} : Same(p)
  PROVE  /\ QueuesInv'
         /\ Total(Stock)' = Total(Stock) - Stock[q] + Stock[q]'
         /\ Total(used_count)' = Total(used_count) - used_count[q] + used_count[q]'
         /\ Total(Lent)' = Total(Lent) - Lent[q] + Lent[q]'
         /\ Total(Entitled)' = Total(Entitled) - Entitled[q] + Entitled[q]'
         /\ Total(Slack)' = Total(Slack) - Slack[q] + Slack[q]'
         /\ Total(Taking)' = Total(Taking) - Taking[q] + Taking[q]'
<1>1. QueuesInv'
  BY DEF QueuesInv, QueueInv, Same, Odd, Ahead
<1>2. SumTypes
  BY FunTypes, Zenon
<1>3. SumTypes'
  BY <1>1, FunTypesNext, Zenon
<1>4. \A p \in Queues \ {q} : /\ Stock'[p] = Stock[p]
                              /\ Lent'[p] = Lent[p]
                              /\ Entitled'[p] = Entitled[p]
                              /\ Slack'[p] = Slack[p]
                              /\ Taking'[p] = Taking[p]
                              /\ used_count'[p] = used_count[p]
  BY DEF Same, Stock, Lent, Entitled, Moving, Slack, Direct, Odd, Ahead, Taking
<1>5. used_count \in [Queues -> Nat] /\ used_count' \in [Queues -> Nat]
  BY Zenon DEF Types, RingTypes, ListTypes, PollTypes, FlagTypes, RbaTypes, WorkTypes
<1>6. Total(Stock') = Total(Stock) - Stock[q] + Stock'[q]
  BY <1>2, <1>3, <1>4, TotalUpdate, Constants DEF SumTypes
<1>7. Total(Lent') = Total(Lent) - Lent[q] + Lent'[q]
  BY <1>2, <1>3, <1>4, TotalUpdate, Constants DEF SumTypes
<1>8. Total(Entitled') = Total(Entitled) - Entitled[q] + Entitled'[q]
  BY <1>2, <1>3, <1>4, TotalUpdate, Constants DEF SumTypes
<1>9. Total(Slack') = Total(Slack) - Slack[q] + Slack'[q]
  BY <1>2, <1>3, <1>4, TotalUpdate, Constants DEF SumTypes
<1>10. Total(Taking') = Total(Taking) - Taking[q] + Taking'[q]
  BY <1>2, <1>3, <1>4, TotalUpdate, Constants DEF SumTypes
<1>11. Total(used_count') = Total(used_count) - used_count[q] + used_count'[q]
  BY <1>4, <1>5, TotalUpdate, Constants
<1> QED BY <1>1, <1>6, <1>7, <1>8, <1>9, <1>10, <1>11, Zenon

(* The steps of a poll.  Each changes one queue, so each lemma looks at that *)
(* queue, takes the change of the sums from QueueStep and does the rest with *)
(* arithmetic.                                                               *)

\* The sums as numbers.
LEMMA TotalTypes ==
  ASSUME Types, QueuesInv
  PROVE  /\ Total(Stock) \in Nat /\ Total(Lent) \in Nat
         /\ Total(Entitled) \in Nat /\ Total(Slack) \in Nat
         /\ Total(Taking) \in Nat /\ Total(used_count) \in Nat
BY FunTypes, TotalType, Constants, Zenon DEF SumTypes, Types, RingTypes, ListTypes, PollTypes,
     FlagTypes, RbaTypes, WorkTypes

\* Steps that neither touch the counters of the allocator nor, at queue q, any
\* of the sums.
Quiet ==
    /\ UNCHANGED <<rbd_empty, local_empty, req_pending, rbd_allocated,
                   req_ready, wpc, bug, pending, local_allocated>>

SumsAt(q) ==
    /\ Stock'[q] = Stock[q] /\ used_count'[q] = used_count[q]
    /\ Lent'[q] <= Lent[q] /\ (~AllocFails => Lent'[q] = Lent[q])
    /\ Entitled'[q] = Entitled[q] /\ Slack'[q] <= Slack[q]
    /\ Taking'[q] = Taking[q]

\* The step lends nothing and takes nothing back.
SameLent == ~AllocFails => \A p \in Queues : Lent'[p] = Lent[p]

\* A step of queue q that leaves the allocator alone and does not change what
\* the queue adds to the sums preserves the invariant.
LEMMA QuietStep ==
  ASSUME Inv, NEW q \in Queues, Types', QueueInv(q)',
         \A p \in Queues \ {q} : Same(p), Quiet, SumsAt(q),
         ~AllocFails => EmergencyInv(q)'
  PROVE  Inv' /\ SameLent
<1> USE Constants
<1>1. Types /\ QueuesInv
  BY Zenon DEF Inv
<1>2. /\ QueuesInv'
      /\ Total(Stock)' = Total(Stock) - Stock[q] + Stock[q]'
      /\ Total(used_count)' = Total(used_count) - used_count[q] + used_count[q]'
      /\ Total(Lent)' = Total(Lent) - Lent[q] + Lent[q]'
      /\ Total(Entitled)' = Total(Entitled) - Entitled[q] + Entitled[q]'
      /\ Total(Slack)' = Total(Slack) - Slack[q] + Slack[q]'
      /\ Total(Taking)' = Total(Taking) - Taking[q] + Taking[q]'
  BY <1>1, QueueStep, Zenon
<1>3. SumTypes /\ SumTypes'
  BY <1>1, <1>2, FunTypes, FunTypesNext, Zenon
<1>4. /\ Total(Stock) \in Nat /\ Total(Lent) \in Nat
      /\ Total(Entitled) \in Nat /\ Total(Slack) \in Nat
      /\ Total(Taking) \in Nat /\ Total(used_count) \in Nat
  BY <1>1, TotalTypes, Zenon
<1>5. /\ Total(Stock)' = Total(Stock) /\ Total(used_count)' = Total(used_count)
      /\ Total(Lent)' <= Total(Lent) /\ Total(Lent)' \in Int
      /\ ~AllocFails => Total(Lent)' = Total(Lent)
      /\ Total(Entitled)' = Total(Entitled)
      /\ Total(Slack)' <= Total(Slack) /\ Total(Slack)' \in Int
      /\ Total(Taking)' = Total(Taking)
  BY <1>2, <1>3, <1>4 DEF SumsAt, SumTypes, Types, ListTypes
<1>6. Backed'
  BY <1>4, <1>5 DEF Inv, Sums, Backed, Quiet, Types, RbaTypes
<1>7. AllocatedMatch' /\ RequestsMatch' /\ WorkInv' /\ NeverBug'
  BY <1>5, Zenon DEF Inv, Sums, AllocatedMatch, Readying, RequestsMatch, InWork,
       WorkInv, NeverBug, Quiet
<1>8. Kept' /\ (~AllocFails => CreditKept')
  BY <1>4, <1>5 DEF Inv, Sums, Kept, Settled, CreditKept
<1>9. ~AllocFails => \A p \in Queues : EmergencyInv(p)'
  BY DEF Inv, Settled, EmergencyInv, Same
<1>10. SameLent
  BY Zenon DEF SameLent, SumsAt, Same, Lent
<1> QED BY <1>2, <1>6, <1>7, <1>8, <1>9, <1>10, Zenon DEF Inv, Sums, Settled

\* What the handling of a frame does to the types.
FrameTypes ==
    /\ used_bd' \in [Queues -> Nat] /\ frags' \in [Queues -> Nat]
    /\ r' \in [Queues -> Nat] /\ count' \in [Queues -> Nat]
    /\ rxbs' \in [Queues -> Nat] /\ free_count' \in [Queues -> Nat]
    /\ split' \in [Queues -> BOOLEAN] /\ handled' \in [Queues -> BOOLEAN]
    /\ pc' \in [Queues -> QueuePcs]

\* What it does to the counters of the queues: some buffers leave the table,
\* and go to rx_free or wait to be recycled.
FrameEffect(q, alarm) ==
    /\ \A p \in Queues \ {q} :
         /\ used_bd'[p] = used_bd[p] /\ r'[p] = r[p] /\ count'[p] = count[p]
         /\ rxbs'[p] = rxbs[p] /\ free_count'[p] = free_count[p]
         /\ pc'[p] = pc[p]
    /\ \E n \in 0..r[q] :
         /\ used_bd'[q] = used_bd[q] - n /\ r'[q] = r[q] - n
         /\ rxbs'[q] \in 0..n /\ free_count'[q] = free_count[q] + n - rxbs'[q]
         /\ count'[q] = IF alarm THEN count[q] + n ELSE count[q]
    /\ pc'[q] \in {"alarm", "claim", "recycle", "alloc_out", "restock"}
    /\ pc'[q] = "recycle" <=> rxbs'[q] > 0
    /\ alarm => /\ pc'[q] # "alarm"
                /\ pc'[q] = "restock" => count[q] = 0
    /\ ~alarm => pc'[q] # "alloc_out"

\* HandleFrame keeps the types, and the bounds on fragments and completions.
LEMMA HandleFrameEffect ==
  ASSUME Types, NEW q \in Queues, r[q] <= used_bd[q], rxbs[q] = 0,
         NEW alarm \in BOOLEAN, HandleFrame(q, alarm)
  PROVE  FrameTypes /\ FrameEffect(q, alarm)
<1> USE Constants
<1>1. handled' \in [Queues -> BOOLEAN]
  BY Zenon DEF Types, FlagTypes, HandleFrame
<1>2. ASSUME NEW n \in 1..MaxSplit, NEW incomplete \in BOOLEAN, n <= r[q],
             Handle(q, n, incomplete, alarm)
      PROVE  FrameTypes /\ FrameEffect(q, alarm)
  <2>1. FrameTypes
    BY <1>1, <1>2 DEF Types, RingTypes, ListTypes, PollTypes, FlagTypes,
         FrameTypes, Handle, Goto, QueuePcs
  <2>2. n \in 0..r[q]
    BY <1>2 DEF Types, PollTypes
  <2>3. FrameEffect(q, alarm)
    BY <1>2 DEF Types, RingTypes, ListTypes, PollTypes, FlagTypes, FrameEffect,
         Handle, Goto
  <2> QED BY <2>1, <2>3, Zenon
<1>3. ASSUME NoFrame(q, alarm) PROVE FrameTypes /\ FrameEffect(q, alarm)
  <2>1. FrameTypes
    BY <1>1, <1>3, Zenon DEF Types, RingTypes, ListTypes, PollTypes, FlagTypes,
         FrameTypes, NoFrame, Out, Goto, QueuePcs
  <2>2. 0 \in 0..r[q]
    BY DEF Types, PollTypes
  <2>3. FrameEffect(q, alarm)
    BY <1>3, <2>2 DEF Types, RingTypes, ListTypes, PollTypes, FlagTypes,
         FrameEffect, NoFrame, Out, Goto
  <2> QED BY <2>1, <2>3, Zenon
<1>4. frags[q] \in Nat /\ r[q] \in Nat
  BY Zenon DEF Types, RingTypes, PollTypes
<1>5. CASE \E n \in (frags[q] + 1)..MaxSplit :
             n <= r[q] /\ Handle(q, n, FALSE, alarm)
  <2>1. PICK n \in (frags[q] + 1)..MaxSplit :
           n <= r[q] /\ Handle(q, n, FALSE, alarm)
    BY <1>5, Zenon
  <2>2. n \in 1..MaxSplit /\ FALSE \in BOOLEAN
    BY <1>4
  <2> QED BY <2>1, <2>2, <1>2, Zenon
<1>6. CASE r[q] >= MaxSplit /\ Handle(q, MaxSplit, TRUE, alarm)
  <2>1. MaxSplit \in 1..MaxSplit /\ MaxSplit <= r[q] /\ TRUE \in BOOLEAN
    BY <1>4, <1>6
  <2> QED BY <2>1, <1>6, <1>2, Zenon
<1> QED BY <1>3, <1>5, <1>6, Zenon DEF HandleFrame

\* A poll begins.
LEMMA PollKeeps ==
  ASSUME Inv, NEW q \in Queues, Poll(q)
  PROVE  Inv' /\ SameLent
<1> USE Constants
<1>1. Types'
  BY Zenon DEF Inv, Types, RingTypes, ListTypes, PollTypes, FlagTypes, RbaTypes, WorkTypes,
       QueuePcs, QueuesInv, QueueInv, Poll, Goto, nic, lists, poll, rba, work
<1>2. QueueInv(q)'
  BY DEF Inv, Types, RingTypes, ListTypes, PollTypes, FlagTypes, RbaTypes,
       WorkTypes, QueuesInv, QueueInv, Ahead, Poll, Goto, nic
<1>3. \A p \in Queues \ {q} : Same(p)
  BY Zenon DEF Inv, Types, RingTypes, ListTypes, PollTypes, FlagTypes, RbaTypes, WorkTypes,
       Same, Poll, Goto, nic, lists, poll, rba, work
<1>4. ~AllocFails => EmergencyInv(q)'
  BY Zenon DEF Inv, Types, RingTypes, ListTypes, PollTypes, FlagTypes, RbaTypes, WorkTypes,
       QueuesInv, QueueInv, Settled, EmergencyInv, Poll, Goto, nic, lists, poll, rba,
       work
<1>5. SumsAt(q)
  BY DEF Inv, Types, ListTypes, SumsAt, Stock, Lent, Entitled, Moving, Slack,
       Direct, Odd, Ahead, Taking, Poll, Goto, nic, lists, poll
<1>6. Quiet
  BY Zenon DEF Quiet, Poll, Goto, nic, lists, poll, rba, work
<1> QED BY <1>1, <1>2, <1>3, <1>4, <1>5, <1>6, QuietStep, Zenon

\* A poll leaves its loop.
LEMMA LoopEndsKeeps ==
  ASSUME Inv, NEW q \in Queues, LoopEnds(q)
  PROVE  Inv' /\ SameLent
<1> USE Constants
<1>1. Types'
  BY Zenon DEF Inv, Types, RingTypes, ListTypes, PollTypes, FlagTypes, RbaTypes, WorkTypes,
       QueuePcs, QueuesInv, QueueInv, LoopEnds, Goto, Out, nic, lists, poll, rba, work
<1>2. QueueInv(q)'
  BY Zenon DEF Inv, Types, RingTypes, ListTypes, PollTypes, FlagTypes, RbaTypes, WorkTypes,
       QueuesInv, QueueInv, Odd, Ahead, LoopEnds, Goto, Out, nic, lists, poll, rba, work
<1>3. \A p \in Queues \ {q} : Same(p)
  BY Zenon DEF Inv, Types, RingTypes, ListTypes, PollTypes, FlagTypes, RbaTypes, WorkTypes,
       Same, LoopEnds, Goto, Out, nic, lists, poll, rba, work
<1>4. ~AllocFails => EmergencyInv(q)'
  BY DEF Inv, Types, ListTypes, PollTypes, FlagTypes, RbaTypes, WorkTypes,
       Settled, EmergencyInv, LoopEnds, Goto, Out, nic, lists, poll
<1>5. SumsAt(q)
  BY DEF Inv, Types, ListTypes, EmergencyInv, SumsAt, Stock, Lent, Entitled,
       Moving, Slack, Direct, Odd, Ahead, Taking, LoopEnds, Goto, Out, nic,
       lists
<1>6. Quiet
  BY Zenon DEF Quiet, LoopEnds, Goto, Out, nic, lists, poll, rba, work
<1> QED BY <1>1, <1>2, <1>3, <1>4, <1>5, <1>6, QuietStep, Zenon

\* A frame is taken out of the table.
LEMMA LoopBeginsKeeps ==
  ASSUME Inv, NEW q \in Queues, LoopBegins(q)
  PROVE  Inv' /\ SameLent
<1> USE Constants
<1>0. req_pending * Claim \in Nat
  BY DEF Inv, Types, RbaTypes
<1>1. /\ Types /\ pc[q] = "loop" /\ rxbs[q] = 0 /\ r[q] <= used_bd[q]
      /\ emergency[q] \in BOOLEAN
  BY Zenon DEF Inv, Types, FlagTypes, QueuesInv, QueueInv, LoopBegins
<1>2. /\ seen' = [seen EXCEPT ![q] = req_pending * Claim]
      /\ UNCHANGED <<emergency, ring, hidden, rx_used, used_count, rba, work,
                     enabled, bug, starts>>
  BY Zenon DEF LoopBegins
<1>3. FrameTypes /\ FrameEffect(q, emergency[q])
  <2>1. CASE Alarm(q, req_pending * Claim)
    <3>1. /\ Goto(q, "alarm")
          /\ UNCHANGED <<split, r, handled, count, rxbs, used_bd, frags,
                         free_count>>
      BY <2>1, Zenon DEF LoopBegins
    <3>2. ~emergency[q] /\ 0 \in 0..r[q]
      BY <1>1, <2>1 DEF Alarm, Types, PollTypes
    <3>3. FrameTypes
      BY <1>1, <3>1, Zenon DEF FrameTypes, Goto, QueuePcs, Types, RingTypes, ListTypes,
           PollTypes, FlagTypes
    <3>4. FrameEffect(q, emergency[q])
      BY <1>1, <3>1, <3>2 DEF FrameEffect, Goto, Types, RingTypes, ListTypes,
           PollTypes, FlagTypes
    <3> QED BY <3>3, <3>4, Zenon
  <2>2. CASE ~Alarm(q, req_pending * Claim)
    <3>1. HandleFrame(q, emergency[q])
      BY <2>2, Zenon DEF LoopBegins
    <3> QED BY <1>1, <3>1, HandleFrameEffect, Zenon
  <2> QED BY <2>1, <2>2, Zenon
<1>4. Types'
  <2>0. FrameTypes
    BY <1>3, Zenon
  <2>1. seen' \in [Queues -> Nat]
    BY <1>0, <1>1, <1>2, Zenon DEF Types, PollTypes
  <2> QED BY <1>1, <1>2, <2>0, <2>1, Zenon DEF Types, RingTypes, ListTypes, PollTypes,
            FlagTypes, RbaTypes, WorkTypes, FrameTypes, rba, work
<1>5. QueueInv(q)'
  BY <1>1, <1>2, <1>3 DEF FrameEffect, QueueInv, Types, RingTypes, PollTypes
<1>6. \A p \in Queues \ {q} : Same(p)
  BY <1>2, <1>3, Zenon DEF FrameEffect, Same
<1>7. ~AllocFails => EmergencyInv(q)'
  BY <1>1, <1>2, <1>3 DEF FrameEffect, EmergencyInv, Inv, Settled, Types,
       ListTypes, PollTypes
<1>8. SumsAt(q)
  <2>1. Stock'[q] = Stock[q]
    BY <1>1, <1>2, <1>3 DEF FrameEffect, Stock, Types, RingTypes, ListTypes,
         PollTypes
  <2>2. Lent'[q] = Lent[q] /\ Taking'[q] = Taking[q]
    BY <1>1, <1>2, <1>3, Zenon DEF FrameEffect, Lent, Taking
  <2>3. Entitled'[q] = Entitled[q]
    BY <1>1, <1>2, <1>3, Zenon DEF FrameEffect, Entitled, Moving
  <2>4. Slack'[q] = Slack[q]
    BY <1>1, <1>2, <1>3, Zenon DEF FrameEffect, Slack, Direct, Odd, Ahead
  <2>5. SumTypes
    BY FunTypes, Zenon DEF Inv
  <2> QED BY <1>2, <2>1, <2>2, <2>3, <2>4, <2>5 DEF SumsAt, SumTypes
<1>9. Quiet
  BY <1>2, Zenon DEF Quiet, rba, work
<1> QED BY <1>4, <1>5, <1>6, <1>7, <1>8, <1>9, QuietStep, Zenon

\* A buffer with its page goes back to rx_free.
LEMMA RecycleKeptKeeps ==
  ASSUME Inv, NEW q \in Queues, RecycleKept(q)
  PROVE  Inv' /\ SameLent
<1> USE Constants
<1>1. Types'
  BY DEF Inv, Types, RingTypes, ListTypes, PollTypes, FlagTypes, RbaTypes,
       WorkTypes, QueuePcs, QueuesInv, QueueInv, RecycleKept, Goto,
       AfterRecycle, nic, lists, poll, rba, work
<1>2. QueueInv(q)'
  BY DEF Inv, Types, ListTypes, PollTypes, FlagTypes, RbaTypes, QueuesInv,
       QueueInv, RecycleKept, Goto, AfterRecycle, nic, lists, poll
<1>3. \A p \in Queues \ {q} : Same(p)
  BY Zenon DEF Inv, Types, RingTypes, ListTypes, PollTypes, FlagTypes, RbaTypes, WorkTypes,
       Same, RecycleKept, Goto, AfterRecycle, nic, lists, poll, rba, work
<1>4. ~AllocFails => EmergencyInv(q)'
  <2> SUFFICES ASSUME ~AllocFails PROVE EmergencyInv(q)'
    BY Zenon
  <2>1. /\ rx_used[q] \in Nat /\ rxbs[q] \in Nat /\ count[q] \in Nat
        /\ pc \in [Queues -> QueuePcs] /\ rxbs \in [Queues -> Nat]
    BY DEF Inv, Types, ListTypes, PollTypes, FlagTypes
  <2>2. /\ rxbs' = [rxbs EXCEPT ![q] = @ - 1] /\ pc[q] = "recycle"
        /\ pc' = [pc EXCEPT ![q] = AfterRecycle(rxbs[q] - 1)]
        /\ UNCHANGED <<emergency, count, rx_used>>
    BY Zenon DEF RecycleKept, Goto
  <2>3. EmergencyInv(q)
    BY Zenon DEF Inv, Settled
  <2>4. emergency[q] => rx_used[q] + rxbs[q] <= count[q]
    BY <2>2, <2>3, Zenon DEF EmergencyInv
  <2>5. rxbs'[q] = rxbs[q] - 1 /\ pc'[q] \in {"claim", "recycle"}
    BY <2>1, <2>2 DEF AfterRecycle
  <2>6. emergency[q] => rx_used[q] + rxbs'[q] <= count[q]
    BY <2>1, <2>4, <2>5
  <2>7. pc'[q] # "restock_again" /\ pc'[q] # "restock"
    BY <2>5
  <2> QED BY <2>2, <2>6, <2>7, Zenon DEF EmergencyInv
<1>5. SumsAt(q)
  <2>1. Stock'[q] = Stock[q]
    BY DEF Inv, Types, RingTypes, ListTypes, PollTypes, Stock, RecycleKept,
         AfterRecycle, nic
  <2>2. Lent'[q] = Lent[q] /\ Taking'[q] = Taking[q]
    BY Zenon DEF Inv, Types, RingTypes, ListTypes, PollTypes, FlagTypes, RbaTypes, WorkTypes,
         Lent, Taking, RecycleKept, Goto, AfterRecycle, nic, lists, poll, rba, work
  <2>3. Entitled'[q] = Entitled[q]
    BY Zenon DEF Inv, Types, RingTypes, ListTypes, PollTypes, FlagTypes, RbaTypes, WorkTypes,
         Entitled, Moving, RecycleKept, Goto, AfterRecycle, nic, lists, poll, rba, work
  <2>4. Slack'[q] = Slack[q]
    BY Zenon DEF Inv, Types, RingTypes, ListTypes, PollTypes, FlagTypes, RbaTypes, WorkTypes,
         Slack, Direct, Odd, Ahead, RecycleKept, Goto, AfterRecycle, nic, lists, poll,
         rba, work
  <2>5. SumTypes
    BY FunTypes, Zenon DEF Inv
  <2>6. used_count'[q] = used_count[q]
    BY Zenon DEF RecycleKept
  <2>7. /\ Stock[q] \in Nat /\ Lent[q] \in Nat /\ Entitled[q] \in Nat /\ Slack[q] \in Nat
        /\ Taking[q] \in Nat
    BY <2>5, Zenon DEF SumTypes
  <2>8. used_count[q] \in Nat
    BY Zenon DEF Inv, Types, ListTypes
  <2> QED BY <2>1, <2>2, <2>3, <2>4, <2>6, <2>7, <2>8 DEF SumsAt
<1>6. Quiet
  BY Zenon DEF Quiet, RecycleKept, Goto, AfterRecycle, nic, lists, poll, rba, work
<1> QED BY <1>1, <1>2, <1>3, <1>4, <1>5, <1>6, QuietStep, Zenon

\* Nothing is claimed.
LEMMA ClaimNothingKeeps ==
  ASSUME Inv, NEW q \in Queues, ClaimNothing(q)
  PROVE  Inv' /\ SameLent
<1> USE Constants
<1>0. (seen[q] >= QSize \div 3) \in BOOLEAN
  OBVIOUS
<1>1. Types'
  <2>1. /\ seen' \in [Queues -> Nat] /\ count' \in [Queues -> Nat]
        /\ pc' \in [Queues -> QueuePcs]
    BY DEF Inv, Types, PollTypes, FlagTypes, QueuePcs, ClaimNothing, Goto,
         NextFrame
  <2>2. emergency' \in [Queues -> BOOLEAN]
    BY <1>0, Zenon DEF Inv, Types, RingTypes, ListTypes, PollTypes, FlagTypes, RbaTypes,
         WorkTypes, ClaimNothing, NextFrame
  <2> QED BY <2>1, <2>2, Zenon DEF Inv, Types, RingTypes, ListTypes, PollTypes, FlagTypes,
       RbaTypes, WorkTypes, ClaimNothing, nic, lists, rba, work
<1>2. QueueInv(q)'
  BY DEF Inv, Types, ListTypes, PollTypes, FlagTypes, QueuesInv, QueueInv,
       ClaimNothing, Goto, NextFrame, MayClaim, nic, lists
<1>3. \A p \in Queues \ {q} : Same(p)
  BY DEF Inv, Types, ListTypes, PollTypes, FlagTypes, RbaTypes, WorkTypes, Same,
       ClaimNothing, Goto, NextFrame, MayClaim, nic, lists
<1>4. ~AllocFails => EmergencyInv(q)'
  BY DEF Inv, Types, ListTypes, PollTypes, FlagTypes, QueueInv, Settled,
       EmergencyInv, ClaimNothing, Goto, NextFrame, MayClaim, lists
<1>5. SumsAt(q)
  BY DEF Inv, Types, RingTypes, ListTypes, PollTypes, FlagTypes, QueueInv,
       SumsAt, Stock, Lent, Entitled, Moving, Slack, Direct, Odd, Ahead, Taking,
       ClaimNothing, Goto, NextFrame, MayClaim, nic, lists
<1>6. Quiet
  BY Zenon DEF Quiet, ClaimNothing, Goto, NextFrame, MayClaim, nic, lists, poll, rba, work
<1> QED BY <1>1, <1>2, <1>3, <1>4, <1>5, <1>6, QuietStep, Zenon

\* rx_free goes into the ring.
LEMMA RestockKeeps ==
  ASSUME Inv, NEW q \in Queues, Restock(q)
  PROVE  Inv' /\ SameLent
<1> USE Constants
<1>0. (hidden[q] + free_count[q]) % Block \in Nat
  <2> DEFINE w == hidden[q] + free_count[q]
  <2>0. hidden[q] \in Nat /\ free_count[q] \in Nat
    BY Zenon DEF Inv, Types, RingTypes, ListTypes
  <2>1. w \in Int
    BY <2>0
  <2> HIDE DEF w
  <2>2. w % Block \in 0..(Block - 1)
    BY <2>1, DivMod, Zenon
  <2> QED BY <2>2 DEF w
<1>1. Types'
  <2>1. hidden' \in [Queues -> Nat]
    BY DEF Inv, Types, RingTypes, ListTypes, Restock, Restocked
  <2>2. ring' \in [Queues -> Nat] /\ free_count' \in [Queues -> Nat]
    <3>1. CASE enabled
      BY DEF Inv, Types, RingTypes, ListTypes, Restock, Restocked
    <3>2. CASE ~enabled
      BY <3>2, Zenon DEF Inv, Types, RingTypes, ListTypes, PollTypes, FlagTypes, RbaTypes,
           WorkTypes, Restock, Goto, Restocked, Return, nic, lists, poll, rba, work
    <3> QED BY <3>1, <3>2, Zenon
  <2>3. /\ r' \in [Queues -> Nat] /\ pc' \in [Queues -> QueuePcs]
        /\ handled' \in [Queues -> BOOLEAN] /\ seen' \in [Queues -> Nat]
        /\ emergency' \in [Queues -> BOOLEAN] /\ count' \in [Queues -> Nat]
    <3>1. CASE pc[q] = "restock_again"
      BY <3>1, Zenon DEF Inv, Types, RingTypes, ListTypes, PollTypes, FlagTypes, RbaTypes,
           WorkTypes, QueuePcs, Restock, Goto, Restocked, Return, nic, lists, poll, rba,
           work
    <3>2. CASE pc[q] # "restock_again"
      <4>1. Return(q)
        BY <3>2, Zenon DEF Restock, Goto, Restocked, Return, nic, lists, poll, rba, work
      <4>2. r' \in [Queues -> Nat] /\ pc' \in [Queues -> QueuePcs]
        BY <4>1, Zenon DEF Inv, Types, RingTypes, ListTypes, PollTypes, FlagTypes, RbaTypes,
             WorkTypes, QueuePcs, Restock, Goto, Restocked, Return, nic, lists, poll,
             rba, work
      <4>3. seen' \in [Queues -> Nat] /\ count' \in [Queues -> Nat]
        BY <4>1, Zenon DEF Inv, Types, RingTypes, ListTypes, PollTypes, FlagTypes, RbaTypes,
             WorkTypes, Restock, Goto, Restocked, Return, nic, lists, poll, rba, work
      <4>4. handled' \in [Queues -> BOOLEAN] /\ emergency' \in [Queues -> BOOLEAN]
        BY <4>1, Zenon DEF Inv, Types, RingTypes, ListTypes, PollTypes, FlagTypes, RbaTypes,
             WorkTypes, Restock, Goto, Restocked, Return, nic, lists, poll, rba, work
      <4> QED BY <4>2, <4>3, <4>4, Zenon
    <3> QED BY <3>1, <3>2, Zenon
  <2> QED BY <2>1, <2>2, <2>3, Zenon DEF Inv, Types, RingTypes, ListTypes, PollTypes,
       FlagTypes, RbaTypes, WorkTypes, Restock, Goto, Restocked, Return, nic, lists,
       poll, rba, work
<1>2. QueueInv(q)'
  BY DEF Inv, Types, RingTypes, ListTypes, PollTypes, FlagTypes, RbaTypes,
       WorkTypes, QueuesInv, QueueInv, Ahead, Restock, Goto, Return, nic
<1>3. \A p \in Queues \ {q} : Same(p)
  BY DEF Inv, Types, RingTypes, ListTypes, PollTypes, FlagTypes, WorkTypes,
       Same, Restock, Goto, Restocked, Return, nic, lists
<1>4. ~AllocFails => EmergencyInv(q)'
  BY DEF Inv, Types, ListTypes, PollTypes, FlagTypes, RbaTypes, WorkTypes,
       QueuesInv, QueueInv, Settled, EmergencyInv, Restock, Goto, Return, lists
<1>5. SumsAt(q)
  BY DEF Inv, Types, RingTypes, ListTypes, PollTypes, FlagTypes, RbaTypes,
       Settled, EmergencyInv, SumsAt, Stock, Lent, Entitled, Moving, Slack,
       Direct, Odd, Ahead, Taking, Restock, Goto, Restocked, Return, nic, lists
<1>6. Quiet
  BY Zenon DEF Quiet, Restock, Goto, Restocked, Return, nic, lists, poll, rba, work
<1> QED BY <1>1, <1>2, <1>3, <1>4, <1>5, <1>6, QuietStep, Zenon

\* What a step at queue q leaves to be shown.
SumsStep(q) ==
    /\ Total(Stock)' = Total(Stock) - Stock[q] + Stock'[q]
    /\ Total(used_count)' = Total(used_count) - used_count[q] + used_count'[q]
    /\ Total(Lent)' = Total(Lent) - Lent[q] + Lent'[q]
    /\ Total(Entitled)' = Total(Entitled) - Entitled[q] + Entitled'[q]
    /\ Total(Slack)' = Total(Slack) - Slack[q] + Slack'[q]
    /\ Total(Taking)' = Total(Taking) - Taking[q] + Taking'[q]

TotalsNat ==
    /\ Total(Stock) \in Nat /\ Total(Lent) \in Nat
    /\ Total(Entitled) \in Nat /\ Total(Slack) \in Nat
    /\ Total(Taking) \in Nat /\ Total(used_count) \in Nat

\* A step of queue q changes each sum by what it changes at q; what the other
\* queues have stays as it is.
LEMMA LoudStep ==
  ASSUME Inv, NEW q \in Queues, Types', QueueInv(q)',
         \A p \in Queues \ {q} : Same(p),
         ~AllocFails => EmergencyInv(q)'
  PROVE  /\ QueuesInv' /\ SumsStep(q) /\ TotalsNat
         /\ SumTypes /\ SumTypes'
         /\ ~AllocFails => \A p \in Queues : EmergencyInv(p)'
<1>1. Types /\ QueuesInv
  BY Zenon DEF Inv
<1>2. QueuesInv' /\ SumsStep(q)
  BY <1>1, QueueStep, Zenon DEF SumsStep
<1>3. SumTypes /\ SumTypes' /\ TotalsNat
  BY <1>1, <1>2, FunTypes, FunTypesNext, TotalTypes, Zenon DEF TotalsNat
<1>4. ASSUME ~AllocFails, NEW p \in Queues PROVE EmergencyInv(p)'
  <2>1. EmergencyInv(p)
    BY <1>4, Zenon DEF Inv, Settled
  <2>2. CASE p = q
    BY <1>4, <2>2, Zenon
  <2>3. CASE p # q
    <3>1. Same(p)
      BY <2>3, Zenon
    <3> QED BY <2>1, <3>1, Zenon DEF EmergencyInv, Same
  <2> QED BY <2>2, <2>3, Zenon
<1> QED BY <1>2, <1>3, <1>4, Zenon

\* An emergency begins: the descriptors the queue had back become its deposit.
LEMMA EmergencyBeginsKeeps ==
  ASSUME Inv, NEW q \in Queues, EmergencyBegins(q)
  PROVE  Inv' /\ SameLent
<1> USE Constants
<1>0. /\ Types /\ pc[q] = "alarm" /\ rxbs[q] = 0 /\ r[q] <= used_bd[q]
      /\ ~emergency[q]
  BY Zenon DEF Inv, QueuesInv, QueueInv, EmergencyBegins
<1>1. /\ rbd_empty' = rbd_empty + rx_used[q]
      /\ rx_used' = [rx_used EXCEPT ![q] = 0]
      /\ emergency' = [emergency EXCEPT ![q] = TRUE]
      /\ UNCHANGED <<seen, ring, hidden, used_count, rbd_allocated, req_pending,
                     req_ready, rx_alloc, work, enabled, bug, starts>>
  BY Zenon DEF EmergencyBegins
<1>2. FrameTypes /\ FrameEffect(q, TRUE)
  <2>1. HandleFrame(q, TRUE) /\ TRUE \in BOOLEAN
    BY Zenon DEF EmergencyBegins
  <2>2. Types /\ rxbs[q] = 0 /\ r[q] <= used_bd[q]
    BY <1>0, Zenon
  <2> QED BY <2>1, <2>2, HandleFrameEffect, Zenon
<1>3. Types'
  <2>0. FrameTypes
    BY <1>2, Zenon
  <2>1. rx_used' \in [Queues -> Nat] /\ rbd_empty' \in Nat
    <3>1. rx_used \in [Queues -> Nat] /\ rbd_empty \in Nat
      BY <1>0, Zenon DEF Types, ListTypes, RbaTypes
    <3>2. rbd_empty' = rbd_empty + rx_used[q] /\ rx_used' = [rx_used EXCEPT ![q] = 0]
      BY <1>1, Zenon
    <3> QED BY <3>1, <3>2
  <2>2. emergency' \in [Queues -> BOOLEAN]
    BY <1>0, <1>1, Zenon DEF Types, FlagTypes
  <2> QED BY <1>0, <1>1, <2>0, <2>1, <2>2, Zenon DEF Types, RingTypes, ListTypes,
            PollTypes, FlagTypes, RbaTypes, WorkTypes, FrameTypes, work
<1>20. /\ rx_used[q] \in Nat /\ emergency'[q] = TRUE /\ rx_used'[q] = 0
       /\ r[q] \in Nat /\ used_bd[q] \in Nat /\ count[q] \in Nat
       /\ free_count[q] \in Nat /\ rxbs'[q] \in Nat
  <2>1. rx_used[q] \in Nat /\ emergency'[q] = TRUE /\ rx_used'[q] = 0
    <3>1. rx_used \in [Queues -> Nat] /\ emergency \in [Queues -> BOOLEAN]
      BY <1>0, Zenon DEF Types, ListTypes, FlagTypes
    <3> QED BY <1>1, <3>1
  <2>2. r[q] \in Nat /\ used_bd[q] \in Nat /\ count[q] \in Nat /\ free_count[q] \in Nat
    BY <1>0 DEF Types, RingTypes, ListTypes, PollTypes
  <2>3. rxbs'[q] \in Nat
    BY <1>2 DEF FrameTypes
  <2> QED BY <2>1, <2>2, <2>3, Zenon
<1>21. PICK n \in 0..r[q] :
         /\ used_bd'[q] = used_bd[q] - n /\ r'[q] = r[q] - n
         /\ rxbs'[q] \in 0..n /\ free_count'[q] = free_count[q] + n - rxbs'[q]
         /\ count'[q] = count[q] + n
  BY <1>2, Zenon DEF FrameEffect
<1>22. /\ pc'[q] \in {"claim", "recycle", "alloc_out", "restock"}
       /\ pc'[q] = "recycle" <=> rxbs'[q] > 0
  BY <1>2, Zenon DEF FrameEffect
<1>4. QueueInv(q)'
  BY <1>0, <1>20, <1>21, <1>22 DEF QueueInv
<1>5. ASSUME NEW p \in Queues \ {q} PROVE Same(p)
  <2>1. rx_used'[p] = rx_used[p] /\ emergency'[p] = emergency[p]
    BY <1>1
  <2> QED BY <1>1, <1>2, <2>1, Zenon DEF FrameEffect, Same
<1>6. ~AllocFails => EmergencyInv(q)'
  BY <1>20, <1>21 DEF EmergencyInv
<1>7. /\ Stock'[q] = Stock[q] /\ used_count'[q] = used_count[q]
      /\ Lent'[q] = 0 /\ Lent[q] = 0 /\ Taking'[q] = Taking[q]
  <2>1. Stock'[q] = Stock[q] /\ used_count'[q] = used_count[q]
    <3>1. ring'[q] = ring[q] /\ used_count'[q] = used_count[q] /\ ring[q] \in Nat
      BY <1>0, <1>1 DEF Types, RingTypes
    <3> QED BY <1>0, <1>20, <1>21, <3>1 DEF Stock
  <2>2. Lent'[q] = 0 /\ Lent[q] = 0 /\ Taking'[q] = Taking[q]
    BY <1>0, <1>1, <1>2, Zenon DEF FrameEffect, Lent, Taking, Types, ListTypes, FlagTypes
  <2> QED BY <2>1, <2>2, Zenon
<1>8. Entitled'[q] = Entitled[q]
  BY <1>0, <1>1, <1>2, Zenon DEF FrameEffect, Entitled, Moving
<1>9. Slack'[q] <= Slack[q] + rx_used[q]
  <2>1. Odd(q)' = Odd(q)
    BY <1>1, Zenon DEF Odd, Ahead
  <2>2. Odd(q) \in 0..(Claim - 1)
    BY <1>0, AheadFacts, Zenon DEF Odd, Ahead, Types, ListTypes
  <2>3. Slack'[q] = Odd(q)
    BY <1>0, <1>1, <1>2, <2>1, Zenon DEF FrameEffect, Slack, Direct, Types, FlagTypes
  <2> QED BY <1>0, <2>2, <2>3 DEF Types, ListTypes, Slack
<1>10. /\ QueuesInv' /\ SumsStep(q) /\ TotalsNat
       /\ SumTypes /\ SumTypes'
       /\ ~AllocFails => \A p \in Queues : EmergencyInv(p)'
  BY <1>3, <1>4, <1>5, <1>6, LoudStep, Zenon
<1>11. /\ Total(Stock)' = Total(Stock) /\ Total(used_count)' = Total(used_count)
       /\ Total(Lent)' = Total(Lent) /\ Total(Taking)' = Total(Taking)
       /\ Total(Entitled)' = Total(Entitled)
       /\ Total(Slack)' <= Total(Slack) + rx_used[q] /\ Total(Slack)' \in Int
  BY <1>0, <1>7, <1>8, <1>9, <1>10 DEF Types, ListTypes, SumsStep, SumTypes,
       TotalsNat
<1>12. Backed'
  BY <1>1, <1>10, <1>11 DEF Inv, Sums, Backed, Types, ListTypes, RbaTypes,
       TotalsNat, work
<1>13. AllocatedMatch' /\ RequestsMatch' /\ WorkInv' /\ NeverBug'
  BY <1>1, <1>11, Zenon DEF Inv, Sums, AllocatedMatch, Readying, RequestsMatch, InWork,
       WorkInv, NeverBug, work
<1>14. Kept' /\ (~AllocFails => CreditKept')
  BY <1>11, Zenon DEF Inv, Sums, Kept, Settled, CreditKept
<1>15. SameLent
  BY <1>5, <1>7, Zenon DEF SameLent, Same, Lent
<1> QED BY <1>3, <1>10, <1>12, <1>13, <1>14, <1>15, Zenon DEF Inv, Sums, Settled

\* A request is posted.
LEMMA PostKeeps ==
  ASSUME Inv, NEW q \in Queues, Post(q)
  PROVE  Inv' /\ SameLent
<1> USE Constants
<1>1. Types'
  BY DEF Inv, Types, RingTypes, ListTypes, PollTypes, FlagTypes, RbaTypes,
       WorkTypes, QueuePcs, Post, Goto, AfterRecycle, nic, lists, work
<1>2. QueueInv(q)'
  BY DEF Inv, Types, ListTypes, PollTypes, FlagTypes, RbaTypes, QueuesInv,
       QueueInv, Ahead, Post, Goto, AfterRecycle, nic
<1>3. \A p \in Queues \ {q} : Same(p)
  BY Zenon DEF Inv, Types, RingTypes, ListTypes, PollTypes, FlagTypes, RbaTypes, WorkTypes,
       Same, Post, Goto, AfterRecycle, nic, lists, work
<1>4. ~AllocFails => EmergencyInv(q)'
  BY Zenon DEF Inv, Types, RingTypes, ListTypes, PollTypes, FlagTypes, RbaTypes, WorkTypes,
       QueuesInv, QueueInv, EmergencyInv, Post, Goto, AfterRecycle, nic, lists, work
<1>5. /\ Stock'[q] = Stock[q] /\ used_count'[q] = used_count[q]
      /\ Lent'[q] = Lent[q] /\ Taking'[q] = Taking[q]
  BY Zenon DEF Inv, Types, RingTypes, ListTypes, PollTypes, FlagTypes, RbaTypes, WorkTypes,
       QueuesInv, QueueInv, Stock, Lent, Taking, Post, Goto, AfterRecycle, nic, lists,
       work
<1>6. Entitled'[q] = Entitled[q] + 1
  <2>1. Moving(q) = 1 /\ Moving(q)' = 0
    BY Zenon DEF Inv, Types, RingTypes, ListTypes, PollTypes, FlagTypes, RbaTypes, WorkTypes,
         Moving, Post, Goto, AfterRecycle, nic, lists, work
  <2>2. used_count[q] \in Nat
    BY Zenon DEF Inv, Types, RingTypes, ListTypes, PollTypes, FlagTypes, RbaTypes, WorkTypes,
         Post, Goto, AfterRecycle, nic, lists, work
  <2>3. (used_count[q] + Claim - RX_POST_REQ_ALLOC) \div Claim \in Nat
    BY <2>2, AheadFacts, Zenon
  <2> DEFINE k == (used_count[q] + Claim - RX_POST_REQ_ALLOC) \div Claim
  <2>4. Entitled[q] = k - Moving(q)
    BY Zenon DEF Entitled
  <2>5. used_count' = used_count
    BY Zenon DEF Post, Goto, AfterRecycle, nic, lists, work
  <2>6. Entitled'[q] = k - Moving(q)'
    BY <2>5, Zenon DEF Entitled
  <2>7. k \in Nat
    BY <2>3, Zenon DEF k
  <2> HIDE DEF k
  <2> QED BY <2>1, <2>4, <2>6, <2>7
<1>7. Slack[q] = Claim /\ Slack'[q] = 0
  BY DEF Inv, Types, ListTypes, FlagTypes, QueuesInv, QueueInv, Slack, Direct,
       Odd, Ahead, Post, Goto, AfterRecycle, lists
<1>8. /\ QueuesInv' /\ SumsStep(q) /\ TotalsNat
      /\ SumTypes /\ SumTypes'
      /\ ~AllocFails => \A p \in Queues : EmergencyInv(p)'
  BY <1>1, <1>2, <1>3, <1>4, LoudStep, Zenon
<1>9. /\ Total(Stock)' = Total(Stock) /\ Total(used_count)' = Total(used_count)
      /\ Total(Lent)' = Total(Lent) /\ Total(Taking)' = Total(Taking)
      /\ Total(Entitled)' = Total(Entitled) + 1
      /\ Total(Slack)' = Total(Slack) - Claim
  BY <1>5, <1>6, <1>7, <1>8 DEF Inv, Types, ListTypes, SumsStep, SumTypes,
       TotalsNat
<1>10. Backed'
  <2>0. req_pending \in Nat /\ rbd_empty \in Nat /\ local_empty \in Nat
    BY Zenon DEF Inv, Types, RbaTypes, WorkTypes
  <2>1. Claim * (req_pending + 1) = Claim * req_pending + Claim
    BY <2>0
  <2>2. Claim * req_pending \in Nat
    BY <2>0
  <2>3. /\ rbd_empty + local_empty >= Claim * req_pending + Total(Slack)
        /\ rbd_empty' = rbd_empty /\ local_empty' = local_empty
        /\ req_pending' = req_pending + 1
    BY Zenon DEF Inv, Sums, Backed, Post, work
  <2>4. Total(Slack) \in Nat /\ Total(Slack)' = Total(Slack) - Claim
    BY <1>8, <1>9, Zenon DEF TotalsNat
  <2>5. rbd_empty + local_empty >= Claim * (req_pending + 1) + (Total(Slack) - Claim)
    BY <2>0, <2>1, <2>2, <2>3, <2>4
  <2> QED BY <2>3, <2>4, <2>5, Zenon DEF Backed
<1>11. AllocatedMatch' /\ WorkInv' /\ NeverBug'
  BY <1>9 DEF Inv, Types, RbaTypes, WorkTypes, Sums, AllocatedMatch, Readying,
       WorkInv, NeverBug, Post, work
<1>12. RequestsMatch'
  BY <1>9 DEF Inv, Types, RbaTypes, Sums, RequestsMatch, InWork, Post, work
<1>13. Kept' /\ (~AllocFails => CreditKept')
  BY <1>9, Zenon DEF Inv, Sums, Kept, Settled, CreditKept
<1>14. SameLent
  BY <1>3, <1>5, Zenon DEF SameLent, Same, Lent
<1> QED BY <1>1, <1>8, <1>10, <1>11, <1>12, <1>13, <1>14, Zenon DEF Inv, Sums, Settled

\* A ready request is claimed.
LEMMA ClaimReadyKeeps ==
  ASSUME Inv, NEW q \in Queues, ClaimReady(q)
  PROVE  Inv' /\ SameLent
<1> USE Constants
<1>1. Types'
  BY DEF Inv, Types, RingTypes, ListTypes, PollTypes, FlagTypes, RbaTypes,
       WorkTypes, QueuePcs, ClaimReady, MayClaim, Goto, nic, lists, work
<1>2. QueueInv(q)'
  BY Zenon DEF Inv, Types, RingTypes, ListTypes, PollTypes, FlagTypes, RbaTypes, WorkTypes,
       QueuesInv, QueueInv, Odd, Ahead, ClaimReady, MayClaim, Goto, nic, lists, work
<1>3. \A p \in Queues \ {q} : Same(p)
  BY Zenon DEF Inv, Types, RingTypes, ListTypes, PollTypes, FlagTypes, RbaTypes, WorkTypes,
       Same, ClaimReady, MayClaim, Goto, nic, lists, work
<1>4. ~AllocFails => EmergencyInv(q)'
  BY Zenon DEF Inv, Types, RingTypes, ListTypes, PollTypes, FlagTypes, RbaTypes, WorkTypes,
       QueuesInv, QueueInv, Settled, EmergencyInv, ClaimReady, MayClaim, Goto, nic,
       lists, work
<1>5. /\ Stock'[q] = Stock[q] /\ used_count'[q] = used_count[q]
      /\ Lent'[q] = Lent[q] /\ Taking[q] = 0 /\ Taking'[q] = 1
  BY Zenon DEF Inv, Types, RingTypes, ListTypes, PollTypes, FlagTypes, RbaTypes, WorkTypes,
       QueuesInv, QueueInv, Stock, Lent, Taking, ClaimReady, MayClaim, Goto, nic, lists,
       work
<1>6. Entitled'[q] = Entitled[q] - 1
  <2>1. Moving(q) = 0 /\ Moving(q)' = 1
    BY Zenon DEF Inv, Types, RingTypes, ListTypes, PollTypes, FlagTypes, RbaTypes, WorkTypes,
         Moving, ClaimReady, MayClaim, Goto, nic, lists, work
  <2>2. used_count[q] \in Nat
    BY Zenon DEF Inv, Types, RingTypes, ListTypes, PollTypes, FlagTypes, RbaTypes, WorkTypes,
         ClaimReady, MayClaim, Goto, nic, lists, work
  <2>3. (used_count[q] + Claim - RX_POST_REQ_ALLOC) \div Claim \in Nat
    BY <2>2, AheadFacts, Zenon
  <2> DEFINE k == (used_count[q] + Claim - RX_POST_REQ_ALLOC) \div Claim
  <2>4. Entitled[q] = k - Moving(q)
    BY Zenon DEF Entitled
  <2>5. used_count' = used_count
    BY Zenon DEF ClaimReady, lists
  <2>6. Entitled'[q] = k - Moving(q)'
    BY <2>5, Zenon DEF Entitled
  <2>7. k \in Nat
    BY <2>3, Zenon DEF k
  <2> HIDE DEF k
  <2> QED BY <2>1, <2>4, <2>6, <2>7
<1>7. Slack'[q] = Slack[q]
  BY Zenon DEF Inv, Types, RingTypes, ListTypes, PollTypes, FlagTypes, RbaTypes, WorkTypes,
       Slack, Direct, Odd, Ahead, ClaimReady, MayClaim, Goto, nic, lists, work
<1>8. /\ QueuesInv' /\ SumsStep(q) /\ TotalsNat
      /\ SumTypes /\ SumTypes'
      /\ ~AllocFails => \A p \in Queues : EmergencyInv(p)'
  BY <1>1, <1>2, <1>3, <1>4, LoudStep, Zenon
<1>9. /\ Total(Stock)' = Total(Stock) /\ Total(used_count)' = Total(used_count)
      /\ Total(Lent)' = Total(Lent) /\ Total(Taking)' = Total(Taking) + 1
      /\ Total(Entitled)' = Total(Entitled) - 1
      /\ Total(Slack)' = Total(Slack)
  BY <1>5, <1>6, <1>7, <1>8 DEF Inv, Types, ListTypes, SumsStep, SumTypes,
       TotalsNat
<1>10. AllocatedMatch' /\ RequestsMatch'
  BY <1>8, <1>9 DEF Inv, Types, RbaTypes, WorkTypes, Sums, AllocatedMatch,
       Readying, RequestsMatch, InWork, TotalsNat, ClaimReady, work
<1>11. Backed' /\ WorkInv' /\ NeverBug'
  BY <1>9, Zenon DEF Inv, Sums, Backed, WorkInv, NeverBug, ClaimReady, work
<1>12. Kept' /\ (~AllocFails => CreditKept')
  BY <1>9, Zenon DEF Inv, Sums, Kept, Settled, CreditKept
<1>13. SameLent
  BY <1>3, <1>5, Zenon DEF SameLent, Same, Lent
<1> QED BY <1>1, <1>8, <1>10, <1>11, <1>12, <1>13, Zenon DEF Inv, Sums, Settled

\* The buffers of a claimed request are there.
LEMMA TakeFinds ==
  ASSUME Inv, NEW q \in Queues, pc[q] = "take"
  PROVE  rbd_allocated >= Claim /\ used_count[q] >= Claim
<1>1. used_count[q] >= Claim
  BY Zenon DEF Inv, QueuesInv, QueueInv
<1>2. Taking \in [Queues -> Nat] /\ Taking[q] = 1
  BY FunTypes, Zenon DEF Inv, SumTypes, Taking
<1>3. Total(Taking) \in Nat /\ Total(Taking) >= 1
  BY <1>2, TotalBounds, Constants, Zenon
<1> DEFINE k == req_ready + Readying + Total(Taking)
<1>4. k \in Nat /\ k >= 1
  BY <1>3 DEF Inv, Types, RbaTypes, Readying
<1>5. rbd_allocated = Claim * k
  BY Zenon DEF Inv, Sums, AllocatedMatch
<1> HIDE DEF k
<1>6. Claim * k >= Claim
  BY <1>4, Constants
<1> QED BY <1>1, <1>5, <1>6, Zenon

\* The buffers of a claimed request are taken.
LEMMA TakeKeeps ==
  ASSUME Inv, NEW q \in Queues, Take(q)
  PROVE  Inv'
<1> USE Constants
<1>0. /\ rbd_allocated >= Claim /\ used_count[q] >= Claim
      /\ (seen[q] >= QSize \div 3) \in BOOLEAN
  BY TakeFinds DEF Take
<1>1. Types'
  <2>1. /\ free_count' \in [Queues -> Nat] /\ used_count' \in [Queues -> Nat]
        /\ rbd_allocated' \in Nat
    BY <1>0 DEF Inv, Types, ListTypes, RbaTypes, Take
  <2>2. bug' \in BOOLEAN
    BY Zenon DEF Inv, Types, RingTypes, ListTypes, PollTypes, FlagTypes, RbaTypes, WorkTypes,
         Take, NextFrame, Goto, nic, work
  <2>3. emergency' \in [Queues -> BOOLEAN]
    BY <1>0, Zenon DEF Inv, Types, RingTypes, ListTypes, PollTypes, FlagTypes, RbaTypes,
         WorkTypes, Take, NextFrame, Goto, nic, work
  <2>4. /\ pc' \in [Queues -> QueuePcs] /\ count' \in [Queues -> Nat]
        /\ seen' \in [Queues -> Nat]
    BY DEF Inv, Types, ListTypes, PollTypes, FlagTypes, RbaTypes, WorkTypes,
         QueuePcs, Take, NextFrame, Goto, nic
  <2> QED BY <2>1, <2>2, <2>3, <2>4, Zenon DEF Inv, Types, RingTypes, ListTypes, PollTypes,
       FlagTypes, RbaTypes, WorkTypes, Take, NextFrame, Goto, nic, work
<1>2. QueueInv(q)'
  BY DEF Inv, Types, FlagTypes, QueuesInv, QueueInv, Take, NextFrame, Goto, nic
<1>3. \A p \in Queues \ {q} : Same(p)
  BY DEF Inv, Types, PollTypes, FlagTypes, Same, Take, NextFrame, Goto, nic
<1>4. ~AllocFails => EmergencyInv(q)'
  BY DEF Inv, Types, PollTypes, FlagTypes, Settled, EmergencyInv, Take,
       NextFrame, Goto
<1>5. /\ Stock'[q] = Stock[q] + Claim
      /\ used_count'[q] = used_count[q] - Claim
      /\ Lent'[q] = Lent[q] /\ Taking[q] = 1 /\ Taking'[q] = 0
  BY DEF Inv, Types, RingTypes, ListTypes, PollTypes, FlagTypes, Stock, Lent,
       Taking, Take, NextFrame, Goto, nic
<1>6. /\ Ahead(q) \in Int /\ Ahead(q)' = Ahead(q) - Claim
      /\ Odd(q)' = Odd(q) /\ Odd(q) \in 0..(Claim - 1)
      /\ Ahead(q)' \div Claim = (Ahead(q) \div Claim) - 1
      /\ Ahead(q) \div Claim \in Int
  <2>1. Ahead(q) \in Int /\ Ahead(q)' = Ahead(q) - Claim
    BY DEF Inv, Types, ListTypes, Ahead, Take
  <2>2. /\ (Ahead(q) - Claim) % Claim = Ahead(q) % Claim
        /\ (Ahead(q) - Claim) \div Claim = (Ahead(q) \div Claim) - 1
    BY <2>1, DivModLess, Zenon
  <2>3. Ahead(q) % Claim \in 0..(Claim - 1) /\ Ahead(q) \div Claim \in Int
    BY <2>1, DivMod, Zenon
  <2> QED BY <2>1, <2>2, <2>3, Zenon DEF Odd
<1>7. Entitled'[q] = Entitled[q] /\ Slack'[q] = Slack[q]
  <2>1. Moving(q) = 1 /\ Moving(q)' = 0
    BY Zenon DEF Inv, Types, RingTypes, ListTypes, PollTypes, FlagTypes, RbaTypes, WorkTypes,
         Moving, Take, NextFrame, Goto, nic, work
  <2>2. Entitled'[q] = (Ahead(q)' \div Claim) - Moving(q)'
    BY Zenon DEF Entitled, Ahead, Take, NextFrame, Goto, nic, work
  <2>3. Entitled[q] = (Ahead(q) \div Claim) - Moving(q)
    BY Zenon DEF Entitled, Ahead, Take, NextFrame, Goto, nic, work
  <2>4. Slack'[q] = Slack[q]
    BY <1>6, Zenon DEF Inv, Types, RingTypes, ListTypes, PollTypes, FlagTypes, RbaTypes,
         WorkTypes, Slack, Direct, Take, NextFrame, Goto, nic, work
  <2> QED BY <1>6, <2>1, <2>2, <2>3, <2>4
<1>8. /\ QueuesInv' /\ SumsStep(q) /\ TotalsNat
      /\ SumTypes /\ SumTypes'
      /\ ~AllocFails => \A p \in Queues : EmergencyInv(p)'
  BY <1>1, <1>2, <1>3, <1>4, LoudStep, Zenon
<1>9. /\ Total(Stock)' = Total(Stock) + Claim
      /\ Total(used_count)' = Total(used_count) - Claim
      /\ Total(Lent)' = Total(Lent) /\ Total(Taking)' = Total(Taking) - 1
      /\ Total(Entitled)' = Total(Entitled) /\ Total(Slack)' = Total(Slack)
  BY <1>5, <1>7, <1>8 DEF Inv, Types, ListTypes, SumsStep, SumTypes, TotalsNat
<1>10. AllocatedMatch'
  <2> DEFINE k == req_ready + Readying + Total(Taking)
  <2>1. k \in Int
    BY <1>8 DEF Inv, Types, RbaTypes, Readying, TotalsNat
  <2>2. k' = k - 1
    BY <1>8, <1>9 DEF Inv, Types, RbaTypes, Readying, TotalsNat, Take, work
  <2>3. rbd_allocated = Claim * k /\ rbd_allocated' = rbd_allocated - Claim
    BY Zenon DEF Inv, Sums, AllocatedMatch, Take
  <2> HIDE DEF k
  <2>4. Claim * (k - 1) = Claim * k - Claim
    BY <2>1
  <2>5. rbd_allocated' = Claim * k'
    BY <2>2, <2>3, <2>4, Zenon
  <2> QED BY <2>5, Zenon DEF AllocatedMatch, k
<1>11. Backed' /\ RequestsMatch' /\ WorkInv' /\ NeverBug'
  BY <1>0, <1>9 DEF Inv, Types, RbaTypes, WorkTypes, Sums, Backed,
       RequestsMatch, InWork, WorkInv, NeverBug, Take, work
<1>12. Kept' /\ (~AllocFails => CreditKept')
  BY <1>8, <1>9 DEF Inv, Sums, Kept, Settled, CreditKept, TotalsNat
<1> QED BY <1>1, <1>8, <1>10, <1>11, <1>12, Zenon DEF Inv, Sums, Settled

\* The queue allocates pages itself.
LEMMA AllocRbsKeeps ==
  ASSUME Inv, NEW q \in Queues, AllocRbs(q)
  PROVE  Inv'
<1> USE Constants
<1>0. PICK n \in 0..rx_used[q] :
         /\ n = rx_used[q] \/ AllocFails
         /\ rx_used' = [rx_used EXCEPT ![q] = @ - n]
         /\ free_count' = [free_count EXCEPT ![q] = @ + n]
  BY Zenon DEF AllocRbs, Goto, nic, rba, work
<1>1. Types'
  <2>1. rx_used' \in [Queues -> Nat] /\ free_count' \in [Queues -> Nat]
    BY <1>0 DEF Inv, Types, ListTypes
  <2> QED BY <2>1, Zenon DEF AllocRbs, Inv, Types, RingTypes, ListTypes, PollTypes, FlagTypes,
       RbaTypes, WorkTypes, QueuePcs, Goto, nic, rba, work
<1>2. QueueInv(q)'
  BY DEF AllocRbs, Inv, FlagTypes, RbaTypes, WorkTypes, QueuesInv, QueueInv,
       Ahead, Goto, nic
<1>3. \A p \in Queues \ {q} : Same(p)
  BY DEF AllocRbs, WorkTypes, Same, Goto, nic
<1>4. ~AllocFails => EmergencyInv(q)'
  BY DEF AllocRbs, Inv, Types, ListTypes, EmergencyInv, Goto
<1>5. /\ Stock'[q] = Stock[q] + n /\ used_count'[q] = used_count[q]
      /\ Lent'[q] <= Lent[q] - n /\ Taking'[q] = Taking[q]
      /\ ~AllocFails => Lent'[q] = Lent[q] - n
  BY <1>0 DEF AllocRbs, Inv, Types, RingTypes, ListTypes, QueuesInv, QueueInv,
       Stock, Lent, Taking, Goto, nic, rba, work
<1>6. Entitled'[q] = Entitled[q]
  BY Zenon DEF AllocRbs, Inv, Types, RingTypes, ListTypes, PollTypes, FlagTypes, RbaTypes,
       WorkTypes, Entitled, Moving, Goto, nic, rba, work
<1>7. Slack'[q] <= Slack[q]
  <2>1. Odd(q)' = Odd(q)
    BY Zenon DEF AllocRbs, Odd, Ahead, Goto, nic, rba, work
  <2>2. Odd(q) \in 0..(Claim - 1)
    BY AheadFacts, Zenon DEF Odd, Ahead, Inv, Types, RingTypes, ListTypes, PollTypes,
         FlagTypes, RbaTypes, WorkTypes, Goto, nic, rba, work
  <2>3. Slack[q] = Odd(q)
    BY Zenon DEF AllocRbs, Slack, Direct, Goto, nic, rba, work
  <2>4. rx_used'[q] \in Nat
    BY <1>1, Zenon DEF Types, RingTypes, ListTypes, PollTypes, FlagTypes, RbaTypes, WorkTypes,
         Goto, nic, rba, work
  <2>5. pc'[q] # "post"
    BY Zenon DEF AllocRbs, Inv, Types, RingTypes, ListTypes, PollTypes, FlagTypes, RbaTypes,
         WorkTypes, Goto, nic, rba, work
  <2>6. Slack'[q] \in {Odd(q)', Odd(q)' - rx_used'[q], 0}
    BY <2>5, Zenon DEF Slack
  <2> QED BY <2>1, <2>2, <2>3, <2>4, <2>6
<1>8. /\ QueuesInv' /\ SumsStep(q) /\ TotalsNat
      /\ SumTypes /\ SumTypes'
      /\ ~AllocFails => \A p \in Queues : EmergencyInv(p)'
  BY <1>1, <1>2, <1>3, <1>4, LoudStep, Zenon
<1>9. /\ Total(Stock)' = Total(Stock) + n
      /\ Total(used_count)' = Total(used_count)
      /\ Total(Lent)' <= Total(Lent) - n /\ Total(Lent)' \in Int
      /\ ~AllocFails => Total(Lent)' = Total(Lent) - n
      /\ Total(Taking)' = Total(Taking) /\ Total(Entitled)' = Total(Entitled)
      /\ Total(Slack)' <= Total(Slack) /\ Total(Slack)' \in Int
      /\ n \in Int
  BY <1>5, <1>6, <1>7, <1>8 DEF Inv, Types, ListTypes, SumsStep, SumTypes,
       TotalsNat
<1>10. Backed'
  BY <1>8, <1>9 DEF Inv, Types, RbaTypes, Sums, Backed, TotalsNat, AllocRbs,
       rba, work
<1>11. AllocatedMatch' /\ RequestsMatch' /\ WorkInv' /\ NeverBug'
  BY <1>9, Zenon DEF Inv, Sums, AllocatedMatch, Readying, RequestsMatch, InWork, WorkInv,
       NeverBug, AllocRbs, rba, work
<1>12. Kept' /\ (~AllocFails => CreditKept')
  BY <1>8, <1>9 DEF Inv, Sums, Kept, Settled, CreditKept, TotalsNat
<1> QED BY <1>1, <1>8, <1>10, <1>11, <1>12, Zenon DEF Inv, Sums, Settled

\* A descriptor loses its page: it is counted, and may come with a request,
\* or it is lent in an emergency.
LEMMA RecycleTakenKeeps ==
  ASSUME Inv, NEW q \in Queues, RecycleTaken(q)
  PROVE  Inv'
<1> DEFINE n == used_count[q] + 1
           posts == ~emergency[q] /\ PostsAt(n)
<1> USE Constants
<1>0. /\ pc[q] = "recycle" /\ rxbs[q] \in Nat /\ rxbs[q] > 0
      /\ used_count[q] \in Nat /\ rx_used[q] \in Nat
      /\ rxbs' = [rxbs EXCEPT ![q] = @ - 1]
      /\ used_count' = [used_count EXCEPT ![q] = IF emergency[q] THEN @ ELSE n]
      /\ IF posts
         THEN /\ rbd_empty' = rbd_empty + rx_used[q] + 1
              /\ rx_used' = [rx_used EXCEPT ![q] = 0]
              /\ pc' = [pc EXCEPT ![q] = "post"]
         ELSE /\ rx_used' = [rx_used EXCEPT ![q] = @ + 1]
              /\ pc' = [pc EXCEPT ![q] = AfterRecycle(rxbs[q] - 1)]
              /\ UNCHANGED rbd_empty
      /\ AfterRecycle(rxbs[q] - 1) \in {"claim", "recycle"}
      /\ AfterRecycle(rxbs[q] - 1) = "recycle" <=> rxbs[q] - 1 # 0
      /\ UNCHANGED <<split, r, handled, seen, emergency, count, ring, hidden,
                     used_bd, frags, free_count, rbd_allocated, req_pending,
                     req_ready, rx_alloc, wpc, pending, local_empty,
                     local_allocated, enabled, bug, starts>>
  BY Zenon DEF RecycleTaken, Inv, Types, RingTypes, ListTypes, PollTypes, FlagTypes, RbaTypes,
       WorkTypes, QueuesInv, QueueInv, Goto, AfterRecycle, nic, work
<1> DEFINE x == Ahead(q)
<1>1. /\ x \in Nat /\ x % Claim \in 0..(Claim - 1) /\ x \div Claim \in Nat
      /\ PostsAt(n) <=> (x + 1) % Claim = 0
      /\ x % Claim = Claim - 1 => /\ (x + 1) % Claim = 0
                                  /\ (x + 1) \div Claim = (x \div Claim) + 1
      /\ x % Claim # Claim - 1 => /\ (x + 1) % Claim = (x % Claim) + 1
                                  /\ (x + 1) \div Claim = x \div Claim
  <2>1. x \in Nat /\ x % Claim \in 0..(Claim - 1) /\ x \div Claim \in Nat
    BY <1>0, AheadFacts, Zenon DEF Ahead
  <2>2. n \in Int /\ n + Claim - RX_POST_REQ_ALLOC = x + 1
    BY <1>0 DEF Ahead
  <2> HIDE DEF x, n
  <2>3. n % Claim = RX_POST_REQ_ALLOC
          <=> (n + Claim - RX_POST_REQ_ALLOC) % Claim = 0
    BY <2>2, ModShift, Zenon
  <2>4. /\ x % Claim = Claim - 1 => /\ (x + 1) % Claim = 0
                                    /\ (x + 1) \div Claim = (x \div Claim) + 1
        /\ x % Claim # Claim - 1 => /\ (x + 1) % Claim = (x % Claim) + 1
                                    /\ (x + 1) \div Claim = x \div Claim
    <3>1. x \in Int /\ Claim \in Nat \ {0}
      BY <2>1
    <3> QED BY <3>1, DivModNext, Zenon
  <2> QED BY <2>1, <2>2, <2>3, <2>4, Zenon DEF PostsAt
<1>2. /\ emergency[q] => Ahead(q)' = x
      /\ ~emergency[q] => Ahead(q)' = x + 1
  BY <1>0 DEF Ahead, Inv, Types, ListTypes
<1>3. posts <=> ~emergency[q] /\ x % Claim = Claim - 1
  BY <1>1
<1> HIDE DEF x, n, posts
<1>4. Types'
  <2>1. rxbs' \in [Queues -> Nat] /\ used_count' \in [Queues -> Nat]
    BY <1>0 DEF Inv, Types, ListTypes, PollTypes, n
  <2>2. /\ rx_used' \in [Queues -> Nat] /\ rbd_empty' \in Nat
        /\ pc' \in [Queues -> QueuePcs]
    BY <1>0 DEF Inv, Types, ListTypes, FlagTypes, RbaTypes, QueuePcs
  <2> QED BY <1>0, <2>1, <2>2, Zenon DEF Inv, Types, RingTypes, ListTypes, PollTypes,
       FlagTypes, RbaTypes, WorkTypes
<1>5. QueueInv(q)'
  <2>1. posts => /\ ~emergency[q] /\ (x + 1) % Claim = 0
                 /\ Ahead(q)' = x + 1 /\ used_count'[q] = used_count[q] + 1
    BY <1>0, <1>1, <1>2, <1>3, Zenon DEF n, Inv, Types, RingTypes, ListTypes, PollTypes,
         FlagTypes, RbaTypes, WorkTypes
  <2>2. posts => used_count'[q] >= RX_POST_REQ_ALLOC
    <3> SUFFICES ASSUME posts, used_count[q] + 1 < RX_POST_REQ_ALLOC PROVE FALSE
      BY <1>0, <2>1
    <3>1. (used_count[q] + 1) % Claim = RX_POST_REQ_ALLOC
      BY Zenon DEF posts, PostsAt, n
    <3> DEFINE w == used_count[q] + 1
    <3>2. /\ w \in Int /\ 0 \in Int /\ w \in 0..(Claim - 1)
          /\ w = Claim * 0 + w
      BY <1>0
    <3> HIDE DEF w
    <3>3. w % Claim = w
      BY <3>2, DivModUnique, Zenon
    <3> QED BY <3>1, <3>3 DEF w
  <2> QED BY <1>0, <2>1, <2>2 DEF Inv, Types, ListTypes, PollTypes, FlagTypes,
       QueuesInv, QueueInv, Odd
<1>6. \A p \in Queues \ {q} : Same(p)
  BY <1>0 DEF Inv, Types, ListTypes, FlagTypes, Same
<1>7. ~AllocFails => EmergencyInv(q)'
  BY <1>0 DEF Inv, Types, ListTypes, PollTypes, FlagTypes, Settled, EmergencyInv
<1>8. Stock'[q] = Stock[q] - 1 /\ Taking'[q] = Taking[q]
  BY <1>0 DEF Inv, Types, RingTypes, ListTypes, PollTypes, FlagTypes, Stock,
       Taking
<1>9. /\ emergency[q] => /\ used_count'[q] = used_count[q]
                         /\ Lent'[q] = Lent[q] + 1
      /\ ~emergency[q] => /\ used_count'[q] = used_count[q] + 1
                          /\ Lent'[q] = Lent[q]
  BY <1>0, <1>3 DEF Inv, Types, ListTypes, FlagTypes, Lent, n
<1>10. Entitled'[q] = Entitled[q]
  <2>1. Entitled[q] = x \div Claim
    BY <1>0 DEF Entitled, Moving, x, Ahead
  <2>2. Entitled'[q] = (Ahead(q)' \div Claim) - (IF posts THEN 1 ELSE 0)
    BY <1>0, Zenon DEF Entitled, Moving, Ahead, Inv, Types, RingTypes, ListTypes, PollTypes,
         FlagTypes, RbaTypes, WorkTypes
  <2> QED BY <1>1, <1>2, <1>3, <2>1, <2>2
<1>11. Slack'[q] + rbd_empty <= Slack[q] + rbd_empty'
  <2>1. /\ Odd(q) = x % Claim
        /\ emergency[q] => Odd(q)' = x % Claim
        /\ ~emergency[q] /\ ~posts => Odd(q)' = (x % Claim) + 1
    BY <1>1, <1>2, <1>3, Zenon DEF Odd, x
  <2>2. CASE emergency[q]
    <3>1. ~posts
      BY <2>2, Zenon DEF posts
    <3> QED BY <1>0, <1>1, <2>1, <2>2, <3>1 DEF Inv, Types, FlagTypes, RbaTypes,
         Slack, Direct
  <2>3. CASE ~emergency[q] /\ ~posts
    BY <1>0, <1>1, <2>1, <2>3 DEF Inv, Types, ListTypes, FlagTypes, RbaTypes,
         Slack, Direct
  <2>4. CASE posts
    <3>1. x % Claim = Claim - 1 /\ ~emergency[q]
      BY <1>3, <2>4, Zenon
    <3>2. Slack'[q] = Claim
      BY <1>0, <2>4, Zenon DEF Inv, Types, RingTypes, ListTypes, PollTypes, FlagTypes,
           RbaTypes, WorkTypes, Slack
    <3>3. Slack[q] >= Claim - 1 - rx_used[q] /\ Slack[q] >= 0 /\ Slack[q] \in Int
      BY <1>0, <2>1, <3>1 DEF Slack
    <3> QED BY <1>0, <2>4, <3>2, <3>3 DEF Inv, Types, RbaTypes
  <2> QED BY <2>2, <2>3, <2>4, Zenon
<1>12. /\ QueuesInv' /\ SumsStep(q) /\ TotalsNat
       /\ SumTypes /\ SumTypes'
       /\ ~AllocFails => \A p \in Queues : EmergencyInv(p)'
  BY <1>4, <1>5, <1>6, <1>7, LoudStep, Zenon
<1>13. Backed'
  <2>1. /\ Total(Slack)' = Total(Slack) - Slack[q] + Slack'[q]
        /\ Slack[q] \in Nat /\ Slack'[q] \in Nat /\ Total(Slack) \in Nat
    BY <1>12, Zenon DEF SumsStep, SumTypes, TotalsNat
  <2>2. Claim * req_pending \in Nat
    BY DEF Inv, Types, RbaTypes
  <2>3. rbd_empty + local_empty >= Claim * req_pending + Total(Slack)
    BY Zenon DEF Inv, Sums, Backed
  <2>4. /\ rbd_empty \in Nat /\ local_empty \in Nat /\ rbd_empty' \in Nat
        /\ local_empty' = local_empty /\ req_pending' = req_pending
    BY <1>0, <1>4, Zenon DEF Inv, Types, RingTypes, ListTypes, PollTypes, FlagTypes, RbaTypes,
         WorkTypes
  <2>5. rbd_empty' + local_empty >= Claim * req_pending + Total(Slack)'
    BY <1>11, <2>1, <2>2, <2>3, <2>4
  <2> QED BY <2>4, <2>5, Zenon DEF Backed
<1>14. AllocatedMatch' /\ RequestsMatch' /\ WorkInv' /\ NeverBug'
  <2>1. Total(Entitled)' = Total(Entitled) /\ Total(Taking)' = Total(Taking)
    BY <1>8, <1>10, <1>12 DEF SumsStep, SumTypes, TotalsNat
  <2> QED BY <1>0, <2>1, Zenon DEF Inv, Sums, AllocatedMatch, Readying, RequestsMatch, InWork,
       WorkInv, NeverBug
<1>15. Kept' /\ (~AllocFails => CreditKept')
  <2>1. Total(Stock)' + Total(used_count)' + Total(Lent)'
          = Total(Stock) + Total(used_count) + Total(Lent)
    <3>1. /\ Stock[q] \in Nat /\ Lent[q] \in Nat
          /\ Total(Stock) \in Nat /\ Total(used_count) \in Nat /\ Total(Lent) \in Nat
      BY <1>12, Zenon DEF SumTypes, TotalsNat
    <3> QED BY <1>0, <1>8, <1>9, <1>12, <3>1 DEF SumsStep
  <2> QED BY <2>1, Zenon DEF Inv, Sums, Kept, Settled, CreditKept
<1> QED BY <1>4, <1>12, <1>13, <1>14, <1>15, Zenon DEF Inv, Sums, Settled

\* The NIC fills a buffer of queue p and reports it to queue q.
LEMMA NicFillsKeeps ==
  ASSUME Inv, NEW p \in Queues, NEW q \in Queues, NicFills(p, q)
  PROVE  Inv'
<1> USE Constants
<1>0. Types /\ QueuesInv
  BY Zenon DEF Inv, NicFills, Visible, lists, poll, rba, work
<1>1. Types'
  BY DEF Inv, Types, RingTypes, ListTypes, PollTypes, FlagTypes, RbaTypes,
       WorkTypes, NicFills, Visible, lists, poll, rba, work
<1>2. QueuesInv' /\ (~AllocFails => \A s \in Queues : EmergencyInv(s)')
  BY DEF Inv, Types, RingTypes, ListTypes, PollTypes, FlagTypes, WorkTypes,
       QueuesInv, QueueInv, Odd, Ahead, Settled, EmergencyInv, NicFills, lists,
       poll
<1>3. /\ Lent' = Lent /\ Entitled' = Entitled /\ Slack' = Slack
      /\ Taking' = Taking /\ used_count' = used_count
  BY Zenon DEF Lent, Entitled, Moving, Slack, Direct, Odd, Ahead, Taking, NicFills, Visible,
       lists, poll, rba, work
<1>4. Total(Stock)' = Total(Stock)
  <2> DEFINE g == [Stock EXCEPT ![p] = @ - 1]
  <2>1. Stock \in [Queues -> Nat] /\ Stock' \in [Queues -> Nat]
    BY <1>0, <1>1, <1>2, FunTypes, FunTypesNext, Zenon DEF SumTypes, NicFills, Visible, lists,
         poll, rba, work
  <2>2. Stock[p] > 0
    BY DEF Inv, Types, RingTypes, ListTypes, PollTypes, Stock, NicFills, Visible
  <2>3. g \in [Queues -> Nat]
    BY <2>1, <2>2
  <2>4. Stock' = [g EXCEPT ![q] = @ + 1]
    <3>1. ASSUME NEW s \in Queues PROVE Stock'[s] = [g EXCEPT ![q] = @ + 1][s]
      BY DEF Inv, Types, RingTypes, ListTypes, PollTypes, Stock, NicFills,
           Visible, lists, poll
    <3> QED BY <2>1, <2>3, <3>1, Zenon
  <2>5. Total(g) = Total(Stock) - Stock[p] + g[p]
    <3>1. \A y \in Queues \ {p} : g[y] = Stock[y]
      BY <2>1, Zenon
    <3> HIDE DEF g
    <3> QED BY <2>1, <2>3, <3>1, TotalUpdate
  <2>6. Total(Stock') = Total(g) - g[q] + Stock'[q]
    <3>1. \A y \in Queues \ {q} : Stock'[y] = g[y]
      BY <2>3, <2>4, Zenon
    <3> HIDE DEF g
    <3> QED BY <2>1, <2>3, <3>1, TotalUpdate
  <2>7. Total(Stock) \in Nat
    BY <1>0, TotalTypes, Zenon
  <2>8. g[p] = Stock[p] - 1 /\ Stock'[q] = g[q] + 1 /\ g[q] \in Nat
    BY <2>1, <2>3, <2>4, Zenon
  <2> HIDE DEF g
  <2> QED BY <2>1, <2>5, <2>6, <2>7, <2>8
<1>5. Sums' /\ WorkInv' /\ NeverBug'
  BY <1>3, <1>4, Zenon DEF Inv, Sums, Backed, AllocatedMatch, Readying, RequestsMatch, InWork,
       Kept, WorkInv, NeverBug, NicFills, Visible, lists, poll, rba, work
<1>6. ~AllocFails => CreditKept'
  BY <1>3, <1>4, Zenon DEF Inv, Settled, CreditKept, NicFills, Visible, lists, poll, rba, work
<1> QED BY <1>1, <1>2, <1>5, <1>6, Zenon DEF Inv, Settled

(* The steps of the work item. *)

QueuesSame ==
    /\ QueuesInv' /\ (~AllocFails => \A q \in Queues : EmergencyInv(q)')
    /\ Total(Stock)' = Total(Stock) /\ Total(used_count)' = Total(used_count)
    /\ Total(Lent)' = Total(Lent) /\ Total(Entitled)' = Total(Entitled)
    /\ Total(Slack)' = Total(Slack) /\ Total(Taking)' = Total(Taking)

\* A step of the work item or of the device leaves what the queues have.
LEMMA NoQueueStep ==
  ASSUME Inv, UNCHANGED <<nic, lists, poll>>
  PROVE  QueuesSame
<1>1. QueuesInv' /\ (~AllocFails => \A q \in Queues : EmergencyInv(q)')
  BY Zenon DEF Inv, QueuesInv, QueueInv, Odd, Ahead, Settled, EmergencyInv, nic, lists, poll
<1>2. /\ Stock' = Stock /\ Lent' = Lent /\ Entitled' = Entitled
      /\ Slack' = Slack /\ Taking' = Taking /\ used_count' = used_count
  BY Zenon DEF Stock, Lent, Entitled, Moving, Slack, Direct, Odd, Ahead, Taking, nic, lists,
       poll
<1> QED BY <1>1, <1>2, Zenon DEF QueuesSame

\* The requests are counted first.
LEMMA WorkBeginsKeeps ==
  ASSUME Inv, WorkBegins
  PROVE  Inv'
<1> USE Constants
<1>1. Types'
  BY Zenon DEF Inv, Types, RingTypes, ListTypes, PollTypes, FlagTypes, RbaTypes,
       WorkTypes, nic, lists, poll, rba, WorkBegins
<1>2. UNCHANGED <<nic, lists, poll>>
  BY Zenon DEF nic, lists, poll, WorkBegins
<1>3. QueuesSame
  BY <1>2, NoQueueStep, Zenon
<1>4. TotalsNat
  BY TotalTypes, Zenon DEF Inv, TotalsNat, WorkBegins
<1>5. Backed'
  BY <1>3, <1>4, Zenon DEF Inv, Types, RingTypes, ListTypes, PollTypes, FlagTypes, RbaTypes,
       WorkTypes, Sums, Backed, QueuesSame, TotalsNat, rba, WorkBegins
<1>6. AllocatedMatch'
  BY <1>3, Zenon DEF Inv, Types, RingTypes, ListTypes, PollTypes, FlagTypes, RbaTypes,
       WorkTypes, Sums, AllocatedMatch, Readying, QueuesSame, rba, WorkBegins
<1>7. RequestsMatch'
  BY <1>3, Zenon DEF Inv, Types, RingTypes, ListTypes, PollTypes, FlagTypes, RbaTypes,
       WorkTypes, Sums, RequestsMatch, InWork, QueuesSame, rba, WorkBegins
<1>8. WorkInv'
  BY DEF Inv, Types, RbaTypes, WorkInv, WorkBegins
<1>9. NeverBug'
  BY Zenon DEF Inv, Types, RingTypes, ListTypes, PollTypes, FlagTypes, RbaTypes, WorkTypes,
       NeverBug, WorkBegins
<1> QED BY <1>1, <1>3, <1>5, <1>6, <1>7, <1>8, <1>9, Zenon DEF Inv, Sums, Kept, Settled, CreditKept, QueuesSame

\* Then the list is taken: it has enough for them.
LEMMA WorkSwapKeeps ==
  ASSUME Inv, WorkSwap
  PROVE  Inv'
<1> USE Constants
<1>1. Types'
  BY Zenon DEF Inv, Types, RingTypes, ListTypes, PollTypes, FlagTypes, RbaTypes, WorkTypes,
       nic, lists, poll, rba, WorkSwap
<1>2. UNCHANGED <<nic, lists, poll>>
  BY Zenon DEF nic, lists, poll, WorkSwap
<1>3. QueuesSame
  BY <1>2, NoQueueStep, Zenon
<1>4. TotalsNat
  BY TotalTypes, Zenon DEF Inv, TotalsNat, WorkSwap
<1>5. Backed'
  BY <1>3 DEF Inv, Types, RbaTypes, Sums, Backed, WorkInv, QueuesSame, WorkSwap
<1>6. AllocatedMatch'
  BY <1>3, Zenon DEF Inv, Types, RingTypes, ListTypes, PollTypes, FlagTypes, RbaTypes,
       WorkTypes, Sums, AllocatedMatch, Readying, QueuesSame, rba, WorkSwap
<1>7. RequestsMatch'
  BY <1>3, Zenon DEF Inv, Types, RingTypes, ListTypes, PollTypes, FlagTypes, RbaTypes,
       WorkTypes, Sums, RequestsMatch, InWork, QueuesSame, rba, WorkSwap
<1>8. WorkInv'
  <2>1. rbd_empty >= Claim * pending
    <3>1. Claim * req_pending >= Claim * pending
      BY DEF Inv, Types, RbaTypes, WorkTypes, WorkInv
    <3>2. Claim * req_pending \in Nat /\ Claim * pending \in Nat
      BY DEF Inv, Types, RbaTypes, WorkTypes
    <3> QED BY <1>4, <3>1, <3>2 DEF Inv, Types, RbaTypes, Sums, Backed, WorkInv,
         TotalsNat, WorkSwap
  <2> QED BY <2>1, Zenon DEF Inv, Types, RingTypes, ListTypes, PollTypes, FlagTypes, RbaTypes,
       WorkTypes, WorkInv, WorkSwap
<1>9. NeverBug'
  BY Zenon DEF Inv, Types, RingTypes, ListTypes, PollTypes, FlagTypes, RbaTypes, WorkTypes,
       NeverBug, WorkSwap
<1> QED BY <1>1, <1>3, <1>5, <1>6, <1>7, <1>8, <1>9, Zenon DEF Inv, Sums, Kept, Settled, CreditKept, QueuesSame

\* A request is served: the list is not empty.
LEMMA WorkAllocatesKeeps ==
  ASSUME Inv, WorkAllocates
  PROVE  Inv'
<1> USE Constants
<1>0. local_empty >= Claim /\ req_pending > 0
  <2>1. Claim * pending >= Claim
    BY DEF Inv, Types, WorkTypes, WorkAllocates
  <2>2. Claim * pending \in Nat
    BY DEF Inv, Types, WorkTypes
  <2> QED BY DEF Inv, Types, RbaTypes, WorkTypes, WorkInv, WorkAllocates
<1>1. Types'
  BY <1>0 DEF Inv, Types, RingTypes, ListTypes, PollTypes, FlagTypes, RbaTypes,
       WorkTypes, nic, lists, poll, WorkAllocates
<1>2. UNCHANGED <<nic, lists, poll>>
  BY Zenon DEF nic, lists, poll, WorkAllocates
<1>3. QueuesSame
  BY <1>2, NoQueueStep, Zenon
<1>4. TotalsNat
  BY TotalTypes, Zenon DEF Inv, TotalsNat, WorkAllocates
<1>5. Backed'
  <2>1. /\ Claim * req_pending = Claim * (req_pending - 1) + Claim
        /\ Claim * (req_pending - 1) \in Int
    BY DEF Inv, Types, RbaTypes
  <2> QED BY <1>3, <1>4 DEF Inv, Types, RbaTypes, Sums, Backed, QueuesSame,
       TotalsNat, WorkAllocates
<1>6. AllocatedMatch'
  BY <1>3, Zenon DEF Inv, Types, RingTypes, ListTypes, PollTypes, FlagTypes, RbaTypes,
       WorkTypes, Sums, AllocatedMatch, Readying, QueuesSame, rba, WorkAllocates
<1>7. RequestsMatch'
  BY <1>3 DEF Inv, Types, RbaTypes, Sums, RequestsMatch, InWork, QueuesSame,
       rba, WorkAllocates
<1>8. WorkInv'
  <2>1. Claim * pending = Claim * (pending - 1) + Claim
    BY DEF Inv, Types, WorkTypes
  <2> QED BY DEF Inv, Types, RbaTypes, WorkTypes, WorkInv, WorkAllocates
<1>9. NeverBug'
  BY <1>0 DEF Inv, Types, RbaTypes, WorkTypes, NeverBug, WorkAllocates
<1> QED BY <1>1, <1>3, <1>5, <1>6, <1>7, <1>8, <1>9, Zenon DEF Inv, Sums, Kept, Settled, CreditKept, QueuesSame

\* More requests may have come.
LEMMA WorkRereadsKeeps ==
  ASSUME Inv, WorkRereads
  PROVE  Inv'
<1> USE Constants
<1>1. Types'
  BY Zenon DEF Inv, Types, RingTypes, ListTypes, PollTypes, FlagTypes, RbaTypes, WorkTypes,
       nic, lists, poll, rba, WorkRereads
<1>2. UNCHANGED <<nic, lists, poll>>
  BY Zenon DEF nic, lists, poll, WorkRereads
<1>3. QueuesSame
  BY <1>2, NoQueueStep, Zenon
<1>4. TotalsNat
  BY TotalTypes, Zenon DEF Inv, TotalsNat, WorkRereads
<1>5. Backed'
  BY <1>3, <1>4, Zenon DEF Inv, Types, RingTypes, ListTypes, PollTypes, FlagTypes, RbaTypes,
       WorkTypes, Sums, Backed, QueuesSame, TotalsNat, rba, WorkRereads
<1>6. AllocatedMatch'
  BY <1>3, Zenon DEF Inv, Types, RingTypes, ListTypes, PollTypes, FlagTypes, RbaTypes,
       WorkTypes, Sums, AllocatedMatch, Readying, QueuesSame, rba, WorkRereads
<1>7. RequestsMatch'
  BY <1>3, Zenon DEF Inv, Types, RingTypes, ListTypes, PollTypes, FlagTypes, RbaTypes,
       WorkTypes, Sums, RequestsMatch, InWork, QueuesSame, rba, WorkRereads
<1>8. WorkInv'
  BY DEF Inv, Types, RbaTypes, WorkInv, rba, WorkRereads
<1>9. NeverBug'
  BY Zenon DEF Inv, Types, RingTypes, ListTypes, PollTypes, FlagTypes, RbaTypes, WorkTypes,
       NeverBug, WorkRereads
<1> QED BY <1>1, <1>3, <1>5, <1>6, <1>7, <1>8, <1>9, Zenon DEF Inv, Sums, Kept, Settled, CreditKept, QueuesSame

\* The result is handed over, and the list filled up.
LEMMA WorkSplicesKeeps ==
  ASSUME Inv, WorkSplices
  PROVE  Inv'
<1> USE Constants
<1>1. Types'
  BY DEF Inv, Types, RingTypes, ListTypes, PollTypes, FlagTypes, RbaTypes,
       WorkTypes, nic, lists, poll, WorkSplices
<1>2. UNCHANGED <<nic, lists, poll>>
  BY Zenon DEF nic, lists, poll, WorkSplices
<1>3. QueuesSame
  BY <1>2, NoQueueStep, Zenon
<1>4. TotalsNat
  BY TotalTypes, Zenon DEF Inv, TotalsNat, WorkSplices
<1>5. Backed'
  BY <1>3 DEF Inv, Types, RbaTypes, Sums, Backed, QueuesSame, WorkSplices
<1>6. AllocatedMatch'
  <2> DEFINE k == req_ready + Total(Taking)
  <2>1. k \in Int /\ Readying = 0 /\ Readying' = 1
    BY <1>4 DEF Inv, Types, RbaTypes, Readying, TotalsNat, WorkSplices
  <2>2. rbd_allocated = Claim * k
    BY <2>1 DEF Inv, Types, RbaTypes, Sums, AllocatedMatch
  <2>3. rbd_allocated' = rbd_allocated + Claim
    BY Zenon DEF Inv, WorkInv, WorkSplices
  <2>4. req_ready' + Readying' + Total(Taking)' = k + 1
    BY <2>1, <1>3, <1>4 DEF Inv, Types, RbaTypes, QueuesSame, TotalsNat,
         WorkSplices
  <2> HIDE DEF k
  <2>5. Claim * (k + 1) = Claim * k + Claim
    BY <2>1
  <2> QED BY <2>2, <2>3, <2>4, <2>5, Zenon DEF AllocatedMatch
<1>7. RequestsMatch'
  BY <1>3, Zenon DEF Inv, Types, RingTypes, ListTypes, PollTypes, FlagTypes, RbaTypes,
       WorkTypes, Sums, RequestsMatch, InWork, QueuesSame, rba, WorkSplices
<1>8. WorkInv'
  <2>1. rbd_empty + local_empty >= Claim * pending
    <3>1. Claim * req_pending >= Claim * pending
      BY DEF Inv, Types, RbaTypes, WorkTypes, WorkInv
    <3>2. Claim * req_pending \in Nat /\ Claim * pending \in Nat
      BY DEF Inv, Types, RbaTypes, WorkTypes
    <3> QED BY <1>4, <3>1, <3>2 DEF Inv, Types, RbaTypes, Sums, Backed,
         TotalsNat
  <2> QED BY <2>1 DEF Inv, Types, RbaTypes, WorkInv, WorkSplices
<1>9. NeverBug'
  BY Zenon DEF Inv, Types, RingTypes, ListTypes, PollTypes, FlagTypes, RbaTypes, WorkTypes,
       NeverBug, WorkSplices
<1> QED BY <1>1, <1>3, <1>5, <1>6, <1>7, <1>8, <1>9, Zenon DEF Inv, Sums, Kept, Settled, CreditKept, QueuesSame

\* The request is announced as ready.
LEMMA WorkReadyKeeps ==
  ASSUME Inv, WorkReady
  PROVE  Inv'
<1> USE Constants
<1>1. Types'
  BY DEF Inv, Types, RingTypes, ListTypes, PollTypes, FlagTypes, RbaTypes,
       WorkTypes, nic, lists, poll, rba, WorkReady
<1>2. UNCHANGED <<nic, lists, poll>>
  BY Zenon DEF nic, lists, poll, WorkReady
<1>3. QueuesSame
  BY <1>2, NoQueueStep, Zenon
<1>4. TotalsNat
  BY TotalTypes, Zenon DEF Inv, TotalsNat, WorkReady
<1>5. Backed'
  BY <1>3, <1>4, Zenon DEF Inv, Types, RingTypes, ListTypes, PollTypes, FlagTypes, RbaTypes,
       WorkTypes, Sums, Backed, QueuesSame, TotalsNat, rba, WorkReady
<1>6. AllocatedMatch'
  BY <1>3 DEF Inv, Sums, AllocatedMatch, Readying, QueuesSame, WorkReady
<1>7. RequestsMatch'
  BY <1>3 DEF Inv, Types, RbaTypes, Sums, RequestsMatch, InWork, QueuesSame,
       WorkReady
<1>8. WorkInv'
  BY Zenon DEF Inv, Types, RingTypes, ListTypes, PollTypes, FlagTypes, RbaTypes, WorkTypes,
       WorkInv, rba, WorkReady
<1>9. NeverBug'
  BY Zenon DEF Inv, Types, RingTypes, ListTypes, PollTypes, FlagTypes, RbaTypes, WorkTypes,
       NeverBug, WorkReady
<1> QED BY <1>1, <1>3, <1>5, <1>6, <1>7, <1>8, <1>9, Zenon DEF Inv, Sums, Kept, Settled, CreditKept, QueuesSame

\* The rest of the list goes back.
LEMMA WorkEndsKeeps ==
  ASSUME Inv, WorkEnds
  PROVE  Inv'
<1> USE Constants
<1>1. Types'
  BY DEF Inv, Types, RingTypes, ListTypes, PollTypes, FlagTypes, RbaTypes,
       WorkTypes, nic, lists, poll, rba, WorkEnds
<1>2. UNCHANGED <<nic, lists, poll>>
  BY Zenon DEF nic, lists, poll, WorkEnds
<1>3. QueuesSame
  BY <1>2, NoQueueStep, Zenon
<1>4. TotalsNat
  BY TotalTypes, Zenon DEF Inv, TotalsNat, WorkEnds
<1>5. Backed'
  BY <1>3 DEF Inv, Sums, Backed, QueuesSame, WorkEnds
<1>6. AllocatedMatch'
  BY <1>3, Zenon DEF Inv, Types, RingTypes, ListTypes, PollTypes, FlagTypes, RbaTypes,
       WorkTypes, Sums, AllocatedMatch, Readying, QueuesSame, rba, WorkEnds
<1>7. RequestsMatch'
  BY <1>3, Zenon DEF Inv, Types, RingTypes, ListTypes, PollTypes, FlagTypes, RbaTypes,
       WorkTypes, Sums, RequestsMatch, InWork, QueuesSame, rba, WorkEnds
<1>8. WorkInv'
  BY Zenon DEF Inv, Types, RingTypes, ListTypes, PollTypes, FlagTypes, RbaTypes, WorkTypes,
       WorkInv, rba, WorkEnds
<1>9. NeverBug'
  BY Zenon DEF Inv, Types, RingTypes, ListTypes, PollTypes, FlagTypes, RbaTypes, WorkTypes,
       NeverBug, WorkEnds
<1> QED BY <1>1, <1>3, <1>5, <1>6, <1>7, <1>8, <1>9, Zenon DEF Inv, Sums, Kept, Settled, CreditKept, QueuesSame

\* The device is stopped.
LEMMA StopDeviceKeeps ==
  ASSUME Inv, StopDevice
  PROVE  Inv'
<1>1. Types'
  <2>1. starts \in Nat /\ starts > 0 /\ starts' = starts - 1
    BY Zenon DEF Inv, Types, RingTypes, ListTypes, PollTypes, FlagTypes, RbaTypes, WorkTypes,
         StopDevice, nic, lists, poll, rba, work
  <2>2. starts' \in Nat
    BY <2>1
  <2> QED BY <2>2, Zenon DEF Inv, Types, RingTypes, ListTypes, PollTypes, FlagTypes,
       RbaTypes, WorkTypes, StopDevice, nic, lists, poll, rba, work
<1>2. QueuesSame
  BY NoQueueStep, Zenon DEF StopDevice, nic, lists, poll, rba, work
<1>3. Sums' /\ WorkInv' /\ NeverBug'
  BY <1>2, Zenon DEF Inv, Sums, Backed, AllocatedMatch, Readying, RequestsMatch, InWork, Kept,
       WorkInv, NeverBug, QueuesSame, StopDevice, nic, lists, poll, rba, work
<1> QED BY <1>1, <1>2, <1>3, Zenon DEF Inv, Settled, CreditKept, QueuesSame

----------------------------------------------------------------------------
(* Initial states. *)

\* The pools have just been handed out.
Fresh ==
    /\ Types /\ QueuesInv
    /\ ring = All(0) /\ used_bd = All(0) /\ rxbs = All(0) /\ rx_used = All(0)
    /\ free_count = [All(0) EXCEPT ![DefQ] = QSize - 1]
    /\ used_count = All(0) /\ emergency = All(FALSE)
    /\ pc = [All("idle") EXCEPT ![DefQ] = "restock"]
    /\ rbd_empty = PoolSize /\ rbd_allocated = 0 /\ req_pending = 0
    /\ req_ready = 0 /\ wpc = "idle" /\ local_empty = 0

\* What _iwl_pcie_rx_init() hands out: all pages to queue 0, and to the
\* allocator one deposit for each queue.
LEMMA FreshSums == Fresh => Sums /\ CreditKept
<1> SUFFICES ASSUME Fresh PROVE Sums /\ CreditKept
  BY Zenon
<1> USE Constants
<1>1. /\ Total(Lent) = 0 /\ Total(used_count) = 0 /\ Total(Taking) = 0
  <2>1. /\ SumTypes /\ used_count \in [Queues -> Nat]
        /\ \A q \in Queues : Lent[q] = 0 /\ used_count[q] = 0 /\ Taking[q] = 0
    BY FunTypes, Zenon DEF Types, RingTypes, ListTypes, PollTypes, FlagTypes, RbaTypes,
         WorkTypes, All, Lent, Taking, Fresh
  <2> QED BY <2>1, TotalZero, Zenon DEF SumTypes
<1>2. ASSUME NEW q \in Queues
      PROVE  Entitled[q] = 0 /\ Slack[q] = Claim - RX_POST_REQ_ALLOC
  <2> DEFINE x == Claim - RX_POST_REQ_ALLOC
  <2>1. x \in Int /\ 0 \in Int /\ x \in 0..(Claim - 1) /\ x = Claim * 0 + x
    OBVIOUS
  <2>2. /\ pc[q] \in {"idle", "restock"} /\ ~emergency[q]
        /\ rx_used[q] = 0 /\ Ahead(q) = x
    BY DEF All, Ahead, Fresh
  <2> HIDE DEF x
  <2>3. x % Claim = x /\ x \div Claim = 0
    BY <2>1, DivModUnique, Zenon
  <2>4. Entitled[q] = 0
    <3>1. Entitled[q] = (Ahead(q) \div Claim) - Moving(q)
      BY Zenon DEF Entitled, Ahead, Fresh
    <3>2. Moving(q) = 0
      BY <2>2, Zenon DEF Moving, Fresh
    <3> QED BY <2>2, <2>3, <3>1, <3>2
  <2>5. Slack[q] = x
    <3>1. Odd(q) = x /\ ~Direct(q) /\ pc[q] # "post"
      BY <2>2, <2>3, Zenon DEF Odd, Direct
    <3> QED BY <2>1, <2>2, <3>1 DEF Slack
  <2> QED BY <2>4, <2>5, Zenon DEF x
<1>3. Total(Entitled) = 0
  BY <1>2, FunTypes, TotalZero, Zenon DEF SumTypes, Fresh
<1>4. Total(Stock) = QSize - 1
  <2>1. /\ Stock \in [Queues -> Nat] /\ All(0) \in [Queues -> Nat]
        /\ \A q \in Queues \ {DefQ} : Stock[q] = All(0)[q]
        /\ Stock[DefQ] = QSize - 1 /\ All(0)[DefQ] = 0
    BY DEF WorkTypes, All, Stock, Fresh
  <2>2. Total(All(0)) = 0
    BY <2>1, TotalZero, Zenon DEF All, Fresh
  <2>3. Total(Stock) = Total(All(0)) - All(0)[DefQ] + Stock[DefQ]
    BY <2>1, TotalUpdate
  <2> QED BY <2>1, <2>2, <2>3
<1>5. Total(Slack) = PoolSize
  <2> DEFINE P == Claim - RX_POST_REQ_ALLOC
  <2>1. P \in Nat /\ PoolSize = Cardinality(Queues) * P
    BY DEF PoolSize, Claim, Fresh
  <2>2. Cells(Slack) = Queues \X (1..P)
    <3>1. DOMAIN Slack = Queues
      BY Zenon DEF Slack, Fresh
    <3> QED BY <1>2, <3>1 DEF Cells
  <2>3. IsFiniteSet(1..P) /\ Cardinality(1..P) = P
    <3> HIDE DEF P
    <3>1. 1 \in Int /\ P \in Int /\ (1 > P => P = 0)
      BY <2>1
    <3> QED BY <3>1, FS_Interval
  <2>4. Cardinality(Queues \X (1..P)) = Cardinality(Queues) * P
    BY <2>3, FS_Product, Zenon
  <2> QED BY <2>1, <2>2, <2>4, Zenon DEF Total
<1>6. Total(Slack) \in Nat
  BY TotalTypes, Zenon DEF Fresh
<1> QED BY <1>1, <1>3, <1>4, <1>5, <1>6 DEF Sums, Backed, AllocatedMatch,
     Readying, RequestsMatch, InWork, Kept, CreditKept, Fresh

\* The allocator's own stock of descriptors is a number.
LEMMA PoolSizeNat == PoolSize \in Nat
<1>1. Cardinality(Queues) \in Nat /\ Claim - RX_POST_REQ_ALLOC \in Nat
  BY Constants, FS_CardinalityType
<1> QED BY <1>1 DEF PoolSize, Claim

\* The initial states satisfy the invariant.
LEMMA InitInv == Init => Inv
<1> SUFFICES ASSUME Init PROVE Inv
  BY Zenon
<1> USE Constants
<1>1. PoolSize \in Nat
  BY PoolSizeNat, Zenon
<1>2. Types
  <2>1. /\ ring \in [Queues -> Nat] /\ hidden \in [Queues -> Nat]
        /\ used_bd \in [Queues -> Nat] /\ frags \in [Queues -> Nat]
        /\ free_count \in [Queues -> Nat] /\ rx_used \in [Queues -> Nat]
        /\ used_count \in [Queues -> Nat]
    BY DEF Init, All
  <2>2. /\ r \in [Queues -> Nat] /\ seen \in [Queues -> Nat]
        /\ count \in [Queues -> Nat] /\ rxbs \in [Queues -> Nat]
    BY Zenon DEF Init, All
  <2>3. /\ split \in [Queues -> BOOLEAN] /\ handled \in [Queues -> BOOLEAN]
        /\ emergency \in [Queues -> BOOLEAN] /\ pc \in [Queues -> QueuePcs]
    BY Zenon DEF Init, All, QueuePcs
  <2> QED BY <1>1, <2>1, <2>2, <2>3, Zenon DEF Init, Types, RingTypes, ListTypes,
       PollTypes, FlagTypes, RbaTypes, WorkTypes
<1>3. QueuesInv
  BY DEF Init, All, QueuesInv, QueueInv
<1>4. Sums /\ CreditKept
  BY <1>2, <1>3, FreshSums, Zenon DEF Init, Fresh
<1>5. WorkInv /\ NeverBug /\ \A q \in Queues : EmergencyInv(q)
  BY DEF Init, All, WorkInv, NeverBug, EmergencyInv
<1> QED BY <1>2, <1>3, <1>4, <1>5, Zenon DEF Inv, Settled

\* The same for the state a restart leads to.
LEMMA FreshSumsNext == Fresh' => Sums' /\ CreditKept'
BY FreshSums, PTL

\* The device is initialised again.
LEMMA RxInitKeeps ==
  ASSUME Inv, RxInit
  PROVE  Inv'
<1> USE Constants
<1>1. PoolSize \in Nat
  BY PoolSizeNat, Zenon
<1>2. /\ emergency = All(FALSE) /\ rxbs = All(0) /\ r = All(0)
      /\ local_empty = 0 /\ pending = 0 /\ local_allocated = 0
  <2>1. \A q \in Queues : ~emergency[q] /\ rxbs[q] = 0 /\ r[q] = 0
    BY Zenon DEF Inv, Types, RingTypes, ListTypes, PollTypes, FlagTypes, RbaTypes, WorkTypes,
         QueuesInv, QueueInv, RxInit, work
  <2>2. emergency = All(FALSE)
    BY <2>1, Zenon DEF Inv, Types, RingTypes, ListTypes, PollTypes, FlagTypes, RbaTypes,
         WorkTypes, All, RxInit, work
  <2>3. rxbs = All(0) /\ r = All(0)
    BY <2>1, Zenon DEF Inv, Types, RingTypes, ListTypes, PollTypes, FlagTypes, RbaTypes,
         WorkTypes, All, RxInit, work
  <2> QED BY <2>2, <2>3, Zenon DEF Inv, WorkInv, RxInit, work
<1>3. Types'
  <2>1. /\ ring' \in [Queues -> Nat] /\ hidden' \in [Queues -> Nat]
        /\ used_bd' \in [Queues -> Nat] /\ frags' \in [Queues -> Nat]
        /\ free_count' \in [Queues -> Nat] /\ rx_used' \in [Queues -> Nat]
        /\ used_count' \in [Queues -> Nat]
    BY DEF All, RxInit, work
  <2>2. split' \in [Queues -> BOOLEAN] /\ pc' \in [Queues -> QueuePcs]
    BY Zenon DEF All, QueuePcs, RxInit, work
  <2> QED BY <1>1, <2>1, <2>2, Zenon DEF Inv, Types, RingTypes, ListTypes, PollTypes,
       FlagTypes, RbaTypes, WorkTypes, RxInit, work
<1>4. QueuesInv'
  BY <1>2 DEF All, QueuesInv, QueueInv, RxInit
<1>5. Fresh'
  BY <1>2, <1>3, <1>4, Zenon DEF Fresh, All, RxInit, work
<1>6. Sums' /\ CreditKept'
  BY <1>5, FreshSumsNext, Zenon
<1>7. WorkInv' /\ NeverBug'
  BY DEF WorkInv, NeverBug, Inv, RxInit, work
<1>8. \A q \in Queues : EmergencyInv(q)'
  BY <1>2, Zenon DEF All, EmergencyInv, RxInit, work
<1> QED BY <1>3, <1>4, <1>6, <1>7, <1>8, Zenon DEF Inv, Settled

\* Every step of a poll, of the work item, of the NIC and of the device
\* preserves the invariant.
LEMMA NextInv == Inv /\ [Next]_vars => Inv'
<1> SUFFICES ASSUME Inv, [Next]_vars PROVE Inv'
  BY Zenon
<1>1. ASSUME NEW p \in Queues, NEW q \in Queues, NicFills(p, q) PROVE Inv'
  BY <1>1, NicFillsKeeps, Zenon
<1>2. ASSUME NEW q \in Queues, Poll(q) \/ PollStep(q) PROVE Inv'
  BY <1>2, PollKeeps, LoopEndsKeeps, LoopBeginsKeeps, EmergencyBeginsKeeps,
     RecycleKeptKeeps, RecycleTakenKeeps, PostKeeps, ClaimReadyKeeps,
     ClaimNothingKeeps, TakeKeeps, AllocRbsKeeps, RestockKeeps, Zenon DEF PollStep
<1>3. CASE Work
  BY <1>3, WorkBeginsKeeps, WorkSwapKeeps, WorkAllocatesKeeps,
     WorkRereadsKeeps, WorkSplicesKeeps, WorkReadyKeeps, WorkEndsKeeps, Zenon DEF Work
<1>4. CASE StopDevice
  BY <1>4, StopDeviceKeeps, Zenon
<1>5. CASE RxInit
  BY <1>5, RxInitKeeps, Zenon
<1>6. CASE UNCHANGED vars
  <2>1. UNCHANGED <<nic, lists, poll, rba, work, enabled, bug, starts>>
    BY <1>6, Zenon DEF vars
  <2>2. QueuesSame
    BY <2>1, NoQueueStep, Zenon
  <2>3. Types'
    BY <2>1, Zenon DEF Inv, Types, RingTypes, ListTypes, PollTypes, FlagTypes, RbaTypes,
         WorkTypes, nic, lists, poll, rba, work
  <2>4. Sums' /\ WorkInv' /\ NeverBug'
    BY <2>1, <2>2, Zenon DEF Inv, Sums, Backed, AllocatedMatch, Readying,
         RequestsMatch, InWork, Kept, WorkInv, NeverBug, QueuesSame, rba, work
  <2> QED BY <2>2, <2>3, <2>4, Zenon DEF Inv, Settled, CreditKept, QueuesSame
<1> QED BY <1>1, <1>2, <1>3, <1>4, <1>5, <1>6, Zenon DEF Next

\* The inductive invariant holds in every reachable state.
LEMMA SpecInv == Spec => []Inv
BY InitInv, NextInv, PTL DEF Spec

(* What the invariant gives. *)

\* The invariant contains the types.
LEMMA InvTypeOK == Inv => TypeOK
BY Zenon DEF Inv, Types, RingTypes, ListTypes, PollTypes, FlagTypes, RbaTypes, WorkTypes,
     TypeOK, QueuePcs

\* A ring holds no more than the stock, and the stock is at most QSize - 1.
LEMMA InvRingFits == Inv => RingFits
<1> SUFFICES ASSUME Inv, NEW q \in Queues PROVE ring[q] <= QSize - 1
  BY Zenon DEF RingFits
<1>1. Types /\ QueuesInv /\ SumTypes
  BY FunTypes, Zenon DEF Inv
<1>2. Total(Stock) \in Nat /\ Stock[q] <= Total(Stock)
  BY <1>1, TotalBounds, Constants, Zenon DEF SumTypes
<1>3. ring[q] <= Stock[q] /\ ring[q] \in Nat /\ Stock[q] \in Nat
  BY <1>1 DEF Types, RingTypes, ListTypes, PollTypes, Stock
<1>4. Total(Stock) <= QSize - 1
  BY TotalTypes, Constants DEF Inv, Sums, Kept
<1> QED BY <1>2, <1>3, <1>4, Constants

\* All variables of the receive path keep their types: no list length and no
\* counter of pcie/rx.c, req_pending and req_ready included, becomes negative.
THEOREM RxTypes == Spec => []TypeOK
BY SpecInv, InvTypeOK, PTL

\* The BUG_ON of iwl_pcie_rx_allocator() and the list that
\* iwl_pcie_rx_allocator_get() does not test: neither is ever hit, for any
\* number of queues and any RX_POST_REQ_ALLOC < RX_CLAIM_REQ_ALLOC, and also
\* when allocations in an emergency fail.
THEOREM AllocatorNeverBugs == Spec => []NeverBug
<1>1. Inv => NeverBug
  BY Zenon DEF Inv
<1> QED BY <1>1, SpecInv, PTL

\* iwl_pcie_rxmq_restock() never writes past the free part of a ring, although
\* it does not look at its space.
THEOREM RingsFit == Spec => []RingFits
BY SpecInv, InvRingFits, PTL

\* The requests that the queues are entitled to are those in req_pending, in
\* the work item and in req_ready.
THEOREM RequestsNeverLost == Spec => []RequestsMatch
<1>1. Inv => RequestsMatch
  BY Zenon DEF Inv, Sums
<1> QED BY <1>1, SpecInv, PTL

\* While allocations with GFP_ATOMIC succeed, the queues keep the claim to all
\* of their buffers.
THEOREM CreditIsKept == ASSUME ~AllocFails PROVE Spec => []CreditKept
<1>1. Inv => CreditKept
  BY Zenon DEF Inv, Settled
<1> QED BY <1>1, SpecInv, PTL

-----------------------------------------------------------------------------
(* RxAlloc implements RbPool.  CreditKept determines the stock from what is  *)
(* owed and lent, so only those two need be followed.                        *)

\* The stock changes by what the step of queue q takes off its two debts.
LEMMA StockStep ==
  ASSUME ~AllocFails, Inv, Inv', NEW q \in Queues,
         \A p \in Queues \ {q} : /\ used_count'[p] = used_count[p]
                                 /\ Lent'[p] = Lent[p]
  PROVE  Total(Stock)' = Total(Stock) + (used_count[q] - used_count'[q])
                                      + (Lent[q] - Lent'[q])
<1>1. SumTypes /\ SumTypes'
  BY FunTypes, FunTypesNext, Zenon DEF Inv
<1>2. used_count \in [Queues -> Nat] /\ used_count' \in [Queues -> Nat]
  BY Zenon DEF Inv, Types, RingTypes, ListTypes, PollTypes, FlagTypes, RbaTypes, WorkTypes
<1>3. Total(used_count') = Total(used_count) - used_count[q] + used_count'[q]
  BY <1>2, TotalUpdate, Constants
<1>4. Total(Lent') = Total(Lent) - Lent[q] + Lent'[q]
  BY <1>1, TotalUpdate, Constants DEF SumTypes
<1>5. /\ Total(Stock) \in Nat /\ Total(Lent) \in Nat
      /\ Total(used_count) \in Nat
  BY TotalTypes, Zenon DEF Inv
<1>6. Total(Stock') \in Nat
  BY <1>1, TotalType, Constants, Zenon DEF SumTypes
<1>7. /\ Total(Stock) + Total(used_count) + Total(Lent) = QSize - 1
      /\ Total(Stock') + Total(used_count') + Total(Lent') = QSize - 1
  BY Zenon DEF Inv, Settled, CreditKept
<1>8. /\ used_count[q] \in Nat /\ used_count'[q] \in Nat
      /\ Lent[q] \in Nat /\ Lent'[q] \in Nat
  BY <1>1, <1>2, Zenon DEF SumTypes
<1> QED BY <1>3, <1>4, <1>5, <1>6, <1>7, <1>8, Constants

\* A step that changes neither what is owed nor what is lent.
LEMMA StockStutters ==
  ASSUME ~AllocFails, Inv, Inv', used_count' = used_count, Lent' = Lent
  PROVE  UNCHANGED Pool!vars
<1>1. /\ Lent[DefQ] \in Nat /\ used_count[DefQ] \in Nat
      /\ Total(Stock) \in Nat
  BY FunTypes, TotalTypes, Constants, Zenon DEF Inv, Types, RingTypes, ListTypes, PollTypes,
       FlagTypes, RbaTypes, WorkTypes, SumTypes
<1>2. Total(Stock)' = Total(Stock)
  BY <1>1, StockStep, Constants
<1> QED BY <1>2, Zenon DEF Pool!vars

\* The steps of a poll that recycle no page and are paid none.
LEMMA PollStutters ==
  ASSUME ~AllocFails, Inv, Inv', NEW q \in Queues,
         \/ Poll(q) \/ LoopEnds(q) \/ LoopBegins(q) \/ EmergencyBegins(q)
         \/ RecycleKept(q) \/ Post(q) \/ ClaimReady(q) \/ ClaimNothing(q)
         \/ Restock(q)
  PROVE  UNCHANGED Pool!vars
<1>1. used_count' = used_count
  BY Zenon DEF Poll, LoopEnds, LoopBegins, EmergencyBegins, RecycleKept, Post,
       ClaimReady, ClaimNothing, Restock, nic, lists, rba, work, Goto
<1>2. SameLent
  BY PollKeeps, LoopEndsKeeps, LoopBeginsKeeps, EmergencyBeginsKeeps,
     RecycleKeptKeeps, PostKeeps, ClaimReadyKeeps, ClaimNothingKeeps, RestockKeeps, Zenon
<1>3. Lent' = Lent
  BY <1>2, Zenon DEF SameLent, Lent
<1> QED BY <1>1, <1>3, StockStutters, Zenon

\* iwl_pcie_rx_reuse_rbd(): the page of one buffer is lost to the stack.
LEMMA RecycleTakenLoses ==
  ASSUME ~AllocFails, Inv, Inv', NEW q \in Queues, RecycleTaken(q)
  PROVE  Pool!Lose(q)
<1>1. /\ pc[q] = "recycle" /\ pc'[q] # "alloc" /\ emergency' = emergency
      /\ used_count' = [used_count EXCEPT
                          ![q] = IF emergency[q] THEN @ ELSE used_count[q] + 1]
      /\ emergency[q] => rx_used' = [rx_used EXCEPT ![q] = @ + 1]
      /\ \A p \in Queues \ {q} : rx_used'[p] = rx_used[p] /\ pc'[p] = pc[p]
  BY DEF RecycleTaken, Goto, AfterRecycle, Inv, Types, ListTypes, FlagTypes
<1>2. CASE emergency[q]
  <2>1. used_count' = used_count
    BY <1>1, <1>2, Zenon DEF Inv, Types, RingTypes, ListTypes, PollTypes, FlagTypes, RbaTypes,
         WorkTypes
  <2>2. Lent' = [Lent EXCEPT ![q] = @ + 1]
    BY <1>1, <1>2, Zenon DEF Lent, Inv, Types, RingTypes, ListTypes, PollTypes,
         FlagTypes, RbaTypes, WorkTypes
  <2>3. Lent[q] \in Nat /\ Lent'[q] = Lent[q] + 1 /\ used_count[q] \in Nat
    BY <2>2, FunTypes, Zenon DEF Inv, Types, RingTypes, ListTypes, PollTypes, FlagTypes,
         RbaTypes, WorkTypes, SumTypes, Lent
  <2>4. \A p \in Queues \ {q} : Lent'[p] = Lent[p]
    BY <2>2, Zenon DEF Lent
  <2>5. Total(Stock)' = Total(Stock) + (used_count[q] - used_count'[q])
                                     + (Lent[q] - Lent'[q])
    BY <2>1, <2>4, StockStep, Zenon
  <2>6. Total(Stock) \in Nat /\ Total(Stock') \in Nat
    BY FunTypesNext, TotalTypes, TotalType, Constants, Zenon DEF Inv, SumTypes
  <2> QED BY <2>1, <2>2, <2>3, <2>5, <2>6 DEF Pool!Lose
<1>3. CASE ~emergency[q]
  <2>1. used_count' = [used_count EXCEPT ![q] = @ + 1]
    BY <1>1, <1>3, Zenon
  <2>2. Lent' = Lent
    BY <1>1, <1>3, Zenon DEF Lent, Inv, Types, RingTypes, ListTypes, PollTypes, FlagTypes,
         RbaTypes, WorkTypes
  <2>3. /\ Lent[q] \in Nat /\ used_count[q] \in Nat
        /\ used_count'[q] = used_count[q] + 1
        /\ \A p \in Queues \ {q} : used_count'[p] = used_count[p]
    BY <2>1, FunTypes, Zenon DEF Inv, Types, RingTypes, ListTypes, PollTypes, FlagTypes,
         RbaTypes, WorkTypes, SumTypes
  <2>4. Total(Stock)' = Total(Stock) + (used_count[q] - used_count'[q])
                                     + (Lent[q] - Lent'[q])
    BY <2>2, <2>3, StockStep, Zenon
  <2>5. Total(Stock) \in Nat /\ Total(Stock') \in Nat
    BY FunTypesNext, TotalTypes, TotalType, Constants, Zenon DEF Inv, SumTypes
  <2> QED BY <2>1, <2>2, <2>3, <2>4, <2>5 DEF Pool!Lose
<1> QED BY <1>2, <1>3, Zenon

\* iwl_pcie_rx_allocator_get(): a queue is paid RX_CLAIM_REQ_ALLOC buffers.
LEMMA TakePays ==
  ASSUME ~AllocFails, Inv, Inv', NEW q \in Queues, Take(q)
  PROVE  Pool!Pay(q)
<1>1. used_count' = [used_count EXCEPT ![q] = @ - Claim]
  BY Zenon DEF Take
<1>2. Lent' = Lent
  <2>1. ASSUME NEW p \in Queues PROVE Lent'[p] = Lent[p]
    <3>1. /\ pc[q] = "take" /\ rx_used' = rx_used /\ NextFrame(q)
          /\ emergency \in [Queues -> BOOLEAN] /\ pc \in [Queues -> QueuePcs]
      BY Zenon DEF Take, Inv, Types, FlagTypes
    <3>2. Lent[p] = (IF emergency[p] \/ pc[p] = "alloc" THEN rx_used[p] ELSE 0)
      BY Zenon DEF Lent
    <3>3. Lent'[p] = (IF emergency'[p] \/ pc'[p] = "alloc" THEN rx_used'[p] ELSE 0)
      BY Zenon DEF Lent
    <3>4. (emergency'[p] \/ pc'[p] = "alloc") <=> (emergency[p] \/ pc[p] = "alloc")
      <4>1. CASE p # q
        <5>1. emergency'[p] = emergency[p] /\ pc'[p] = pc[p]
          BY <3>1, <4>1, Zenon DEF NextFrame, Goto
        <5> QED BY <5>1, Zenon
      <4>2. CASE p = q /\ emergency[q] /\ count[q] >= Block
        <5>1. pc' = [pc EXCEPT ![q] = "alloc"]
          BY <3>1, <4>2, Zenon DEF NextFrame, Goto
        <5>2. pc'[q] = "alloc"
          BY <3>1, <5>1, Zenon
        <5> QED BY <4>2, <5>2, Zenon
      <4>3. CASE p = q /\ ~(emergency[q] /\ count[q] >= Block)
        <5>1. pc' = [pc EXCEPT ![q] = "loop"] /\ emergency' = emergency
          BY <3>1, <4>3, Zenon DEF NextFrame, Goto
        <5>2. pc'[q] = "loop"
          BY <3>1, <5>1, Zenon
        <5> QED BY <3>1, <4>3, <5>1, <5>2, Zenon
      <4> QED BY <4>1, <4>2, <4>3, Zenon
    <3> QED BY <3>1, <3>2, <3>3, <3>4, Zenon
  <2> QED BY <2>1, Zenon DEF Lent
<1>3. /\ Lent[q] \in Nat /\ used_count[q] \in Nat /\ used_count[q] >= Claim
      /\ used_count'[q] = used_count[q] - Claim
      /\ \A p \in Queues \ {q} : used_count'[p] = used_count[p]
  <2>1. SumTypes
    BY FunTypes, Zenon DEF Inv
  <2>2. Lent[q] \in Nat /\ used_count \in [Queues -> Nat] /\ pc[q] = "take" /\ QueueInv(q)
    BY <2>1, Zenon DEF Take, Inv, Types, ListTypes, SumTypes, QueuesInv
  <2>3. used_count[q] >= Claim
    BY <2>2, Zenon DEF QueueInv
  <2> QED BY <1>1, <2>2, <2>3
<1>4. Total(Stock)' = Total(Stock) + (used_count[q] - used_count'[q])
                                   + (Lent[q] - Lent'[q])
  BY <1>2, <1>3, StockStep, Zenon
<1>5. Total(Stock) \in Nat
  BY TotalTypes, Zenon DEF Inv
<1> QED BY <1>1, <1>2, <1>3, <1>4, <1>5, Constants DEF Pool!Pay

\* iwl_pcie_rxq_alloc_rbs() gives back all that was lent in the emergency.
LEMMA AllocRbsRepays ==
  ASSUME ~AllocFails, Inv, Inv', NEW q \in Queues, AllocRbs(q)
  PROVE  (\E n \in 1..(QSize - 1) : Pool!Repay(q, n)) \/ UNCHANGED Pool!vars
<1> DEFINE n == rx_used[q]
<1>1. /\ used_count' = used_count /\ emergency' = emergency
      /\ rx_used' = [rx_used EXCEPT ![q] = 0]
      /\ pc' = [pc EXCEPT ![q] = IF pc[q] = "alloc" THEN "restock_again"
                                                   ELSE "restock"]
      /\ pc[q] \in {"alloc", "alloc_out"}
      /\ n \in Nat
  <2>1. PICK m \in 0..rx_used[q] :
           /\ m = rx_used[q] \/ AllocFails
           /\ rx_used' = [rx_used EXCEPT ![q] = @ - m]
    BY Zenon DEF AllocRbs
  <2>2. rx_used' = [rx_used EXCEPT ![q] = 0] /\ n \in Nat
    <3>1. m = rx_used[q] /\ rx_used[q] \in Nat
      BY <2>1, Zenon DEF Inv, Types, RingTypes, ListTypes, PollTypes, FlagTypes, RbaTypes,
           WorkTypes
    <3>2. rx_used[q] - m = 0
      BY <3>1
    <3> QED BY <2>1, <3>1, <3>2, Zenon
  <2>3. /\ used_count' = used_count /\ emergency' = emergency
        /\ pc[q] \in {"alloc", "alloc_out"}
    BY Zenon DEF AllocRbs
  <2>4. pc' = [pc EXCEPT ![q] = IF pc[q] = "alloc" THEN "restock_again"
                                                  ELSE "restock"]
    BY Zenon DEF AllocRbs, Goto
  <2> QED BY <2>2, <2>3, <2>4, Zenon
<1>2. Lent[q] = n
  BY <1>1, Zenon DEF Inv, QueuesInv, QueueInv, Lent
<1>3. Lent' = [Lent EXCEPT ![q] = @ - n]
  <2>1. ASSUME NEW p \in Queues PROVE Lent'[p] = [Lent EXCEPT ![q] = @ - n][p]
    BY <1>1, <1>2 DEF Inv, Types, ListTypes, Lent
  <2> QED BY <2>1, Zenon DEF Lent
<1>4. Lent'[q] = 0 /\ \A p \in Queues \ {q} : Lent'[p] = Lent[p]
  BY <1>1, <1>3 DEF Lent
<1>5. /\ Total(Stock) \in Nat /\ Total(used_count) \in Nat
      /\ Total(Lent) \in Nat /\ Lent[q] <= Total(Lent)
  BY FunTypes, TotalTypes, TotalBounds, Constants, Zenon DEF Inv, SumTypes
<1>6. n <= QSize - 1
  BY <1>1, <1>2, <1>5 DEF Inv, Settled, CreditKept
<1>7. Total(Stock)' = Total(Stock) + (used_count[q] - used_count'[q])
                                   + (Lent[q] - Lent'[q])
  BY <1>1, <1>4, StockStep, Zenon
<1>8. used_count[q] \in Nat
  BY Zenon DEF Inv, Types, RingTypes, ListTypes, PollTypes, FlagTypes, RbaTypes, WorkTypes
<1>9. CASE n = 0
  <2>1. Lent \in [Queues -> Nat] /\ Lent' \in [Queues -> Nat]
    BY FunTypes, FunTypesNext, Zenon DEF Inv, SumTypes
  <2>2. Lent' = Lent
    BY <1>2, <1>4, <1>9, <2>1
  <2> QED BY <1>1, <2>2, StockStutters, Zenon
<1>10. CASE n # 0
  <2>1. n \in 1..(QSize - 1)
    BY <1>1, <1>6, <1>10
  <2>2. Pool!Repay(q, n)
    BY <1>1, <1>2, <1>3, <1>4, <1>5, <1>7, <1>8 DEF Pool!Repay
  <2> QED BY <2>1, <2>2, Zenon
<1> QED BY <1>9, <1>10, Zenon

\* The pools _iwl_pcie_rx_init() hands out are the initial state of RbPool.
LEMMA InitPool == Init => Pool!Init
<1> SUFFICES ASSUME Init PROVE Pool!Init
  BY Zenon
<1>1. Inv
  BY InitInv, Zenon
<1>2. used_count = Pool!None /\ Lent = Pool!None
  <2>1. used_count = Pool!None
    BY Zenon DEF Init, All, Pool!None
  <2>2. ASSUME NEW q \in Queues PROVE Lent[q] = 0
    <3>1. ~emergency[q] /\ pc[q] # "alloc"
      BY Constants, Zenon DEF Init, All
    <3> QED BY <3>1, Zenon DEF Lent
  <2> QED BY <2>1, <2>2, Zenon DEF Lent, Pool!None
<1>3. Total(Stock) = QSize - 1
  <2>1. Fresh
    BY <1>1, Zenon DEF Init, Fresh, Inv
  <2>2. /\ used_count \in [Queues -> Nat] /\ Lent \in [Queues -> Nat]
        /\ \A q \in Queues : used_count[q] = 0 /\ Lent[q] = 0
    BY <1>1, <1>2, FunTypes, Zenon DEF Inv, Types, RingTypes, ListTypes, PollTypes, FlagTypes,
         RbaTypes, WorkTypes, SumTypes, Pool!None
  <2>3. Total(used_count) = 0 /\ Total(Lent) = 0
    BY <2>2, TotalZero, Constants, Zenon
  <2>4. Total(Stock) \in Nat
    BY <1>1, TotalTypes, Zenon DEF Inv
  <2> QED BY <2>1, <2>3, <2>4, FreshSums DEF CreditKept
<1> QED BY <1>2, <1>3, Zenon DEF Pool!Init

\* Every step is a step of the ledger or none.
LEMMA StepPool ==
  ASSUME ~AllocFails
  PROVE  Inv /\ Inv' /\ [Next]_vars => [Pool!Next]_(Pool!vars)
<1> SUFFICES ASSUME Inv, Inv', [Next]_vars PROVE [Pool!Next]_(Pool!vars)
  BY Zenon
<1>1. ASSUME NEW p \in Queues, NEW q \in Queues, NicFills(p, q)
      PROVE  UNCHANGED Pool!vars
  <2>1. used_count' = used_count /\ Lent' = Lent
    BY <1>1, Zenon DEF NicFills, lists, poll, Lent
  <2> QED BY <2>1, StockStutters, Zenon
<1>2. ASSUME NEW q \in Queues, Poll(q) \/ PollStep(q)
      PROVE  [Pool!Next]_(Pool!vars)
  <2>1. CASE RecycleTaken(q)
    BY <2>1, RecycleTakenLoses, Zenon DEF Pool!Next
  <2>2. CASE Take(q)
    BY <2>2, TakePays, Zenon DEF Pool!Next
  <2>3. CASE AllocRbs(q)
    BY <2>3, AllocRbsRepays, Zenon DEF Pool!Next
  <2>4. CASE ~(RecycleTaken(q) \/ Take(q) \/ AllocRbs(q))
    BY <1>2, <2>4, PollStutters, Zenon DEF PollStep
  <2> QED BY <2>1, <2>2, <2>3, <2>4, Zenon
<1>3. CASE Work \/ StopDevice \/ UNCHANGED vars
  <2>1. used_count' = used_count /\ Lent' = Lent
    BY <1>3, Zenon DEF Work, WorkBegins, WorkSwap, WorkAllocates, WorkRereads,
         WorkSplices, WorkReady, WorkEnds, StopDevice, vars, lists, poll, Lent
  <2> QED BY <2>1, StockStutters, Zenon
<1>4. CASE RxInit
  <2>1. \A q \in Queues : ~emergency[q]
    BY <1>4, Zenon DEF RxInit, Inv, QueuesInv, QueueInv
  <2>2. used_count' = Pool!None /\ Lent' = Pool!None
    BY <1>4, <2>1, Constants, Zenon DEF RxInit, All, Lent, Pool!None
  <2>3. /\ used_count' \in [Queues -> Nat] /\ Lent' \in [Queues -> Nat]
        /\ \A q \in Queues : used_count'[q] = 0 /\ Lent'[q] = 0
        /\ Total(Stock') \in Nat
    BY <2>2, FunTypesNext, TotalType, Constants, Zenon DEF Inv, Types, RingTypes, ListTypes,
         PollTypes, FlagTypes, RbaTypes, WorkTypes, SumTypes, Pool!None
  <2>4. Total(used_count') = 0 /\ Total(Lent') = 0
    BY <2>3, TotalZero, Constants, Zenon
  <2>5. Total(Stock)' = QSize - 1
    BY <2>3, <2>4 DEF Inv, Settled, CreditKept
  <2> QED BY <2>2, <2>5, Zenon DEF Pool!Next, Pool!Reset
<1> QED BY <1>1, <1>2, <1>3, <1>4, Zenon DEF Next

\* The receive path implements the ledger of RbPool, for any number of queues
\* and any sizes, while allocations with GFP_ATOMIC succeed: polls, work item,
\* NIC and restarts together only lose, pay, repay and reset.
THEOREM RxImplementsPool == ASSUME ~AllocFails PROVE Spec => ImplementsPool
<1>1. Inv /\ Inv' /\ [Next]_vars => [Pool!Next]_(Pool!vars)
  BY StepPool, Zenon
<1> QED BY <1>1, InitPool, SpecInv, PTL DEF Spec, ImplementsPool, Pool!Spec

=============================================================================
