--------------------------- MODULE ReorderOrder ----------------------------
(***************************************************************************)
(* Every step of the reorder buffer that releases frames or takes one in   *)
(* keeps the order of the frames, and loses none: the steps that release   *)
(* share Released; those that place a frame come after.                    *)
(***************************************************************************)
EXTENDS ReorderSteps

(* Some of the steps below need more than the five seconds of the default. *)
USE SMTT(30)

----------------------------------------------------------------------------
(* The steps that release frames.                                          *)

(* The step leads to a state in order, with the head at MPDU g.            *)
Goes(g) == Kept' /\ InOrder' /\ Ordered(g)'

(* A slot stays in order when it is left alone.                            *)
LEMMA SlotStays ==
    ASSUME NEW h, NEW s, SlotOK(h, s), reorder'[s] = reorder[s]
    PROVE  SlotOK(h, s)'
  BY DEF SlotOK

(* An emptied slot is in order.                                            *)
LEMMA SlotEmptied ==
    ASSUME NEW h, NEW s, reorder'[s] = <<>> PROVE SlotOK(h, s)'
  BY DEF SlotOK

(* What was passed up stays in order when nothing is added.                *)
LEMMA OutStays ==
    ASSUME NEW h, InOrder, OutOK(h), out' = out
    PROVE  InOrder' /\ OutOK(h)'
  BY InOrderStays, Zenon DEF OutOK

(* The types of what is compared.                                          *)
LEMMA Ranges ==
    ASSUME Inv, Shapes
    PROVE  /\ skb.n \in Nat /\ win \in Nat /\ seen \subseteq Nat
           /\ BufSize \in Nat /\ BufSize >= 1 /\ Half \in Int
           /\ SN_MODULO \div 2 \in Int /\ Half <= SN_MODULO \div 2 + 1
<1>1. skb.n \in Nat /\ win \in Nat /\ seen \subseteq Nat
  BY ReorderAssumption DEF Inv, Types, Shapes, Lists, Skb, Frames
<1> QED  BY <1>1, Positive, Halves

(* When stored_mpdu_num is zero, no slot is ready.                         *)
LEMMA NoneReady ==
    ASSUME Inv, life # "freed", stored_mpdu_num = 0
    PROVE  \A s \in Slots : ~ieee80211_rx_reorder_ready(s)
  BY Zenon DEF Inv, NoneStored, ReadySlots

(* The complete frame in the slot of an MPDU of the window is that MPDU.   *)
LEMMA LastIs ==
    ASSUME HalfRange, Inv, NEW h \in Nat, NEW i \in Slots, SlotOK(h, i),
           ieee80211_rx_reorder_ready(i), NEW x \in Int, h <= x, x < h + BufSize,
           Index(Sn(x)) = i
    PROVE  reorder[i][Len(reorder[i])].n = x /\ x \in Numbers(reorder[i])
<1> DEFINE m == reorder[i][Len(reorder[i])].n
<1>1. m \in Nat /\ m >= h /\ m < h + BufSize /\ Index(Sn(m)) = i
  BY LastOfSlot, Zenon
<1>2. BufSize \in Int
  BY Positive
<1>3. Len(reorder[i]) \in 1 .. Len(reorder[i])
  BY ReadyList, Zenon DEF ieee80211_rx_reorder_ready
<1>4. m \in Numbers(reorder[i])
  BY <1>3, Zenon DEF Numbers
<1> HIDE DEF m
<1>5. m \in Int /\ m - x < BufSize /\ x - m < BufSize
  BY <1>1, <1>2
<1>6. m = x
  BY <1>1, <1>5, SlotApart, Zenon DEF HalfRange
<1> QED  BY <1>4, <1>6, Zenon DEF m

(* A complete frame makes its slot ready and lies in the window.           *)
LEMMA CompleteAt ==
    ASSUME Inv, NEW h \in Nat, NEW s \in Slots, SlotOK(h, s),
           NEW k \in 1 .. Len(reorder[s]), ~reorder[s][k].more
    PROVE  /\ ieee80211_rx_reorder_ready(s) /\ Index(Sn(reorder[s][k].n)) = s
           /\ reorder[s][k].n \in Nat /\ reorder[s][k].n >= h /\ reorder[s][k].n < h + BufSize
<1>1. Len(reorder[s]) \in Nat /\ reorder[s][k].n \in Nat
  BY ReadyList, Zenon
<1>2. k = Len(reorder[s])
  BY <1>1 DEF SlotOK
<1>3. reorder[s] # <<>>
  BY <1>1
<1> QED  BY <1>1, <1>2, <1>3, Zenon DEF SlotOK, ieee80211_rx_reorder_ready

(* Outside the slot of the head, complete frames come after the head.      *)
LEMMA HeadLeaves ==
    ASSUME HalfRange, Inv, NEW h \in Nat, \A s \in Slots : SlotOK(h, s)
    PROVE  \A s \in Slots \ {Index(Sn(h))} : \A k \in 1 .. Len(reorder[s]) :
               ~reorder[s][k].more => reorder[s][k].n >= h + 1
<1> SUFFICES ASSUME NEW s \in Slots \ {Index(Sn(h))}, NEW k \in 1 .. Len(reorder[s]),
                    ~reorder[s][k].more
             PROVE  reorder[s][k].n >= h + 1
  BY Zenon
<1>1. reorder[s][k].n \in Nat /\ reorder[s][k].n >= h /\ Index(Sn(reorder[s][k].n)) = s
  BY CompleteAt, Zenon
<1>2. reorder[s][k].n # h
  BY <1>1, Zenon
<1> QED  BY <1>1, <1>2

(* Releasing the frames that are in order keeps the order.                 *)
LEMMA RunStep ==
    ASSUME HalfRange, Inv, Shapes, Sender, Kept, InOrder, NEW h \in Nat,
           Ordered(h), ReleaseRun
    PROVE  \E g \in Nat : Goes(g)
<1> DEFINE i == Index(head_seq_num)
<1>0. /\ op = "run" /\ life # "freed" /\ head_seq_num = Sn(h) /\ i = Index(Sn(h)) /\ i \in Slots
      /\ UNCHANGED <<started, life, target, then, step, skb, more, win, seen, j, skipped, lock>>
  <2>1. op = "run" /\ head_seq_num = Sn(h)
    BY Zenon DEF ReleaseRun, Ordered, HeadOK
  <2>2. life # "freed"
    BY <2>1, Zenon DEF Inv, Control, Actors
  <2> QED  BY <2>1, <2>2, SlotSame DEF ReleaseRun, originator, HalfRange
<1>R. /\ skb.n \in Nat /\ win \in Nat /\ seen \subseteq Nat
      /\ BufSize \in Nat /\ BufSize >= 1 /\ Half \in Int
  BY Ranges, Zenon
<1>1. CASE ieee80211_rx_reorder_ready(i)
  <2>1. /\ head_seq_num' = ieee80211_sn_inc(head_seq_num) /\ op' = op
        /\ out' = out \o reorder[i] /\ late' = late
        /\ reorder' = [reorder EXCEPT ![i] = <<>>]
    BY <1>1, Zenon DEF ReleaseRun, ieee80211_release_reorder_frame, Give
  <2>2. head_seq_num' = Sn(h + 1) /\ h + 1 \in Nat
    BY <1>0, <2>1, SnInc
  <2>3. reorder[i][Len(reorder[i])].n = h /\ h \in Numbers(reorder[i])
    <3>1. h \in Int /\ h <= h /\ h < h + BufSize
      BY <1>R
    <3> QED  BY <1>0, <1>1, <3>1, LastIs, Zenon DEF Ordered
  <2>4. h \in seen
    BY <1>0, <2>3, Zenon DEF Kept, Stored
  <2>5. reorder' = [s \in Slots |-> IF s \in {i} THEN <<>> ELSE reorder[s]]
    BY <2>1, <1>0, Zenon DEF Inv, Types
  <2> DEFINE g == h + 1
  <2>6. \A s \in Slots \ {i} : \A k \in 1 .. Len(reorder[s]) :
               ~reorder[s][k].more => reorder[s][k].n >= g
    BY <1>0, HeadLeaves, Zenon DEF Ordered
  <2>7. g \in Nat /\ h < g /\ reorder[i][Len(reorder[i])].n < g
    BY <2>3
  <2> HIDE DEF g
  <2>8. /\ InOrder' /\ OutOK(g)' /\ (\A s \in Slots : SlotOK(g, s))' /\ Kept'
        /\ Numbers(out') \subseteq Numbers(out) \cup Numbers(reorder[i])
        /\ \A s \in Slots : Numbers(reorder'[s]) \subseteq Numbers(reorder[s])
        /\ \A s \in Slots : ieee80211_rx_reorder_ready(s)' => ieee80211_rx_reorder_ready(s)
        /\ Numbers(out) \cup Stored \cup late \subseteq Numbers(out') \cup Stored' \cup late'
    <3>1. {i} \in SUBSET Slots /\ i \in {i} /\ late \subseteq late' /\ seen' = seen
          /\ \A s \in {i} \ {i} : Numbers(reorder[s]) \subseteq late'
      BY <1>0, <2>1, Zenon
    <3>2. OutOK(h) /\ \A s \in Slots : SlotOK(h, s)
      BY Zenon DEF Ordered
    <3> QED  BY <1>1, <2>1, <2>5, <2>6, <2>7, <3>1, <3>2, Released, Zenon
  <2>9. ~Placing /\ ~Placing' /\ (Carried' <=> Carried)
    BY <1>0, <2>1, Zenon DEF Placing, Carried, Pending
  <2>10. HeadOK(g)'
    <3>1. Carried => h <= skb.n + BufSize
      BY <2>4, Zenon DEF Sender
    <3>2. step["rx"] = "bar" => h <= skb.n + BufSize - 1
      BY <2>4, Zenon DEF Sender
    <3>3. Carried => g <= skb.n + BufSize + 1 /\ skb.n < g + Half
      BY <1>R, <2>7, <3>1 DEF Ordered, HeadOK, g
    <3>4. step["rx"] = "bar" => g <= skb.n + BufSize /\ skb.n < g + Half
      BY <1>R, <2>7, <3>2 DEF Ordered, HeadOK, g
    <3>5. \A k \in seen : k < g + BufSize
      <4>1. \A k \in seen : k \in Nat /\ k < h + BufSize
        BY <1>0, <1>R, Zenon DEF Ordered, HeadOK
      <4> QED  BY <1>R, <2>7, <4>1
    <3>6. \E k \in seen : g <= k + 1
      BY <2>4 DEF g
    <3> QED  BY <1>0, <2>1, <2>2, <2>9, <3>3, <3>4, <3>5, <3>6, Zenon DEF HeadOK, g
  <2>11. started
    BY <1>0, <1>1, Zenon DEF Ordered, NotStarted, ieee80211_rx_reorder_ready
  <2>13. Acc'
    BY <1>0, <2>8, <2>9, Zenon DEF Ordered, Acc
  <2>14. NotStarted(g)'
    BY <1>0, <2>11, Zenon DEF NotStarted
  <2> QED  BY <2>7, <2>8, <2>10, <2>13, <2>14, Zenon DEF Goes, Ordered
<1>2. CASE ~ieee80211_rx_reorder_ready(i)
  <2>1. /\ UNCHANGED <<head_seq_num, stored_mpdu_num, reorder, out, late, auto_seq>>
        /\ op' = "rearm"
    BY <1>2, Zenon DEF ReleaseRun
  <2>2. Kept' /\ InOrder' /\ OutOK(h)' /\ (\A s \in Slots : SlotOK(h, s))'
    BY <1>0, <2>1, StillKeeps, Zenon DEF Ordered, Still
  <2>3. ~Placing /\ ~Placing' /\ (Carried' <=> Carried)
    BY <1>0, <2>1, Zenon DEF Placing, Carried, Pending
  <2>4. HeadOK(h)' /\ NotStarted(h)'
    BY <1>0, <2>1, <2>3, Zenon DEF Ordered, HeadOK, NotStarted
  <2>5. Acc'
    BY <1>0, <2>1, <2>3 DEF Ordered, Acc, Numbers, Stored,
       ieee80211_rx_reorder_ready
  <2> QED  BY <2>2, <2>4, <2>5, Zenon DEF Goes, Ordered
<1> QED  BY <1>1, <1>2, Zenon

(* The search for timed-out frames releases slot j, whose frame is the     *)
(* head plus the number of slots skipped, and drops what it skipped.       *)
LEMMA ScanTo ==
    ASSUME HalfRange, Inv, Shapes, Sender, Kept, InOrder, NEW h \in Nat,
           Ordered(h), ScanReleases,
           NEW x \in Nat, x = h + skipped
    PROVE  Goes(x + 1)
<1> DEFINE g == x + 1
<1>R. /\ skb.n \in Nat /\ win \in Nat /\ seen \subseteq Nat
      /\ BufSize \in Nat /\ BufSize >= 1 /\ Half \in Int
  BY Ranges, Zenon
<1>1. /\ op = "scan" /\ j # index /\ ieee80211_rx_reorder_ready(j) /\ j \in Slots
      /\ out' = out \o reorder[j] /\ late' = late \cup Lost
      /\ reorder' = [s \in Slots |-> IF s \in Purged \cup {j} THEN <<>> ELSE reorder[s]]
      /\ head_seq_num' = ieee80211_sn_add(ieee80211_sn_inc(head_seq_num), skipped)
      /\ skipped' = 0 /\ j' = Next1(j)
      /\ UNCHANGED <<started, life, op, target, then, step, skb, more, win, seen, lock>>
  BY Zenon DEF ScanReleases, Give, originator, Inv, Types
<1>2. life # "freed" /\ head_seq_num = Sn(h) /\ j = Index(Sn(x))
  BY <1>1, Zenon DEF Inv, Control, Actors, Ordered, HeadOK
<1>3. skipped \in Nat /\ skipped < BufSize
  <2>1. skipped \in Nat /\ skipped <= Dist(index, j)
    BY <1>1 DEF Shapes, Scalars
  <2>2. Dist(index, j) < BufSize /\ Dist(index, j) \in 1 .. BufSize
    BY <1>1, DistStep, Zenon DEF Inv, Types
  <2> QED  BY <1>R, <2>1, <2>2
<1>4. /\ x \in Nat /\ h <= x /\ x < h + BufSize /\ g \in Nat /\ h < g /\ x < g
      /\ g = (h + 1) + skipped /\ g + 0 = g
  BY <1>R, <1>3
<1>5. head_seq_num' = Sn(g)
  <2>1. ieee80211_sn_inc(Sn(h)) = Sn(h + 1) /\ h + 1 \in Int /\ skipped \in Int
    BY <1>3, SnInc
  <2>2. ieee80211_sn_add(Sn(h + 1), skipped) = Sn((h + 1) + skipped)
    BY <2>1, SnAdd, Zenon
  <2> QED  BY <1>1, <1>2, <1>4, <2>1, <2>2, Zenon
<1>6. j' = Index(Sn(g + 0))
  <2>1. Index(Sn(x + 1)) = Next1(Index(Sn(x)))
    BY <1>4, SlotNext DEF HalfRange
  <2> QED  BY <1>1, <1>2, <1>4, <2>1, Zenon
<1> HIDE DEF g
<1>7. reorder[j][Len(reorder[j])].n = x /\ x \in Numbers(reorder[j])
  BY <1>1, <1>2, <1>4, LastIs DEF Ordered
<1>8. x \in seen
  BY <1>1, <1>7, Zenon DEF Kept, Stored
<1>9. ASSUME NEW s \in Slots \ (Purged \cup {j}), NEW k \in 1 .. Len(reorder[s]),
             ~reorder[s][k].more
      PROVE  reorder[s][k].n >= g
  <2> DEFINE n == reorder[s][k].n
  <2>1. /\ ieee80211_rx_reorder_ready(s) /\ Index(Sn(n)) = s
        /\ n \in Nat /\ n >= h /\ n < h + BufSize
    BY <1>9, CompleteAt, Zenon DEF Ordered
  <2> HIDE DEF n
  <2>2. n # x
    BY <1>2, <1>9, <2>1, Zenon
  <2>3. ~(n < x)
    <3> SUFFICES ASSUME n < x PROVE FALSE
      BY Zenon
    <3> DEFINE q == n - h
    <3>1. q \in 0 .. skipped - 1 /\ h + q = n
      BY <1>3, <2>1
    <3> HIDE DEF q
    <3>2. ~ieee80211_rx_reorder_ready(Index(Sn(h + q)))
      BY <1>1, <3>1, Zenon DEF Ordered, HeadOK
    <3> QED  BY <2>1, <3>1, <3>2, Zenon
  <2>4. n >= g
    BY <1>4, <2>1, <2>2, <2>3 DEF g
  <2> QED  BY <2>4, Zenon DEF n
<1>10. /\ InOrder' /\ OutOK(g)' /\ (\A s \in Slots : SlotOK(g, s))' /\ Kept'
       /\ Numbers(out') \subseteq Numbers(out) \cup Numbers(reorder[j])
       /\ \A s \in Slots : Numbers(reorder'[s]) \subseteq Numbers(reorder[s])
       /\ \A s \in Slots : ieee80211_rx_reorder_ready(s)' => ieee80211_rx_reorder_ready(s)
       /\ Numbers(out) \cup Stored \cup late \subseteq Numbers(out') \cup Stored' \cup late'
  <2> DEFINE gone == Purged \cup {j}
  <2>1. gone \in SUBSET Slots /\ j \in gone
    BY <1>1, Zenon DEF Purged, Between
  <2>2. \A s \in gone \ {j} : Numbers(reorder[s]) \subseteq late'
    BY <1>1, Zenon DEF Lost
  <2>3. late \subseteq late' /\ seen' = seen
    BY <1>1, Zenon
  <2>4. reorder' = [s \in Slots |-> IF s \in gone THEN <<>> ELSE reorder[s]]
    BY <1>1, Zenon
  <2>5. \A s \in Slots \ gone : \A k \in 1 .. Len(reorder[s]) :
             ~reorder[s][k].more => reorder[s][k].n >= g
    BY <1>9, Zenon
  <2> HIDE DEF gone
  <2>6. OutOK(h) /\ \A s \in Slots : SlotOK(h, s)
    BY Zenon DEF Ordered
  <2>7. ieee80211_rx_reorder_ready(j) /\ out' = out \o reorder[j] /\ reorder[j][Len(reorder[j])].n < g
    BY <1>1, <1>4, <1>7, Zenon
  <2>8. g \in Nat /\ h < g
    BY <1>4, Zenon
  <2> QED  BY ONLY HalfRange, Inv, Shapes, Kept, InOrder, h \in Nat, <2>1, <2>2, <2>3,
           <2>4, <2>5, <2>6, <2>7, <2>8, Released, ZenonT(30)
<1>11. ~Placing /\ ~Placing' /\ (Carried' <=> Carried)
  BY <1>1, Zenon DEF Placing, Carried, Pending
<1>12. HeadOK(g)'
  <2>1. Carried => x <= skb.n + BufSize
    BY <1>8, Zenon DEF Sender
  <2>2. step["rx"] = "bar" => x <= skb.n + BufSize - 1
    BY <1>8, Zenon DEF Sender
  <2>3. Carried => g <= skb.n + BufSize + 1 /\ skb.n < g + Half
    BY <1>R, <1>4, <2>1 DEF Ordered, HeadOK, g
  <2>4. step["rx"] = "bar" => g <= skb.n + BufSize /\ skb.n < g + Half
    BY <1>R, <1>4, <2>2 DEF Ordered, HeadOK, g
  <2>5. \A k \in seen : k < g + BufSize
    <3>1. \A k \in seen : k \in Nat /\ k < h + BufSize
      BY <1>1, <1>R, Zenon DEF Ordered, HeadOK
    <3> QED  BY <1>R, <1>4, <3>1
  <2>6. \E k \in seen : g <= k + 1
    BY <1>4, <1>8 DEF g
  <2>7. j' = Index(Sn(g + skipped')) /\ \A q \in 0 .. skipped' - 1 : FALSE
    BY <1>1, <1>6
  <2> QED  BY <1>1, <1>5, <1>11, <2>3, <2>4, <2>5, <2>6, <2>7, Zenon DEF HeadOK
<1>13. started
  BY <1>1, Zenon DEF Ordered, NotStarted, ieee80211_rx_reorder_ready
<1>15. Acc'
  BY <1>1, <1>10, <1>11, Zenon DEF Ordered, Acc
<1>16. NotStarted(g)'
  BY <1>1, <1>13, Zenon DEF NotStarted
<1>17. Goes(g)
  BY <1>10, <1>12, <1>15, <1>16, Zenon DEF Goes, Ordered
<1> QED  BY <1>17, Zenon DEF g

(* The search for timed-out frames keeps the order.                        *)
LEMMA ScanStep ==
    ASSUME HalfRange, Inv, Shapes, Sender, Kept, InOrder, NEW h \in Nat,
           Ordered(h), ScanReleases
    PROVE  \E g \in Nat : Goes(g)
<1>1. skipped \in Nat
  BY DEF Shapes, Scalars
<1>2. PICK x \in Nat : x = h + skipped
  BY <1>1
<1>3. x + 1 \in Nat /\ Goes(x + 1)
  BY <1>2, ScanTo
<1> QED  BY <1>3, Zenon

(* ieee80211_release_reorder_frames() keeps the order, stops at its target *)
(* and never goes past it.                                                 *)
LEMMA FramesStep ==
    ASSUME HalfRange, Inv, Shapes, Sender, Kept, InOrder, NEW h \in Nat,
           Ordered(h),
           ieee80211_release_reorder_frames
    PROVE  \E g \in Nat : Goes(g)
<1> DEFINE i == Index(head_seq_num)
<1>R. /\ skb.n \in Nat /\ win \in Nat /\ seen \subseteq Nat
      /\ BufSize \in Nat /\ BufSize >= 1 /\ Half \in Int
      /\ SN_MODULO \div 2 \in Int /\ Half <= SN_MODULO \div 2 + 1
  BY Ranges, Zenon
<1>0. /\ op = "release" /\ life # "freed" /\ head_seq_num = Sn(h) /\ i = Index(Sn(h)) /\ i \in Slots
      /\ UNCHANGED <<started, life, target, then, step, skb, more, win, seen, j, skipped, lock>>
      /\ then \in {"insert", "unlock"}
  <2>1. op = "release" /\ head_seq_num = Sn(h)
    BY Zenon DEF ieee80211_release_reorder_frames, Ordered, HeadOK
  <2>2. life # "freed"
    BY <2>1, Zenon DEF Inv, Control, Actors
  <2> QED  BY <2>1, <2>2, SlotSame DEF ieee80211_release_reorder_frames,
     originator, HalfRange, Inv, Types
<1>a. lock = "rx" /\ step["rx"] = "locked"
  BY <1>0, Zenon DEF Sender, Inv, Control, Actors
<1>b. then = "unlock" => ~Carried /\ ~Placing /\ skb.n <= win
  BY <1>0, <1>a, Zenon DEF Sender, Carried, Pending, Placing
<1>c. then = "insert" => Placing /\ skb.n \in seen
  BY <1>0, Zenon DEF Sender, Placing
<1> DEFINE t == IF then = "insert" THEN skb.n - BufSize + 1 ELSE skb.n
<1>d. /\ t \in Int /\ target = Sn(t) /\ t - h < Half /\ h - t <= SN_MODULO \div 2 /\ t <= skb.n
      /\ then = "insert" => h <= t /\ t = skb.n - BufSize + 1
      /\ then = "unlock" => t = skb.n
  <2>1. CASE then = "insert"
    BY <1>0, <1>R, <2>1, Positive DEF Ordered, HeadOK
  <2>2. CASE then = "unlock"
    BY <1>0, <1>R, <2>2, Positive DEF Ordered, HeadOK, HalfRange
  <2> QED  BY <1>0, <2>1, <2>2, Zenon
<1> HIDE DEF t
<1>e. ieee80211_sn_less(head_seq_num, target) <=> h < t
  BY <1>0, <1>d, SnLess
<1>1. CASE ieee80211_sn_less(head_seq_num, target)
  <2> DEFINE g == h + 1
  <2>1. /\ head_seq_num' = ieee80211_sn_inc(head_seq_num) /\ op' = op
        /\ reorder' = [reorder EXCEPT ![i] = <<>>]
        /\ \/ ieee80211_rx_reorder_ready(i) /\ out' = out \o reorder[i] /\ late' = late
           \/ /\ ~ieee80211_rx_reorder_ready(i) /\ out' = out
              /\ late' = late \cup Numbers(reorder[i])
    BY <1>1, Zenon DEF ieee80211_release_reorder_frames,
       ieee80211_release_reorder_frame, Give
  <2>2. head_seq_num' = Sn(g) /\ g \in Nat /\ h < g /\ g <= t
    BY <1>0, <1>1, <1>d, <1>e, <2>1, SnInc
  <2>3. ieee80211_rx_reorder_ready(i) => reorder[i][Len(reorder[i])].n = h
    BY <1>0, <1>R, LastIs DEF Ordered
  <2>5. reorder' = [s \in Slots |-> IF s \in {i} THEN <<>> ELSE reorder[s]]
    BY <2>1, <1>0, Zenon DEF Inv, Types
  <2>6. \A s \in Slots \ {i} : \A k \in 1 .. Len(reorder[s]) :
               ~reorder[s][k].more => reorder[s][k].n >= g
    BY <1>0, HeadLeaves, Zenon DEF Ordered
  <2> HIDE DEF g
  <2>8. /\ InOrder' /\ OutOK(g)' /\ (\A s \in Slots : SlotOK(g, s))' /\ Kept'
        /\ Numbers(out') \subseteq Numbers(out) \cup Numbers(reorder[i])
        /\ \A n \in Numbers(out') : n < g
        /\ Stored' \subseteq Stored
        /\ \A s \in Slots : Numbers(reorder'[s]) \subseteq Numbers(reorder[s])
        /\ \A s \in Slots : ieee80211_rx_reorder_ready(s)' => ieee80211_rx_reorder_ready(s)
        /\ Numbers(out) \cup Stored \cup late \subseteq Numbers(out') \cup Stored' \cup late'
    <3>1. {i} \in SUBSET Slots /\ i \in {i} /\ late \subseteq late' /\ seen' = seen
          /\ \A s \in {i} \ {i} : Numbers(reorder[s]) \subseteq late'
      BY <1>0, <2>1, Zenon
    <3>2. OutOK(h) /\ \A s \in Slots : SlotOK(h, s)
      BY Zenon DEF Ordered
    <3>3. \/ /\ ieee80211_rx_reorder_ready(i) /\ out' = out \o reorder[i]
             /\ reorder[i][Len(reorder[i])].n < g
          \/ out' = out /\ Numbers(reorder[i]) \subseteq late'
      BY <2>1, <2>2, <2>3, Zenon
    <3> QED  BY <2>2, <2>5, <2>6, <3>1, <3>2, <3>3, Released, Zenon
  <2>9. (Placing' <=> Placing) /\ (Carried' <=> Carried)
    BY <1>0, <2>1, Zenon DEF Placing, Carried, Pending
  <2>10. HeadOK(g)'
    <3>1. CASE then = "insert"
      <4>1. g <= skb.n - BufSize + 1 /\ skb.n < g + Half /\ g <= skb.n + 1 /\ g <= skb.n + BufSize + 1
        BY <1>0, <1>R, <1>d, <2>2, <3>1 DEF Ordered, HeadOK
      <4>2. \E k \in seen : g <= k + 1
        BY <1>c, <3>1, <4>1, Zenon
      <4>3. target = Sn(skb.n - BufSize + 1) /\ \A k \in seen : k <= skb.n
        BY <1>0, <3>1, Zenon DEF Ordered, HeadOK
      <4> QED  BY <1>0, <1>a, <2>1, <2>2, <2>9, <3>1, <4>1, <4>2, <4>3, Zenon DEF
         HeadOK
    <3>2. CASE then = "unlock"
      <4>1. g <= skb.n /\ skb.n < g + Half /\ g <= skb.n + BufSize /\ g <= win
        BY <1>0, <1>R, <1>b, <1>d, <2>2, <3>2 DEF Ordered, HeadOK
      <4>2. \A k \in seen : k < g + BufSize
        <5>1. \A k \in seen : k \in Nat /\ k < h + BufSize
          BY <1>0, <1>R, <3>2, Zenon DEF Ordered, HeadOK
        <5> QED  BY <1>R, <2>2, <5>1
      <4>3. target = Sn(skb.n)
        BY <1>0, <3>2, Zenon DEF Ordered, HeadOK
      <4> QED  BY <1>0, <1>a, <1>b, <2>1, <2>2, <2>9, <3>2, <4>1, <4>2, <4>3, Zenon DEF
         HeadOK
    <3> QED  BY <1>0, <3>1, <3>2, Zenon
  <2>11. NotStarted(g)'
    <3> SUFFICES ASSUME ~started PROVE NotStarted(g)'
      BY <1>0, Zenon DEF NotStarted
    <3>1. h >= 1 /\ h <= win /\ seen \subseteq {0} /\ \A s \in Slots : reorder[s] = <<>>
      BY Zenon DEF Ordered, NotStarted
    <3>2. then = "unlock"
      BY <1>0, <1>R, <1>c, <1>d, <3>1
    <3>3. g >= 1 /\ g <= win
      BY <1>R, <1>b, <1>d, <2>2, <3>1, <3>2
    <3>4. \A s \in Slots : reorder'[s] = <<>>
      BY <2>5, <3>1, Zenon
    <3>5. ~Carried'
      BY <1>b, <2>9, <3>2, Zenon
    <3> QED  BY <1>0, <3>1, <3>3, <3>4, <3>5, Zenon DEF NotStarted
  <2>13. Acc'
    BY <1>0, <2>8, <2>9, Zenon DEF Ordered, Acc
  <2> QED  BY <2>2, <2>8, <2>10, <2>11, <2>13, Zenon DEF Goes, Ordered
<1>2. CASE ~ieee80211_sn_less(head_seq_num, target)
  <2>1. /\ UNCHANGED <<head_seq_num, stored_mpdu_num, reorder, out, late, auto_seq>>
        /\ op' = then
    BY <1>2, Zenon DEF ieee80211_release_reorder_frames
  <2>2. Kept' /\ InOrder' /\ OutOK(h)' /\ (\A s \in Slots : SlotOK(h, s))'
    BY <1>0, <2>1, StillKeeps, Zenon DEF Ordered, Still
  <2>3. (Placing' <=> Placing) /\ (Carried' <=> Carried)
    BY <1>0, <2>1, Zenon DEF Placing, Carried, Pending
  <2>4. HeadOK(h)'
    <3>1. CASE then = "insert"
      <4>1. h = skb.n - BufSize + 1
        BY <1>2, <1>d, <1>e, <3>1
      <4>2. h <= skb.n /\ skb.n < h + BufSize
        BY <1>R, <4>1
      <4>3. \A k \in seen : k < h + BufSize
        <5>1. \A k \in seen : k \in Nat /\ k <= skb.n
          BY <1>0, <1>R, <3>1, Zenon DEF Ordered, HeadOK
        <5> QED  BY <1>R, <4>2, <5>1
      <4> QED  BY <1>0, <1>a, <2>1, <2>3, <3>1, <4>2, <4>3, Zenon DEF Ordered, HeadOK
    <3>2. CASE then = "unlock"
      BY <1>0, <1>a, <2>1, <2>3, <3>2, Zenon DEF Ordered, HeadOK
    <3> QED  BY <1>0, <3>1, <3>2, Zenon
  <2>5. Acc' /\ NotStarted(h)'
    BY <1>0, <2>1, <2>3 DEF Ordered, Acc, NotStarted, Numbers, Stored,
       ieee80211_rx_reorder_ready
  <2> QED  BY <2>2, <2>4, <2>5, Zenon DEF Goes, Ordered
<1> QED  BY <1>1, <1>2, Zenon

----------------------------------------------------------------------------
(* The steps that take a frame in.                                         *)

(* What is passed up after one frame was appended.                         *)
LEMMA GiveOne ==
    ASSUME out \in Seq(Skb), NEW f \in Skb, out' = out \o <<f>>
    PROVE  /\ Len(out) \in Nat /\ Len(out') = Len(out) + 1 /\ out' \in Seq(Skb)
           /\ \A a \in 1 .. Len(out) : out'[a] = out[a]
           /\ out'[Len(out) + 1] = f
           /\ \A a \in 1 .. Len(out) + 1 : a \in 1 .. Len(out) \/ a = Len(out) + 1
           /\ Numbers(out') = Numbers(out) \cup {f.n}
<1> DEFINE list == <<f>>
<1>1. list \in Seq(Skb) /\ Len(list) = 1 /\ list[1] = f
  OBVIOUS
<1>2. Numbers(list) = {f.n}
  BY <1>1 DEF Numbers
<1>3. out' = out \o list
  BY Zenon
<1> HIDE DEF list
<1>4. /\ out' \in Seq(Skb) /\ Len(out) \in Nat
      /\ Len(out') = Len(out) + Len(list)
      /\ \A a \in 1 .. Len(out) : out'[a] = out[a]
      /\ \A k \in 1 .. Len(list) : out'[Len(out) + k] = list[k]
      /\ Numbers(out') = Numbers(out) \cup Numbers(list)
  BY <1>1, <1>3, OutAppend, Zenon
<1>5. Len(out') = Len(out) + 1 /\ 1 \in 1 .. Len(list)
  BY <1>1, <1>4
<1>6. out'[Len(out) + 1] = f
  BY <1>1, <1>4, <1>5, Zenon
<1>7. \A a \in 1 .. Len(out) + 1 : a \in 1 .. Len(out) \/ a = Len(out) + 1
  BY <1>4
<1> QED  BY <1>2, <1>4, <1>5, <1>6, <1>7, Zenon

(* What is known of a frame when its place is looked for.                  *)
LEMMA Insert ==
    ASSUME HalfRange, Inv, Shapes, Sender, NEW h \in Nat, Ordered(h),
           op = "insert"
    PROVE  /\ Placing /\ Pending /\ life # "freed" /\ started /\ step["rx"] = "locked"
           /\ skb.n \in seen /\ h <= skb.n /\ skb.n < h + BufSize
           /\ Slot \in Slots /\ Slot = Index(Sn(skb.n)) /\ head_seq_num = Sn(h)
           /\ more <=> skb.more
           /\ skb.more => skb.n \in Amsdus
<1>R. skb.n \in Nat /\ BufSize \in Nat
  BY Ranges, Zenon
<1>1. Placing /\ Pending /\ skb.n \in seen /\ lock = "rx"
  BY Zenon DEF Sender, Placing, Pending
<1>2. life # "freed" /\ step["rx"] = "locked"
  BY <1>1, Zenon DEF Inv, Control, Actors
<1>3. h <= skb.n /\ skb.n < h + BufSize /\ head_seq_num = Sn(h)
  BY Zenon DEF Ordered, HeadOK
<1>4. started
  BY <1>1, <1>3, <1>R DEF Ordered, NotStarted
<1>5. Slot \in Slots /\ Slot = Index(Sn(skb.n))
  BY <1>R, SlotSame DEF Slot, HalfRange
<1>6. (more <=> skb.more) /\ (skb.more => skb.n \in Amsdus)
  <2>1. (skb.more => more) /\ (more => skb.more) /\ (more => skb.n \in Amsdus)
    BY <1>1, Zenon DEF Sender
  <2>2. more \in BOOLEAN /\ skb.more \in BOOLEAN
    BY Zenon DEF Shapes, Scalars, Inv, Types, Skb
  <2> QED  BY <2>1, <2>2, Zenon
<1> QED  BY <1>1, <1>2, <1>3, <1>4, <1>5, <1>6, Zenon

(* Passing a frame up at once keeps the order: it is the next one and      *)
(* nothing is stored.                                                      *)
LEMMA PassStep ==
    ASSUME HalfRange, Inv, Shapes, Sender, Kept, InOrder, NEW h \in Nat,
           Ordered(h), Pass
    PROVE  \E g \in Nat : Goes(g)
<1>R. /\ skb.n \in Nat /\ win \in Nat /\ seen \subseteq Nat
      /\ BufSize \in Nat /\ BufSize >= 1 /\ Half \in Int
  BY Ranges, Zenon
<1>1. /\ op = "insert" /\ stored_mpdu_num = 0 /\ Sn(skb.n) = head_seq_num
      /\ out' = out \o <<skb>> /\ op' = "unlock"
      /\ UNCHANGED <<stored_mpdu_num, started, life, target, then, step, skb, more, win, seen, late,
                     reorder, lock>>
  BY Zenon DEF Pass, InOrderFrame, Give, originator
<1>2. /\ Placing /\ Pending /\ life # "freed" /\ started /\ step["rx"] = "locked"
      /\ skb.n \in seen /\ h <= skb.n /\ skb.n < h + BufSize
      /\ Slot \in Slots /\ Slot = Index(Sn(skb.n)) /\ head_seq_num = Sn(h)
      /\ (more <=> skb.more) /\ (skb.more => skb.n \in Amsdus)
  BY <1>1, Insert, Zenon
<1>3. skb.n = h
  <2> DEFINE y == skb.n
  <2>1. y \in Int /\ y - h < BufSize /\ h - y < BufSize /\ Index(Sn(y)) = Index(Sn(h))
    BY <1>R, <1>1, <1>2
  <2> HIDE DEF y
  <2>2. y = h
    BY <2>1, SlotApart DEF HalfRange
  <2> QED  BY <2>2, Zenon DEF y
<1>4. \A s \in Slots : ~ieee80211_rx_reorder_ready(s)
  BY <1>1, <1>2, NoneReady, Zenon
<1>6. out \in Seq(Skb) /\ skb \in Skb /\ <<skb>> \in Seq(Skb)
  BY DEF Shapes, Lists, Inv, Types
<1> DEFINE o == Len(out)
<1>7. /\ o \in Nat /\ Len(out') = o + 1 /\ out' \in Seq(Skb)
      /\ \A a \in 1 .. o : out'[a] = out[a]
      /\ out'[o + 1] = skb
      /\ \A a \in 1 .. o + 1 : a \in 1 .. o \/ a = o + 1
      /\ Numbers(out') = Numbers(out) \cup {h}
  BY <1>1, <1>3, <1>6, GiveOne, Zenon
<1>8. \A a \in 1 .. o : out[a].n \in Nat /\ (out[a].n < h \/ (out[a].n = h /\ out[a].more))
  <2>1. \A a \in 1 .. o : out[a] \in Skb
    BY <1>6, ListElement, Zenon
  <2>2. \A f \in Skb : f.n \in Nat
    BY ReorderAssumption DEF Skb, Frames
  <2> QED  BY <2>1, <2>2, Zenon DEF Ordered, OutOK
<1>10. InOrder'
  <2> SUFFICES ASSUME NEW a \in 1 .. Len(out'), NEW b \in 1 .. Len(out'), a < b
               PROVE  \/ out'[a].n < out'[b].n
                      \/ out'[a].n = out'[b].n /\ out'[a].more
                      \/ LeftBehind(b)'
    BY Zenon DEF InOrder
  <2>0. a \in 1 .. o
    BY <1>7
  <2>1. CASE b \in 1 .. o
    <3>1. LeftBehind(b) => LeftBehind(b)'
      BY <1>1, <1>6, <2>1, LeftBehindStays, Zenon
    <3>2. \/ out[a].n < out[b].n
          \/ out[a].n = out[b].n /\ out[a].more
          \/ LeftBehind(b)
      BY <2>0, <2>1, Zenon DEF InOrder
    <3> QED  BY <1>7, <2>0, <2>1, <3>1, <3>2, Zenon
  <2>2. CASE b = o + 1
    BY <1>3, <1>7, <1>8, <2>0, <2>2, Zenon
  <2> QED  BY <1>7, <2>1, <2>2, Zenon
<1>11. ~Placing' /\ (Carried' <=> skb.more)
  <2>1. ~Placing' /\ ~Pending'
    BY <1>1, <1>2, Zenon DEF Placing, Pending
  <2> QED  BY <1>1, <1>2, <2>1, Zenon DEF Carried
<1>12. Kept'
  <2>1. Stored' = Stored
    BY <1>1 DEF Stored, Numbers
  <2>2. (Numbers(out) \cup Stored)' \subseteq seen'
    BY <1>1, <1>2, <1>3, <1>7, <2>1, Zenon DEF Kept
  <2>3. \A a \in 1 .. Len(out') : out'[a].more => out'[a].n \in Amsdus
    BY <1>2, <1>7, Zenon DEF Kept
  <2> QED  BY <1>1, <2>2, <2>3, Zenon DEF Kept
<1>13. Acc'
  <2>1. Stored' = Stored
    BY <1>1 DEF Stored, Numbers
  <2> QED  BY <1>1, <1>2, <1>3, <1>7, <1>11, <2>1, Zenon DEF Ordered, Acc
<1>15. ASSUME NEW s \in Slots, NEW k \in 1 .. Len(reorder[s]) PROVE reorder[s][k].more
  BY <1>4, <1>15, CompleteAt, Zenon DEF Ordered
<1>16. CASE skb.more
  <2>1. head_seq_num' = head_seq_num
    BY <1>16, Zenon DEF Pass
  <2>2. OutOK(h)'
    BY <1>3, <1>7, <1>8, <1>16, Zenon DEF OutOK
  <2>3. ASSUME NEW s \in Slots PROVE SlotOK(h, s)'
    BY <1>1, SlotStays, Zenon DEF Ordered
  <2>4. HeadOK(h)'
    <3>1. Carried
      BY <1>2, Zenon DEF Carried
    <3>2. \A k \in seen : k < h + BufSize
      BY <1>1, Zenon DEF Ordered, HeadOK
    <3>3. h <= skb.n + BufSize + 1 /\ skb.n < h + Half
      BY <3>1, Zenon DEF Ordered, HeadOK
    <3>4. h <= win \/ \E k \in seen : h <= k + 1
      BY Zenon DEF Ordered, HeadOK
    <3> QED  BY <1>1, <1>2, <2>1, <3>2, <3>3, <3>4, Zenon DEF HeadOK
  <2>5. NotStarted(h)'
    BY <1>1, <1>2, Zenon DEF NotStarted
  <2> QED  BY <1>10, <1>12, <1>13, <2>2, <2>3, <2>4, <2>5, Zenon DEF Goes,
     Ordered
<1>17. CASE ~skb.more
  <2> DEFINE g == h + 1
  <2>1. head_seq_num' = Sn(g) /\ g \in Nat
    BY <1>2, <1>17, SnInc DEF Pass
  <2>2. OutOK(g)'
    BY <1>3, <1>7, <1>8 DEF OutOK
  <2>3. ASSUME NEW s \in Slots PROVE SlotOK(g, s)'
    <3>1. \A k \in 1 .. Len(reorder[s]) : reorder[s][k].more /\ reorder[s][k].n < g + BufSize
      <4> TAKE k \in 1 .. Len(reorder[s])
      <4>1. reorder[s][k].n \in Nat /\ reorder[s][k].n < h + BufSize
        BY ReadyList, Zenon DEF Ordered, SlotOK
      <4> QED  BY <1>R, <1>15, <4>1
    <3> HIDE DEF g
    <3> QED  BY <1>1, <3>1, Zenon DEF Ordered, SlotOK
  <2>4. HeadOK(g)'
    <3>2. \A k \in seen : k < g + BufSize
      <4>1. \A k \in seen : k \in Nat /\ k < h + BufSize
        BY <1>1, <1>R, Zenon DEF Ordered, HeadOK
      <4> QED  BY <1>R, <4>1
    <3>3. ~Carried'
      BY <1>11, <1>17, Zenon
    <3>4. \E k \in seen : g <= k + 1
      BY <1>2, <1>3
    <3> HIDE DEF g
    <3> QED  BY <1>1, <1>2, <2>1, <3>2, <3>3, <3>4, Zenon DEF HeadOK
  <2>5. NotStarted(g)'
    BY <1>1, <1>2, Zenon DEF NotStarted
  <2> HIDE DEF g
  <2> QED  BY <1>10, <1>12, <1>13, <2>1, <2>2, <2>3, <2>4, <2>5, Zenon DEF Goes,
     Ordered
<1> QED  BY <1>16, <1>17, Zenon

(* Storing a frame keeps the order of its slot: what the slot holds        *)
(* already is incomplete, and is left behind or a first subframe of the    *)
(* same A-MSDU.                                                            *)
LEMMA StoreStep ==
    ASSUME HalfRange, Inv, Shapes, Sender, Kept, InOrder, NEW h \in Nat,
           Ordered(h), Store
    PROVE  Goes(h)
<1>R. /\ skb.n \in Nat /\ win \in Nat /\ seen \subseteq Nat
      /\ BufSize \in Nat /\ BufSize >= 1 /\ Half \in Int
  BY Ranges, Zenon
<1>1. /\ op = "insert" /\ ~ieee80211_rx_reorder_ready(Slot) /\ ~InOrderFrame
      /\ reorder' = [reorder EXCEPT ![Slot] = Append(reorder[Slot], skb)]
      /\ (op' = "unlock" \/ op' = "flush")
      /\ UNCHANGED <<head_seq_num, started, life, target, then, step, skb, more, win, seen, late,
                     out, lock>>
  BY Zenon DEF Store, originator, history
<1>2. /\ Placing /\ Pending /\ life # "freed" /\ started /\ step["rx"] = "locked"
      /\ skb.n \in seen /\ h <= skb.n /\ skb.n < h + BufSize
      /\ Slot \in Slots /\ Slot = Index(Sn(skb.n)) /\ head_seq_num = Sn(h)
      /\ (more <=> skb.more) /\ (skb.more => skb.n \in Amsdus)
  BY <1>1, Insert, Zenon
<1> DEFINE list == reorder[Slot]
           l == Len(list)
           new == Append(list, skb)
<1>3. list \in Seq(Skb) /\ l \in Nat /\ skb \in Skb
  BY <1>2, ReadyList, Zenon DEF Inv, Types
<1>4. /\ new \in Seq(Skb) /\ Len(new) = l + 1 /\ new[l + 1] = skb
      /\ \A k \in 1 .. l : new[k] = list[k]
  BY <1>3, ListAppend
<1>5. /\ reorder'[Slot] = new
      /\ \A s \in Slots : s # Slot => reorder'[s] = reorder[s]
  BY <1>1, <1>2, Zenon DEF Inv, Types
<1>6. \A k \in 1 .. l : list[k].n \in Nat /\ list[k].more
  BY <1>1, <1>2, <1>3, CompleteAt, ReadyList, Zenon DEF Ordered
<1>7. \A k \in 1 .. l : list[k].n <= skb.n
  <2> SUFFICES ASSUME NEW k \in 1 .. l, list[k].n > skb.n PROVE FALSE
    BY <1>R, <1>6
  <2> DEFINE x == list[k].n
             y == skb.n
  <2>1. x \in Int /\ y \in Int /\ y - x < BufSize /\ x - y < BufSize /\ x # y
    <3>1. list[k].n < h + BufSize
      BY <1>2, Zenon DEF Ordered, SlotOK
    <3> QED  BY <1>R, <1>2, <1>6, <3>1
  <2>2. Index(Sn(x)) = Index(Sn(y))
    BY <1>2, Zenon DEF Ordered, SlotOK
  <2> HIDE DEF x, y
  <2> QED  BY <2>1, <2>2, SlotApart, Zenon DEF HalfRange
<1>10. Numbers(new) = Numbers(list) \cup {skb.n}
  <2>1. 1 .. Len(new) = (1 .. l) \cup {l + 1}
    BY <1>3, <1>4
  <2>2. ASSUME NEW k \in 1 .. Len(new) PROVE new[k].n \in Numbers(list) \cup {skb.n}
    BY <1>4, <2>1, Zenon DEF Numbers
  <2>3. ASSUME NEW k \in 1 .. l PROVE list[k].n \in Numbers(new)
    <3>1. k \in 1 .. Len(new) /\ new[k].n = list[k].n
      BY <1>4, <2>1, Zenon
    <3> HIDE DEF new
    <3> QED  BY <3>1, Zenon DEF Numbers
  <2>4. skb.n \in Numbers(new)
    <3>1. l + 1 \in 1 .. Len(new) /\ new[l + 1].n = skb.n
      BY <1>4, <2>1, Zenon
    <3> HIDE DEF new
    <3> QED  BY <3>1, Zenon DEF Numbers
  <2> HIDE DEF new, list
  <2>5. Numbers(new) \subseteq Numbers(list) \cup {skb.n}
    BY <2>2, Zenon DEF Numbers
  <2>6. Numbers(list) \subseteq Numbers(new)
    BY <2>3, Zenon DEF Numbers, l
  <2> QED  BY <2>4, <2>5, <2>6, Zenon
<1>11. SlotOK(h, Slot)
  BY <1>2, Zenon DEF Ordered
<1> HIDE DEF new
<1>12. ASSUME NEW k \in 1 .. Len(new)
       PROVE  /\ Index(Sn(new[k].n)) = Slot
              /\ new[k].n < h + BufSize
              /\ k < Len(new) => new[k].more
              /\ ~new[k].more => new[k].n >= h
              /\ \A m \in 1 .. Len(new) : k < m => new[k].n <= new[m].n
  <2>1. CASE k \in 1 .. l
    <3>1. new[k] = list[k]
      BY <1>4, <2>1, Zenon
    <3>2. \A m \in 1 .. Len(new) : k < m => new[k].n <= new[m].n
      <4> SUFFICES ASSUME NEW m \in 1 .. Len(new), k < m PROVE new[k].n <= new[m].n
        BY Zenon
      <4>1. CASE m \in 1 .. l
        <5>1. list[k].n <= list[m].n
          BY <1>11, <2>1, <4>1, Zenon DEF SlotOK
        <5>2. new[m] = list[m]
          BY <1>4, <4>1, Zenon
        <5> QED  BY <3>1, <5>1, <5>2, Zenon
      <4>2. CASE m = l + 1
        BY <1>4, <1>7, <2>1, <3>1, <4>2, Zenon
      <4> QED  BY <1>3, <1>4, <4>1, <4>2
    <3> QED  BY <1>6, <1>11, <2>1, <3>1, <3>2, Zenon DEF SlotOK
  <2>2. CASE k = l + 1
    <3>1. new[k] = skb
      BY <1>4, <2>2, Zenon
    <3> QED  BY <1>2, <1>R, <1>3, <1>4, <2>2, <3>1
  <2> QED  BY <1>3, <1>4, <2>1, <2>2
<1>13. ASSUME NEW s \in Slots PROVE SlotOK(h, s)'
  <2>1. CASE s = Slot
    <3>1. reorder'[s] = new /\ out' = out
      BY <1>1, <1>5, <2>1, Zenon
    <3>2. \A k \in 1 .. Len(new) :
            /\ Index(Sn(new[k].n)) = s
            /\ new[k].n < h + BufSize
            /\ k < Len(new) => new[k].more
            /\ ~new[k].more => new[k].n >= h
            /\ \A m \in 1 .. Len(new) : k < m => new[k].n <= new[m].n
      BY <1>12, <2>1, Zenon
    <3>3. \A k \in 1 .. Len(reorder'[s]) :
            /\ Index(Sn(reorder'[s][k].n)) = s
            /\ reorder'[s][k].n < h + BufSize
            /\ k < Len(reorder'[s]) => reorder'[s][k].more
            /\ ~reorder'[s][k].more => reorder'[s][k].n >= h
            /\ \A m \in 1 .. Len(reorder'[s]) : k < m => reorder'[s][k].n <= reorder'[s][m].n
      BY <3>1, <3>2
    <3> QED  BY <3>3, Zenon DEF SlotOK
  <2>2. CASE s # Slot
    BY <1>1, <1>5, <2>2, SlotStays, Zenon DEF Ordered
  <2> QED  BY <2>1, <2>2, Zenon
<1>14. /\ Numbers(reorder'[Slot]) = Numbers(reorder[Slot]) \cup {skb.n}
       /\ \A s \in Slots : s # Slot => Numbers(reorder'[s]) = Numbers(reorder[s])
  BY <1>5, <1>10, Zenon
<1>15. Stored' = Stored \cup {skb.n}
  <2>1. Stored' \subseteq Stored \cup {skb.n}
    BY <1>14, Zenon DEF Stored
  <2>2. Stored \subseteq Stored'
    <3> SUFFICES ASSUME NEW s \in Slots PROVE Numbers(reorder[s]) \subseteq Stored'
      BY Zenon DEF Stored
    <3>1. Numbers(reorder[s]) \subseteq Numbers(reorder'[s])
      BY <1>14, Zenon
    <3>2. Numbers(reorder'[s]) \subseteq Stored'
      BY Zenon DEF Stored
    <3> QED  BY <3>1, <3>2, Zenon
  <2>3. skb.n \in Stored'
    <3>1. Numbers(reorder'[Slot]) \subseteq Stored'
      BY <1>2, Zenon DEF Stored
    <3> QED  BY <1>14, <3>1, Zenon
  <2> QED  BY <2>1, <2>2, <2>3, Zenon
<1>16. Numbers(out') = Numbers(out)
  BY <1>1, Zenon
<1>17. Kept'
  <2>1. (Numbers(out) \cup Stored)' \subseteq seen'
    BY <1>1, <1>2, <1>15, <1>16, Zenon DEF Kept
  <2>2. \A s \in Slots : \A k \in 1 .. Len(reorder'[s]) :
          reorder'[s][k].more => reorder'[s][k].n \in Amsdus
    <3> TAKE s \in Slots
    <3>1. CASE s # Slot
      BY <1>5, <3>1, Zenon DEF Kept
    <3>2. CASE s = Slot
      <4>1. \A k \in 1 .. Len(new) : k \in 1 .. l \/ k = l + 1
        BY <1>3, <1>4
      <4>2. \A k \in 1 .. Len(new) : new[k].more => new[k].n \in Amsdus
        BY <1>2, <1>4, <4>1 DEF Kept
      <4> QED  BY <1>5, <3>2, <4>2, Zenon
    <3> QED  BY <3>1, <3>2, Zenon
  <2> QED  BY <1>1, <2>1, <2>2, Zenon DEF Kept
<1>18. ~Placing' /\ (Carried' <=> skb.more)
  <2>1. ~Placing' /\ ~Pending'
    BY <1>1, <1>2, Zenon DEF Placing, Pending
  <2> QED  BY <1>1, <1>2, <2>1, Zenon DEF Carried
<1>19. Acc'
  BY <1>1, <1>2, <1>15, <1>16, <1>18, Zenon DEF Ordered, Acc
<1>21. HeadOK(h)'
  <2>1. Carried
    BY <1>2, Zenon DEF Carried
  <2>2. \A k \in seen : k < h + BufSize
    BY <1>1, Zenon DEF Ordered, HeadOK
  <2>3. h <= skb.n + BufSize + 1 /\ skb.n < h + Half
    BY <2>1, Zenon DEF Ordered, HeadOK
  <2>4. h <= win \/ \E k \in seen : h <= k + 1
    BY Zenon DEF Ordered, HeadOK
  <2> QED  BY <1>1, <1>2, <2>2, <2>3, <2>4, Zenon DEF HeadOK
<1>22. NotStarted(h)' /\ OutOK(h)' /\ InOrder'
  <2>1. NotStarted(h)'
    BY <1>1, <1>2, Zenon DEF NotStarted
  <2> QED  BY <1>1, <2>1, OutStays, Zenon DEF Ordered
<1> QED  BY <1>13, <1>17, <1>19, <1>21, <1>22, Zenon DEF Goes, Ordered

(* A frame that comes in is compared with the head as it should be.        *)
LEMMA Incoming ==
    ASSUME HalfRange, Inv, Shapes, Sender, NEW h \in Nat, Ordered(h), Lock("rx",
           "frame")
    PROVE  /\ op = "none" /\ life # "freed" /\ Pending /\ Carried /\ ~Placing
           /\ head_seq_num = Sn(h)
           /\ h <= skb.n + BufSize + 1 /\ skb.n < h + Half
           /\ (ieee80211_sn_less(Sn(skb.n), Sn(h)) <=> skb.n < h)
           /\ (more => skb.more)
<1>R. /\ skb.n \in Nat /\ BufSize \in Nat /\ Half \in Int
      /\ SN_MODULO \div 2 \in Int /\ Half <= SN_MODULO \div 2 + 1
  BY Ranges, Zenon
<1>1. op = "none" /\ step["rx"] = "frame" /\ life # "freed"
  BY Zenon DEF Lock, Inv, Control, Actors
<1>2. Pending /\ Carried /\ ~Placing
  BY <1>1, Zenon DEF Pending, Carried, Placing
<1>3. head_seq_num = Sn(h) /\ h <= skb.n + BufSize + 1 /\ skb.n < h + Half
  BY <1>2, Zenon DEF Ordered, HeadOK
<1>4. ieee80211_sn_less(Sn(skb.n), Sn(h)) <=> skb.n < h
  <2> DEFINE y == skb.n
  <2>1. y \in Int /\ y - h <= SN_MODULO \div 2 /\ h - y < Half
    BY <1>R, <1>3 DEF HalfRange
  <2> HIDE DEF y
  <2>2. ieee80211_sn_less(Sn(y), Sn(h)) <=> y < h
    BY <2>1, SnLess
  <2> QED  BY <2>2, Zenon DEF y
<1>5. more => skb.more
  BY Zenon DEF Sender
<1> QED  BY <1>1, <1>2, <1>3, <1>4, <1>5, Zenon

(* The only frame passed up before the session starts is the one sent      *)
(* before it.                                                              *)
LEMMA BeforeStartStep ==
    ASSUME HalfRange, Inv, Shapes, Sender, Kept, InOrder, NEW h \in Nat,
           Ordered(h), ~auto_seq,
           RxBeforeStart
    PROVE  Goes(h)
<1>R. /\ skb.n \in Nat /\ win \in Nat /\ seen \subseteq Nat
      /\ BufSize \in Nat /\ BufSize >= 1 /\ Half \in Int
  BY Ranges, Zenon
<1>1. /\ Lock("rx", "frame") /\ ~started /\ ieee80211_sn_less(Sn(skb.n), head_seq_num)
      /\ head_seq_num' = head_seq_num /\ seen' = seen \cup {skb.n}
      /\ step' = [step EXCEPT !["rx"] = "deliver"] /\ out' = out \o <<skb>>
      /\ UNCHANGED <<stored_mpdu_num, started, reorder, life, op, target, then, skb, more, win, late,
                     j, skipped>>
  BY Zenon DEF RxBeforeStart, HeadSn, Unlocked, Give, locals, originator
<1>2. /\ op = "none" /\ life # "freed" /\ Pending /\ Carried /\ ~Placing
      /\ head_seq_num = Sn(h) /\ h <= skb.n + BufSize + 1 /\ skb.n < h + Half
      /\ skb.n < h /\ (more => skb.more)
  BY <1>1, Incoming, Zenon
<1>3. /\ h >= 1 /\ h <= win /\ seen \subseteq {0} /\ skb.n = 0
      /\ \A s \in Slots : reorder[s] = <<>>
  <2>1. /\ h >= 1 /\ h <= win /\ seen \subseteq {0} /\ (skb.n = 0 \/ skb.n >= h)
        /\ \A s \in Slots : reorder[s] = <<>>
    BY <1>1, <1>2, Zenon DEF Ordered, NotStarted
  <2> QED  BY <1>R, <1>2, <2>1
<1>5. Stored = {} /\ Stored' = {}
  BY <1>1, <1>3 DEF Stored, Numbers
<1>6. out \in Seq(Skb) /\ skb \in Skb
  BY Zenon DEF Shapes, Lists, Inv, Types
<1> DEFINE o == Len(out)
<1>7. /\ o \in Nat /\ Len(out') = o + 1 /\ out' \in Seq(Skb)
      /\ \A a \in 1 .. o : out'[a] = out[a]
      /\ out'[o + 1] = skb
      /\ \A a \in 1 .. o + 1 : a \in 1 .. o \/ a = o + 1
      /\ Numbers(out') = Numbers(out) \cup {0}
  BY <1>1, <1>3, <1>6, GiveOne, Zenon
<1>8. \A a \in 1 .. o : out[a].n = 0
  BY <1>3, Zenon DEF Kept, Numbers
<1>9. \A a \in 1 .. o : out[a].more
  BY <1>1, <1>2, <1>3, Zenon DEF Ordered, NotStarted
<1>10. InOrder'
  <2> SUFFICES ASSUME NEW a \in 1 .. Len(out'), NEW b \in 1 .. Len(out'), a < b
               PROVE  \/ out'[a].n < out'[b].n
                      \/ out'[a].n = out'[b].n /\ out'[a].more
                      \/ LeftBehind(b)'
    BY Zenon DEF InOrder
  <2>1. a \in 1 .. o
    BY <1>7
  <2> QED  BY <1>3, <1>7, <1>8, <1>9, <2>1, Zenon
<1>11. Kept'
  <2>1. (Numbers(out) \cup Stored)' \subseteq seen'
    BY <1>1, <1>3, <1>5, <1>7, Zenon DEF Kept
  <2>2. skb.more => skb.n \in Amsdus
    BY <1>2, Zenon DEF Sender
  <2>3. \A a \in 1 .. Len(out') : out'[a].more => out'[a].n \in Amsdus
    BY <1>7, <2>2, Zenon DEF Kept
  <2> QED  BY <1>1, <2>1, <2>3, Zenon DEF Kept
<1>12. ~Placing' /\ (Carried' => Carried /\ skb.more)
  <2>1. ~Placing' /\ ~Pending'
    BY <1>1, <1>2, Zenon DEF Placing, Pending, Inv, Types, Actors
  <2> QED  BY <1>1, <1>2, <2>1, Zenon DEF Carried
<1>13. HeadOK(h)'
  <2>1. step'["rx"] # "bar"
    BY <1>1, Zenon DEF Inv, Types, Actors
  <2>2. \A k \in seen' : k < h + BufSize
    <3>1. \A k \in seen' : k = 0
      BY <1>1, <1>3, Zenon
    <3>2. 0 < h + BufSize
      BY <1>R, <1>3
    <3> QED  BY <3>1, <3>2, Zenon
  <2> QED  BY <1>1, <1>2, <1>3, <1>12, <2>1, <2>2, Zenon DEF HeadOK
<1>14. NotStarted(h)'
  <2>1. skb.more => \A a \in 1 .. Len(out') : out'[a].more
    BY <1>7, <1>9, Zenon
  <2> QED  BY <1>1, <1>3, <1>12, <2>1, Zenon DEF NotStarted
<1>15. OutOK(h)' /\ (\A s \in Slots : SlotOK(h, s))'
  <2>1. \A a \in 1 .. Len(out') : out'[a].n = 0
    BY <1>3, <1>7, <1>8, Zenon
  <2>2. \A s \in Slots : reorder'[s] = <<>>
    BY <1>1, <1>3, Zenon
  <2>3. OutOK(h)'
    BY <1>3, <2>1 DEF OutOK
  <2> QED  BY <2>2, <2>3, SlotEmptied, Zenon
<1>17. Acc'
  <2>1. seen' \subseteq Numbers(out) \cup Stored \cup late \cup {0}
    BY <1>1, <1>2, <1>3, Zenon DEF Ordered, Acc
  <2> QED  BY <1>1, <1>5, <1>7, <2>1, Zenon DEF Acc
<1> QED  BY <1>10, <1>11, <1>13, <1>14, <1>15, <1>17, Zenon DEF Goes, Ordered

(* A frame before the head is dropped, and known to be.                    *)
LEMMA OutdatedStep ==
    ASSUME HalfRange, Inv, Shapes, Sender, Kept, InOrder, NEW h \in Nat,
           Ordered(h), ~auto_seq,
           RxOutdated
    PROVE  Goes(h)
<1>R. /\ skb.n \in Nat /\ win \in Nat /\ seen \subseteq Nat
      /\ BufSize \in Nat /\ BufSize >= 1 /\ Half \in Int
  BY Ranges, Zenon
<1>1. /\ Lock("rx", "frame") /\ started /\ ieee80211_sn_less(Sn(skb.n), head_seq_num)
      /\ seen' = seen \cup {skb.n} /\ late' = late \cup ({skb.n} \ seen)
      /\ step' = [step EXCEPT !["rx"] = "deliver"] /\ out' = out \o <<>>
      /\ UNCHANGED <<head_seq_num, stored_mpdu_num, started, reorder, life, op, target, then, skb,
                     more, win, j, skipped>>
  BY Zenon DEF RxOutdated, HeadSn, Unlocked, Give, locals, originator, buffer
<1>2. /\ op = "none" /\ life # "freed" /\ Pending /\ Carried /\ ~Placing
      /\ head_seq_num = Sn(h) /\ h <= skb.n + BufSize + 1 /\ skb.n < h + Half
      /\ skb.n < h /\ (more => skb.more)
  BY <1>1, Incoming, Zenon
<1>3. out' = out
  <2>1. out \in Seq(Skb)
    BY Zenon DEF Shapes, Lists
  <2> QED  BY <1>1, <2>1, ListJoinEmpty, Zenon
<1>4. Numbers(out') = Numbers(out) /\ Stored' = Stored
  BY <1>1, <1>3 DEF Stored, Numbers
<1>5. Kept' /\ InOrder' /\ OutOK(h)' /\ (\A s \in Slots : SlotOK(h, s))'
  <2>1. Kept'
    BY <1>1, <1>3, <1>4, Zenon DEF Kept
  <2>2. InOrder' /\ OutOK(h)'
    BY <1>3, OutStays, Zenon DEF Ordered
  <2>3. (\A s \in Slots : SlotOK(h, s))'
    BY <1>1, <1>4, SlotStays, Zenon DEF Ordered
  <2> QED  BY <2>1, <2>2, <2>3, Zenon
<1>6. ~Placing' /\ (Carried' => Carried)
  <2>1. ~Placing' /\ ~Pending'
    BY <1>1, <1>2, Zenon DEF Placing, Pending, Inv, Types, Actors
  <2> QED  BY <1>1, <1>2, <2>1, Zenon DEF Carried
<1>7. HeadOK(h)'
  <2>1. step'["rx"] # "bar"
    BY <1>1, Zenon DEF Inv, Types, Actors
  <2>2. \A k \in seen : k < h + BufSize
    BY <1>2, Zenon DEF Ordered, HeadOK
  <2>3. \A k \in seen' : k < h + BufSize
    BY <1>1, <1>2, <1>R, <2>2
  <2>4. h <= win \/ \E k \in seen' : h <= k + 1
    BY <1>1, Zenon DEF Ordered, HeadOK
  <2> QED  BY <1>1, <1>2, <1>6, <2>1, <2>3, <2>4, Zenon DEF HeadOK
<1>8. NotStarted(h)'
  BY <1>1, Zenon DEF NotStarted
<1>10. Acc'
  <2>1. seen' \subseteq Numbers(out) \cup Stored \cup late'
    BY <1>1, <1>2, Zenon DEF Ordered, Acc
  <2> QED  BY <1>4, <2>1, Zenon DEF Acc
<1> QED  BY <1>5, <1>7, <1>8, <1>10, Zenon DEF Goes, Ordered

(* The number ieee80211_sta_manage_reorder_buf() releases up to is the one *)
(* that makes the new frame the last of the window.                        *)
LEMMA ManageTarget ==
    ASSUME Inv, Shapes
    PROVE  ieee80211_sn_inc(ieee80211_sn_sub(Sn(skb.n), BufSize)) = Sn(skb.n - BufSize + 1)
<1> DEFINE y == skb.n
           b == BufSize
           d == y - b
<1>1. y \in Int /\ b \in Int /\ d \in Int
  BY Ranges
<1> HIDE DEF y, b
<1>2. ieee80211_sn_sub(Sn(y), b) = Sn(d)
  BY <1>1, SnAdd, Zenon
<1> HIDE DEF d
<1>3. ieee80211_sn_inc(Sn(d)) = Sn(d + 1)
  BY <1>1, SnInc, Zenon
<1> QED  BY <1>2, <1>3, Zenon DEF y, b, d

(* A frame at or after the head is placed, after frames are released to    *)
(* make room when it is beyond the window.                                 *)
LEMMA ManageStep ==
    ASSUME HalfRange, Inv, Shapes, Sender, Kept, InOrder, NEW h \in Nat,
           Ordered(h), ~auto_seq,
           ieee80211_sta_manage_reorder_buf
    PROVE  Goes(h)
<1>R. /\ skb.n \in Nat /\ win \in Nat /\ seen \subseteq Nat
      /\ BufSize \in Nat /\ BufSize >= 1 /\ Half \in Int
      /\ SN_MODULO \div 2 \in Int /\ Half <= SN_MODULO \div 2 + 1
  BY Ranges, Zenon
<1>1. /\ Lock("rx", "frame") /\ ~ieee80211_sn_less(Sn(skb.n), head_seq_num)
      /\ step' = [step EXCEPT !["rx"] = "locked"]
      /\ head_seq_num' = head_seq_num /\ started' = TRUE
      /\ seen' = seen \cup {skb.n} /\ then' = "insert"
      /\ UNCHANGED <<stored_mpdu_num, reorder, life, skb, more, win, out, late, j, skipped>>
  BY Zenon DEF ieee80211_sta_manage_reorder_buf, HeadSn, originator
<1>2. /\ op = "none" /\ life # "freed" /\ Pending /\ Carried /\ ~Placing
      /\ head_seq_num = Sn(h) /\ h <= skb.n + BufSize + 1 /\ skb.n < h + Half
      /\ ~(skb.n < h) /\ (more => skb.more)
  BY <1>1, Incoming, Zenon
<1>3. Beyond(Sn(skb.n)) <=> skb.n >= h + BufSize
  <2> DEFINE y == skb.n
  <2>1. y \in Int /\ y - h - BufSize <= SN_MODULO \div 2 /\ h - y + BufSize < Half
    BY <1>R, <1>2 DEF HalfRange
  <2>2. HeadSn = Sn(h)
    BY <1>2, Zenon DEF HeadSn
  <2> HIDE DEF y
  <2>3. ieee80211_sn_less(Sn(y), Sn(h) + BufSize) <=> y < h + BufSize
    BY <2>1, SnBeyond
  <2>4. Beyond(Sn(y)) <=> ~(y < h + BufSize)
    BY <2>2, <2>3, Zenon DEF Beyond
  <2> QED  BY <1>R, <2>4 DEF y
<1>4. \/ /\ skb.n >= h + BufSize /\ op' = "release"
         /\ target' = Sn(skb.n - BufSize + 1)
      \/ skb.n < h + BufSize /\ op' = "insert"
  <2>1. Beyond(Sn(skb.n)) => op' = "release" /\ target' = Sn(skb.n - BufSize + 1)
    BY ManageTarget, Zenon DEF ieee80211_sta_manage_reorder_buf
  <2>2. ~Beyond(Sn(skb.n)) => op' = "insert"
    BY Zenon DEF ieee80211_sta_manage_reorder_buf
  <2> QED  BY <1>R, <1>3, <2>1, <2>2
<1>5. Numbers(out') = Numbers(out) /\ Stored' = Stored
  BY <1>1 DEF Stored, Numbers
<1>6. Kept' /\ InOrder' /\ OutOK(h)' /\ (\A s \in Slots : SlotOK(h, s))'
  <2>1. Kept'
    BY <1>1, <1>5, Zenon DEF Kept
  <2>2. InOrder' /\ OutOK(h)'
    BY <1>1, OutStays, Zenon DEF Ordered
  <2>3. (\A s \in Slots : SlotOK(h, s))'
    BY <1>1, <1>5, SlotStays, Zenon DEF Ordered
  <2> QED  BY <2>1, <2>2, <2>3, Zenon
<1>7. Placing' /\ step'["rx"] = "locked"
  BY <1>1, <1>4, Zenon DEF Placing, Inv, Types, Actors
<1>8. HeadOK(h)'
  <2>1. \A k \in seen : k \in Nat /\ k < h + BufSize
    BY <1>2, <1>R, Zenon DEF Ordered, HeadOK
  <2>2. h <= win \/ \E k \in seen' : h <= k + 1
    BY <1>1, Zenon DEF Ordered, HeadOK
  <2>3. CASE /\ skb.n >= h + BufSize /\ op' = "release"
             /\ target' = Sn(skb.n - BufSize + 1)
    <3>1. h <= skb.n - BufSize + 1 /\ \A k \in seen' : k <= skb.n
      BY <1>1, <1>R, <2>1, <2>3
    <3> QED  BY <1>1, <1>2, <1>7, <2>2, <2>3, <3>1, Zenon DEF HeadOK
  <2>4. CASE skb.n < h + BufSize /\ op' = "insert"
    <3>1. h <= skb.n /\ \A k \in seen' : k < h + BufSize
      BY <1>1, <1>2, <1>R, <2>1, <2>4
    <3> QED  BY <1>1, <1>2, <1>7, <2>2, <2>4, <3>1, Zenon DEF HeadOK
  <2> QED  BY <1>4, <2>3, <2>4, Zenon
<1>9. NotStarted(h)'
  BY <1>1, Zenon DEF NotStarted
<1>11. Acc'
  <2>1. seen \subseteq Numbers(out) \cup Stored \cup late
    BY <1>2, Zenon DEF Ordered, Acc
  <2> QED  BY <1>1, <1>5, <1>7, <2>1, Zenon DEF Acc
<1> QED  BY <1>6, <1>8, <1>9, <1>11, Zenon DEF Goes, Ordered

(* The first frame of a session without a starting number sets the head.   *)
LEMMA ManageStarts ==
    ASSUME HalfRange, Inv, Shapes, Sender, Kept, InOrder, auto_seq, Untouched,
           ieee80211_sta_manage_reorder_buf, NEW n \in Nat, n = skb.n
    PROVE  Goes(n)
<1>R. /\ BufSize \in Nat /\ BufSize >= 1 /\ Half \in Int
      /\ SN_MODULO \div 2 \in Int /\ Half <= SN_MODULO \div 2 + 1
  BY Ranges, Zenon
<1>1. /\ Lock("rx", "frame") /\ step' = [step EXCEPT !["rx"] = "locked"]
      /\ head_seq_num' = Sn(n) /\ started' = TRUE
      /\ seen' = {n} /\ then' = "insert"
      /\ UNCHANGED <<stored_mpdu_num, reorder, life, skb, more, win, out, late, j, skipped>>
  BY Zenon DEF ieee80211_sta_manage_reorder_buf, HeadSn, originator, Untouched
<1>2. op' = "insert"
  <2>1. n - n - BufSize <= SN_MODULO \div 2 /\ n - n + BufSize < Half /\ n < n + BufSize /\ n \in Int
    BY <1>R DEF HalfRange
  <2>2. ieee80211_sn_less(Sn(n), Sn(n) + BufSize)
    BY <2>1, SnBeyond, Zenon
  <2>3. ~Beyond(Sn(skb.n))
    BY <2>2, Zenon DEF Beyond, HeadSn
  <2> QED  BY <2>3, Zenon DEF ieee80211_sta_manage_reorder_buf
<1>3. out' = <<>> /\ late' = {} /\ \A s \in Slots : reorder'[s] = <<>>
  BY <1>1, Zenon DEF Untouched
<1>4. Len(out') = 0 /\ Numbers(out') = {} /\ Stored' = {} /\ \A s \in Slots : Numbers(reorder'[s]) = {}
  <2>1. Numbers(<<>>) = {}
    BY DEF Numbers
  <2>2. \A s \in Slots : Numbers(reorder'[s]) = {}
    BY <1>3, <2>1, Zenon
  <2>3. Stored' = {}
    BY <2>2, Zenon DEF Stored
  <2> QED  BY <1>3, <2>1, <2>2, <2>3, Zenon
<1>5. Placing' /\ step'["rx"] = "locked"
  BY <1>1, <1>2, Zenon DEF Placing, Inv, Types, Actors
<1>6. Kept' /\ InOrder' /\ OutOK(n)' /\ (\A s \in Slots : SlotOK(n, s))'
  <2>1. Kept'
    BY <1>3, <1>4 DEF Kept
  <2>2. InOrder' /\ OutOK(n)'
    BY <1>4 DEF InOrder, OutOK
  <2>3. (\A s \in Slots : SlotOK(n, s))'
    BY <1>3 DEF SlotOK
  <2> QED  BY <2>1, <2>2, <2>3, Zenon
<1>7. HeadOK(n)'
  <2>1. skb'.n = n /\ n <= n + BufSize + 1 /\ n < n + Half /\ n < n + BufSize /\ n <= n + 1
    BY <1>1, <1>R DEF HalfRange
  <2> QED  BY <1>1, <1>2, <1>5, <2>1 DEF HeadOK
<1>8. NotStarted(n)'
  BY <1>1, Zenon DEF NotStarted
<1>9. Acc'
  BY <1>1, <1>4, <1>5, Zenon DEF Acc
<1> QED  BY <1>6, <1>7, <1>8, <1>9, Zenon DEF Goes, Ordered

(* Freeing the session drops what is stored.                               *)
LEMMA FreeStep ==
    ASSUME Inv, Shapes, Sender, Kept, InOrder, NEW h \in Nat, Ordered(h),
           ieee80211_free_tid_rx
    PROVE  Goes(h)
<1>1. /\ life = "rcu" /\ waiting = {} /\ life' = "freed" /\ reorder' = [s \in Slots |-> <<>>]
      /\ UNCHANGED <<head_seq_num, stored_mpdu_num, started, lock, op, target, then, step, skb, more,
                     win, out, seen, late, j, skipped>>
  BY Zenon DEF ieee80211_free_tid_rx, locals, originator, history
<1>2. op = "none"
  <2>1. \A a \in Actors : step[a] = "idle"
    BY <1>1, Zenon DEF Inv, Control
  <2> QED  BY <2>1, Zenon DEF Inv, Control
<1>3. \A s \in Slots : reorder'[s] = <<>> /\ Numbers(reorder'[s]) = {} /\ ~ieee80211_rx_reorder_ready(s)'
  <2> TAKE s \in Slots
  <2>1. reorder'[s] = <<>>
    BY <1>1, Zenon
  <2> QED  BY <2>1 DEF Numbers, ieee80211_rx_reorder_ready
<1>4. Stored' = {} /\ Numbers(out') = Numbers(out)
  BY <1>1, <1>3, Zenon DEF Stored
<1>5. Kept'
  BY <1>1, <1>3, <1>4 DEF Kept
<1>6. InOrder' /\ OutOK(h)'
  BY <1>1, OutStays, Zenon DEF Ordered
<1>7. (\A s \in Slots : SlotOK(h, s))'
  BY <1>3 DEF SlotOK
<1>8. (Placing' <=> Placing) /\ (Carried' <=> Carried)
  BY <1>1, Zenon DEF Placing, Carried, Pending
<1>9. HeadOK(h)' /\ NotStarted(h)'
  BY <1>1, <1>2, <1>3, <1>8, Zenon DEF Ordered, HeadOK, NotStarted
<1>10. Acc'
  BY <1>1, <1>3, <1>4, <1>8, Zenon DEF Ordered, Acc
<1> QED  BY <1>5, <1>6, <1>7, <1>9, <1>10, Zenon DEF Goes, Ordered

============================================================================
