--------------------------- MODULE ReorderProofs ---------------------------
(***************************************************************************)
(* Theorems about the reorder buffer, for every buffer size, window and    *)
(* number of frames.  Frames leave in order for those that HalfRange       *)
(* allows.                                                                 *)
(***************************************************************************)
EXTENDS ReorderOrder, FiniteSetTheorems

(* Some of the steps below need more than the five seconds of the default. *)
USE SMTT(30)

----------------------------------------------------------------------------
(* Counting the ready slots.                                               *)

(* A set of slots is finite, and has no more than the buffer has.          *)
LEMMA SlotsFinite ==
    ASSUME NEW S, S \subseteq Slots
    PROVE  IsFiniteSet(S) /\ Cardinality(S) \in Nat /\ Cardinality(S) <= BufSize
<1>1. IsFiniteSet(Slots) /\ Cardinality(Slots) = BufSize
  <2>1. 0 \in Int /\ BufSize - 1 \in Int /\ 0 <= BufSize - 1
    BY Positive
  <2> QED  BY <2>1, FS_Interval, Positive DEF Slots
<1> QED  BY <1>1, FS_Subset, FS_CardinalityType, Zenon

(* In particular the ready slots.                                          *)
LEMMA ReadyFinite ==
    /\ IsFiniteSet(ReadySlots)
    /\ Cardinality(ReadySlots) \in Nat /\ Cardinality(ReadySlots) <= BufSize
<1>1. ReadySlots \subseteq Slots
  BY Zenon DEF ReadySlots
<1> QED  BY <1>1, SlotsFinite, Zenon

(* Taking a ready slot out, or making one ready, keeps the count right:    *)
(* the u16 does not wrap, for it counts slots.                             *)
LEMMA CountOut ==
    ASSUME NEW k \in ReadySlots
    PROVE  (Cardinality(ReadySlots) - 1) % U16 = Cardinality(ReadySlots \ {k})
<1>1. Cardinality(ReadySlots \ {k}) = Cardinality(ReadySlots) - 1
  BY ReadyFinite, FS_RemoveElement, Zenon
<1>2. IsFiniteSet(ReadySlots \ {k})
  BY ReadyFinite, FS_RemoveElement, Zenon
<1>3. Cardinality(ReadySlots \ {k}) \in Nat
  BY <1>2, FS_CardinalityType, Zenon
<1>4. /\ Cardinality(ReadySlots) - 1 \in Nat
      /\ Cardinality(ReadySlots) - 1 < U16
  BY <1>1, <1>3, ReadyFinite, Positive
<1>5. (Cardinality(ReadySlots) - 1) % U16 = Cardinality(ReadySlots) - 1
  BY <1>4, Positive, ModSmall
<1> QED  BY <1>1, <1>5, Zenon

LEMMA CountIn ==
    ASSUME NEW k \in Slots, k \notin ReadySlots
    PROVE  (Cardinality(ReadySlots) + 1) % U16 = Cardinality(ReadySlots \cup {k})
<1>1. Cardinality(ReadySlots \cup {k}) = Cardinality(ReadySlots) + 1
  BY ReadyFinite, FS_AddElement, Zenon
<1>2. Cardinality(ReadySlots \cup {k}) <= BufSize
  <2>1. ReadySlots \cup {k} \subseteq Slots
    BY Zenon DEF ReadySlots
  <2> QED  BY <2>1, SlotsFinite, Zenon
<1>3. /\ Cardinality(ReadySlots) + 1 \in Nat
      /\ Cardinality(ReadySlots) + 1 < U16
  BY <1>1, <1>2, ReadyFinite, Positive
<1>4. (Cardinality(ReadySlots) + 1) % U16 = Cardinality(ReadySlots) + 1
  BY <1>3, Positive, ModSmall
<1> QED  BY <1>1, <1>4, Zenon

(* ieee80211_release_reorder_frame() empties one slot and keeps the count. *)
LEMMA Empties ==
    ASSUME Types, Counted, NEW i \in Slots, NEW h,
           ieee80211_release_reorder_frame(i, h),
           reorder' = [reorder EXCEPT ![i] = <<>>], life' = life
    PROVE  Counted'
<1>1. reorder'[i] = <<>> /\ \A s \in Slots : s # i => reorder'[s] = reorder[s]
  BY Zenon DEF Types
<1>2. CASE ieee80211_rx_reorder_ready(i)
  <2>1. i \in ReadySlots /\ ReadySlots' = ReadySlots \ {i}
    BY <1>1, <1>2, Zenon DEF ReadySlots, ieee80211_rx_reorder_ready
  <2>2. stored_mpdu_num' = (stored_mpdu_num - 1) % U16
    BY <1>2, Zenon DEF ieee80211_release_reorder_frame
  <2>3. CASE life = "freed"
    BY <2>3, Zenon DEF Counted
  <2>4. CASE life # "freed"
    <3>1. stored_mpdu_num = Cardinality(ReadySlots)
      BY <2>4, Zenon DEF Counted
    <3>2. (Cardinality(ReadySlots) - 1) % U16 = Cardinality(ReadySlots \ {i})
      BY <2>1, CountOut, Zenon
    <3> QED  BY <2>1, <2>2, <3>1, <3>2, Zenon DEF Counted
  <2> QED  BY <2>3, <2>4, Zenon
<1>3. CASE ~ieee80211_rx_reorder_ready(i)
  <2>1. ReadySlots' = ReadySlots
    BY <1>1, <1>3, Zenon DEF ReadySlots, ieee80211_rx_reorder_ready
  <2> QED  BY <1>3, <2>1, Zenon DEF ieee80211_release_reorder_frame, Counted
<1> QED  BY <1>2, <1>3, Zenon

----------------------------------------------------------------------------
(* One lemma for each part of the invariant, one case for each action.     *)

(* Every step keeps the lock, the stages of removal and the timer apart.    *)
LEMMA ControlStep == Inv /\ [Next]_vars => Control'
<1> SUFFICES ASSUME Inv, [Next]_vars PROVE Control'
  BY Zenon
<1>1. CASE Advance
  BY <1>1, Zenon DEF Advance, Inv, Types, Control, Actors, Steps, Off,
     buffer, locals, originator, history
<1>2. CASE RxFrame
  BY <1>2 DEF RxFrame, Arrives, Inv, Types, Control, Actors, Steps,
     Off, buffer, locals, originator, history
<1>3. CASE RxLastSubframe
  BY <1>3, Zenon DEF RxLastSubframe, Arrives, Inv, Types, Control, Actors,
     Steps, Off, buffer, locals, originator, history
<1>4. CASE LastSubframeLost
  BY <1>4, Zenon DEF LastSubframeLost, Inv, Types, Control, Actors, Steps,
     Off, buffer, locals, originator, history
<1>5. CASE RxBar
  BY <1>5, Zenon DEF RxBar, Arrives, Inv, Types, Control, Actors, Steps,
     Off, buffer, locals, originator, history
<1>6. CASE RxBeforeStart
  BY <1>6, Zenon DEF RxBeforeStart, Lock, Unlocked, HeadSn, Inv, Types,
     Control, Actors, Steps, Off, buffer, locals, originator, history
<1>7. CASE RxOutdated
  BY <1>7, Zenon DEF RxOutdated, Lock, Unlocked, Inv, Types, Control,
     Actors, Steps, Off, buffer, locals, originator, history
<1>8. CASE ieee80211_sta_manage_reorder_buf
  BY <1>8, Zenon DEF ieee80211_sta_manage_reorder_buf, Lock, HeadSn, Inv,
     Types, Control, Actors, Steps, Off, buffer, locals, originator,
     history
<1>9. CASE BarLock
  BY <1>9, Zenon DEF BarLock, Lock, Inv, Types, Control, Actors, Steps,
     Off, buffer, locals, originator, history
<1>10. CASE ieee80211_release_reorder_frames
  BY <1>10, Zenon DEF ieee80211_release_reorder_frames,
     ieee80211_release_reorder_frame, Inv, Types, Control, Actors,
     Steps, Off, buffer, locals, originator, history
<1>11. CASE Duplicate
  BY <1>11, Zenon DEF Duplicate, Inv, Types, Control, Actors, Steps, Off,
     buffer, locals, originator, history
<1>12. CASE Pass
  BY <1>12, Zenon DEF Pass, InOrderFrame, Inv, Types, Control, Actors,
     Steps, Off, buffer, locals, originator, history
<1>13. CASE Store
  BY <1>13, Zenon DEF Store, Inv, Types, Control, Actors, Steps, Off,
     buffer, locals, originator, history
<1>14. CASE ieee80211_sta_reorder_release
  BY <1>14, Zenon DEF ieee80211_sta_reorder_release, Inv, Types, Control,
     Actors, Steps, Off, buffer, locals, originator, history
<1>15. CASE ReleaseRun
  BY <1>15, Zenon DEF ReleaseRun, ieee80211_release_reorder_frame, Inv,
     Types, Control, Actors, Steps, Off, buffer, locals, originator,
     history
<1>16. CASE ScanSkips
  BY <1>16, Zenon DEF ScanSkips, Inv, Types, Control, Actors, Steps, Off,
     buffer, locals, originator, history
<1>17. CASE ScanReleases
  BY <1>17, Zenon DEF ScanReleases, Inv, Types, Control, Actors, Steps,
     Off, buffer, locals, originator, history
<1>18. CASE ScanStops
  BY <1>18 DEF ScanStops, SetTimer, Inv, Types, Control, Actors,
     Steps, Off, buffer, locals, originator, history
<1>19. CASE ScanEnds
  BY <1>19, Zenon DEF ScanEnds, Inv, Types, Control, Actors, Steps, Off,
     buffer, locals, originator, history
<1>20. CASE Rearm
  <2>1. reorder_timer' \in -1 .. 2 /\ (removed => reorder_timer' \in {reorder_timer, Off})
    <3>1. CASE stored_mpdu_num > 0
      <4>1. PICK k \in Slots : SetTimer(k)
        BY <1>20, <3>1, Zenon DEF Rearm
      <4> QED  BY <4>1 DEF SetTimer, Inv, Types, Control
    <3>2. CASE ~(stored_mpdu_num > 0)
      BY <1>20, <3>2 DEF Rearm, Off
    <3> QED  BY <3>1, <3>2, Zenon
  <2>2. /\ op = "rearm" /\ op' = "unlock"
        /\ UNCHANGED <<lock, step, life, removed, waiting>>
    BY <1>20, Zenon DEF Rearm
  <2> QED  BY <2>1, <2>2, Zenon DEF Inv, Types, Control, Actors, Off
<1>21. CASE Unlock
  BY <1>21, Zenon DEF Unlock, Inv, Types, Control, Actors, Steps, Off,
     buffer, locals, originator, history
<1>22. CASE TimerFires
  BY <1>22 DEF TimerFires, Inv, Types, Control, Actors, Steps, Off,
     buffer, locals, originator, history
<1>23. CASE sta_rx_agg_reorder_timer_expired
  BY <1>23, Zenon DEF sta_rx_agg_reorder_timer_expired, Inv, Types,
     Control, Actors, Steps, Off, buffer, locals, originator, history
<1>24. CASE ieee80211_release_reorder_timeout
  BY <1>24, Zenon DEF ieee80211_release_reorder_timeout, Lock, Inv, Types,
     Control, Actors, Steps, Off, buffer, locals, originator, history
<1>25. CASE Tick
  BY <1>25 DEF Tick, Inv, Types, Control, Actors, Steps, Off,
     buffer, locals, originator, history
<1>26. CASE Unpublish
  BY <1>26, Zenon DEF Unpublish, Inv, Types, Control, Actors, Steps, Off,
     buffer, locals, originator, history
<1>27. CASE MarkRemoved
  BY <1>27, Zenon DEF MarkRemoved, Inv, Types, Control, Actors, Steps,
     Off, buffer, locals, originator, history
<1>28. CASE DeleteTimer
  BY <1>28 DEF DeleteTimer, TimerDeleted, Inv, Types, Control,
     Actors, Steps, Off, buffer, locals, originator, history
<1>29. CASE ieee80211_free_tid_rx
  BY <1>29, Zenon DEF ieee80211_free_tid_rx, Inv, Types, Control, Actors,
     Steps, Off, buffer, locals, originator, history
<1>30. CASE \E a \in Actors : Deliver(a)
  BY <1>30 DEF Deliver, Inv, Types, Control, Actors, Steps, Off,
     buffer, locals, originator, history
<1>31. CASE UNCHANGED vars
  BY <1>31, Zenon DEF Inv, Types, Control, Actors, Steps, Off, buffer, locals,
     originator, history, vars
<1> QED
  BY <1>1, <1>2, <1>3, <1>4, <1>5, <1>6, <1>7, <1>8, <1>9, <1>10, <1>11,
     <1>12, <1>13, <1>14, <1>15, <1>16, <1>17, <1>18, <1>19, <1>20,
     <1>21, <1>22, <1>23, <1>24, <1>25, <1>26, <1>27, <1>28, <1>29,
     <1>30, <1>31, Zenon DEF Next, Traffic, Receive, Locked, Timer, Stop

(* Every step keeps the types.                                             *)
LEMMA TypesStep == Inv /\ [Next]_vars => Types'
<1> SUFFICES ASSUME Inv, [Next]_vars PROVE Types'
  BY Zenon
<1>1. CASE Advance
  <2>1. win' \in Frames
    BY <1>1, ReorderAssumption DEF Advance, Inv, Types, Frames
  <2>2. UNCHANGED <<head_seq_num, skipped, index, j, skb, then, reorder, age, step>>
    BY <1>1, Zenon DEF Advance, buffer, locals, originator
  <2> QED  BY <2>1, <2>2, Zenon DEF Inv, Types
<1>2. CASE RxFrame
  <2>1. PICK n \in Frames, b \in BOOLEAN : skb' = [n |-> n, more |-> b]
    BY <1>2, Zenon DEF RxFrame, Arrives, Frames
  <2>2. skb' \in Skb
    BY <2>1, Zenon DEF Skb
  <2>3. step' \in [Actors -> Steps]
    BY <1>2, Zenon DEF RxFrame, Arrives, Inv, Types, Steps, Actors
  <2>4. UNCHANGED <<head_seq_num, skipped, index, j, win, then, reorder, age>>
    BY <1>2, Zenon DEF RxFrame, Arrives, buffer, locals
  <2> QED  BY <2>2, <2>3, <2>4, Zenon DEF Inv, Types
<1>3. CASE RxLastSubframe
  <2>1. PICK n \in Frames, b \in BOOLEAN : skb' = [n |-> n, more |-> b]
    BY <1>3, Zenon DEF RxLastSubframe, Arrives, Inv, Types, Skb
  <2>2. skb' \in Skb
    BY <2>1, Zenon DEF Skb
  <2>3. step' \in [Actors -> Steps]
    BY <1>3, Zenon DEF RxLastSubframe, Arrives, Inv, Types, Steps, Actors
  <2>4. UNCHANGED <<head_seq_num, skipped, index, j, win, then, reorder, age>>
    BY <1>3, Zenon DEF RxLastSubframe, Arrives, buffer, locals
  <2> QED  BY <2>2, <2>3, <2>4, Zenon DEF Inv, Types
<1>4. CASE LastSubframeLost
  BY <1>4, SnInt, Zenon DEF LastSubframeLost, Inv, Types, Actors, Steps,
     buffer, locals, originator, history
<1>5. CASE RxBar
  <2>1. PICK n \in Frames, b \in BOOLEAN : skb' = [n |-> n, more |-> b]
    BY <1>5, Zenon DEF RxBar, Arrives, Inv, Types
  <2>2. skb' \in Skb
    BY <2>1, Zenon DEF Skb
  <2>3. step' \in [Actors -> Steps]
    BY <1>5, Zenon DEF RxBar, Arrives, Inv, Types, Steps, Actors
  <2>4. UNCHANGED <<head_seq_num, skipped, index, j, win, then, reorder, age>>
    BY <1>5, Zenon DEF RxBar, Arrives, buffer, locals
  <2> QED  BY <2>2, <2>3, <2>4, Zenon DEF Inv, Types
<1>6. CASE RxBeforeStart
  BY <1>6, SnInt, Zenon DEF RxBeforeStart, Lock, Unlocked, HeadSn, Inv,
     Types, Actors, Steps, buffer, locals, originator, history
<1>7. CASE RxOutdated
  BY <1>7, SnInt, Zenon DEF RxOutdated, Lock, Unlocked, Inv, Types,
     Actors, Steps, buffer, locals, originator, history
<1>8. CASE ieee80211_sta_manage_reorder_buf
  BY <1>8, SnInt, Zenon DEF ieee80211_sta_manage_reorder_buf, Lock,
     HeadSn, Inv, Types, Actors, Steps, buffer, locals, originator,
     history
<1>9. CASE BarLock
  BY <1>9, SnInt, Zenon DEF BarLock, Lock, Inv, Types, Actors, Steps,
     buffer, locals, originator, history
<1>10. CASE ieee80211_release_reorder_frames
  <2>1. head_seq_num' \in Int
    BY <1>10, SnInt, Zenon DEF ieee80211_release_reorder_frames, ieee80211_release_reorder_frame, Inv, Types
  <2>2. reorder' \in [Slots -> Seq(Skb)]
    <3>1. [reorder EXCEPT ![Index(head_seq_num)] = <<>>] \in [Slots -> Seq(Skb)]
      BY SnInt DEF Inv, Types
    <3> QED  BY <1>10, <3>1, Zenon DEF ieee80211_release_reorder_frames, Inv, Types
  <2>3. UNCHANGED <<skipped, index, j, skb, win, then, age, step>>
    BY <1>10, Zenon DEF ieee80211_release_reorder_frames, originator
  <2> QED  BY <2>1, <2>2, <2>3, Zenon DEF Inv, Types
<1>11. CASE Duplicate
  BY <1>11, SnInt, Zenon DEF Duplicate, Inv, Types, Actors, Steps, buffer,
     locals, originator, history
<1>12. CASE Pass
  BY <1>12, SnInt, Zenon DEF Pass, InOrderFrame, Inv, Types, Actors,
     Steps, buffer, locals, originator, history
<1>13. CASE Store
  <2>1. reorder' \in [Slots -> Seq(Skb)]
    BY <1>13, SnInt DEF Store, Inv, Types
  <2>2. age' \in [Slots -> 0 .. 2]
    <3>1. [age EXCEPT ![Slot] = 0] \in [Slots -> 0 .. 2]
      BY SnInt DEF Inv, Types
    <3>2. age' = age \/ age' = [age EXCEPT ![Slot] = 0]
      BY <1>13, Zenon DEF Store, originator
    <3> QED  BY <3>1, <3>2, Zenon DEF Inv, Types
  <2>3. UNCHANGED <<head_seq_num, skipped, index, j, skb, win, then, step>>
    BY <1>13, Zenon DEF Store, originator
  <2> QED  BY <2>1, <2>2, <2>3, Zenon DEF Inv, Types
<1>14. CASE ieee80211_sta_reorder_release
  <2>1. index' \in Slots /\ j' \in Slots /\ skipped' \in Int
    BY <1>14, SnInt, Successor DEF ieee80211_sta_reorder_release, Inv, Types
  <2>2. UNCHANGED <<head_seq_num, skb, win, then, reorder, age, step>>
    BY <1>14, Zenon DEF ieee80211_sta_reorder_release, buffer, originator
  <2> QED  BY <2>1, <2>2, Zenon DEF Inv, Types
<1>15. CASE ReleaseRun
  <2>1. head_seq_num' \in Int
    BY <1>15, SnInt, Zenon DEF ReleaseRun, ieee80211_release_reorder_frame, Inv, Types
  <2>2. reorder' \in [Slots -> Seq(Skb)]
    <3>1. [reorder EXCEPT ![Index(head_seq_num)] = <<>>] \in [Slots -> Seq(Skb)]
      BY SnInt DEF Inv, Types
    <3> QED  BY <1>15, <3>1, Zenon DEF ReleaseRun, Inv, Types
  <2>3. UNCHANGED <<skipped, index, j, skb, win, then, age, step>>
    BY <1>15, Zenon DEF ReleaseRun, originator
  <2> QED  BY <2>1, <2>2, <2>3, Zenon DEF Inv, Types
<1>16. CASE ScanSkips
  <2>1. j' \in Slots /\ skipped' \in Int
    BY <1>16, Successor DEF ScanSkips, Inv, Types
  <2>2. UNCHANGED <<head_seq_num, index, skb, win, then, reorder, age, step>>
    BY <1>16, Zenon DEF ScanSkips, buffer, originator
  <2> QED  BY <2>1, <2>2, Zenon DEF Inv, Types
<1>17. CASE ScanReleases
  <2>1. j' \in Slots /\ skipped' \in Int /\ head_seq_num' \in Int
    BY <1>17, SnInt, Successor DEF ScanReleases, Inv, Types
  <2>2. reorder' \in [Slots -> Seq(Skb)]
    BY <1>17 DEF ScanReleases, Inv, Types
  <2>3. UNCHANGED <<index, skb, win, then, age, step>>
    BY <1>17, Zenon DEF ScanReleases, originator
  <2> QED  BY <2>1, <2>2, <2>3, Zenon DEF Inv, Types
<1>18. CASE ScanStops
  BY <1>18, SnInt, Zenon DEF ScanStops, SetTimer, Inv, Types, Actors,
     Steps, buffer, locals, originator, history
<1>19. CASE ScanEnds
  BY <1>19, SnInt, Zenon DEF ScanEnds, Inv, Types, Actors, Steps, buffer,
     locals, originator, history
<1>20. CASE Rearm
  BY <1>20, SnInt, Zenon DEF Rearm, SetTimer, FirstReady, Inv, Types,
     Actors, Steps, buffer, locals, originator, history
<1>21. CASE Unlock
  <2>1. index' \in Slots /\ j' \in Slots /\ skipped' \in Int /\ then' = "unlock"
    BY <1>21, Positive DEF Unlock, Slots
  <2>2. step' \in [Actors -> Steps]
    BY <1>21, Zenon DEF Unlock, Inv, Types, Steps
  <2>3. UNCHANGED <<head_seq_num, skb, win, reorder, age>>
    BY <1>21, Zenon DEF Unlock, buffer, originator
  <2> QED  BY <2>1, <2>2, <2>3, Zenon DEF Inv, Types
<1>22. CASE TimerFires
  BY <1>22, SnInt, Zenon DEF TimerFires, Inv, Types, Actors, Steps,
     buffer, locals, originator, history
<1>23. CASE sta_rx_agg_reorder_timer_expired
  BY <1>23, SnInt, Zenon DEF sta_rx_agg_reorder_timer_expired, Inv, Types,
     Actors, Steps, buffer, locals, originator, history
<1>24. CASE ieee80211_release_reorder_timeout
  BY <1>24, SnInt, Zenon DEF ieee80211_release_reorder_timeout, Lock, Inv,
     Types, Actors, Steps, buffer, locals, originator, history
<1>25. CASE Tick
  <2>1. age' \in [Slots -> 0 .. 2]
    <3>1. \A i \in Slots : (IF age[i] < 2 THEN age[i] + 1 ELSE 2) \in 0 .. 2
      BY DEF Inv, Types
    <3>2. age' = [i \in Slots |-> IF age[i] < 2 THEN age[i] + 1 ELSE 2]
      BY <1>25, Zenon DEF Tick
    <3> QED  BY <3>1, <3>2, Zenon
  <2>2. UNCHANGED <<head_seq_num, skipped, index, j, skb, win, then, reorder, step>>
    BY <1>25, Zenon DEF Tick, locals, originator
  <2> QED  BY <2>1, <2>2, Zenon DEF Inv, Types
<1>26. CASE Unpublish
  BY <1>26, SnInt, Zenon DEF Unpublish, Inv, Types, Actors, Steps, buffer,
     locals, originator, history
<1>27. CASE MarkRemoved
  BY <1>27, SnInt, Zenon DEF MarkRemoved, Inv, Types, Actors, Steps,
     buffer, locals, originator, history
<1>28. CASE DeleteTimer
  BY <1>28, SnInt, Zenon DEF DeleteTimer, TimerDeleted, Inv, Types,
     Actors, Steps, buffer, locals, originator, history
<1>29. CASE ieee80211_free_tid_rx
  BY <1>29, SnInt DEF ieee80211_free_tid_rx, Inv, Types, Actors,
     Steps, buffer, locals, originator, history
<1>30. CASE \E a \in Actors : Deliver(a)
  <2>1. PICK a \in Actors : Deliver(a)
    BY <1>30, Zenon
  <2>2. NoSkb \in Skb
    BY ReorderAssumption DEF NoSkb, Skb, Frames
  <2>3. skb' \in Skb
    BY <2>1, <2>2, Zenon DEF Deliver, Inv, Types
  <2>4. step' \in [Actors -> Steps]
    BY <2>1, Zenon DEF Deliver, Inv, Types, Steps
  <2>5. UNCHANGED <<head_seq_num, skipped, index, j, win, then, reorder, age>>
    BY <2>1, Zenon DEF Deliver, buffer, locals, originator
  <2> QED  BY <2>3, <2>4, <2>5, Zenon DEF Inv, Types
<1>31. CASE UNCHANGED vars
  BY <1>31, Zenon DEF Inv, Types, Actors, Steps, buffer, locals, originator,
     history, vars
<1> QED
  BY <1>1, <1>2, <1>3, <1>4, <1>5, <1>6, <1>7, <1>8, <1>9, <1>10, <1>11,
     <1>12, <1>13, <1>14, <1>15, <1>16, <1>17, <1>18, <1>19, <1>20,
     <1>21, <1>22, <1>23, <1>24, <1>25, <1>26, <1>27, <1>28, <1>29,
     <1>30, <1>31, Zenon DEF Next, Traffic, Receive, Locked, Timer, Stop

(* What all steps but a few leave alone.                                   *)
Aside ==
    /\ UNCHANGED <<reorder, stored_mpdu_num>>
    /\ life = "freed" => life' = "freed"
    /\ op' = "scan" => op = "scan" /\ UNCHANGED <<index, j>>

(* Those few are named here.                                               *)
LEMMA Frame ==
    ASSUME [Next]_vars
    PROVE  \/ Aside
           \/ ieee80211_release_reorder_frames \/ Store
           \/ ieee80211_sta_reorder_release \/ ReleaseRun \/ ScanSkips
           \/ ScanReleases \/ ieee80211_free_tid_rx
<1>1. CASE Advance
  BY <1>1, Zenon DEF Advance, Aside, buffer, locals
<1>2. CASE RxFrame
  BY <1>2, Zenon DEF RxFrame, Arrives, Aside, buffer, locals
<1>3. CASE RxLastSubframe
  BY <1>3, Zenon DEF RxLastSubframe, Arrives, Aside, buffer, locals
<1>4. CASE LastSubframeLost
  BY <1>4, Zenon DEF LastSubframeLost, Aside, buffer, locals
<1>5. CASE RxBar
  BY <1>5, Zenon DEF RxBar, Arrives, Aside, buffer, locals
<1>6. CASE RxBeforeStart
  BY <1>6, Zenon DEF RxBeforeStart, Aside, buffer, locals
<1>7. CASE RxOutdated
  BY <1>7, Zenon DEF RxOutdated, Aside, buffer, locals
<1>8. CASE ieee80211_sta_manage_reorder_buf
  BY <1>8, Zenon DEF ieee80211_sta_manage_reorder_buf, Aside, buffer, locals
<1>9. CASE BarLock
  BY <1>9, Zenon DEF BarLock, Aside, buffer, locals
<1>10. CASE Duplicate
  BY <1>10, Zenon DEF Duplicate, Aside, buffer, locals
<1>11. CASE Pass
  BY <1>11, Zenon DEF Pass, Aside, buffer, locals
<1>12. CASE ScanStops
  BY <1>12, Zenon DEF ScanStops, Aside, buffer, locals
<1>13. CASE ScanEnds
  BY <1>13, Zenon DEF ScanEnds, Aside, buffer, locals
<1>14. CASE Rearm
  BY <1>14, Zenon DEF Rearm, Aside, buffer, locals
<1>15. CASE Unlock
  BY <1>15, Zenon DEF Unlock, Aside, buffer, locals
<1>16. CASE TimerFires
  BY <1>16, Zenon DEF TimerFires, Aside, buffer, locals
<1>17. CASE sta_rx_agg_reorder_timer_expired
  BY <1>17, Zenon DEF sta_rx_agg_reorder_timer_expired, Aside, buffer, locals
<1>18. CASE ieee80211_release_reorder_timeout
  BY <1>18, Zenon DEF ieee80211_release_reorder_timeout, Aside, buffer, locals
<1>19. CASE Tick
  BY <1>19, Zenon DEF Tick, Aside, buffer, locals
<1>20. CASE Unpublish
  BY <1>20, Zenon DEF Unpublish, Aside, buffer, locals
<1>21. CASE MarkRemoved
  BY <1>21, Zenon DEF MarkRemoved, Aside, buffer, locals
<1>22. CASE DeleteTimer
  BY <1>22, Zenon DEF DeleteTimer, Aside, buffer, locals
<1>23. CASE \E a \in Actors : Deliver(a)
  BY <1>23, Zenon DEF Deliver, Aside, buffer, locals
<1>24. CASE UNCHANGED vars
  BY <1>24, Zenon DEF Aside, vars, buffer, locals
<1> QED
  BY <1>1, <1>2, <1>3, <1>4, <1>5, <1>6, <1>7, <1>8, <1>9, <1>10, <1>11,
     <1>12, <1>13, <1>14, <1>15, <1>16, <1>17, <1>18, <1>19, <1>20,
     <1>21, <1>22, <1>23, <1>24, Zenon DEF Next, Traffic, Receive,
     Locked, Timer, Stop

(* Every step keeps the count.                                             *)
LEMMA CountedStep == Inv /\ [Next]_vars => Counted'
<1> SUFFICES ASSUME Inv, [Next]_vars PROVE Counted'
  BY Zenon
<1>1. CASE Aside
  <2>1. ReadySlots' = ReadySlots
    BY <1>1, Zenon DEF Aside, ReadySlots, ieee80211_rx_reorder_ready
  <2> QED  BY <1>1, <2>1, Zenon DEF Aside, Inv, Counted
<1>2. CASE ieee80211_release_reorder_frames
  <2>1. CASE ieee80211_sn_less(head_seq_num, target)
    BY <1>2, <2>1, SnInt, Empties, Zenon DEF ieee80211_release_reorder_frames, Inv
  <2>2. CASE ~ieee80211_sn_less(head_seq_num, target)
    BY <1>2, <2>2, Zenon DEF ieee80211_release_reorder_frames, Inv, Counted, ReadySlots,
       ieee80211_rx_reorder_ready
  <2> QED  BY <2>1, <2>2, Zenon
<1>3. CASE Store
  <2>1. /\ Slot \in Slots /\ Slot \notin ReadySlots /\ skb \in Skb
        /\ reorder \in [Slots -> Seq(Skb)]
        /\ reorder' = [reorder EXCEPT ![Slot] = Append(@, skb)]
    BY <1>3, SnInt, Zenon DEF Store, Inv, Types, ReadySlots
  <2>2. reorder'[Slot] = Append(reorder[Slot], skb) /\ reorder[Slot] \in Seq(Skb)
    BY <2>1, Zenon
  <2>3. /\ reorder'[Slot] # <<>>
        /\ reorder'[Slot][Len(reorder'[Slot])] = skb
    BY <2>1, <2>2
  <2>4. \A s \in Slots : s # Slot => reorder'[s] = reorder[s]
    BY <2>1, Zenon
  <2>5. CASE skb.more
    <3>1. ReadySlots' = ReadySlots
      BY <2>1, <2>3, <2>4, <2>5 DEF ReadySlots, ieee80211_rx_reorder_ready
    <3> QED  BY <1>3, <2>5, <3>1, Zenon DEF Store, Inv, Counted
  <2>6. CASE ~skb.more
    <3>1. ReadySlots' = ReadySlots \cup {Slot}
      BY <2>1, <2>3, <2>4, <2>6, Zenon DEF ReadySlots, ieee80211_rx_reorder_ready
    <3>2. stored_mpdu_num' = (stored_mpdu_num + 1) % U16 /\ life' = life
      BY <1>3, <2>6, Zenon DEF Store
    <3>3. CASE life = "freed"
      BY <3>2, <3>3, Zenon DEF Counted
    <3>4. CASE life # "freed"
      <4>1. stored_mpdu_num = Cardinality(ReadySlots)
        BY <3>4, Zenon DEF Inv, Counted
      <4>2. (Cardinality(ReadySlots) + 1) % U16 =
               Cardinality(ReadySlots \cup {Slot})
        BY <2>1, CountIn, Zenon
      <4> QED  BY <3>1, <3>2, <4>1, <4>2, Zenon DEF Counted
    <3> QED  BY <3>3, <3>4, Zenon
  <2> QED  BY <2>5, <2>6, Zenon
<1>4. CASE ieee80211_sta_reorder_release
  BY <1>4, Zenon DEF ieee80211_sta_reorder_release, buffer, Inv, Counted, ReadySlots,
     ieee80211_rx_reorder_ready
<1>5. CASE ReleaseRun
  <2> DEFINE i == Index(head_seq_num)
  <2>1. CASE ieee80211_rx_reorder_ready(i)
    BY <1>5, <2>1, SnInt, Empties, Zenon DEF ReleaseRun, Inv
  <2>2. CASE ~ieee80211_rx_reorder_ready(i)
    BY <1>5, <2>2, ZenonT(30) DEF ReleaseRun, Inv, Counted, ReadySlots,
       ieee80211_rx_reorder_ready
  <2> QED  BY <2>1, <2>2, Zenon
<1>6. CASE ScanSkips
  BY <1>6, Zenon DEF ScanSkips, buffer, Inv, Counted, ReadySlots, ieee80211_rx_reorder_ready
<1>7. CASE ScanReleases
  <2> DEFINE R == Purged \cup {j}
  <2>1. /\ j \in ReadySlots
        /\ \A s \in Purged : ~ieee80211_rx_reorder_ready(s)
    BY <1>7, Zenon DEF ScanReleases, Inv, Types, Scanned, Purged, ReadySlots
  <2>2. reorder' = [i \in Slots |-> IF i \in R THEN <<>> ELSE reorder[i]]
    BY <1>7, Zenon DEF ScanReleases
  <2>3. /\ \A s \in Slots : s \in R => reorder'[s] = <<>>
        /\ \A s \in Slots : s \notin R => reorder'[s] = reorder[s]
    BY <2>2, Zenon
  <2>4. ReadySlots' = ReadySlots \ {j}
    BY <2>1, <2>3, Zenon DEF ReadySlots, ieee80211_rx_reorder_ready
  <2>5. stored_mpdu_num' = (stored_mpdu_num - 1) % U16 /\ life' = life
    BY <1>7, Zenon DEF ScanReleases
  <2>6. (Cardinality(ReadySlots) - 1) % U16 = Cardinality(ReadySlots \ {j})
    BY <2>1, CountOut, Zenon
  <2> QED  BY <2>4, <2>5, <2>6, Zenon DEF Inv, Counted
<1>8. CASE ieee80211_free_tid_rx
  BY <1>8, Zenon DEF ieee80211_free_tid_rx, Counted
<1> QED
  BY <1>1, <1>2, <1>3, <1>4, <1>5, <1>6, <1>7, <1>8, Frame, Zenon

(* No slot counts zero.                                                    *)
LEMMA CountZero ==
    ASSUME NEW S \in SUBSET Slots
    PROVE  Cardinality(S) \in Nat /\ (Cardinality(S) = 0 <=> S = {})
  BY SlotsFinite, FS_EmptySet, Zenon

(* A right count is zero just when no slot is ready, before a step and     *)
(* after it.                                                               *)
LEMMA NoneStoredStep == (Counted => NoneStored) /\ (Counted' => NoneStored')
<1>1. ReadySlots \in SUBSET Slots /\ ReadySlots' \in SUBSET Slots
  BY Zenon DEF ReadySlots
<1>2. Counted => NoneStored
  BY <1>1, CountZero, Zenon DEF Counted, NoneStored
<1>3. Counted' => NoneStored'
  BY <1>1, CountZero, Zenon DEF Counted, NoneStored
<1> QED  BY <1>2, <1>3, Zenon

(* Every step of the search keeps what it has passed.                      *)
LEMMA ScannedStep == Inv /\ [Next]_vars => Scanned'
<1> SUFFICES ASSUME Inv, [Next]_vars PROVE Scanned'
  BY Zenon
<1>1. CASE Aside
  <2>1. CASE op' = "scan"
    <3>1. op = "scan" /\ UNCHANGED <<reorder, index, j>>
      BY <1>1, <2>1, Zenon DEF Aside
    <3> QED  BY <3>1, Zenon DEF Inv, Scanned, Between, Next1, ieee80211_rx_reorder_ready
  <2>2. CASE op' # "scan"
    BY <2>2, Zenon DEF Scanned
  <2> QED  BY <2>1, <2>2, Zenon
<1>2. CASE ieee80211_release_reorder_frames
  BY <1>2, Zenon DEF ieee80211_release_reorder_frames, Inv, Types, Scanned
<1>3. CASE Store
  BY <1>3, Zenon DEF Store, Scanned
<1>4. CASE ieee80211_sta_reorder_release
  <2> DEFINE i == Index(head_seq_num)
  <2>1. CASE ~ieee80211_rx_reorder_ready(i) /\ stored_mpdu_num > 0
    <3>1. index' = i /\ j' = Next1(i) /\ i \in Slots /\ Next1(i) \in Slots
      BY <1>4, <2>1, SnInt, Successor, Zenon DEF ieee80211_sta_reorder_release, Inv
    <3>2. Between(Next1(index), j)' = {}
      <4>1. Between(Next1(i), Next1(i)) = {}
        BY <3>1, BetweenStep, Zenon
      <4> QED  BY <3>1, <4>1, Zenon DEF Between, Next1
    <3> QED  BY <3>2, Zenon DEF Scanned
  <2>2. CASE ~(~ieee80211_rx_reorder_ready(i) /\ stored_mpdu_num > 0)
    BY <1>4, <2>2, Zenon DEF ieee80211_sta_reorder_release, Scanned
  <2> QED  BY <2>1, <2>2, Zenon
<1>5. CASE ReleaseRun
  BY <1>5, Zenon DEF ReleaseRun, Inv, Types, Scanned
<1>6. CASE ScanSkips
  <2>1. /\ index \in Slots /\ j \in Slots /\ Next1(index) \in Slots
        /\ index' = index /\ j' = Next1(j) /\ reorder' = reorder
        /\ ~ieee80211_rx_reorder_ready(j)
        /\ \A s \in Between(Next1(index), j) : ~ieee80211_rx_reorder_ready(s)
    BY <1>6, Successor, Zenon DEF ScanSkips, buffer, Inv, Types, Scanned
  <2>2. Between(Next1(index), j)' = Between(Next1(index), Next1(j))
    BY <2>1, Zenon DEF Between, Next1
  <2>3. \A s \in Between(Next1(index), Next1(j)) : ~ieee80211_rx_reorder_ready(s)
    BY <2>1, BetweenStep, Zenon
  <2> QED  BY <2>1, <2>2, <2>3, Zenon DEF Scanned, ieee80211_rx_reorder_ready
<1>7. CASE ScanReleases
  <2>1. /\ index \in Slots /\ j \in Slots /\ Next1(index) \in Slots
        /\ index' = index /\ j' = Next1(j)
        /\ reorder' = [i \in Slots |->
                         IF i \in Purged \cup {j} THEN <<>> ELSE reorder[i]]
    BY <1>7, Successor, Zenon DEF ScanReleases, Inv, Types
  <2>2. Between(Next1(index), j)' = Between(Next1(index), Next1(j))
    BY <2>1, Zenon DEF Between, Next1
  <2>3. \A s \in Between(Next1(index), Next1(j)) : s \in Slots /\ reorder'[s] = <<>>
    BY <2>1, BetweenStep, Zenon DEF Purged, Between
  <2> QED  BY <2>1, <2>2, <2>3, Zenon DEF Scanned, ieee80211_rx_reorder_ready
<1>8. CASE ieee80211_free_tid_rx
  <2>1. op' # "scan"
    <3>1. op' = op /\ life = "rcu" /\ waiting = {}
      BY <1>8, Zenon DEF ieee80211_free_tid_rx, locals
    <3> QED  BY <3>1, Zenon DEF Inv, Control, Actors
  <2> QED  BY <2>1, Zenon DEF Scanned
<1> QED
  BY <1>1, <1>2, <1>3, <1>4, <1>5, <1>6, <1>7, <1>8, Frame, Zenon

(* Every step that leaves a frame in the buffer leaves the timer running.  *)
LEMMA TimedStep == Inv /\ [Next]_vars => Timed'
<1> SUFFICES ASSUME Inv, [Next]_vars PROVE Timed'
  BY Zenon
<1>1. CASE Advance
  BY <1>1, Zenon DEF Advance, Inv, Types, Control, Timed, Actors, Off,
     buffer, locals, originator, history
<1>2. CASE RxFrame
  BY <1>2, Zenon DEF RxFrame, Arrives, Inv, Types, Control, Timed, Actors,
     Off, buffer, locals, originator, history
<1>3. CASE RxLastSubframe
  BY <1>3, Zenon DEF RxLastSubframe, Arrives, Inv, Types, Control, Timed,
     Actors, Off, buffer, locals, originator, history
<1>4. CASE LastSubframeLost
  BY <1>4, Zenon DEF LastSubframeLost, Inv, Types, Control, Timed, Actors,
     Off, buffer, locals, originator, history
<1>5. CASE RxBar
  BY <1>5, Zenon DEF RxBar, Arrives, Inv, Types, Control, Timed, Actors,
     Off, buffer, locals, originator, history
<1>6. CASE RxBeforeStart
  BY <1>6, Zenon DEF RxBeforeStart, Lock, Unlocked, HeadSn, Inv, Types,
     Control, Timed, Actors, Off, buffer, locals, originator, history
<1>7. CASE RxOutdated
  BY <1>7, Zenon DEF RxOutdated, Lock, Unlocked, Inv, Types, Control,
     Timed, Actors, Off, buffer, locals, originator, history
<1>8. CASE ieee80211_sta_manage_reorder_buf
  BY <1>8, Zenon DEF ieee80211_sta_manage_reorder_buf, Lock, HeadSn, Inv,
     Types, Control, Timed, Actors, Off, buffer, locals, originator,
     history
<1>9. CASE BarLock
  BY <1>9, Zenon DEF BarLock, Lock, Inv, Types, Control, Timed, Actors,
     Off, buffer, locals, originator, history
<1>10. CASE ieee80211_release_reorder_frames
  <2>1. /\ op = "release"
        /\ stored_mpdu_num \in Nat /\ (stored_mpdu_num = 0 <=> ReadySlots = {})
    BY <1>10, Zenon DEF ieee80211_release_reorder_frames, Inv, Control, Actors, NoneStored
  <2>2. CASE stored_mpdu_num > 0
    <3>1. UNCHANGED <<reorder_timer, step, life>>
      BY <1>10, Zenon DEF ieee80211_release_reorder_frames
    <3> QED  BY <2>1, <2>2, <3>1, Zenon DEF Inv, Timed
  <2>3. CASE ~(stored_mpdu_num > 0)
    <3>1. ReadySlots = {}
      BY <2>1, <2>3
    <3>2. ~ieee80211_rx_reorder_ready(Index(head_seq_num))
      BY <3>1, SnInt, Zenon DEF ReadySlots, Inv
    <3>3. stored_mpdu_num' = stored_mpdu_num
      BY <1>10, <3>2, Zenon DEF ieee80211_release_reorder_frames,
         ieee80211_release_reorder_frame
    <3> QED  BY <2>3, <3>3, Zenon DEF Timed
  <2> QED  BY <2>2, <2>3, Zenon
<1>11. CASE Duplicate
  BY <1>11, Zenon DEF Duplicate, Inv, Types, Control, Timed, Actors, Off,
     buffer, locals, originator, history
<1>12. CASE Pass
  BY <1>12, Zenon DEF Pass, InOrderFrame, Inv, Types, Control, Timed, Actors, Off
<1>13. CASE Store
  BY <1>13, Zenon DEF Store, Inv, Timed
<1>14. CASE ieee80211_sta_reorder_release
  BY <1>14, Zenon DEF ieee80211_sta_reorder_release, Inv, Types, Control,
     Timed, Actors, Off, buffer, locals, originator, history
<1>15. CASE ReleaseRun
  BY <1>15, Zenon DEF ReleaseRun, Timed
<1>16. CASE ScanSkips
  BY <1>16, Zenon DEF ScanSkips, Inv, Types, Control, Timed, Actors, Off,
     buffer, locals, originator, history
<1>17. CASE ScanReleases
  <2>1. op' = "scan"
    BY <1>17, Zenon DEF ScanReleases
  <2> QED  BY <2>1, Zenon DEF Timed
<1>18. CASE ScanStops
  <2>1. CASE life = "published"
    <3>1. ~removed
      BY <2>1, Zenon DEF Inv, Control
    <3>2. reorder_timer' = 2 - age[j] /\ age[j] \in 0 .. 2
      BY <1>18, <3>1, Zenon DEF ScanStops, SetTimer, Inv, Types
    <3>3. reorder_timer' # Off
      BY <3>2 DEF Off
    <3> QED  BY <3>3, Zenon DEF Timed
  <2>2. CASE life # "published"
    BY <1>18, <2>2, Zenon DEF ScanStops, Timed
  <2> QED  BY <2>1, <2>2, Zenon
<1>19. CASE ScanEnds
  BY <1>19, Zenon DEF ScanEnds, Inv, Types, Control, Timed, Actors, Off,
     buffer, locals, originator, history
<1>20. CASE Rearm
  <2>1. CASE stored_mpdu_num > 0 /\ life = "published"
    <3>1. PICK k \in Slots : SetTimer(k)
      BY <1>20, <2>1, Zenon DEF Rearm
    <3>2. ~removed
      BY <2>1, Zenon DEF Inv, Control
    <3>3. reorder_timer' = 2 - age[k] /\ age[k] \in 0 .. 2
      BY <3>1, <3>2, Zenon DEF SetTimer, Inv, Types
    <3>4. reorder_timer' # Off
      BY <3>3 DEF Off
    <3> QED  BY <3>4, Zenon DEF Timed
  <2>2. CASE ~(stored_mpdu_num > 0 /\ life = "published")
    BY <1>20, <2>2, Zenon DEF Rearm, buffer, Timed
  <2> QED  BY <2>1, <2>2, Zenon
<1>21. CASE Unlock
  BY <1>21, Zenon DEF Unlock, Inv, Types, Control, Timed, Actors, Off,
     buffer, locals, originator, history
<1>22. CASE TimerFires
  BY <1>22, Zenon DEF TimerFires, Inv, Types, Control, Timed, Actors, Off,
     buffer, locals, originator, history
<1>23. CASE sta_rx_agg_reorder_timer_expired
  BY <1>23, Zenon DEF sta_rx_agg_reorder_timer_expired, Inv, Types,
     Control, Timed, Actors, Off, buffer, locals, originator, history
<1>24. CASE ieee80211_release_reorder_timeout
  BY <1>24, Zenon DEF ieee80211_release_reorder_timeout, Lock, Inv, Types,
     Control, Timed, Actors, Off, buffer, locals, originator, history
<1>25. CASE Tick
  BY <1>25 DEF Tick, Inv, Types, Control, Timed, Actors, Off,
     buffer, locals, originator, history
<1>26. CASE Unpublish
  BY <1>26, Zenon DEF Unpublish, Inv, Types, Control, Timed, Actors, Off,
     buffer, locals, originator, history
<1>27. CASE MarkRemoved
  BY <1>27, Zenon DEF MarkRemoved, Inv, Types, Control, Timed, Actors,
     Off, buffer, locals, originator, history
<1>28. CASE DeleteTimer
  BY <1>28, Zenon DEF DeleteTimer, TimerDeleted, Inv, Types, Control,
     Timed, Actors, Off, buffer, locals, originator, history
<1>29. CASE ieee80211_free_tid_rx
  BY <1>29, Zenon DEF ieee80211_free_tid_rx, Inv, Types, Control, Timed,
     Actors, Off, buffer, locals, originator, history
<1>30. CASE \E a \in Actors : Deliver(a)
  BY <1>30, Zenon DEF Deliver, Inv, Types, Control, Timed, Actors, Off,
     buffer, locals, originator, history
<1>31. CASE UNCHANGED vars
  BY <1>31, Zenon DEF Inv, Types, Control, Timed, Actors, Off, buffer, locals,
     originator, history, vars
<1> QED
  BY <1>1, <1>2, <1>3, <1>4, <1>5, <1>6, <1>7, <1>8, <1>9, <1>10, <1>11,
     <1>12, <1>13, <1>14, <1>15, <1>16, <1>17, <1>18, <1>19, <1>20,
     <1>21, <1>22, <1>23, <1>24, <1>25, <1>26, <1>27, <1>28, <1>29,
     <1>30, <1>31, Zenon DEF Next, Traffic, Receive, Locked, Timer, Stop

----------------------------------------------------------------------------
(* The order of the frames, step by step.                                  *)

(* It holds at the start.                                                  *)
LEMMA InitOInv == HalfRange /\ Init => OInv
<1> SUFFICES ASSUME HalfRange, Init PROVE OInv
  BY Zenon
<1>1. /\ win = 1 /\ seen = {} /\ late = {} /\ out = <<>> /\ more = FALSE /\ started = FALSE
      /\ op = "none" /\ then = "unlock" /\ step["rx"] = "idle" /\ reorder = [s \in Slots |-> <<>>]
      /\ (~auto_seq => head_seq_num = Sn(1))
  BY Zenon DEF Init, Actors
<1>2. ~Placing /\ ~Pending /\ ~Carried
  BY <1>1, Zenon DEF Placing, Pending, Carried
<1>3. Sender
  BY <1>1, <1>2 DEF Sender
<1>4. \A s \in Slots : reorder[s] = <<>> /\ Numbers(reorder[s]) = {}
  BY <1>1 DEF Numbers
<1>5. Stored = {} /\ Numbers(out) = {} /\ Len(out) = 0
  BY <1>1, <1>4 DEF Stored, Numbers
<1>6. Kept /\ InOrder
  BY <1>1, <1>4, <1>5 DEF Kept, InOrder
<1>7. Untouched
  BY <1>1, <1>4, Zenon DEF Untouched
<1>8. ~auto_seq => Ordered(1)
  <2>1. \A s \in Slots : SlotOK(1, s)
    BY <1>4 DEF SlotOK
  <2>2. OutOK(1)
    BY <1>5 DEF OutOK
  <2>3. ~auto_seq => HeadOK(1)
    BY <1>1, <1>2 DEF HeadOK
  <2>4. NotStarted(1)
    BY <1>1, <1>2, <1>4 DEF NotStarted
  <2>5. Acc
    BY <1>1, <1>2, Zenon DEF Acc
  <2> QED  BY <2>1, <2>2, <2>3, <2>4, <2>5, Zenon DEF Ordered
<1> QED  BY <1>3, <1>6, <1>7, <1>8, Zenon DEF OInv

(* A step of a session with a head keeps the order.                        *)
LEMMA OrderedStep ==
    ASSUME HalfRange, Inv, Shapes, Sender, Kept, InOrder, ~auto_seq,
           NEW h \in Nat, Ordered(h),
           [Next]_vars
    PROVE  ~auto_seq' /\ \E g \in Nat : Goes(g)
<1>1. CASE Quiet
  <2>1. Still
    BY <1>1, QuietStill, Zenon
  <2>2. Kept' /\ InOrder' /\ OutOK(h)' /\ (\A s \in Slots : SlotOK(h, s))'
    BY <2>1, StillKeeps, Zenon DEF Ordered
  <2>3. HeadOK(h)' /\ NotStarted(h)'
    BY <1>1, QuietHead, QuietNotStarted, Zenon DEF Ordered
  <2>4. Acc'
    BY <1>1, QuietAcc, Zenon DEF Ordered
  <2>5. Goes(h) /\ ~auto_seq'
    BY <2>1, <2>2, <2>3, <2>4, Zenon DEF Goes, Ordered, Still
  <2> QED  BY <2>5, Zenon
<1>2. CASE RxBeforeStart
  BY <1>2, BeforeStartStep, Zenon DEF RxBeforeStart
<1>3. CASE RxOutdated
  BY <1>3, OutdatedStep, Zenon DEF RxOutdated, buffer
<1>4. CASE ieee80211_sta_manage_reorder_buf
  BY <1>4, ManageStep, Zenon DEF ieee80211_sta_manage_reorder_buf
<1>5. CASE ieee80211_release_reorder_frames
  BY <1>5, FramesStep, Zenon DEF ieee80211_release_reorder_frames
<1>6. CASE Pass
  BY <1>6, PassStep, Zenon DEF Pass
<1>7. CASE Store
  BY <1>7, StoreStep, Zenon DEF Store
<1>8. CASE ReleaseRun
  BY <1>8, RunStep, Zenon DEF ReleaseRun
<1>9. CASE ScanReleases
  BY <1>9, ScanStep, Zenon DEF ScanReleases
<1>10. CASE ieee80211_free_tid_rx
  BY <1>10, FreeStep, Zenon DEF ieee80211_free_tid_rx
<1> QED
  BY QuietFrame, <1>1, <1>2, <1>3, <1>4, <1>5, <1>6, <1>7, <1>8, <1>9, <1>10

(* A step of an untouched session leaves it so or sets the head.           *)
LEMMA UntouchedStep ==
    ASSUME HalfRange, Inv, Shapes, Sender, Kept, InOrder, auto_seq, Untouched,
           [Next]_vars
    PROVE  /\ Kept' /\ InOrder'
           /\ auto_seq' => Untouched'
           /\ ~auto_seq' => \E g \in Nat : Goes(g)
<1>0. /\ out = <<>> /\ seen = {} /\ late = {} /\ ~started /\ then = "unlock"
      /\ \A s \in Slots : reorder[s] = <<>> /\ Numbers(reorder[s]) = {} /\ ~ieee80211_rx_reorder_ready(s)
  BY DEF Untouched, Numbers, ieee80211_rx_reorder_ready
<1>a. ASSUME Untouched' PROVE Kept' /\ InOrder'
  <2>1. out' = <<>> /\ \A s \in Slots : reorder'[s] = <<>>
    BY <1>a, Zenon DEF Untouched
  <2>2. Numbers(<<>>) = {}
    BY DEF Numbers
  <2>3. \A s \in Slots : Numbers(reorder'[s]) = {}
    BY <2>1, <2>2, Zenon
  <2>4. Stored' = {} /\ Numbers(out') = {} /\ Len(out') = 0
    BY <2>1, <2>2, <2>3, Zenon DEF Stored
  <2>5. Kept'
    BY <2>1, <2>4 DEF Kept
  <2>6. InOrder'
    BY <2>4 DEF InOrder
  <2> QED  BY <2>5, <2>6, Zenon
<1>b. Index(head_seq_num) \in Slots
  BY SnInt, Zenon DEF Inv
<1>1. CASE Quiet
  BY <1>1, <1>a, QuietUntouched, Zenon
<1>2. CASE RxBeforeStart
  <2>1. ieee80211_sn_less(Sn(skb.n), Sn(skb.n))
    BY <1>2, Zenon DEF RxBeforeStart, HeadSn
  <2> DEFINE y == skb.n
  <2>2. y \in Int /\ y - y <= SN_MODULO \div 2 /\ y - y < Half
    BY Ranges, Halves, Positive DEF HalfRange
  <2> HIDE DEF y
  <2>3. ~ieee80211_sn_less(Sn(y), Sn(y))
    BY <2>2, SnLess
  <2> QED  BY <2>1, <2>3, Zenon DEF y
<1>3. CASE RxOutdated
  BY <1>0, <1>3, Zenon DEF RxOutdated
<1>4. CASE ieee80211_sta_manage_reorder_buf
  <2>1. PICK n \in Nat : n = skb.n
    BY Ranges, Zenon
  <2>2. Goes(n)
    BY <1>4, <2>1, ManageStarts, Zenon
  <2> QED  BY <1>4, <2>2, Zenon DEF ieee80211_sta_manage_reorder_buf, Goes
<1>5. CASE ieee80211_release_reorder_frames
  <2>1. out' = out /\ late' = {} /\ UNCHANGED <<seen, started, then, auto_seq>>
    <3>1. CASE ieee80211_sn_less(head_seq_num, target)
      BY <1>0, <1>5, <1>b, <3>1, Zenon DEF ieee80211_release_reorder_frames,
         ieee80211_release_reorder_frame
    <3>2. CASE ~ieee80211_sn_less(head_seq_num, target)
      BY <1>0, <1>5, <3>2, Zenon DEF ieee80211_release_reorder_frames
    <3> QED  BY <3>1, <3>2, Zenon
  <2>2. \A s \in Slots : reorder'[s] = <<>>
    <3>1. reorder' = reorder \/ reorder' = [reorder EXCEPT ![Index(head_seq_num)] = <<>>]
      BY <1>5, Zenon DEF ieee80211_release_reorder_frames
    <3> QED  BY <1>0, <3>1, Zenon DEF Inv, Types
  <2>3. Untouched' /\ auto_seq'
    BY <1>0, <2>1, <2>2, Zenon DEF Untouched
  <2> QED  BY <1>a, <2>3, Zenon
<1>6. CASE Pass \/ Store
  BY <1>0, <1>6, Zenon DEF Pass, Store, Sender
<1>7. CASE ReleaseRun
  <2>1. UNCHANGED <<out, seen, late, started, then, auto_seq, reorder>>
    BY <1>0, <1>7, <1>b, Zenon DEF ReleaseRun
  <2>2. Untouched' /\ auto_seq'
    BY <2>1, Zenon DEF Untouched
  <2> QED  BY <1>a, <2>2, Zenon
<1>8. CASE ScanReleases
  BY <1>0, <1>8, Zenon DEF ScanReleases, Inv, Types
<1>9. CASE ieee80211_free_tid_rx
  <2>1. UNCHANGED <<out, seen, late, started, then, auto_seq>> /\ \A s \in Slots : reorder'[s] = <<>>
    BY <1>9, Zenon DEF ieee80211_free_tid_rx, locals, history
  <2>2. Untouched' /\ auto_seq'
    BY <1>0, <2>1, Zenon DEF Untouched
  <2> QED  BY <1>a, <2>2, Zenon
<1> QED
  BY QuietFrame, <1>1, <1>2, <1>3, <1>4, <1>5, <1>6, <1>7, <1>8, <1>9

(* Every step keeps the order invariant.                                   *)
LEMMA OInvStep ==
    ASSUME HalfRange, Inv, Shapes, OInv, [Next]_vars PROVE OInv'
<1>2. Sender'
  BY SenderStep, Zenon DEF OInv, Shapes
<1>3. CASE auto_seq
  <2>1. /\ Kept' /\ InOrder'
        /\ auto_seq' => Untouched'
        /\ ~auto_seq' => \E g \in Nat : Goes(g)
    BY <1>3, UntouchedStep, Zenon DEF OInv
  <2>2. ~auto_seq' => \E g \in Nat : Ordered(g)'
    BY <2>1, Zenon DEF Goes
  <2> QED  BY <1>2, <2>1, <2>2, Zenon DEF OInv
<1>4. CASE ~auto_seq
  <2>1. PICK h \in Nat : Ordered(h)
    BY <1>4, Zenon DEF OInv
  <2>2. ~auto_seq' /\ \E g \in Nat : Goes(g)
    BY <1>4, <2>1, OrderedStep, Zenon DEF OInv
  <2> QED  BY <1>2, <2>2, Zenon DEF OInv, Goes
<1> QED  BY <1>3, <1>4, Zenon

----------------------------------------------------------------------------
(* The theorems.                                                           *)

(* The session starts empty.                                               *)
LEMMA InitInv == Init => Inv
<1> SUFFICES ASSUME Init PROVE Inv
  BY Zenon
<1>1. Types
  <2>1. Sn(1) \in Int
    BY ReorderAssumption, ModSn DEF Sn
  <2>2. 0 \in Slots /\ NoSkb \in Skb /\ 1 \in Frames
    BY ReorderAssumption DEF Slots, NoSkb, Skb, Frames
  <2>3. reorder \in [Slots -> Seq(Skb)]
    BY DEF Init
  <2>4. age \in [Slots -> 0 .. 2] /\ step \in [Actors -> Steps]
    BY DEF Init, Steps
  <2> QED  BY <2>1, <2>2, <2>3, <2>4 DEF Init, Types
<1>2. Control
  BY DEF Init, Control, Actors, Off
<1>3. ReadySlots = {}
  BY Zenon DEF Init, ReadySlots, ieee80211_rx_reorder_ready
<1>4. Counted
  BY <1>3, FS_EmptySet, Zenon DEF Init, Counted
<1>5. Scanned /\ Timed
  BY DEF Init, Scanned, Timed
<1> QED  BY <1>1, <1>2, <1>4, <1>5, NoneStoredStep, Zenon DEF Inv

(* The invariant holds in every reachable state.                           *)
THEOREM Invariance == Spec => []Inv
<1>1. Inv /\ [Next]_vars => Inv'
  BY TypesStep, ControlStep, CountedStep, NoneStoredStep, ScannedStep, TimedStep, Zenon DEF Inv
<1> QED  BY InitInv, <1>1, PTL DEF Spec

(* stored_mpdu_num is the number of complete entries, for every buffer     *)
(* size: neither the timeout's purge nor a Block Ack request loses count.  *)
THEOREM CountsRight == Spec => []StoredCounts
<1>1. Inv => StoredCounts
  BY Zenon DEF Inv, Counted, ReadySlots, StoredCounts
<1> QED  BY Invariance, <1>1, PTL

(* No stored frame is without a timer: every way out of                    *)
(* ieee80211_sta_reorder_release() that leaves a frame sets it, and a      *)
(* Block Ack request, which does not, only takes frames out.               *)
THEOREM AlwaysTimed == Spec => []HeldIsTimed
<1>1. Inv => HeldIsTimed
  BY Zenon DEF Inv, Control, Timed, HeldIsTimed
<1> QED  BY Invariance, <1>1, PTL

(* The removed flag and timer_delete_sync() leave neither a timer nor a    *)
(* softirq on a session that RCU frees.                                    *)
THEOREM QuietWhenFreed == Spec => []FreedQuietly
<1>1. Inv => FreedQuietly
  BY Zenon DEF Inv, Control, FreedQuietly
<1> QED  BY Invariance, <1>1, PTL

(* All types hold in every reachable state.                                *)
THEOREM ShapesInvariance == Spec => [](Inv /\ Shapes)
<1>1. Init => Inv /\ Shapes
  BY InitInv, InitShapes, Zenon
<1>2. Inv /\ Shapes /\ [Next]_vars => (Inv /\ Shapes)'
  BY TypesStep, ControlStep, CountedStep, NoneStoredStep, ScannedStep, TimedStep, ScalarsStep,
     ListsStep, Zenon DEF Inv, Shapes
<1> QED  BY <1>1, <1>2, PTL DEF Spec

(* Every variable keeps its type, for every buffer size and modulus: in    *)
(* particular the search of ieee80211_sta_reorder_release() never skips    *)
(* more than buf_size slots.                                               *)
THEOREM TypeOKHolds == Spec => []TypeOK
<1>1. Inv /\ Shapes => TypeOK
  <2> SUFFICES ASSUME Inv, Shapes PROVE TypeOK
    BY Zenon
  <2>1. win \in Nat /\ reorder_timer \in Off .. 2
    BY DEF Inv, Types, Control, Frames, Off
  <2> QED  BY <2>1, Zenon DEF Inv, Types, Control, Shapes, Scalars, Lists, TypeOK,
     Steps
<1> QED  BY ShapesInvariance, <1>1, PTL

(* The buffer is in order in every reachable state.                        *)
THEOREM OrderInvariance == HalfRange /\ Spec => [](Inv /\ Shapes /\ OInv)
<1> SUFFICES ASSUME HalfRange PROVE Spec => [](Inv /\ Shapes /\ OInv)
  BY Zenon
<1>1. Init => Inv /\ Shapes /\ OInv
  BY InitInv, InitShapes, InitOInv, Zenon
<1>2. Inv /\ Shapes /\ OInv /\ [Next]_vars => (Inv /\ Shapes /\ OInv)'
  <2> SUFFICES ASSUME Inv, Shapes, OInv, [Next]_vars PROVE (Inv /\ Shapes /\ OInv)'
    BY Zenon
  <2>1. (Inv /\ Shapes)'
    BY TypesStep, ControlStep, CountedStep, NoneStoredStep, ScannedStep, TimedStep, ScalarsStep,
       ListsStep, Zenon DEF Inv, Shapes
  <2> QED  BY <2>1, OInvStep, Zenon
<1> QED  BY <1>1, <1>2, PTL DEF Spec

(* MPDUs leave the reorder buffer in order, and nothing of an MPDU follows *)
(* what completed it, for every buffer size that divides the modulus,      *)
(* every starting number and every number of frames, however holes,        *)
(* retransmissions, Block Ack requests, lost subframes, the timer and the  *)
(* end of the session interleave.  An A-MSDU that is sent again may repeat *)
(* its first subframe before its last goes up; the only thing that may go  *)
(* up late is the first subframe that LeftBehind describes.                *)
THEOREM InOrderHolds == HalfRange /\ Spec => []InOrder
<1>1. Inv /\ Shapes /\ OInv => InOrder
  BY Zenon DEF OInv
<1> QED  BY OrderInvariance, <1>1, PTL

(* No frame disappears: under the same conditions every MPDU that came in  *)
(* was passed up, is stored, first came too late or was given up by the    *)
(* search for timed-out frames whenever the lock is free.                  *)
THEOREM AccountedHolds == HalfRange /\ Spec => []Accounted
<1>1. Inv /\ Shapes /\ OInv => Accounted
  <2> SUFFICES ASSUME Inv, Shapes, OInv, lock = "free", life # "freed"
               PROVE  seen \subseteq Numbers(out) \cup Stored \cup late
    BY Zenon DEF Accounted
  <2>1. CASE auto_seq
    BY <2>1, Zenon DEF OInv, Untouched
  <2>2. CASE ~auto_seq
    <3>1. PICK h \in Nat : Ordered(h)
      BY <2>2, Zenon DEF OInv
    <3>2. ~Placing
      BY Zenon DEF Inv, Control, Placing
    <3> QED  BY <3>1, <3>2, Zenon DEF Ordered, Acc
  <2> QED  BY <2>1, <2>2, Zenon
<1> QED  BY OrderInvariance, <1>1, PTL

============================================================================
