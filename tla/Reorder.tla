------------------------------- MODULE Reorder -------------------------------
(***************************************************************************)
(* The reorder buffer of one receiver Block Ack session (struct            *)
(* tid_ampdu_rx, net/mac80211/rx.c and agg-rx.c): frames of an A-MPDU      *)
(* arrive with holes and retransmissions, the buffer hands them up in      *)
(* order, and a timer gives up on holes.                                   *)
(*                                                                         *)
(* The receive softirq and the timer's softirq work on the buffer under    *)
(* reorder_lock; what they took out they pass up afterwards, under another *)
(* lock.  A third thread removes the session.  The loops that run with the *)
(* lock held are taken one round at a time.                                *)
(*                                                                         *)
(* MPDUs are numbered 0, 1, 2, ...; the code sees Sn(n), their sequence    *)
(* numbers modulo SN_MODULO.  MPDU 1 is the first of the session.          *)
(***************************************************************************)
EXTENDS Integers, Sequences, FiniteSets

CONSTANTS SN_MODULO,    \* IEEE80211_SN_MODULO
          BufSize,      \* buf_size of the session
          Offset,       \* Sn(0)
          Amsdus,       \* MPDUs that are A-MSDUs, reported in two subframes
          AutoSeq,      \* sessions considered: TRUE is an offloaded one, of
                        \* which the first number is not known
          MaxFrame,     \* bound: the last MPDU
          MaxFirsts,    \* bound: first subframes kept, for another to come
          MaxLag        \* the originator runs at most this far ahead

U16 == 65536           \* stored_mpdu_num and buf_size are u16

ASSUME ReorderAssumption ==
    /\ SN_MODULO \in Nat \ {0} /\ Offset \in Nat
    /\ BufSize \in Nat \ {0} /\ BufSize < U16
    /\ MaxFrame \in Nat \ {0} /\ MaxFirsts \in Nat /\ MaxLag \in Nat

ASSUME SessionAssumption == AutoSeq \subseteq BOOLEAN /\ Amsdus \subseteq Nat

Slots == 0 .. BufSize - 1
Frames == 0 .. MaxFrame
Actors == {"rx", "timer"}
Off == -1

VARIABLES
    (* struct tid_ampdu_rx *)
    head_seq_num, stored_mpdu_num, auto_seq, started, removed,
    reorder,            \* the list of every slot: [n, more]
    age,                \* since reorder[i].time: 2 is "timed out"
    reorder_timer,      \* Off, or what is left of its time
    (* its life: published in tid_rx[], removed, handed to RCU, freed *)
    life,
    (* reorder_lock, and the locals of the code that runs under it *)
    lock, op, target, index, j, skipped, then,
    (* the two softirqs *)
    step,               \* where each of them is
    skb,                \* the frame the receive path works on
    frames,             \* what each has taken out of the buffer
    waiting,            \* readers that the RCU callback still waits for
    (* the originator: the first MPDU it may still send *)
    win, more,
    (* history: what left the buffer, in that order; MPDUs that came; MPDUs *)
    (* that first came too late, or of which what was stored was given up   *)
    out, seen, late

buffer == <<head_seq_num, stored_mpdu_num, auto_seq, started, reorder, age>>
locals == <<op, target, index, j, skipped, then>>
originator == <<win, more>>
history == <<out, seen, late>>
vars == <<buffer, removed, reorder_timer, life, lock, locals, step, skb, frames,
          waiting, originator, history>>

----------------------------------------------------------------------------
(* Sequence numbers.                                                       *)

Sn(n) == (n + Offset) % SN_MODULO
ieee80211_sn_less(a, b) == (a - b) % SN_MODULO > SN_MODULO \div 2
SnAddUnmasked(a, b) == a + b
ieee80211_sn_add(a, b) == (a + b) % SN_MODULO
ieee80211_sn_inc(a) == ieee80211_sn_add(a, 1)
ieee80211_sn_sub(a, b) == (a - b) % SN_MODULO

Index(sn) == sn % BufSize
Next1(i) == (i + 1) % BufSize

Skb == [n : Frames, more : BOOLEAN]
NoSkb == [n |-> 0, more |-> FALSE]

(* A slot is ready when it holds a frame that is complete.                 *)
ieee80211_rx_reorder_ready(i) ==
    reorder[i] # <<>> /\ ~reorder[i][Len(reorder[i])].more

(* The slots from i, inclusive, to k, exclusive.                           *)
Between(i, k) == {s \in Slots : (s - i) % BufSize < (k - i) % BufSize}

TypeOK ==
    /\ head_seq_num \in 0 .. SN_MODULO - 1
    /\ stored_mpdu_num \in 0 .. U16 - 1
    /\ auto_seq \in BOOLEAN /\ started \in BOOLEAN /\ removed \in BOOLEAN
    /\ reorder \in [Slots -> Seq(Skb)]
    /\ age \in [Slots -> 0 .. 2]
    /\ reorder_timer \in Off .. 2
    /\ life \in {"published", "unpublished", "removed", "rcu", "freed"}
    /\ lock \in Actors \cup {"free"}
    /\ op \in {"none", "release", "insert", "flush", "run", "scan", "rearm",
               "unlock"}
    /\ target \in 0 .. SN_MODULO - 1 /\ index \in Slots /\ j \in Slots
    /\ skipped \in 0 .. BufSize /\ then \in {"insert", "unlock"}
    /\ step \in [Actors -> {"idle", "fired", "frame", "bar", "release", "locked",
                            "deliver"}]
    /\ skb \in Skb
    /\ frames \in [Actors -> Seq(Skb)]
    /\ waiting \subseteq Actors
    /\ win \in Nat /\ more \in BOOLEAN
    /\ out \in Seq(Skb) /\ seen \subseteq Frames /\ late \subseteq Frames

(* The session as __ieee80211_start_rx_ba_session() publishes it.          *)
Init ==
    /\ auto_seq \in AutoSeq
    /\ head_seq_num = IF auto_seq THEN 0 ELSE Sn(1)
    /\ stored_mpdu_num = 0
    /\ started = FALSE /\ removed = FALSE
    /\ reorder = [i \in Slots |-> <<>>]
    /\ age = [i \in Slots |-> 2]
    /\ reorder_timer = Off
    /\ life = "published"
    /\ lock = "free" /\ op = "none" /\ target = 0 /\ index = 0 /\ j = 0
    /\ skipped = 0 /\ then = "unlock"
    /\ step = [a \in Actors |-> "idle"]
    /\ skb = NoSkb
    /\ frames = [a \in Actors |-> <<>>]
    /\ waiting = {}
    /\ win = 1 /\ more = FALSE
    /\ out = <<>> /\ seen = {} /\ late = {}

----------------------------------------------------------------------------
(* The originator and the driver (external).  MPDUs of the window come in  *)
(* any order, again, or not at all; the window moves on when the           *)
(* originator gets an acknowledgement or gives up.                         *)

Advance ==
    /\ win < MaxFrame /\ \E n \in seen \cup {0} : win < n + MaxLag
    /\ win' = win + 1
    /\ UNCHANGED <<buffer, removed, reorder_timer, life, lock, locals, step, skb,
                   frames, waiting, more, history>>

Arrives(n, kind, last) ==
    /\ step["rx"] = "idle"
    /\ life = "published"
    /\ step' = [step EXCEPT !["rx"] = kind]
    /\ skb' = [n |-> n, more |-> ~last]
    /\ more' = ~last
    /\ UNCHANGED <<buffer, removed, reorder_timer, life, lock, locals, frames,
                   waiting, win, history>>

(* The first subframes that were passed up or are in the slot of MPDU n.   *)
Firsts(n) == SelectSeq(out \o reorder[Index(Sn(n))], LAMBDA f : f.more)

(* ieee80211_rx_reorder_ampdu() finds the session.  MPDU 0, sent before    *)
(* the session, may still come.  Until the buffer has started it comes     *)
(* once: no other MPDU comes in between, so that the duplicate detection   *)
(* ahead of the buffer (ieee80211_rx_h_check_dup(), or the driver's own)   *)
(* drops a second copy.  An A-MSDU comes in two subframes, of which the    *)
(* driver may lose the second; it is sent again like any other MPDU.       *)
RxFrame ==
    /\ ~more
    /\ \E n \in Frames :
         /\ \/ n \in win .. win + BufSize - 1
            \/ win = 1 /\ n = 0 /\ (started \/ n \notin seen)
         /\ n \in Amsdus => Len(Firsts(n)) < MaxFirsts
         /\ Arrives(n, "frame", n \notin Amsdus)

RxLastSubframe == more /\ Arrives(skb.n, "frame", TRUE)

LastSubframeLost ==
    /\ more /\ step["rx"] = "idle"
    /\ more' = FALSE
    /\ UNCHANGED <<buffer, removed, reorder_timer, life, lock, locals, step, skb,
                   frames, waiting, win, history>>

(* A Block Ack request: all before win will not be sent again.             *)
RxBar == ~more /\ Arrives(win, "bar", TRUE)

----------------------------------------------------------------------------
(* Under reorder_lock.                                                     *)

Give(a, list) ==
    /\ frames' = [frames EXCEPT ![a] = @ \o list]
    /\ out' = out \o list

Numbers(list) == {list[k].n : k \in 1 .. Len(list)}

(* Empties slot i, which goes up if it is ready, and moves the head.       *)
ieee80211_release_reorder_frame(i, head) ==
    /\ head_seq_num' = head
    /\ IF ieee80211_rx_reorder_ready(i)
       THEN /\ stored_mpdu_num' = (stored_mpdu_num - 1) % U16
            /\ Give(lock, reorder[i])
            /\ UNCHANGED late
       ELSE /\ late' = late \cup Numbers(reorder[i])
            /\ UNCHANGED <<stored_mpdu_num, frames, out>>

(* ieee80211_sta_manage_reorder_buf() up to where it needs the buffer.     *)
HeadSn == IF auto_seq THEN Sn(skb.n) ELSE head_seq_num

Lock(a, kind) ==
    /\ step[a] = kind
    /\ lock = "free"

Unlocked(a, list) ==
    /\ step' = [step EXCEPT ![a] = "deliver"]
    /\ Give(a, list)

RxBeforeStart ==
    /\ Lock("rx", "frame")
    /\ ~started /\ ieee80211_sn_less(Sn(skb.n), HeadSn)
    /\ head_seq_num' = HeadSn /\ auto_seq' = FALSE
    /\ seen' = seen \cup {skb.n}
    /\ Unlocked("rx", <<skb>>)
    /\ UNCHANGED <<stored_mpdu_num, started, reorder, age, removed, reorder_timer,
                   life, lock, locals, skb, waiting, originator, late>>

RxOutdated ==
    /\ Lock("rx", "frame")
    /\ started /\ ieee80211_sn_less(Sn(skb.n), HeadSn)
    /\ seen' = seen \cup {skb.n}
    /\ late' = late \cup ({skb.n} \ seen)
    /\ Unlocked("rx", <<>>)
    /\ UNCHANGED <<buffer, removed, reorder_timer, life, lock, locals, skb,
                   waiting, originator>>

(* Beyond the window, frames are released to make room.                    *)
BeyondByTwo(sn) == ~ieee80211_sn_less(sn, HeadSn + BufSize + 1)
Beyond(sn) == ~ieee80211_sn_less(sn, HeadSn + BufSize)
ieee80211_sta_manage_reorder_buf ==
    /\ Lock("rx", "frame")
    /\ ~ieee80211_sn_less(Sn(skb.n), HeadSn)
    /\ lock' = "rx" /\ step' = [step EXCEPT !["rx"] = "locked"]
    /\ head_seq_num' = HeadSn /\ auto_seq' = FALSE /\ started' = TRUE
    /\ seen' = seen \cup {skb.n}
    /\ then' = "insert"
    /\ IF Beyond(Sn(skb.n))
       THEN /\ op' = "release"
            /\ target' = ieee80211_sn_inc(ieee80211_sn_sub(Sn(skb.n), BufSize))
       ELSE op' = "insert" /\ UNCHANGED target
    /\ UNCHANGED <<stored_mpdu_num, reorder, age, removed, reorder_timer, life,
                   index, j, skipped, skb, frames, waiting, originator, out, late>>

(* ieee80211_rx_h_ctrl(): frames before a BAR's number are released.       *)
BarLock ==
    /\ Lock("rx", "bar")
    /\ lock' = "rx" /\ step' = [step EXCEPT !["rx"] = "locked"]
    /\ op' = "release" /\ target' = Sn(skb.n) /\ then' = "unlock"
    /\ UNCHANGED <<buffer, removed, reorder_timer, life, index, j, skipped, skb,
                   frames, waiting, originator, history>>

ieee80211_release_reorder_frames ==
    /\ op = "release"
    /\ IF ieee80211_sn_less(head_seq_num, target)
       THEN /\ ieee80211_release_reorder_frame(Index(head_seq_num),
                                               ieee80211_sn_inc(head_seq_num))
            /\ reorder' = [reorder EXCEPT ![Index(head_seq_num)] = <<>>]
            /\ UNCHANGED op
       ELSE /\ op' = then
            /\ UNCHANGED <<head_seq_num, stored_mpdu_num, reorder, frames, out, late>>
    /\ UNCHANGED <<auto_seq, started, age, removed, reorder_timer, life, lock,
                   target, index, j, skipped, then, step, skb, waiting, originator,
                   seen>>

(* The rest of ieee80211_sta_manage_reorder_buf(): a frame that is stored  *)
(* already, one that is next while nothing is stored, one to be stored.    *)
Slot == Index(Sn(skb.n))

DuplicateOrNext ==
    /\ op = "insert"
    /\ \/ ieee80211_rx_reorder_ready(Slot)
       \/ ieee80211_rx_reorder_ready(Index(head_seq_num))
    /\ op' = "unlock"
    /\ UNCHANGED <<buffer, removed, reorder_timer, life, lock, target, index, j,
                   skipped, then, step, skb, frames, waiting, originator, history>>

Duplicate ==
    /\ op = "insert" /\ ieee80211_rx_reorder_ready(Slot)
    /\ op' = "unlock"
    /\ UNCHANGED <<buffer, removed, reorder_timer, life, lock, target, index, j,
                   skipped, then, step, skb, frames, waiting, originator, history>>

InOrderFrame == Sn(skb.n) = head_seq_num /\ stored_mpdu_num = 0

Pass ==
    /\ op = "insert" /\ ~ieee80211_rx_reorder_ready(Slot) /\ InOrderFrame
    /\ head_seq_num' = IF skb.more THEN head_seq_num
                       ELSE ieee80211_sn_inc(head_seq_num)
    /\ Give("rx", <<skb>>)
    /\ op' = "unlock"
    /\ UNCHANGED <<stored_mpdu_num, auto_seq, started, reorder, age, removed,
                   reorder_timer, life, lock, target, index, j, skipped, then,
                   step, skb, waiting, originator, seen, late>>

StoreUncounted ==
    /\ op = "insert" /\ ~ieee80211_rx_reorder_ready(Slot) /\ ~InOrderFrame
    /\ reorder' = [reorder EXCEPT ![Slot] = Append(@, skb)]
    /\ IF skb.more
       THEN op' = "unlock" /\ UNCHANGED age
       ELSE op' = "flush" /\ age' = [age EXCEPT ![Slot] = 0]
    /\ UNCHANGED <<head_seq_num, stored_mpdu_num, auto_seq, started, removed,
                   reorder_timer, life, lock, target, index, j, skipped, then, step,
                   skb, frames, waiting, originator, history>>

Store ==
    /\ op = "insert" /\ ~ieee80211_rx_reorder_ready(Slot) /\ ~InOrderFrame
    /\ reorder' = [reorder EXCEPT ![Slot] = Append(@, skb)]
    /\ IF skb.more
       THEN op' = "unlock" /\ UNCHANGED <<age, stored_mpdu_num>>
       ELSE /\ op' = "flush"
            /\ age' = [age EXCEPT ![Slot] = 0]
            /\ stored_mpdu_num' = (stored_mpdu_num + 1) % U16
    /\ UNCHANGED <<head_seq_num, auto_seq, started, removed, reorder_timer, life,
                   lock, target, index, j, skipped, then, step, skb, frames,
                   waiting, originator, history>>

(* ieee80211_sta_reorder_release(): if the next frame is not there, look   *)
(* for frames that have waited too long, else release all that are in      *)
(* order.                                                                  *)
ieee80211_sta_reorder_release ==
    /\ op = "flush"
    /\ LET i == Index(head_seq_num)
       IN IF ~ieee80211_rx_reorder_ready(i) /\ stored_mpdu_num > 0
          THEN op' = "scan" /\ index' = i /\ j' = Next1(i) /\ skipped' = 1
          ELSE op' = "run" /\ UNCHANGED <<index, j, skipped>>
    /\ UNCHANGED <<buffer, removed, reorder_timer, life, lock, target, then, step,
                   skb, frames, waiting, originator, history>>

ReleaseRun ==
    /\ op = "run"
    /\ LET i == Index(head_seq_num)
       IN IF ieee80211_rx_reorder_ready(i)
          THEN /\ ieee80211_release_reorder_frame(i, ieee80211_sn_inc(head_seq_num))
               /\ reorder' = [reorder EXCEPT ![i] = <<>>]
               /\ UNCHANGED op
          ELSE /\ op' = "rearm"
               /\ UNCHANGED <<head_seq_num, stored_mpdu_num, reorder, frames, out,
                              late>>
    /\ UNCHANGED <<auto_seq, started, age, removed, reorder_timer, life, lock,
                   target, index, j, skipped, then, step, skb, waiting, originator,
                   seen>>

(* mod_timer() to when slot i times out, unless the session is removed.    *)
SetTimerAlways(i) == reorder_timer' = 2 - age[i]
SetTimer(i) == reorder_timer' = IF removed THEN reorder_timer ELSE 2 - age[i]

(* Slot j is released if it has waited too long, or follows one that had.  *)
(* What lies between the old head and slot j is purged.                    *)
Purged == Between(Next1(index), j)
Lost == UNION {Numbers(reorder[i]) : i \in Purged}

ScanSkips ==
    /\ op = "scan" /\ j # index /\ ~ieee80211_rx_reorder_ready(j)
    /\ skipped' = skipped + 1
    /\ j' = Next1(j)
    /\ UNCHANGED <<buffer, removed, reorder_timer, life, lock, op, target, index,
                   then, step, skb, frames, waiting, originator, history>>

TimedOutLate(i) == age[i] > 2
TimedOut(i) == age[i] = 2

ScanReleases ==
    /\ op = "scan" /\ j # index /\ ieee80211_rx_reorder_ready(j)
    /\ skipped = 0 \/ TimedOut(j)
    /\ stored_mpdu_num' = (stored_mpdu_num - 1) % U16
    /\ Give(lock, reorder[j])
    /\ late' = late \cup Lost
    /\ reorder' = [i \in Slots |->
                     IF i \in Purged \cup {j} THEN <<>> ELSE reorder[i]]
    /\ head_seq_num' = ieee80211_sn_add(ieee80211_sn_inc(head_seq_num), skipped)
    /\ skipped' = 0
    /\ j' = Next1(j)
    /\ UNCHANGED <<auto_seq, started, age, removed, reorder_timer, life, lock, op,
                   target, index, then, step, skb, waiting, originator, seen>>

ScanStopsUntimed ==
    /\ op = "scan" /\ j # index /\ ieee80211_rx_reorder_ready(j)
    /\ skipped # 0 /\ ~TimedOut(j)
    /\ op' = "unlock"
    /\ UNCHANGED <<buffer, removed, reorder_timer, life, lock, target, index, j,
                   skipped, then, step, skb, frames, waiting, originator, history>>

ScanStops ==
    /\ op = "scan" /\ j # index /\ ieee80211_rx_reorder_ready(j)
    /\ skipped # 0 /\ ~TimedOut(j)
    /\ SetTimer(j)
    /\ op' = "unlock"
    /\ UNCHANGED <<buffer, removed, life, lock, target, index, j, skipped, then,
                   step, skb, frames, waiting, originator, history>>

ScanEnds ==
    /\ op = "scan" /\ j = index
    /\ op' = "rearm"
    /\ UNCHANGED <<buffer, removed, reorder_timer, life, lock, target, index, j,
                   skipped, then, step, skb, frames, waiting, originator, history>>

(* The first ready slot from the head on.  C's (index - 1) % buf_size is   *)
(* -1 for index 0: the search then ends only at a ready slot.              *)
FirstReady(i, k) ==
    /\ k \in Slots
    /\ \A s \in Between(i, k) : ~ieee80211_rx_reorder_ready(s)
    /\ ieee80211_rx_reorder_ready(k) \/ (i # 0 /\ k = i - 1)

Rearm ==
    /\ op = "rearm"
    /\ IF stored_mpdu_num > 0
       THEN \E k \in Slots : FirstReady(Index(head_seq_num), k) /\ SetTimer(k)
       ELSE reorder_timer' = Off
    /\ op' = "unlock"
    /\ UNCHANGED <<buffer, removed, life, lock, target, index, j, skipped, then,
                   step, skb, frames, waiting, originator, history>>

Unlock ==
    /\ op = "unlock"
    /\ lock' = "free"
    /\ op' = "none" /\ target' = 0 /\ index' = 0 /\ j' = 0 /\ skipped' = 0
    /\ then' = "unlock"
    /\ step' = [step EXCEPT ![lock] = "deliver"]
    /\ UNCHANGED <<buffer, removed, reorder_timer, life, skb, frames, waiting,
                   originator, history>>

(* ieee80211_rx_handlers() passes the list up, and the RCU section ends.   *)
Deliver(a) ==
    /\ step[a] = "deliver"
    /\ frames' = [frames EXCEPT ![a] = <<>>]
    /\ step' = [step EXCEPT ![a] = "idle"]
    /\ waiting' = waiting \ {a}
    /\ skb' = IF a = "rx" /\ ~more THEN NoSkb ELSE skb
    /\ UNCHANGED <<buffer, removed, reorder_timer, life, lock, locals, originator,
                   history>>

----------------------------------------------------------------------------
(* Time and the timer.                                                     *)

Tick ==
    /\ age' = [i \in Slots |-> IF age[i] < 2 THEN age[i] + 1 ELSE 2]
    /\ reorder_timer' = IF reorder_timer > 0 THEN reorder_timer - 1
                        ELSE reorder_timer
    /\ UNCHANGED <<head_seq_num, stored_mpdu_num, auto_seq, started, reorder,
                   removed, life, lock, locals, step, skb, frames, waiting,
                   originator, history>>

TimerFires ==
    /\ reorder_timer = 0 /\ step["timer"] = "idle"
    /\ reorder_timer' = Off
    /\ step' = [step EXCEPT !["timer"] = "fired"]
    /\ UNCHANGED <<buffer, removed, life, lock, locals, skb, frames, waiting,
                   originator, history>>

(* ieee80211_release_reorder_timeout() looks the session up again.  Its    *)
(* return when ieee80211_rx_data_set_sta() fails cannot be taken here: the *)
(* station is not an MLD (no valid_links), and without a link to look up   *)
(* that function succeeds.                                                 *)
sta_rx_agg_reorder_timer_expired ==
    /\ step["timer"] = "fired"
    /\ step' = [step EXCEPT !["timer"] =
                  IF life = "published" THEN "release" ELSE "deliver"]
    /\ UNCHANGED <<buffer, removed, reorder_timer, life, lock, locals, skb, frames,
                   waiting, originator, history>>

ieee80211_release_reorder_timeout ==
    /\ Lock("timer", "release")
    /\ lock' = "timer" /\ step' = [step EXCEPT !["timer"] = "locked"]
    /\ op' = "flush"
    /\ UNCHANGED <<buffer, removed, reorder_timer, life, target, index, j, skipped,
                   then, skb, frames, waiting, originator, history>>

----------------------------------------------------------------------------
(* __ieee80211_stop_rx_ba_session(): the session disappears from tid_rx[], *)
(* is marked removed, its timer is deleted and RCU frees it.               *)

Unpublish ==
    /\ life = "published"
    /\ life' = "unpublished"
    /\ UNCHANGED <<buffer, removed, reorder_timer, lock, locals, step, skb, frames,
                   waiting, originator, history>>

MarkRemoved ==
    /\ life = "unpublished" /\ lock = "free"
    /\ removed' = TRUE /\ life' = "removed"
    /\ UNCHANGED <<buffer, reorder_timer, lock, locals, step, skb, frames, waiting,
                   originator, history>>

TimerDeleted == step["timer"] = "idle"
DeleteTimer ==
    /\ life = "removed" /\ TimerDeleted
    /\ reorder_timer' = Off
    /\ life' = "rcu"
    /\ waiting' = {a \in Actors : step[a] # "idle"}
    /\ UNCHANGED <<buffer, removed, lock, locals, step, skb, frames, originator,
                   history>>

ieee80211_free_tid_rx ==
    /\ life = "rcu" /\ waiting = {}
    /\ life' = "freed"
    /\ reorder' = [i \in Slots |-> <<>>]
    /\ UNCHANGED <<head_seq_num, stored_mpdu_num, auto_seq, started, age, removed,
                   reorder_timer, lock, locals, step, skb, frames, waiting,
                   originator, history>>

----------------------------------------------------------------------------
Traffic == Advance \/ RxFrame \/ RxLastSubframe \/ LastSubframeLost \/ RxBar

Receive ==
    \/ RxBeforeStart \/ RxOutdated \/ ieee80211_sta_manage_reorder_buf \/ BarLock

Locked ==
    \/ ieee80211_release_reorder_frames \/ Duplicate \/ Pass \/ Store
    \/ ieee80211_sta_reorder_release \/ ReleaseRun \/ ScanSkips \/ ScanReleases
    \/ ScanStops \/ ScanEnds \/ Rearm \/ Unlock

Timer ==
    \/ TimerFires \/ sta_rx_agg_reorder_timer_expired
    \/ ieee80211_release_reorder_timeout

Stop == Unpublish \/ MarkRemoved \/ DeleteTimer \/ ieee80211_free_tid_rx

Next ==
    \/ Traffic \/ Receive \/ Locked \/ Timer \/ Tick \/ Stop
    \/ \E a \in Actors : Deliver(a)

Spec == Init /\ [][Next]_vars

(* Time passes; a softirq that runs goes on; the scheduler gives the lock  *)
(* to whoever spins on it, so that a timer handler gets it in the end.     *)
Fairness ==
    /\ WF_vars(Tick) /\ WF_vars(Locked) /\ SF_vars(Timer)
    /\ WF_vars(Receive) /\ \A a \in Actors : WF_vars(Deliver(a))

FairSpec == Spec /\ Fairness

----------------------------------------------------------------------------
(* Properties.                                                             *)

Stored == UNION {Numbers(reorder[i]) : i \in Slots}
Complete == UNION {Numbers(reorder[i]) :
                     i \in {s \in Slots : ieee80211_rx_reorder_ready(s)}}

(* MPDUs leave the buffer in order, across the wrap of the sequence        *)
(* numbers, and nothing of an MPDU follows what completed it, however      *)
(* holes, retransmissions, Block Ack requests and the timer interleave.    *)
(* Within an A-MSDU the buffer does not compare subframes: when the last   *)
(* one is lost and the A-MSDU is sent again, the first goes up again, but  *)
(* not after the last has.  One thing may go up late: first subframes in   *)
(* the slot of a head that moved on without them (the timer's "don't leave *)
(* incomplete A-MSDUs around" purges from the slot after it).  They go     *)
(* with the next MPDU that is stored in their slot.                        *)
LeftBehind(b) ==
    /\ out[b].more
    /\ \E c \in b + 1 .. Len(out) :
         /\ out[b].n < out[c].n
         /\ \A k \in b .. c : Index(Sn(out[k].n)) = Index(Sn(out[b].n))

InOrder ==
    \A a, b \in 1 .. Len(out) : a < b =>
        \/ out[a].n < out[b].n
        \/ out[a].n = out[b].n /\ out[a].more
        \/ LeftBehind(b)

(* A frame that came is passed up, is in the buffer, or came after the     *)
(* head had moved past it: "check if we already stored this frame" drops   *)
(* no other.                                                               *)
Accounted ==
    lock = "free" /\ life # "freed" =>
        seen \subseteq Numbers(out) \cup Stored \cup late

(* stored_mpdu_num counts the complete entries, which is what the searches *)
(* of ieee80211_sta_reorder_release() rely on.                             *)
StoredCounts ==
    lock = "free" /\ life # "freed" =>
        stored_mpdu_num = Cardinality({i \in Slots : ieee80211_rx_reorder_ready(i)})

(* No frame waits in the buffer of a session without the timer coming to   *)
(* look at it.                                                             *)
HeldIsTimed ==
    lock = "free" /\ life = "published" /\ stored_mpdu_num > 0 =>
        reorder_timer # Off \/ step["timer"] \in {"fired", "release"}

(* "make sure ieee80211_sta_reorder_release() doesn't re-arm the timer":   *)
(* when RCU frees the session neither softirq works on it and the timer is *)
(* off.                                                                    *)
FreedQuietly ==
    /\ life = "freed" => \A a \in Actors : step[a] \notin {"frame", "bar", "locked",
                                                          "release"}
    /\ life \in {"rcu", "freed"} => reorder_timer = Off

(* A frame that is stored complete leaves the buffer, by the timer if not  *)
(* before.                                                                 *)
HeldLeaves == \A n \in Frames :
    []<>(n \notin Complete \/ life # "published")

=============================================================================
