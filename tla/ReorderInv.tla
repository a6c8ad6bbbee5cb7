---------------------------- MODULE ReorderInv -----------------------------
(***************************************************************************)
(* The inductive invariants of the reorder buffer: Inv for the count of    *)
(* the stored frames, the timer and the stages of removal, Shapes for the  *)
(* types, and OInv for the order in which frames leave.                    *)
(***************************************************************************)
EXTENDS Reorder

----------------------------------------------------------------------------
(* The session: its lock, its timer and its stored frames.                 *)

(* The inductive invariant.                                                *)
ReadySlots == {i \in Slots : ieee80211_rx_reorder_ready(i)}

Steps == {"idle", "fired", "frame", "bar", "release", "locked", "deliver"}

Types ==
    /\ head_seq_num \in Int /\ skipped \in Int /\ index \in Slots /\ j \in Slots
    /\ skb \in Skb /\ win \in Frames /\ then \in {"insert", "unlock"}
    /\ reorder \in [Slots -> Seq(Skb)]
    /\ age \in [Slots -> 0 .. 2]
    /\ step \in [Actors -> Steps]

(* Who holds reorder_lock is the one that works, and the stages of         *)
(* __ieee80211_stop_rx_ba_session() leave less and less of the session.    *)
Control ==
    /\ reorder_timer \in -1 .. 2
    /\ lock \in Actors \cup {"free"}
    /\ \A a \in Actors : step[a] = "locked" <=> lock = a
    /\ op = "none" <=> lock = "free"
    /\ life \in {"published", "unpublished", "removed", "rcu", "freed"}
    /\ life \in {"removed", "rcu", "freed"} => removed
    /\ life \in {"published", "unpublished"} => ~removed
    /\ life \in {"rcu", "freed"} => reorder_timer = Off /\ step["timer"] = "idle"
    /\ life = "rcu" => \A a \in Actors : step[a] # "idle" => a \in waiting
    /\ life = "freed" => \A a \in Actors : step[a] = "idle"

(* The count is right at every moment, with the lock held or not.          *)
Counted == life # "freed" => stored_mpdu_num = Cardinality(ReadySlots)

(* The count is zero just when no slot is ready.                           *)
NoneStored ==
    life # "freed" =>
        stored_mpdu_num \in Nat /\ (stored_mpdu_num = 0 <=> ReadySlots = {})

(* The search for slots that have timed out has passed no ready one.       *)
Scanned ==
    op = "scan" => \A s \in Between(Next1(index), j) : ~ieee80211_rx_reorder_ready(s)

(* Outside ieee80211_sta_reorder_release() a stored frame is timed.        *)
Timed ==
    life = "published" /\ op \notin {"flush", "run", "scan", "rearm"}
    /\ stored_mpdu_num > 0 =>
        reorder_timer # Off \/ step["timer"] \in {"fired", "release"}

Inv == Types /\ Control /\ Counted /\ NoneStored /\ Scanned /\ Timed

----------------------------------------------------------------------------
(* The order of the frames.                                                *)

(* How far ahead a number may be for ieee80211_sn_less() to see it ahead.  *)
Half == SN_MODULO - SN_MODULO \div 2

(* What the 802.11 numbering needs to work: the buffer's size divides the  *)
(* modulus, so that a slot stays the slot of its numbers when they wrap    *)
(* (ReorderWrap.cfg shows what happens when it does not), and all numbers  *)
(* that are compared are less than half the range apart.                   *)
HalfRange ==
    /\ SN_MODULO % BufSize = 0
    /\ BufSize + 1 < Half /\ 2 * BufSize + MaxLag - 2 < Half

(* How far the search for timed-out frames has come from slot i: all the   *)
(* way round when it is back at slot i.                                    *)
Dist(i, k) == IF k = i THEN BufSize ELSE (k - i) % BufSize

(* ieee80211_sta_manage_reorder_buf() has counted a frame and has still to *)
(* find its place.                                                         *)
Placing == op \in {"release", "insert"} /\ then = "insert"

(* A frame is on its way into the buffer.                                  *)
Pending == step["rx"] = "frame" \/ Placing

(* A frame is on its way, or its first subframe was and the last may come. *)
Carried == more \/ Pending

(* The window the originator sends from, and what is on its way: a frame   *)
(* is at most a window away from all that was received.                    *)
Sender ==
    /\ win >= 1
    /\ win = 1 \/ \E k \in seen \cup {0} : win <= k + MaxLag
    /\ \A k \in seen : k <= win + BufSize - 1
    /\ Carried =>
         /\ skb.n <= win + BufSize - 1
         /\ \A k \in seen : k <= skb.n + BufSize
    /\ step["rx"] = "bar" =>
         /\ skb.n <= win /\ ~more
         /\ \A k \in seen : k <= skb.n + BufSize - 1
    /\ Placing => skb.n \in seen
    /\ Pending /\ skb.more => more
    /\ more => skb.more /\ skb.n \in Amsdus
    /\ op \in {"release", "insert"} => lock = "rx"
    /\ op = "insert" => then = "insert"
    /\ op = "release" /\ then = "unlock" => skb.n <= win /\ ~more

(* What was passed up or is stored has come in, and only an A-MSDU has     *)
(* more to come.                                                           *)
Kept ==
    /\ Numbers(out) \cup Stored \subseteq seen
    /\ \A a \in 1 .. Len(out) : out[a].more => out[a].n \in Amsdus
    /\ \A s \in Slots : \A k \in 1 .. Len(reorder[s]) :
         reorder[s][k].more => reorder[s][k].n \in Amsdus

(* Nothing has come in: the state of a session that takes its first number *)
(* from the first frame (auto_seq).                                        *)
Untouched ==
    /\ out = <<>> /\ seen = {} /\ late = {} /\ ~started
    /\ \A s \in Slots : reorder[s] = <<>>
    /\ then = "unlock"

(* head_seq_num stands for MPDU h.  It is at most one past what came in or *)
(* the window of the originator, all that came in lies before the end of   *)
(* the window, except while frames are released to make room, and the      *)
(* search for timed-out frames is at the slot it counts to.                *)
HeadOK(h) ==
    /\ head_seq_num = Sn(h)
    /\ h <= win \/ \E k \in seen : h <= k + 1
    /\ ~(op = "release" /\ then = "insert") => \A k \in seen : k < h + BufSize
    /\ op = "release" /\ then = "insert" =>
         /\ target = Sn(skb.n - BufSize + 1)
         /\ h <= skb.n - BufSize + 1 /\ skb.n < h + Half
         /\ \A k \in seen : k <= skb.n
    /\ op = "release" /\ then = "unlock" =>
         target = Sn(skb.n) /\ h <= skb.n + BufSize /\ skb.n < h + Half
    /\ op = "insert" => h <= skb.n /\ skb.n < h + BufSize
    /\ Carried => h <= skb.n + BufSize + 1 /\ skb.n < h + Half
    /\ step["rx"] = "bar" => h <= skb.n + BufSize /\ skb.n < h + Half
    /\ op = "scan" =>
         /\ j = Index(Sn(h + skipped))
         /\ \A i \in 0 .. skipped - 1 : ~ieee80211_rx_reorder_ready(Index(Sn(h + i)))

(* Before the first frame at or after the head, the buffer is empty and    *)
(* the only number that can have come in is the one sent before the        *)
(* session.  While that is on its way, no last subframe of it was passed   *)
(* up.                                                                     *)
NotStarted(h) == ~started =>
    /\ h >= 1 /\ h <= win /\ seen \subseteq {0}
    /\ \A s \in Slots : reorder[s] = <<>>
    /\ Carried => skb.n = 0 \/ skb.n >= h
    /\ Carried /\ skb.n = 0 => \A a \in 1 .. Len(out) : out[a].more

(* What a slot holds when the head is at h: numbers of that slot, below    *)
(* the end of the window, in order, only the last of them complete, which  *)
(* is then not before the head; what is before the head was left there.    *)
SlotOK(h, s) ==
    \A k \in 1 .. Len(reorder[s]) :
        /\ Index(Sn(reorder[s][k].n)) = s
        /\ reorder[s][k].n < h + BufSize
        /\ k < Len(reorder[s]) => reorder[s][k].more
        /\ ~reorder[s][k].more => reorder[s][k].n >= h
        /\ \A m \in 1 .. Len(reorder[s]) : k < m => reorder[s][k].n <= reorder[s][m].n

(* All that was passed up lies before the head, but for first subframes of *)
(* an A-MSDU that were passed up at once.                                  *)
OutOK(h) ==
    \A a \in 1 .. Len(out) :
        out[a].n < h \/ (out[a].n = h /\ out[a].more)

(* Whatever came in is passed up, stored, dropped as late, or in the hand  *)
(* of ieee80211_sta_manage_reorder_buf().                                  *)
Acc ==
    life # "freed" =>
        seen \subseteq Numbers(out) \cup Stored \cup late
                       \cup (IF Placing THEN {skb.n} ELSE {})

(* The state of the buffer when head_seq_num stands for MPDU h.            *)
Ordered(h) ==
    /\ HeadOK(h) /\ NotStarted(h) /\ OutOK(h) /\ Acc
    /\ \A s \in Slots : SlotOK(h, s)

(* The types of the counters and flags.                                    *)
Scalars ==
    /\ head_seq_num \in 0 .. SN_MODULO - 1 /\ target \in 0 .. SN_MODULO - 1
    /\ stored_mpdu_num \in 0 .. U16 - 1
    /\ auto_seq \in BOOLEAN /\ started \in BOOLEAN /\ removed \in BOOLEAN
    /\ more \in BOOLEAN
    /\ op \in {"none", "release", "insert", "flush", "run", "scan", "rearm",
               "unlock"}
    /\ skipped \in 0 .. BufSize /\ (op = "scan" => skipped <= Dist(index, j))
    /\ waiting \subseteq Actors

(* The types of the lists and of the history.                              *)
Lists ==
    /\ frames \in [Actors -> Seq(Skb)]
    /\ out \in Seq(Skb) /\ seen \subseteq Frames /\ late \subseteq Frames

(* What TypeOK says beyond Types and Control.                              *)
Shapes == Scalars /\ Lists

(* The inductive invariant.                                                *)
OInv ==
    /\ Sender /\ Kept /\ InOrder
    /\ auto_seq => Untouched
    /\ ~auto_seq => \E h \in Nat : Ordered(h)

============================================================================
