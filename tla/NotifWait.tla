----------------------------- MODULE NotifWait -----------------------------
(***************************************************************************)
(* Waiting for a firmware notification: fw/notif-wait.c and notif-wait.h.  *)
(*                                                                         *)
(* A caller declares an entry on its stack, links it into notif_waits,     *)
(* sends the command that makes the firmware answer, and sleeps in         *)
(* wait_event_timeout().  The receive path walks the list for every        *)
(* packet; a firmware error or a device stop aborts all the waits.  The    *)
(* list is protected by notif_wait_lock, so one critical section is one    *)
(* step; the wake-ups, the unlocked list_empty() test, the sleeping and    *)
(* the reading of the result are outside the lock and are steps of their   *)
(* own.                                                                    *)
(***************************************************************************)
EXTENDS Naturals, Sequences

CONSTANTS
    Waiters,    \* the callers, each with one entry on its stack
    Cmds,       \* notification identifiers; one without a group counts as
                \* its long-group form, as in the comparison of the walk
    Aborters,   \* contexts that may abort: firmware error, device stop
    MaxFwq,     \* bound on the notifications in flight from the firmware
    Timeouts    \* whether the timeout of a wait may elapse

ASSUME ConstantsAssumption ==
    /\ MaxFwq \in Nat
    /\ Timeouts \in BOOLEAN

VARIABLES
    notif_waits,    \* entries linked into the list
    cmds,           \* the identifiers each entry waits for
    triggered,      \* entries with triggered set
    aborted,        \* entries with aborted set
    pc,             \* where each caller is
    ret,            \* what wait_event_timeout() returned, then the result
    accepted,       \* history: times an entry's fn has returned true
    rx,             \* the receive path: its step and the packet it handles
    aborting,       \* aborters that marked the entries and still owe the wake-up
    fwq             \* notifications sent by the firmware, oldest first

vars == <<notif_waits, cmds, triggered, aborted, pc, ret, accepted, rx, aborting, fwq>>

(***************************************************************************)
(* "listed" is between iwl_init_notification_wait() and the command;       *)
(* "check" has prepared to wait and is about to test the condition.        *)
(***************************************************************************)
PCs == {"idle", "listed", "check", "asleep", "remove", "result"}
Results == {"none", "remaining", "elapsed", "0", "-EIO", "-ETIMEDOUT"}
Packets == [cmd : Cmds, for : Waiters]

(* The type invariant.  The raw return value of wait_event_timeout() stays *)
(* inside iwl_wait_notification(): its callers see 0 or an error.          *)
TypeOK ==
    /\ notif_waits \subseteq Waiters
    /\ cmds \in [Waiters -> SUBSET Cmds]
    /\ triggered \subseteq Waiters
    /\ aborted \subseteq Waiters
    /\ pc \in [Waiters -> PCs]
    /\ ret \in [Waiters -> Results]
    /\ \A w \in Waiters :
          ret[w] \in {"remaining", "elapsed"} => pc[w] \in {"remove", "result"}
    /\ accepted \in [Waiters -> Nat]
    /\ rx \in [step : {"idle", "walk", "notify"}, pkt : Packets \cup {<<>>}]
    /\ aborting \subseteq Aborters
    /\ fwq \in Seq(Packets)

Init ==
    /\ notif_waits = {}
    /\ cmds = [w \in Waiters |-> {}]
    /\ triggered = {}
    /\ aborted = {}
    /\ pc = [w \in Waiters |-> "idle"]
    /\ ret = [w \in Waiters |-> "none"]
    /\ accepted = [w \in Waiters |-> 0]
    /\ rx = [step |-> "idle", pkt |-> <<>>]
    /\ aborting = {}
    /\ fwq = <<>>

----------------------------------------------------------------------------
(* The caller.                                                             *)

iwl_init_notification_wait(w, cs) ==
    /\ pc[w] = "idle"
    /\ cmds' = [cmds EXCEPT ![w] = cs]
    /\ triggered' = triggered \ {w}
    /\ aborted' = aborted \ {w}
    /\ notif_waits' = notif_waits \cup {w}
    /\ pc' = [pc EXCEPT ![w] = "listed"]
    /\ ret' = [ret EXCEPT ![w] = "none"]
    /\ accepted' = [accepted EXCEPT ![w] = 0]
    /\ UNCHANGED <<rx, aborting, fwq>>

(* The command is sent; the firmware will answer with one of the listed    *)
(* notifications.                                                          *)
SendCommand(w, c) ==
    /\ pc[w] = "listed"
    /\ c \in cmds[w]
    /\ Len(fwq) < MaxFwq
    /\ fwq' = Append(fwq, [cmd |-> c, for |-> w])
    /\ pc' = [pc EXCEPT ![w] = "check"]
    /\ UNCHANGED <<notif_waits, cmds, triggered, aborted, ret, accepted, rx,
                   aborting>>

(* Sending failed: the caller takes the entry back and gives up.           *)
iwl_remove_notification(w) ==
    /\ pc[w] = "listed"
    /\ notif_waits' = notif_waits \ {w}
    /\ pc' = [pc EXCEPT ![w] = "idle"]
    /\ UNCHANGED <<cmds, triggered, aborted, ret, accepted, rx, aborting,
                   fwq>>

(* The condition of the wait_event_timeout().                              *)
WaitOver(w) == w \in triggered \/ w \in aborted

(* Prepared to wait: test the condition, and sleep if it does not hold.    *)
CheckCondition(w) ==
    /\ pc[w] = "check"
    /\ pc' = [pc EXCEPT ![w] = IF WaitOver(w) THEN "remove" ELSE "asleep"]
    /\ ret' = [ret EXCEPT ![w] = IF WaitOver(w) THEN "remaining" ELSE @]
    /\ UNCHANGED <<notif_waits, cmds, triggered, aborted, accepted, rx,
                   aborting, fwq>>

(* Bug: returns -ETIMEDOUT without unlinking the entry.                    *)
TimeoutSkipsRemove(w) ==
    /\ Timeouts
    /\ pc[w] = "asleep"
    /\ pc' = [pc EXCEPT ![w] = IF WaitOver(w) THEN "remove" ELSE "result"]
    /\ ret' = [ret EXCEPT ![w] = IF WaitOver(w) THEN "remaining" ELSE "elapsed"]
    /\ UNCHANGED <<notif_waits, cmds, triggered, aborted, accepted, rx,
                   aborting, fwq>>

(* The timeout elapses; wait_event_timeout() tests the condition once      *)
(* more and returns 1 rather than 0 if it holds by now.                    *)
TimeoutElapses(w) ==
    /\ Timeouts
    /\ pc[w] = "asleep"
    /\ pc' = [pc EXCEPT ![w] = "remove"]
    /\ ret' = [ret EXCEPT ![w] = IF WaitOver(w) THEN "remaining" ELSE "elapsed"]
    /\ UNCHANGED <<notif_waits, cmds, triggered, aborted, accepted, rx,
                   aborting, fwq>>

(* iwl_wait_notification() unlinks the entry under the lock ...            *)
WaitRemove(w) ==
    /\ pc[w] = "remove"
    /\ notif_waits' = notif_waits \ {w}
    /\ pc' = [pc EXCEPT ![w] = "result"]
    /\ UNCHANGED <<cmds, triggered, aborted, ret, accepted, rx, aborting,
                   fwq>>

(* Bug: the elapsed timeout is looked at before the abort.                 *)
ResultTimeoutFirst(w) ==
    /\ pc[w] = "result"
    /\ ret' = [ret EXCEPT ![w] = IF @ = "elapsed" THEN "-ETIMEDOUT"
                                 ELSE IF w \in aborted THEN "-EIO"
                                 ELSE "0"]
    /\ pc' = [pc EXCEPT ![w] = "idle"]
    /\ UNCHANGED <<notif_waits, cmds, triggered, aborted, accepted, rx,
                   aborting, fwq>>

(* Bug: the remaining jiffies are returned for success.                    *)
ResultRaw(w) ==
    /\ pc[w] = "result"
    /\ ret' = [ret EXCEPT ![w] = IF w \in aborted THEN "-EIO"
                                 ELSE IF @ = "elapsed" THEN "-ETIMEDOUT"
                                 ELSE @]
    /\ pc' = [pc EXCEPT ![w] = "idle"]
    /\ UNCHANGED <<notif_waits, cmds, triggered, aborted, accepted, rx,
                   aborting, fwq>>

(* ... and only then looks at it to choose what to return.                 *)
WaitResult(w) ==
    /\ pc[w] = "result"
    /\ ret' = [ret EXCEPT ![w] = IF w \in aborted THEN "-EIO"
                                 ELSE IF @ = "elapsed" THEN "-ETIMEDOUT"
                                 ELSE "0"]
    /\ pc' = [pc EXCEPT ![w] = "idle"]
    /\ UNCHANGED <<notif_waits, cmds, triggered, aborted, accepted, rx,
                   aborting, fwq>>

----------------------------------------------------------------------------
(* The receive path, one packet at a time, and the abort.                  *)

(* A packet arrives; the list is tested for emptiness without the lock.    *)
RxPacket ==
    /\ rx.step = "idle"
    /\ fwq # <<>>
    /\ fwq' = Tail(fwq)
    /\ rx' = IF notif_waits = {} THEN rx
             ELSE [step |-> "walk", pkt |-> Head(fwq)]
    /\ UNCHANGED <<notif_waits, cmds, triggered, aborted, pc, ret, accepted,
                   aborting>>

(* Bug: an entry that already matched is evaluated again.                  *)
CandidatesAgain ==
    {w \in notif_waits : w \notin aborted /\ rx.pkt.cmd \in cmds[w]}

(* Entries the walk evaluates: neither triggered nor aborted yet, with the *)
(* packet's identifier among their commands.                               *)
Candidates ==
    {w \in notif_waits : /\ w \notin triggered
                         /\ w \notin aborted
                         /\ rx.pkt.cmd \in cmds[w]}

(* Bug: the walk stops at the first entry that matches.                    *)
WalkFirstOnly(hit) ==
    /\ rx.step = "walk"
    /\ IF Candidates = {} THEN hit = {} ELSE \E w \in Candidates : hit = {w}
    /\ triggered' = triggered \cup hit
    /\ accepted' = [w \in Waiters |->
                       IF w \in hit THEN accepted[w] + 1 ELSE accepted[w]]
    /\ rx' = IF hit = {} THEN [step |-> "idle", pkt |-> <<>>]
             ELSE [step |-> "notify", pkt |-> rx.pkt]
    /\ UNCHANGED <<notif_waits, pc, ret, aborting, fwq, cmds, aborted>>

(* The walk under the lock.  hit is the set of candidates that have no fn  *)
(* or whose fn returns true: the answer to a caller's own command is one   *)
(* it accepts.                                                             *)
iwl_notification_wait(hit) ==
    /\ rx.step = "walk"
    /\ hit \subseteq Candidates
    /\ rx.pkt.for \in Candidates => rx.pkt.for \in hit
    /\ triggered' = triggered \cup hit
    /\ accepted' = [w \in Waiters |->
                       IF w \in hit THEN accepted[w] + 1 ELSE accepted[w]]
    /\ rx' = IF hit = {} THEN [step |-> "idle", pkt |-> <<>>]
             ELSE [step |-> "notify", pkt |-> rx.pkt]
    /\ UNCHANGED <<notif_waits, pc, ret, aborting, fwq, cmds, aborted>>

(* wake_up_all(): every sleeper tests its condition again.                 *)
WakeUpAll ==
    pc' = [w \in Waiters |-> IF pc[w] = "asleep" THEN "check" ELSE pc[w]]

iwl_notification_notify ==
    /\ rx.step = "notify"
    /\ WakeUpAll
    /\ rx' = [step |-> "idle", pkt |-> <<>>]
    /\ UNCHANGED <<notif_waits, cmds, triggered, aborted, ret, accepted,
                   aborting, fwq>>

(* Bug: marks the entries and forgets the wake-up.                         *)
AbortNoWake(a) ==
    /\ aborted' = aborted \cup notif_waits
    /\ UNCHANGED <<notif_waits, pc, ret, accepted, rx, aborting, fwq, cmds,
                   triggered>>

(* Firmware error or device stop: mark every linked entry ...              *)
iwl_abort_notification_waits(a) ==
    /\ a \notin aborting
    /\ aborted' = aborted \cup notif_waits
    /\ aborting' = aborting \cup {a}
    /\ UNCHANGED <<notif_waits, pc, ret, accepted, rx, fwq, cmds, triggered>>

(* ... and wake the sleepers, after the lock is released.                  *)
AbortWake(a) ==
    /\ a \in aborting
    /\ WakeUpAll
    /\ aborting' = aborting \ {a}
    /\ UNCHANGED <<notif_waits, cmds, triggered, aborted, ret, accepted, rx,
                   fwq>>

----------------------------------------------------------------------------
Caller(w) ==
    \/ \E cs \in SUBSET Cmds \ {{}} : iwl_init_notification_wait(w, cs)
    \/ \E c \in Cmds : SendCommand(w, c)
    \/ iwl_remove_notification(w)
    \/ CheckCondition(w)
    \/ TimeoutElapses(w)
    \/ WaitRemove(w)
    \/ WaitResult(w)

Receive ==
    \/ RxPacket
    \/ \E hit \in SUBSET Waiters : iwl_notification_wait(hit)
    \/ iwl_notification_notify

Abort(a) == iwl_abort_notification_waits(a) \/ AbortWake(a)

Next ==
    \/ \E w \in Waiters : Caller(w)
    \/ Receive
    \/ \E a \in Aborters : Abort(a)

(***************************************************************************)
(* The receive path (NAPI) and the task that aborts keep running, and a    *)
(* runnable caller is eventually scheduled.  Nothing is assumed of the     *)
(* timeouts: a wait must end without them when its answer arrives.         *)
(***************************************************************************)
Fairness ==
    /\ WF_vars(Receive)
    /\ \A a \in Aborters : WF_vars(AbortWake(a))
    /\ \A w \in Waiters :
          WF_vars(CheckCondition(w) \/ WaitRemove(w) \/ WaitResult(w))

Spec == Init /\ [][Next]_vars
FairSpec == Spec /\ Fairness

----------------------------------------------------------------------------
(***************************************************************************)
(* An entry is linked exactly while its caller's stack frame is alive:     *)
(* from iwl_init_notification_wait() until it is unlinked by               *)
(* iwl_remove_notification() or on the way out of iwl_wait_notification(). *)
(* The receive path and the abort therefore never touch a dead frame.      *)
(***************************************************************************)
ListedWhileAlive ==
    \A w \in Waiters :
        w \in notif_waits <=> pc[w] \in {"listed", "check", "asleep", "remove"}

(***************************************************************************)
(* The result read after unlinking is the truth about the wait: 0 only if  *)
(* the notification came and no abort did, -EIO exactly after an abort,    *)
(* and -ETIMEDOUT never hides an abort.                                    *)
(***************************************************************************)
ResultIsTrue ==
    \A w \in Waiters :
        /\ ret[w] = "0" => w \in triggered /\ w \notin aborted
        /\ ret[w] = "-EIO" => w \in aborted
        /\ ret[w] = "-ETIMEDOUT" => w \notin aborted

(***************************************************************************)
(* Each notification is one-shot: an entry's fn is not called again after  *)
(* it has returned true, whatever arrives before the caller unlinks it.    *)
(***************************************************************************)
OneShot ==
    \A w \in Waiters : /\ accepted[w] <= 1
                       /\ accepted[w] = 1 => w \in triggered

(***************************************************************************)
(* A caller is never asleep for good on a finished wait: if its entry is   *)
(* triggered or aborted, the wake-up that follows the critical section is  *)
(* still to come.                                                          *)
(***************************************************************************)
WakeupOwed ==
    \A w \in Waiters :
        pc[w] = "asleep" =>
            /\ w \in triggered => rx.step = "notify"
            /\ w \in aborted => aborting # {}

(***************************************************************************)
(* A caller whose command was sent returns, without the help of a timeout, *)
(* for which no fairness is assumed: the unlocked list_empty() test never  *)
(* drops the answer it waits for, because the entry is linked before the   *)
(* command is sent.                                                        *)
(***************************************************************************)
WaitEnds == \A w \in Waiters : pc[w] = "check" ~> pc[w] = "idle"

============================================================================
