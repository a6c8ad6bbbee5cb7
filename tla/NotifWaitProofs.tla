-------------------------- MODULE NotifWaitProofs --------------------------
(***************************************************************************)
(* The safety properties of NotifWait, for any set of waiters, commands    *)
(* and aborters.  The inductive invariant adds to the properties what the  *)
(* value of wait_event_timeout() says about the entry until it is turned   *)
(* into a result.                                                          *)
(***************************************************************************)
EXTENDS NotifWait, TLAPS

(* Between the wait and the result: a positive return value means that the *)
(* entry is triggered or aborted.                                          *)
RemainingMeansOver ==
    \A w \in Waiters : ret[w] = "remaining" => WaitOver(w)

(* An entry past its result is no longer linked, so it does not change.    *)
ResultOnlyIdle ==
    \A w \in Waiters : ret[w] \in {"0", "-EIO", "-ETIMEDOUT"} => pc[w] = "idle"

(* What the caller's program counter says of its return value.             *)
ReturnSet ==
    \A w \in Waiters :
        pc[w] \in {"remove", "result"} => ret[w] \in {"remaining", "elapsed"}

Inv ==
    /\ TypeOK
    /\ ListedWhileAlive
    /\ ResultIsTrue
    /\ OneShot
    /\ WakeupOwed
    /\ RemainingMeansOver
    /\ ResultOnlyIdle
    /\ ReturnSet

LEMMA InitInv == Init => Inv
  BY DEF Init, Inv, TypeOK, ListedWhileAlive, ResultIsTrue, OneShot,
         WakeupOwed, RemainingMeansOver, ResultOnlyIdle, ReturnSet,
         PCs, Results, Packets, WaitOver

LEMMA CallerInv ==
  ASSUME Inv, NEW w \in Waiters, Caller(w)
  PROVE  Inv'
<1> USE DEF Inv, TypeOK, ListedWhileAlive, ResultIsTrue, OneShot,
            WakeupOwed, RemainingMeansOver, ResultOnlyIdle, ReturnSet,
            PCs, Results, WaitOver
<1>1. ASSUME NEW cs \in SUBSET Cmds, iwl_init_notification_wait(w, cs)
      PROVE  Inv'
  BY <1>1 DEF iwl_init_notification_wait
<1>2. ASSUME NEW c \in Cmds, SendCommand(w, c)
      PROVE  Inv'
  <2>1. [cmd |-> c, for |-> w] \in Packets
    BY DEF Packets
  <2> QED BY <1>2, <2>1 DEF SendCommand
<1>3. CASE iwl_remove_notification(w)
  BY <1>3 DEF iwl_remove_notification
<1>4. CASE CheckCondition(w)
  BY <1>4 DEF CheckCondition
<1>5. CASE TimeoutElapses(w)
  BY <1>5 DEF TimeoutElapses
<1>6. CASE WaitRemove(w)
  BY <1>6 DEF WaitRemove
<1>7. CASE WaitResult(w)
  BY <1>7 DEF WaitResult
<1> QED
  BY <1>1, <1>2, <1>3, <1>4, <1>5, <1>6, <1>7, Caller(w) DEF Caller

LEMMA ReceiveInv ==
  ASSUME Inv, Receive
  PROVE  Inv'
<1> USE DEF Inv, TypeOK, ListedWhileAlive, ResultIsTrue, OneShot,
            WakeupOwed, RemainingMeansOver, ResultOnlyIdle, ReturnSet,
            PCs, Results, WaitOver
<1>1. CASE RxPacket
  <2>1. Head(fwq) \in Packets /\ Tail(fwq) \in Seq(Packets)
    BY <1>1 DEF RxPacket
  <2> QED BY <1>1, <2>1 DEF RxPacket
<1>2. ASSUME NEW hit \in SUBSET Waiters, iwl_notification_wait(hit)
      PROVE  Inv'
  BY <1>2 DEF iwl_notification_wait, Candidates
<1>3. CASE iwl_notification_notify
  BY <1>3 DEF iwl_notification_notify, WakeUpAll
<1> QED
  BY <1>1, <1>2, <1>3, Receive DEF Receive

LEMMA AbortInv ==
  ASSUME Inv, NEW a \in Aborters, Abort(a)
  PROVE  Inv'
<1> USE DEF Inv, TypeOK, ListedWhileAlive, ResultIsTrue, OneShot,
            WakeupOwed, RemainingMeansOver, ResultOnlyIdle, ReturnSet,
            PCs, Results, WaitOver
<1>1. CASE iwl_abort_notification_waits(a)
  BY <1>1 DEF iwl_abort_notification_waits
<1>2. CASE AbortWake(a)
  BY <1>2 DEF AbortWake, WakeUpAll
<1> QED
  BY <1>1, <1>2, Abort(a) DEF Abort

LEMMA StutterInv == Inv /\ UNCHANGED vars => Inv'
  BY DEF Inv, TypeOK, ListedWhileAlive, ResultIsTrue, OneShot, WakeupOwed,
         RemainingMeansOver, ResultOnlyIdle, ReturnSet, WaitOver, vars

THEOREM Invariance == Spec => []Inv
<1>1. Inv /\ [Next]_vars => Inv'
  BY CallerInv, ReceiveInv, AbortInv, StutterInv DEF Next
<1> QED
  BY InitInv, <1>1, PTL DEF Spec

(* Every field of an entry has its type, and the value of                  *)
(* wait_event_timeout() never leaves iwl_wait_notification().              *)
THEOREM TypeOKHolds == Spec => []TypeOK
  BY Invariance, PTL DEF Inv

(* The linked entries are those of the live stack frames.                  *)
THEOREM ListedWhileAliveHolds == Spec => []ListedWhileAlive
  BY Invariance, PTL DEF Inv

(* iwl_wait_notification() returns the truth about the wait.               *)
THEOREM ResultIsTrueHolds == Spec => []ResultIsTrue
  BY Invariance, PTL DEF Inv

(* No fn is called again after it has returned true.                       *)
THEOREM OneShotHolds == Spec => []OneShot
  BY Invariance, PTL DEF Inv

(* No sleeper with a finished wait is left without a wake-up to come.      *)
THEOREM WakeupOwedHolds == Spec => []WakeupOwed
  BY Invariance, PTL DEF Inv

============================================================================
