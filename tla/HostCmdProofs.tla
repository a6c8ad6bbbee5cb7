---------------------------- MODULE HostCmdProofs ----------------------------
(* The invariants of HostCmd for every size of the command queue.           *)
(*                                                                          *)
(* None of them is inductive alone.  The first part: iwl_pcie_clear_cmd_in_ *)
(* flight() does not warn because a queue with commands keeps the NIC       *)
(* awake, and "already active" is not seen because the bit belongs to the   *)
(* call under way; Inv joins them, with the types their steps need.         *)
(*                                                                          *)
(* The second part is about whose answer is whose.  The driver finds the    *)
(* caller through the slot of the answered entry alone, so the argument is  *)
(* that the commands in flight lie in one window of the ring, in its order, *)
(* and hence in different slots (Window, Ordered); that the entry of each   *)
(* still says what was sent (Labelled); and that a synchronous one in       *)
(* flight is the one the caller waits for (Awaited).  AInv joins these.     *)
EXTENDS HostCmd, TLAPS

(* Some of the steps below need more than the five seconds of the default. *)
USE SMTT(30)

Packets == [ptr : Pointers, cmd : Int]
Pcs == {"idle", "send", "enqueue", "wait", "timeout", "cancel", "free"}
Rets == {"none", "refused", "ERFKILL", "EIO", "ENOSPC", "ETIMEDOUT", "0"}
CallSet == [pc : Pcs, id : Int, want : BOOLEAN, inRfkill : BOOLEAN,
            slot : Int, resp : Int, ret : Rets]
NapiSet == [pc : {"idle", "store"}, ptr : Pointers, cmd : Int]

Types ==
    /\ readPtr \in Pointers /\ writePtr \in Pointers
    /\ todo \in Seq(Packets) /\ answers \in Seq(Packets)
    /\ napi \in NapiSet
    /\ call \in CallSet
    /\ napi.pc = "store" => answers # <<>>

\* STATUS_SYNC_HCMD_ACTIVE is set only while the call that set it is under way.
ActiveIsOwned == active => call.pc \in {"enqueue", "wait", "timeout"}

\* The WARNs that never fire.
Quiet == "active" \notin warned /\ "awake" \notin warned

Props == ActiveIsOwned /\ Quiet /\ AwakeWhileQueued /\ WatchdogWhileQueued

Inv == Types /\ Props

\* What the updates of the caller's record do to its type and its pc.
LEMMA CallPc ==
  ASSUME NEW c \in CallSet, NEW p \in Pcs
  PROVE  [c EXCEPT !.pc = p] \in CallSet /\ [c EXCEPT !.pc = p].pc = p
BY Zenon DEF CallSet

LEMMA CallReturn ==
  ASSUME NEW c \in CallSet, NEW p \in Pcs, NEW r \in Rets
  PROVE  /\ [c EXCEPT !.pc = p, !.ret = r] \in CallSet
         /\ [c EXCEPT !.pc = p, !.ret = r].pc = p
BY Zenon DEF CallSet

LEMMA CallSlot ==
  ASSUME NEW c \in CallSet, NEW p \in Pcs, NEW s \in Int
  PROVE  /\ [c EXCEPT !.pc = p, !.slot = s] \in CallSet
         /\ [c EXCEPT !.pc = p, !.slot = s].pc = p
BY Zenon DEF CallSet

LEMMA CallFreed ==
  ASSUME NEW c \in CallSet, NEW p \in Pcs, NEW s \in Int
  PROVE  /\ [c EXCEPT !.pc = p, !.resp = s] \in CallSet
         /\ [c EXCEPT !.pc = p, !.resp = s].pc = p
BY Zenon DEF CallSet

LEMMA CallStored ==
  ASSUME NEW c \in CallSet, NEW s \in Int
  PROVE  [c EXCEPT !.resp = s] \in CallSet /\ [c EXCEPT !.resp = s].pc = c.pc
BY Zenon DEF CallSet

\* What the updates of the receive path's record do to its type.
LEMMA NapiIdle ==
  ASSUME NEW n \in NapiSet
  PROVE  /\ [n EXCEPT !.pc = "idle"] \in NapiSet
         /\ [n EXCEPT !.pc = "idle"].pc = "idle"
BY Zenon DEF NapiSet

LEMMA NapiStore ==
  ASSUME NEW ptr \in Pointers, NEW cmd \in Int
  PROVE  [pc |-> "store", ptr |-> ptr, cmd |-> cmd] \in NapiSet
BY Zenon DEF NapiSet

\* The parts of the caller's and of the receive path's record and of a packet.
LEMMA CallFields == \A c \in CallSet : c.id \in Int
BY Zenon DEF CallSet

LEMMA NapiFields == \A n \in NapiSet : n.ptr \in Pointers /\ n.cmd \in Int
BY Zenon DEF NapiSet

LEMMA PacketFields == \A p \in Packets : p.ptr \in Pointers /\ p.cmd \in Int
BY Zenon DEF Packets

\* What the queues of packets become.
LEMMA PacketQueues ==
  ASSUME NEW q \in Seq(Packets)
  PROVE  /\ \A ptr \in Pointers, cmd \in Int :
              Append(q, [ptr |-> ptr, cmd |-> cmd]) \in Seq(Packets)
         /\ q # <<>> => Head(q) \in Packets /\ Tail(q) \in Seq(Packets)
<1>1. \A ptr \in Pointers, cmd \in Int : [ptr |-> ptr, cmd |-> cmd] \in Packets
  BY Zenon DEF Packets
<1>. QED  BY <1>1

\* The remainder by a positive number is below it.
LEMMA ModRange ==
  ASSUME NEW x \in Int, NEW b \in Nat \ {0}
  PROVE  x % b \in 0..(b - 1)
OBVIOUS

\* Slots and pointers stay in range.
LEMMA Ranges ==
  /\ \A i \in Int : iwl_txq_get_cmd_index(i) \in Int
  /\ \A i \in Int : i % MaxTfd \in Pointers
  /\ \A i \in Pointers : iwl_txq_inc_wrap(i) \in Pointers
  /\ \A i \in Pointers : i \in Int
  /\ 0 \in Pointers
  /\ MaxSync \in Nat /\ Async \in Int /\ None \in Int
<1>1. \A i \in Int : i % MaxTfd \in Pointers /\ i % NWindow \in Int
  BY HostCmdAssumption, ModRange DEF Pointers
<1>2. \A i \in Pointers : i \in Int /\ i + 1 \in Int
  BY HostCmdAssumption DEF Pointers
<1>. QED
  BY <1>1, <1>2, HostCmdAssumption
   DEF iwl_txq_get_cmd_index, iwl_txq_inc_wrap, Pointers, Async, None

\* iwl_txq_used() finds nothing in an empty queue.
LEMMA UsedNonempty ==
  ASSUME Types, NEW ptr \in Pointers, iwl_txq_used(ptr)
  PROVE  ~Empty
<1>1. /\ iwl_txq_get_cmd_index(ptr) \in Int
      /\ iwl_txq_get_cmd_index(readPtr) \in Int
      /\ iwl_txq_get_cmd_index(writePtr) \in Int
  BY Ranges, Zenon DEF Types
<1>. QED  BY <1>1 DEF iwl_txq_used, Empty

\* The invariant holds initially.
LEMMA InitInv == Init => Inv
<1>. SUFFICES ASSUME Init PROVE Inv
  BY Zenon
<1>1. readPtr \in Pointers /\ writePtr \in Pointers /\ Empty
  BY Ranges, HostCmdAssumption DEF Init, Empty
<1>2. Types
  <2>1. call \in CallSet
    BY Zenon, Ranges DEF Init, NotCalling, None, CallSet, Pcs, Rets
  <2>2. napi \in NapiSet /\ napi.pc = "idle"
    BY Ranges, Zenon DEF Init, NapiSet
  <2>3. todo \in Seq(Packets) /\ answers \in Seq(Packets)
    BY DEF Init
  <2>. QED  BY <1>1, <2>1, <2>2, <2>3, Zenon DEF Types
<1>. QED
  BY <1>1, <1>2, Zenon DEF Inv, Props, ActiveIsOwned, Quiet, AwakeWhileQueued,
     WatchdogWhileQueued, Init

\* iwl_trans_send_cmd keeps the invariant.
LEMMA iwl_trans_send_cmdInv == Inv /\ iwl_trans_send_cmd => Inv'
<1>. SUFFICES ASSUME Inv, iwl_trans_send_cmd PROVE Inv'
  BY Zenon
<1>1. call \in CallSet /\ ~active
  BY Zenon DEF Inv, Types, Props, ActiveIsOwned, iwl_trans_send_cmd
<1>2. call.id + 1 \in Int /\ 0 \in Int /\ None \in Int
  BY <1>1, CallFields DEF None
<1>3. PICK want, inRfkill \in BOOLEAN :
        call' = [pc |-> IF Refused(inRfkill) THEN "idle" ELSE "send",
                 id |-> call.id + 1, want |-> want, inRfkill |-> inRfkill,
                 slot |-> 0, resp |-> None,
                 ret |-> IF Refused(inRfkill) THEN "refused" ELSE "none"]
  BY Zenon DEF iwl_trans_send_cmd
<1>4. /\ (IF Refused(inRfkill) THEN "idle" ELSE "send") \in Pcs
      /\ (IF Refused(inRfkill) THEN "refused" ELSE "none") \in Rets
  BY Zenon DEF Pcs, Rets
<1>5. call' \in CallSet
  BY <1>2, <1>3, <1>4, Zenon DEF CallSet
<1>6. Types'
  BY <1>1, <1>5, Zenon DEF Inv, Types, iwl_trans_send_cmd, bits, queue, firmware,
     switch
<1>7. Props'
  BY <1>1, <1>5, Zenon DEF Inv, Props, ActiveIsOwned, Quiet, AwakeWhileQueued,
     WatchdogWhileQueued, Empty, iwl_trans_send_cmd, bits, queue, firmware, switch
<1>. QED  BY <1>6, <1>7, Zenon DEF Inv

\* SetActive keeps the invariant.
LEMMA SetActiveInv == Inv /\ SetActive => Inv'
<1>. SUFFICES ASSUME Inv, SetActive PROVE Inv'
  BY Zenon
<1>1. call \in CallSet /\ call.pc = "send" /\ ~active /\ Quiet
  BY Zenon DEF Inv, Types, Props, ActiveIsOwned, Quiet, SetActive
<1>2. CASE /\ call' = [call EXCEPT !.pc = "idle", !.ret = "ERFKILL"]
           /\ ~active' /\ Quiet'
  <2>1. call' \in CallSet
    <3>1. "idle" \in Pcs /\ "ERFKILL" \in Rets
      BY Zenon DEF Pcs, Rets
    <3>. QED  BY <1>1, <1>2, <3>1, CallReturn, Zenon
  <2>2. Types'
    BY <1>2, <2>1, Zenon DEF Inv, Types, SetActive, bits, queue, firmware, switch
  <2>3. Props'
    BY <1>2, <2>1, Zenon DEF Inv, Props, ActiveIsOwned, Quiet, AwakeWhileQueued,
     WatchdogWhileQueued, Empty, SetActive, bits, queue, firmware, switch
  <2>. QED  BY <2>2, <2>3, Zenon DEF Inv
<1>3. CASE call' = [call EXCEPT !.pc = "enqueue"] /\ Quiet'
  <2>1. call' \in CallSet /\ call'.pc = "enqueue"
    BY <1>1, <1>3, CallPc, Zenon DEF Pcs
  <2>2. Types'
    BY <1>3, <2>1, Zenon DEF Inv, Types, SetActive, bits, queue, firmware, switch
  <2>3. Props'
    BY <1>3, <2>1, Zenon DEF Inv, Props, ActiveIsOwned, Quiet, AwakeWhileQueued,
     WatchdogWhileQueued, Empty, SetActive, bits, queue, firmware, switch
  <2>. QED  BY <2>2, <2>3, Zenon DEF Inv
<1>4. CASE rfkill /\ ~call.inRfkill
  <2>1. /\ call' = [call EXCEPT !.pc = "idle", !.ret = "ERFKILL"]
        /\ active' = active /\ warned' = warned
    BY <1>4, Zenon DEF SetActive, Return
  <2>2. ~active' /\ Quiet'
    BY <1>1, <2>1, Zenon DEF Quiet
  <2>. QED  BY <1>2, <2>1, <2>2, Zenon
<1>5. CASE ~(rfkill /\ ~call.inRfkill)
  <2>1. Quiet' /\ call' = [call EXCEPT !.pc = "enqueue"]
    BY <1>1, <1>5, Zenon DEF SetActive, Warn, Quiet
  <2>. QED  BY <1>3, <2>1, Zenon
<1>. QED  BY <1>4, <1>5, Zenon

\* SendSync keeps the invariant.
LEMMA SendSyncInv == Inv /\ SendSync => Inv'
<1>. SUFFICES ASSUME Inv, SendSync PROVE Inv'
  BY Zenon
<1>0. Quiet'
  BY Zenon DEF SendSync, Warn, Inv, Props, Quiet
<1>1. call \in CallSet /\ call.id \in Int /\ writePtr \in Pointers
  BY CallFields, Zenon DEF Inv, Types
<1>2. /\ iwl_txq_get_cmd_index(writePtr) \in Int
      /\ iwl_txq_inc_wrap(writePtr) \in Pointers
  BY <1>1, Ranges, Zenon
<1>3. CASE /\ \/ call' = [call EXCEPT !.pc = "idle", !.ret = "ENOSPC"]
              \/ call' = [call EXCEPT !.pc = "idle", !.ret = "EIO"]
           /\ active' = FALSE
           /\ UNCHANGED <<readPtr, writePtr, awake, firmware, napi>>
           /\ (UNCHANGED watchdog \/ ArmWatchdog)
  <2>1. /\ [call EXCEPT !.pc = "idle", !.ret = "ENOSPC"] \in CallSet
        /\ [call EXCEPT !.pc = "idle", !.ret = "EIO"] \in CallSet
    <3>1. "idle" \in Pcs /\ "ENOSPC" \in Rets /\ "EIO" \in Rets
      BY Zenon DEF Pcs, Rets
    <3>. QED  BY <1>1, <3>1, CallReturn, Zenon
  <2>2. Types'
    BY <1>3, <2>1, Zenon DEF Inv, Types, firmware
  <2>3. Props'
    <3>1. ActiveIsOwned'
      BY <1>3, Zenon DEF ActiveIsOwned
    <3>2. Quiet'
      BY <1>0, Zenon
    <3>3. AwakeWhileQueued'
      BY <1>3, Zenon DEF Inv, Props, AwakeWhileQueued, Empty
    <3>4. WatchdogWhileQueued'
      <4>1. readPtr' = readPtr /\ writePtr' = writePtr /\ device' = device
        BY <1>3, Zenon DEF firmware
      <4>2. CASE UNCHANGED watchdog
        BY <4>1, <4>2, Zenon DEF Inv, Props, WatchdogWhileQueued, Empty
      <4>3. CASE ArmWatchdog
        BY <4>1, <4>3, Zenon DEF Inv, Props, WatchdogWhileQueued, Empty,
           ArmWatchdog
      <4>. QED  BY <1>3, <4>2, <4>3, Zenon
    <3>. QED  BY <3>1, <3>2, <3>3, <3>4, Zenon DEF Props
  <2>. QED  BY <2>2, <2>3, Zenon DEF Inv
<1>4. CASE /\ Enqueued(call.id, call.want)
           /\ call' = [call EXCEPT !.pc = "wait",
                                   !.slot = iwl_txq_get_cmd_index(writePtr)]
           /\ UNCHANGED <<active, napi>>
  <2>1. call' \in CallSet /\ call'.pc = "wait"
    BY <1>1, <1>2, <1>4, CallSlot, Zenon DEF Pcs
  <2>2. todo' \in Seq(Packets)
    BY <1>1, <1>4, PacketQueues, Zenon DEF Enqueued, Inv, Types
  <2>3. Types'
    BY <1>2, <1>4, <2>1, <2>2, Zenon DEF Enqueued, Inv, Types
  <2>4. Props'
    BY <1>0, <1>4, <2>1, Zenon DEF Enqueued, Inv, Props, ActiveIsOwned,
       AwakeWhileQueued, WatchdogWhileQueued, Empty, ArmWatchdog
  <2>. QED  BY <2>3, <2>4, Zenon DEF Inv
<1>. QED
  BY <1>3, <1>4, Zenon DEF SendSync, Fails, Return, EnqueueFails, queue,
     firmware

\* WaitTimesOut keeps the invariant.
LEMMA WaitTimesOutInv == Inv /\ WaitTimesOut => Inv'
<1>. SUFFICES ASSUME Inv, WaitTimesOut PROVE Inv'
  BY Zenon
<1>1. /\ call \in CallSet /\ call.pc = "wait"
      /\ call' = [call EXCEPT !.pc = "timeout"]
  BY Zenon DEF Inv, Types, WaitTimesOut
<1>2. call' \in CallSet /\ call'.pc = "timeout"
  BY <1>1, CallPc, Ranges, Zenon DEF Pcs, Rets
<1>3. Types'
  BY <1>2, Zenon DEF Inv, Types, WaitTimesOut, bits, queue, firmware, switch
<1>4. Props'
  BY <1>2, Zenon DEF Inv, Props, ActiveIsOwned, Quiet, AwakeWhileQueued,
     WatchdogWhileQueued, Empty, WaitTimesOut, bits, queue, firmware, switch
<1>. QED  BY <1>3, <1>4, Zenon DEF Inv

\* TimeoutNmi keeps the invariant.
LEMMA TimeoutNmiInv == Inv /\ TimeoutNmi => Inv'
<1>. SUFFICES ASSUME Inv, TimeoutNmi PROVE Inv'
  BY Zenon
<1>1. /\ call \in CallSet
      /\ call' = [call EXCEPT !.pc = "cancel", !.ret = "ETIMEDOUT"]
  BY Zenon DEF Inv, Types, TimeoutNmi
<1>2. call' \in CallSet /\ call'.pc = "cancel"
  BY <1>1, CallReturn, Ranges, Zenon DEF Pcs, Rets
<1>3. Types'
  BY <1>2, Zenon DEF Inv, Types, TimeoutNmi, FwErrorSeen, bits, queue, firmware, switch
<1>4. Props'
  BY <1>2, Zenon DEF Inv, Props, ActiveIsOwned, Quiet, AwakeWhileQueued,
     WatchdogWhileQueued, Empty, TimeoutNmi, FwErrorSeen, bits, queue,
     firmware, switch
<1>. QED  BY <1>3, <1>4, Zenon DEF Inv

\* Woken keeps the invariant.
LEMMA WokenInv == Inv /\ Woken => Inv'
<1>. SUFFICES ASSUME Inv, Woken PROVE Inv'
  BY Zenon
<1>1. call \in CallSet /\ ~active
  BY Zenon DEF Inv, Types, Woken
<1>2. Verdict \in Rets /\ "0" \in Rets /\ "cancel" \in Pcs /\ "idle" \in Pcs
  BY Zenon DEF Verdict, Rets, Pcs
<1>3. \/ call' = [call EXCEPT !.pc = "idle", !.ret = "0"]
      \/ call' = [call EXCEPT !.pc = "cancel", !.ret = Verdict]
  BY Zenon DEF Woken, Return
<1>4. call' \in CallSet
  <2>1. /\ [call EXCEPT !.pc = "idle", !.ret = "0"] \in CallSet
        /\ [call EXCEPT !.pc = "cancel", !.ret = Verdict] \in CallSet
    BY <1>1, <1>2, CallReturn, Zenon
  <2>. QED  BY <1>3, <2>1, Zenon
<1>5. Types'
  BY <1>1, <1>4, Zenon DEF Inv, Types, Woken, bits, queue, firmware, switch
<1>6. Props'
  BY <1>1, <1>4, Zenon DEF Inv, Props, ActiveIsOwned, Quiet, AwakeWhileQueued,
     WatchdogWhileQueued, Empty, Woken, bits, queue, firmware, switch
<1>. QED  BY <1>5, <1>6, Zenon DEF Inv

\* CancelWantSkb keeps the invariant.
LEMMA CancelWantSkbInv == Inv /\ CancelWantSkb => Inv'
<1>. SUFFICES ASSUME Inv, CancelWantSkb PROVE Inv'
  BY Zenon
<1>1. /\ call \in CallSet /\ call.pc = "cancel"
      /\ call' = [call EXCEPT !.pc = "free"]
  BY Zenon DEF Inv, Types, CancelWantSkb
<1>2. call' \in CallSet /\ call'.pc = "free"
  BY <1>1, CallPc, Ranges, Zenon DEF Pcs, Rets
<1>3. Types'
  BY <1>2, Zenon DEF Inv, Types, CancelWantSkb, bits, queue, firmware, switch
<1>4. Props'
  BY <1>2, Zenon DEF Inv, Props, ActiveIsOwned, Quiet, AwakeWhileQueued,
     WatchdogWhileQueued, Empty, CancelWantSkb, bits, queue, firmware, switch
<1>. QED  BY <1>3, <1>4, Zenon DEF Inv

\* FreeResp keeps the invariant.
LEMMA FreeRespInv == Inv /\ FreeResp => Inv'
<1>. SUFFICES ASSUME Inv, FreeResp PROVE Inv'
  BY Zenon
<1>1. /\ call \in CallSet /\ call.pc = "free"
      /\ call' = [call EXCEPT !.pc = "idle", !.resp = None]
  BY Zenon DEF Inv, Types, FreeResp
<1>2. call' \in CallSet /\ call'.pc = "idle"
  BY <1>1, CallFreed, Ranges, Zenon DEF Pcs, Rets
<1>3. Types'
  BY <1>2, Zenon DEF Inv, Types, FreeResp, bits, queue, firmware, switch
<1>4. Props'
  BY <1>2, Zenon DEF Inv, Props, ActiveIsOwned, Quiet, AwakeWhileQueued,
     WatchdogWhileQueued, Empty, FreeResp, bits, queue, firmware, switch
<1>. QED  BY <1>3, <1>4, Zenon DEF Inv

\* SendAsyncCheck keeps the invariant.
LEMMA SendAsyncCheckInv == Inv /\ SendAsyncCheck => Inv'
<1>. SUFFICES ASSUME Inv, SendAsyncCheck PROVE Inv'
  BY Zenon
<1>1. Types'
  BY Zenon DEF Inv, Types, Packets, SendAsyncCheck, Refused, bits, queue,
     firmware, switch
<1>2. Props'
  BY Zenon DEF Inv, Types, Props, ActiveIsOwned, Quiet, AwakeWhileQueued,
     WatchdogWhileQueued, Empty, SendAsyncCheck, Refused, bits, queue,
     firmware, switch
<1>. QED  BY <1>1, <1>2, Zenon DEF Inv

\* SendAsync keeps the invariant.
LEMMA SendAsyncInv == Inv /\ SendAsync => Inv'
<1>. SUFFICES ASSUME Inv, SendAsync PROVE Inv'
  BY Zenon
<1>0. Quiet'
  BY Zenon DEF SendAsync, Warn, Inv, Props, Quiet
<1>1. writePtr \in Pointers /\ iwl_txq_inc_wrap(writePtr) \in Pointers
  BY Ranges, Zenon DEF Inv, Types
<1>2. CASE /\ UNCHANGED <<readPtr, writePtr, awake, firmware, napi,
                          call, active>>
           /\ (UNCHANGED watchdog \/ ArmWatchdog)
  <2>2. Types'
    BY <1>2, Zenon DEF Inv, Types, firmware
  <2>3. Props'
    BY <1>0, <1>2, Zenon DEF Inv, Props, ActiveIsOwned, AwakeWhileQueued,
       WatchdogWhileQueued, Empty, ArmWatchdog, firmware
  <2>. QED  BY <2>2, <2>3, Zenon DEF Inv
<1>3. CASE /\ Enqueued(Async, FALSE)
           /\ UNCHANGED <<active, napi, call>>
  <2>2. todo' \in Seq(Packets)
    BY <1>1, <1>3, PacketQueues, Ranges, Zenon DEF Enqueued, Inv, Types
  <2>3. Types'
    BY <1>1, <1>3, <2>2, Zenon DEF Enqueued, Inv, Types
  <2>4. Props'
    BY <1>0, <1>3, Zenon DEF Enqueued, Inv, Props, ActiveIsOwned,
       AwakeWhileQueued, WatchdogWhileQueued, Empty, ArmWatchdog
  <2>. QED  BY <2>3, <2>4, Zenon DEF Inv
<1>. QED
  BY <1>2, <1>3, Zenon DEF SendAsync, EnqueueFails, queue, firmware

\* Completing a command keeps the invariant: the queue it leaves non-empty was
\* not empty before.
LEMMA CompleteInv ==
  ASSUME Inv, NEW ptr \in Pointers, NEW cmd, Complete(ptr, cmd),
         answers # <<>>, call' \in CallSet, call'.pc = call.pc,
         UNCHANGED <<writePtr, todo>>
  PROVE  Inv'
<1>1. napi' \in NapiSet /\ napi'.pc = "idle"
  BY NapiIdle, Zenon DEF Complete, Inv, Types
<1>2. answers' \in Seq(Packets)
  BY PacketQueues, Zenon DEF Complete, Inv, Types
<1>3. active' => active
  BY Zenon DEF Complete
<1>4. /\ readPtr' \in Pointers
      /\ Quiet' /\ AwakeWhileQueued' /\ WatchdogWhileQueued'
  <2>1. CASE ~iwl_txq_used(ptr)
    <3>1. \E w \in {"full", "range"} : warned' = warned \cup {w}
      BY <2>1, Zenon DEF Complete, iwl_pcie_cmdq_reclaim, Warn
    <3>2. Quiet'
      BY <3>1 DEF Inv, Props, Quiet
    <3>. QED
      BY <2>1, <3>2, Zenon DEF Complete, iwl_pcie_cmdq_reclaim, Inv, Types, Props,
         AwakeWhileQueued, WatchdogWhileQueued, Empty
  <2>2. CASE iwl_txq_used(ptr)
    <3>1. ~Empty
      BY <2>2, UsedNonempty, Zenon DEF Inv
    <3>2. (readPtr + Freed(ptr)) % MaxTfd \in Pointers
      <4>1. /\ iwl_txq_get_cmd_index(ptr) \in Int
            /\ iwl_txq_get_cmd_index(readPtr) \in Int
            /\ readPtr \in Int
        BY Ranges, Zenon DEF Inv, Types
      <4>2. Freed(ptr) \in Int
        <5>1. \A i \in Int : i % MaxTfd \in Int
          BY Ranges, Zenon
        <5>. QED  BY <4>1, <5>1 DEF Freed
      <4>. QED  BY <4>1, <4>2, Ranges
    <3>3. /\ readPtr' = (readPtr + Freed(ptr)) % MaxTfd
          /\ awake' = (awake /\ readPtr' # writePtr)
          /\ Warn("awake", readPtr' = writePtr /\ ~awake)
          /\ watchdog' = (readPtr' # writePtr)
      BY <2>2, Zenon DEF Complete, iwl_pcie_cmdq_reclaim, ClearCmdInFlight
    <3>. QED
      BY <3>1, <3>2, <3>3, Zenon DEF Inv, Props, Quiet, Warn, AwakeWhileQueued,
         WatchdogWhileQueued, Empty
  <2>. QED  BY <2>1, <2>2, Zenon
<1>5. Types'
  BY <1>1, <1>2, <1>4, Zenon DEF Inv, Types
<1>6. Props'
  BY <1>3, <1>4, Zenon DEF Inv, Props, ActiveIsOwned
<1>. QED  BY <1>5, <1>6, Zenon DEF Inv

\* RxAnswer keeps the invariant.
LEMMA RxAnswerInv == Inv /\ RxAnswer => Inv'
<1>. SUFFICES ASSUME Inv, RxAnswer PROVE Inv'
  BY Zenon
<1>1. Head(answers).ptr \in Pointers
  BY PacketQueues, PacketFields, Zenon DEF RxAnswer, Inv, Types
<1>2. /\ Complete(Head(answers).ptr, Head(answers).cmd)
      /\ answers # <<>> /\ UNCHANGED <<writePtr, todo, call>>
  BY Zenon DEF RxAnswer
<1>3. call' \in CallSet /\ call'.pc = call.pc
  BY <1>2, Zenon DEF Inv, Types
<1>. QED  BY <1>1, <1>2, <1>3, CompleteInv, Zenon

\* RxWanted keeps the invariant.
LEMMA RxWantedInv == Inv /\ RxWanted => Inv'
<1>. SUFFICES ASSUME Inv, RxWanted PROVE Inv'
  BY Zenon
<1>1. Head(answers).ptr \in Pointers /\ Head(answers).cmd \in Int
  BY PacketQueues, PacketFields, Zenon DEF RxWanted, Inv, Types
<1>2. napi' \in NapiSet
  BY <1>1, NapiStore, Zenon DEF RxWanted
<1>3. Types'
  BY <1>2, Zenon DEF Inv, Types, RxWanted, bits, queue, firmware, switch
<1>4. Props'
  BY <1>2, Zenon DEF Inv, Props, ActiveIsOwned, Quiet, AwakeWhileQueued,
     WatchdogWhileQueued, Empty, RxWanted, bits, queue, firmware, switch
<1>. QED  BY <1>3, <1>4, Zenon DEF Inv

\* RxStore keeps the invariant.
LEMMA RxStoreInv == Inv /\ RxStore => Inv'
<1>. SUFFICES ASSUME Inv, RxStore PROVE Inv'
  BY Zenon
<1>1. napi.ptr \in Pointers /\ napi.cmd \in Int
  BY NapiFields, Zenon DEF Inv, Types
<1>2. /\ Complete(napi.ptr, napi.cmd)
      /\ UNCHANGED <<writePtr, todo>> /\ answers # <<>>
  BY Zenon DEF RxStore, Inv, Types
<1>3. call' \in CallSet /\ call'.pc = call.pc
  <2>1. call' = [call EXCEPT !.resp = napi.cmd] \/ call' = call
    BY Zenon DEF RxStore
  <2>. QED  BY <1>1, <2>1, CallStored, Zenon DEF Inv, Types
<1>. QED  BY <1>1, <1>2, <1>3, CompleteInv, Zenon

\* WatchdogFires keeps the invariant.
LEMMA WatchdogFiresInv == Inv /\ WatchdogFires => Inv'
<1>. SUFFICES ASSUME Inv, WatchdogFires PROVE Inv'
  BY Zenon
<1>1. Types'
  BY Zenon DEF Inv, Types, Packets, WatchdogFires, ForceNmi, bits, queue,
     firmware, switch
<1>2. Props'
  BY Zenon DEF Inv, Types, Props, ActiveIsOwned, Quiet, AwakeWhileQueued,
     WatchdogWhileQueued, Empty, WatchdogFires, ForceNmi, bits, queue,
     firmware, switch
<1>. QED  BY <1>1, <1>2, Zenon DEF Inv

\* IrqError keeps the invariant.
LEMMA IrqErrorInv == Inv /\ IrqError => Inv'
<1>. SUFFICES ASSUME Inv, IrqError PROVE Inv'
  BY Zenon
<1>1. Types'
  BY Zenon DEF Inv, Types, Packets, IrqError, FwErrorSeen, bits, queue, firmware,
     switch
<1>2. Props'
  BY Zenon DEF Inv, Types, Props, ActiveIsOwned, Quiet, AwakeWhileQueued,
     WatchdogWhileQueued, Empty, IrqError, FwErrorSeen, bits, queue,
     firmware, switch
<1>. QED  BY <1>1, <1>2, Zenon DEF Inv

\* IrqWake keeps the invariant.
LEMMA IrqWakeInv == Inv /\ IrqWake => Inv'
<1>. SUFFICES ASSUME Inv, IrqWake PROVE Inv'
  BY Zenon
<1>1. Types'
  BY Zenon DEF Inv, Types, Packets, IrqWake, bits, queue, firmware, switch
<1>2. Props'
  BY Zenon DEF Inv, Types, Props, ActiveIsOwned, Quiet, AwakeWhileQueued,
     WatchdogWhileQueued, Empty, IrqWake, bits, queue, firmware, switch
<1>. QED  BY <1>1, <1>2, Zenon DEF Inv

\* Stopping the device keeps the invariant.
LEMMA StopDeviceInv ==
  ASSUME Inv, StopDevice, UNCHANGED <<napi, call>>
  PROVE  Inv'
<1>1. CASE UNCHANGED <<active, queue, firmware, warned>>
  BY <1>1, Zenon DEF queue, firmware, Inv, Types, Props, ActiveIsOwned, Quiet,
     AwakeWhileQueued, WatchdogWhileQueued, Empty
<1>2. CASE /\ napi.pc = "idle"
           /\ device' = "off" /\ todo' = <<>> /\ answers' = <<>>
           /\ readPtr' = writePtr /\ writePtr' = writePtr
           /\ Warn("awake", ~awake /\ ~Empty)
           /\ active' = FALSE
  <2>1. Types'
    BY <1>2 DEF Inv, Types
  <2>2. Quiet'
    BY <1>2, Zenon DEF Inv, Props, Quiet, Warn, AwakeWhileQueued
  <2>3. Props'
    BY <1>2, <2>2, Zenon DEF Props, ActiveIsOwned, Quiet, AwakeWhileQueued,
       WatchdogWhileQueued, Empty
  <2>. QED  BY <2>1, <2>3, Zenon DEF Inv
<1>. QED  BY <1>1, <1>2, Zenon DEF StopDevice

\* IrqRfkill keeps the invariant.
LEMMA IrqRfkillInv == Inv /\ IrqRfkill => Inv'
<1>. SUFFICES ASSUME Inv, IrqRfkill PROVE Inv'
  BY Zenon
<1>1. CASE StopDevice
  BY <1>1, StopDeviceInv, Zenon DEF IrqRfkill
<1>2. CASE UNCHANGED <<active, queue, firmware, warned>>
  BY <1>2, Zenon DEF IrqRfkill, queue, firmware, Inv, Types, Props, ActiveIsOwned,
     Quiet, AwakeWhileQueued, WatchdogWhileQueued, Empty
<1>. QED  BY <1>1, <1>2, Zenon DEF IrqRfkill

\* iwl_trans_stop_device keeps the invariant.
LEMMA iwl_trans_stop_deviceInv == Inv /\ iwl_trans_stop_device => Inv'
<1>. SUFFICES ASSUME Inv, iwl_trans_stop_device PROVE Inv'
  BY Zenon
<1>. QED  BY StopDeviceInv, Zenon DEF iwl_trans_stop_device

\* iwl_trans_start_fw keeps the invariant.
LEMMA iwl_trans_start_fwInv == Inv /\ iwl_trans_start_fw => Inv'
<1>. SUFFICES ASSUME Inv, iwl_trans_start_fw PROVE Inv'
  BY Zenon
<1>1. Types'
  BY Ranges DEF Inv, Types, Packets, iwl_trans_start_fw, bits, queue,
     firmware, switch
<1>2. Props'
  BY Ranges, Zenon DEF Inv, Types, Props, ActiveIsOwned, Quiet,
     AwakeWhileQueued, WatchdogWhileQueued, Empty, iwl_trans_start_fw,
     bits, queue, firmware, switch
<1>. QED  BY <1>1, <1>2, Zenon DEF Inv

\* FwAnswers keeps the invariant.
LEMMA FwAnswersInv == Inv /\ FwAnswers => Inv'
<1>. SUFFICES ASSUME Inv, FwAnswers PROVE Inv'
  BY Zenon
<1>1. /\ todo' \in Seq(Packets)
      /\ answers' \in Seq(Packets) /\ answers' # <<>>
  BY PacketQueues DEF Inv, Types, FwAnswers
<1>2. Types'
  BY <1>1, Zenon DEF Inv, Types, FwAnswers, bits, queue, firmware, switch
<1>3. Props'
  BY <1>1, Zenon DEF Inv, Props, ActiveIsOwned, Quiet, AwakeWhileQueued,
     WatchdogWhileQueued, Empty, FwAnswers, bits, queue, firmware, switch
<1>. QED  BY <1>2, <1>3, Zenon DEF Inv

\* FwSkips keeps the invariant.
LEMMA FwSkipsInv == Inv /\ FwSkips => Inv'
<1>. SUFFICES ASSUME Inv, FwSkips PROVE Inv'
  BY Zenon
<1>1. todo' \in Seq(Packets)
  BY PacketQueues, Zenon DEF Inv, Types, FwSkips
<1>2. Types'
  BY <1>1, Zenon DEF Inv, Types, FwSkips, bits, queue, firmware, switch
<1>3. Props'
  BY <1>1, Zenon DEF Inv, Props, ActiveIsOwned, Quiet, AwakeWhileQueued,
     WatchdogWhileQueued, Empty, FwSkips, bits, queue, firmware, switch
<1>. QED  BY <1>2, <1>3, Zenon DEF Inv

\* FwCrashes keeps the invariant.
LEMMA FwCrashesInv == Inv /\ FwCrashes => Inv'
<1>. SUFFICES ASSUME Inv, FwCrashes PROVE Inv'
  BY Zenon
<1>1. Types'
  BY Zenon DEF Inv, Types, Packets, FwCrashes, bits, queue, firmware, switch
<1>2. Props'
  BY Zenon DEF Inv, Types, Props, ActiveIsOwned, Quiet, AwakeWhileQueued,
     WatchdogWhileQueued, Empty, FwCrashes, bits, queue, firmware, switch
<1>. QED  BY <1>1, <1>2, Zenon DEF Inv

\* Toggle keeps the invariant.
LEMMA ToggleInv == Inv /\ Toggle => Inv'
<1>. SUFFICES ASSUME Inv, Toggle PROVE Inv'
  BY Zenon
<1>1. Types'
  BY Zenon DEF Inv, Types, Packets, Toggle, bits, queue, firmware, switch
<1>2. Props'
  BY Zenon DEF Inv, Types, Props, ActiveIsOwned, Quiet, AwakeWhileQueued,
     WatchdogWhileQueued, Empty, Toggle, bits, queue, firmware, switch
<1>. QED  BY <1>1, <1>2, Zenon DEF Inv

\* Every step of the model keeps the invariant.
LEMMA NextInv == Inv /\ [Next]_vars => Inv'
<1>. SUFFICES ASSUME Inv, [Next]_vars PROVE Inv'
  BY Zenon
<1>1. CASE Caller
  BY <1>1, iwl_trans_send_cmdInv, SetActiveInv, SendSyncInv, WaitTimesOutInv,
     TimeoutNmiInv, WokenInv, CancelWantSkbInv, FreeRespInv, Zenon DEF Caller
<1>2. CASE Sender
  BY <1>2, SendAsyncCheckInv, SendAsyncInv, Zenon DEF Sender
<1>3. CASE Napi
  BY <1>3, RxAnswerInv, RxWantedInv, RxStoreInv, Zenon DEF Napi
<1>4. CASE WatchdogFires
  BY <1>4, WatchdogFiresInv, Zenon
<1>5. CASE Irq
  BY <1>5, IrqErrorInv, IrqWakeInv, IrqRfkillInv, Zenon DEF Irq
<1>6. CASE OpMode
  BY <1>6, iwl_trans_stop_deviceInv, iwl_trans_start_fwInv, Zenon DEF OpMode
<1>7. CASE Environment
  BY <1>7, FwAnswersInv, FwSkipsInv, FwCrashesInv, ToggleInv, Zenon
     DEF Environment
<1>8. CASE UNCHANGED vars
  BY <1>8, Zenon DEF vars, bits, queue, firmware, Inv, Types, Props, ActiveIsOwned,
     Quiet, AwakeWhileQueued, WatchdogWhileQueued, Empty
<1>. QED
  BY <1>1, <1>2, <1>3, <1>4, <1>5, <1>6, <1>7, <1>8, Zenon DEF Next

\* The inductive invariant holds in every reachable state.
THEOREM Invariance == Spec => []Inv
BY InitInv, NextInv, PTL DEF Spec

\* While commands are queued the NIC is held awake, whatever the firmware
\* answers, skips or loses and however the device is stopped and started.
THEOREM AwakeWhileQueuedHolds == Spec => []AwakeWhileQueued
<1>1. Inv => AwakeWhileQueued
  BY Zenon DEF Inv, Props
<1>. QED  BY <1>1, Invariance, PTL

\* While commands are queued to running firmware, the stuck-queue timer of the
\* command queue is armed.
THEOREM WatchdogWhileQueuedHolds == Spec => []WatchdogWhileQueued
<1>1. Inv => WatchdogWhileQueued
  BY Zenon DEF Inv, Props
<1>. QED  BY <1>1, Invariance, PTL

----------------------------------------------------------------------------
(* Slots of the window, and pointers of the ring. *)

\* Two numbers that differ by a multiple of the window share a slot.
Same(a, b) == \E k \in Int : a = b + k * NWindow

\* Sums and differences of numbers that share slots share one.
LEMMA SameSum ==
  ASSUME NEW a \in Int, NEW b \in Int, NEW c \in Int, NEW d \in Int,
         Same(a, b), Same(c, d)
  PROVE  Same(a + c, b + d) /\ Same(a - c, b - d) /\ Same(b, a)
<1>1. NWindow \in Int
  BY HostCmdAssumption
<1>2. PICK k \in Int : a = b + k * NWindow
  BY Zenon DEF Same
<1>3. PICK l \in Int : c = d + l * NWindow
  BY Zenon DEF Same
<1>4. /\ a + c = (b + d) + (k + l) * NWindow
      /\ a - c = (b - d) + (k - l) * NWindow
      /\ b = a + (-k) * NWindow
  BY <1>1, <1>2, <1>3
<1>5. k + l \in Int /\ k - l \in Int /\ -k \in Int
  OBVIOUS
<1>. QED  BY <1>4, <1>5, Zenon DEF Same

\* Numbers closer than the window share a slot only with themselves.
LEMMA SameSmall ==
  ASSUME NEW a \in Int, NEW b \in Int, Same(a, b),
         a - b < NWindow, b - a < NWindow
  PROVE  a = b
<1>1. NWindow \in Int /\ NWindow > 0
  BY HostCmdAssumption
<1>2. PICK k \in Int : a = b + k * NWindow
  BY Zenon DEF Same
<1>3. CASE k >= 1
  <2>1. k * NWindow >= NWindow
    BY <1>1, <1>3
  <2>. QED  BY <1>1, <1>2, <2>1
<1>4. CASE k <= -1
  <2>1. (-k) * NWindow >= NWindow
    BY <1>1, <1>4
  <2>2. (-k) * NWindow = -(k * NWindow)
    BY <1>1
  <2>. QED  BY <1>1, <1>2, <2>1, <2>2
<1>5. CASE k = 0
  BY <1>1, <1>2, <1>5
<1>. QED  BY <1>3, <1>4, <1>5

\* The quotient and the remainder make up the dividend.
LEMMA DivMod ==
  ASSUME NEW a \in Int, NEW n \in Nat \ {0}
  PROVE  a \div n \in Int /\ a = n * (a \div n) + (a % n)
OBVIOUS

\* Neither the masking of a pointer nor its wrap changes the slot.
LEMMA SameMod ==
  ASSUME NEW a \in Int
  PROVE  Same(a % NWindow, a) /\ Same(a % MaxTfd, a)
<1>1. NWindow \in Nat \ {0} /\ MaxTfd \in Nat \ {0} /\ MaxTfd % NWindow = 0
  BY HostCmdAssumption, Zenon
<1>2. Same(a % NWindow, a)
  <2>1. a \div NWindow \in Int /\ a = NWindow * (a \div NWindow) + (a % NWindow)
    BY <1>1, DivMod, Zenon
  <2>2. a % NWindow \in Int
    BY <1>1
  <2>. DEFINE q == a \div NWindow
              r == a % NWindow
  <2>3. q \in Int /\ r \in Int /\ a = NWindow * q + r
    BY <2>1, <2>2, Zenon
  <2>. HIDE DEF q, r
  <2>4. r = a + (-q) * NWindow /\ -q \in Int
    BY <1>1, <2>3
  <2>5. Same(r, a)
    BY <2>4, Zenon DEF Same
  <2>. QED  BY <2>5, Zenon DEF r
<1>3. Same(a % MaxTfd, a)
  <2>. DEFINE q == a \div MaxTfd
              r == a % MaxTfd
              m == MaxTfd \div NWindow
  <2>1. q \in Int /\ r \in Int /\ a = MaxTfd * q + r
    BY <1>1, DivMod
  <2>2. m \in Int /\ MaxTfd = NWindow * m
    <3>1. m \in Int /\ MaxTfd = NWindow * m + (MaxTfd % NWindow)
      BY <1>1, DivMod
    <3>. QED  BY <1>1, <3>1
  <2>. HIDE DEF q, r, m
  <2>3. r = a + (-(m * q)) * NWindow /\ -(m * q) \in Int
    BY <1>1, <2>1, <2>2
  <2>4. Same(r, a)
    BY <2>3, Zenon DEF Same
  <2>. QED  BY <2>4, Zenon DEF r
<1>. QED  BY <1>2, <1>3, Zenon

\* The remainder of a number less than the divisor away from zero.
LEMMA ModSmall ==
  ASSUME NEW b \in Nat \ {0}, NEW x \in Int, -b <= x, x < b
  PROVE  x % b = IF x >= 0 THEN x ELSE x + b
OBVIOUS

\* How far a pointer lies behind the write pointer w.
Behind(w, p) == (w - p) % MaxTfd

\* How far a pointer lies behind another on the ring, and its slots.
LEMMA BehindValue ==
  ASSUME NEW w \in Pointers, NEW p \in Pointers
  PROVE  /\ Behind(w, p) = IF w >= p THEN w - p ELSE w - p + MaxTfd
         /\ Behind(w, p) \in 0..(MaxTfd - 1)
         /\ Same(Behind(w, p), w - p)
<1>1. MaxTfd \in Nat \ {0}
  BY HostCmdAssumption, Zenon
<1>2. w \in Int /\ p \in Int /\ w - p \in Int /\ -MaxTfd <= w - p /\ w - p < MaxTfd
  BY <1>1 DEF Pointers
<1>3. Behind(w, p) = IF w - p >= 0 THEN w - p ELSE w - p + MaxTfd
  BY <1>1, <1>2, ModSmall, Zenon DEF Behind
<1>4. Same(Behind(w, p), w - p)
  BY <1>2, SameMod, Zenon DEF Behind
<1>. QED  BY <1>1, <1>2, <1>3, <1>4

\* The write pointer moves on: all pointers fall back by one.
LEMMA BehindNext ==
  ASSUME NEW w \in Pointers, NEW p \in Pointers, Behind(w, p) + 1 < MaxTfd
  PROVE  Behind(iwl_txq_inc_wrap(w), p) = Behind(w, p) + 1
<1>1. MaxTfd \in Nat \ {0} /\ w \in Int /\ p \in Int /\ 0 <= w /\ w < MaxTfd
      /\ 0 <= p /\ p < MaxTfd
  BY HostCmdAssumption DEF Pointers
<1>2. iwl_txq_inc_wrap(w) \in Pointers
  BY Ranges, Zenon
<1>3. iwl_txq_inc_wrap(w) = IF w + 1 = MaxTfd THEN 0 ELSE w + 1
  <2>1. CASE w + 1 = MaxTfd
    BY <1>1, <2>1 DEF iwl_txq_inc_wrap
  <2>2. CASE w + 1 < MaxTfd
    BY <1>1, <2>2, ModSmall DEF iwl_txq_inc_wrap
  <2>. QED  BY <1>1, <2>1, <2>2
<1>4. Behind(w, p) = IF w >= p THEN w - p ELSE w - p + MaxTfd
  BY BehindValue, Zenon
<1>5. Behind(iwl_txq_inc_wrap(w), p) =
        IF iwl_txq_inc_wrap(w) >= p THEN iwl_txq_inc_wrap(w) - p
                                    ELSE iwl_txq_inc_wrap(w) - p + MaxTfd
  BY <1>2, BehindValue, Zenon
<1>. QED  BY <1>1, <1>3, <1>4, <1>5

\* The window is at most the ring.
LEMMA Sizes ==
  /\ NWindow \in Nat /\ MaxTfd \in Nat /\ 0 < NWindow /\ 0 < MaxTfd
  /\ NWindow <= MaxTfd
<1>1. NWindow \in Nat \ {0} /\ MaxTfd \in Nat \ {0} /\ MaxTfd % NWindow = 0
  BY HostCmdAssumption, Zenon
<1>2. CASE MaxTfd < NWindow
  <2>1. MaxTfd % NWindow = MaxTfd
    BY <1>1, <1>2, ModSmall
  <2>. QED  BY <1>1, <2>1, Zenon
<1>. QED  BY <1>1, <1>2

\* When iwl_txq_space() finds room, the window has room for one more.
LEMMA Room ==
  ASSUME Types, NEW async \in BOOLEAN, ~NoSpace(async)
  PROVE  /\ Behind(writePtr, readPtr) + 1 <= NWindow
         /\ Behind(writePtr, readPtr) + 1 < MaxTfd
<1>1. Behind(writePtr, readPtr) \in Nat
  BY BehindValue, Sizes DEF Types
<1>. DEFINE u == Behind(writePtr, readPtr)
            m == IF NWindow < MaxTfd THEN NWindow ELSE MaxTfd - 1
<1>2. iwl_txq_space = IF u > m THEN 0 ELSE m - u
  BY Zenon DEF iwl_txq_space, Used, MaxUsed, Behind
<1>3. iwl_txq_space >= 1
  <2>1. iwl_txq_space \in Int
    BY <1>1, <1>2, Sizes
  <2>. QED  BY <2>1 DEF NoSpace
<1>. HIDE DEF u
<1>4. u \in Nat /\ u <= m - 1
  BY <1>1, <1>2, <1>3, Sizes DEF u
<1>5. u + 1 <= NWindow /\ u + 1 < MaxTfd
  BY <1>4, Sizes
<1>. QED  BY <1>5, Zenon DEF u

\* Pointers at different places of the window have different slots.
LEMMA Apart ==
  ASSUME NEW w \in Pointers, NEW p \in Pointers, NEW q \in Pointers,
         Behind(w, p) \in 0..NWindow, Behind(w, q) \in 0..NWindow,
         Behind(w, p) # Behind(w, q),
         Behind(w, p) - Behind(w, q) < NWindow,
         Behind(w, q) - Behind(w, p) < NWindow
  PROVE  iwl_txq_get_cmd_index(p) # iwl_txq_get_cmd_index(q)
<1>. SUFFICES ASSUME p % NWindow = q % NWindow PROVE FALSE
  BY Zenon DEF iwl_txq_get_cmd_index
<1>1. w \in Int /\ p \in Int /\ q \in Int
  BY Ranges, Zenon
<1>2. p % NWindow \in Int /\ Same(p % NWindow, p) /\ Same(p % NWindow, q)
  BY <1>1, SameMod, HostCmdAssumption
<1>3. Same(0, p - q)
  BY <1>1, <1>2, SameSum
<1>4. Behind(w, p) \in Int /\ Behind(w, q) \in Int
  BY Sizes
<1>5. Same(Behind(w, p), w - p) /\ Same(Behind(w, q), w - q)
  BY BehindValue, Zenon
<1>6. Same(Behind(w, q) - Behind(w, p), (w - q) - (w - p))
  BY <1>1, <1>4, <1>5, SameSum
<1>7. (w - q) - (w - p) = p - q
  BY <1>1
<1>8. Same((Behind(w, q) - Behind(w, p)) - 0, (p - q) - (p - q))
  BY <1>1, <1>3, <1>4, <1>6, <1>7, SameSum
<1>9. Same(Behind(w, q) - Behind(w, p), 0)
  BY <1>1, <1>4, <1>8
<1>. QED
  <2>. DEFINE d == Behind(w, q) - Behind(w, p)
  <2>1. d \in Int /\ Same(d, 0) /\ d - 0 < NWindow /\ 0 - d < NWindow
    BY <1>4, <1>9, Sizes
  <2>. HIDE DEF d
  <2>2. d = 0
    BY <2>1, SameSmall
  <2>. QED  BY <1>4, <2>2 DEF d

\* However far iwl_pcie_cmdq_reclaim() moves the read pointer, also after a
\* skipped command, it does not pass a command behind the answered one.
LEMMA Reclaimed ==
  ASSUME NEW w \in Pointers, NEW p \in Pointers, readPtr \in Pointers,
         Behind(w, p) \in 1..NWindow
  PROVE  Behind(w, (readPtr + Freed(p)) % MaxTfd) >= Behind(w, p) - 1
<1>. DEFINE ip == iwl_txq_get_cmd_index(p)
            ir == iwl_txq_get_cmd_index(readPtr)
            f == Freed(p)
            r == (readPtr + f) % MaxTfd
            b == Behind(w, p)
            u == Behind(w, r)
<1>1. w \in Int /\ p \in Int /\ readPtr \in Int /\ ip \in Int /\ ir \in Int
  BY Ranges, Zenon
<1>2. Same(ip, p) /\ Same(ir, readPtr)
  BY <1>1, SameMod, Zenon DEF iwl_txq_get_cmd_index
<1>3. f \in Int /\ Same(f, ip + 1 - ir)
  <2>1. ip + 1 - ir \in Int /\ f = (ip + 1 - ir) % MaxTfd
    BY <1>1 DEF Freed
  <2>2. (ip + 1 - ir) % MaxTfd \in Pointers
    BY <2>1, Ranges, Zenon
  <2>. QED  BY <2>1, <2>2, SameMod, Ranges, Zenon
<1>. HIDE DEF ip, ir, f
<1>4. r \in Pointers /\ r \in Int /\ Same(r, readPtr + f)
  <2>1. readPtr + f \in Int
    BY <1>1, <1>3
  <2>2. r \in Pointers /\ Same(r, readPtr + f)
    BY <2>1, Ranges, SameMod, Zenon
  <2>. QED  BY <2>2, Ranges, Zenon
<1>5. b \in Int /\ u \in 0..(MaxTfd - 1) /\ Same(b, w - p)
  BY <1>4, BehindValue, Sizes
<1>6. Same(u, w - r)
  BY <1>4, BehindValue, Zenon
<1>. HIDE DEF r, b, u
<1>7. u \in Int
  BY <1>5, Sizes
<1>8. PICK k1 \in Int : ip = p + k1 * NWindow
  BY <1>2, Zenon DEF Same
<1>9. PICK k2 \in Int : ir = readPtr + k2 * NWindow
  BY <1>2, Zenon DEF Same
<1>10. PICK k3 \in Int : f = ip + 1 - ir + k3 * NWindow
  BY <1>3, Zenon DEF Same
<1>11. PICK k4 \in Int : r = readPtr + f + k4 * NWindow
  BY <1>4, Zenon DEF Same
<1>12. PICK k5 \in Int : b = w - p + k5 * NWindow
  BY <1>5, Zenon DEF Same
<1>13. PICK k6 \in Int : u = w - r + k6 * NWindow
  BY <1>6, Zenon DEF Same
<1>14. PICK k \in Int : u = b - 1 + k * NWindow
  <2>. DEFINE k == k6 - k1 + k2 - k3 - k4 - k5
  <2>1. u = b - 1 + k * NWindow
    BY <1>1, <1>3, <1>4, <1>5, <1>7, <1>8, <1>9, <1>10, <1>11, <1>12, <1>13,
       Sizes
  <2>. QED  BY <2>1
<1>15. 0 <= u /\ 1 <= b /\ b <= NWindow
  BY <1>5, Sizes DEF b
<1>16. CASE k >= 0
  <2>1. k * NWindow >= 0
    BY <1>16, Sizes
  <2>. QED  BY <1>5, <1>7, <1>14, <2>1, Sizes DEF b, u, r, f
<1>17. CASE k <= -1
  <2>1. (-k) * NWindow >= NWindow /\ (-k) * NWindow = -(k * NWindow)
    BY <1>17, Sizes
  <2>. QED  BY <1>5, <1>7, <1>14, <1>15, <2>1, Sizes
<1>. QED  BY <1>16, <1>17

-----------------------------------------------------------------------------
(* The commands in flight: those the firmware has yet to answer and those   *)
(* whose answers the driver has yet to handle.                              *)
InFlight == {answers[k] : k \in DOMAIN answers} \cup {todo[k] : k \in DOMAIN todo}

Slot(x) == iwl_txq_get_cmd_index(x.ptr)
Depth(x) == Behind(writePtr, x.ptr)

\* They lie in the window, behind the read pointer ...
Window ==
    \A x \in InFlight :
        1 <= Depth(x) /\ Depth(x) <= NWindow /\ Depth(x) <= Behind(writePtr, readPtr)

\* ... and the firmware answers in the order of the queue.
Ordered ==
    /\ \A k, l \in DOMAIN answers : k < l => Depth(answers[l]) < Depth(answers[k])
    /\ \A k, l \in DOMAIN todo : k < l => Depth(todo[l]) < Depth(todo[k])
    /\ \A k \in DOMAIN answers, l \in DOMAIN todo : Depth(todo[l]) < Depth(answers[k])

\* The queues of packets in flight do not change.
LEMMA FlightKept ==
  ASSUME Window, Ordered, UNCHANGED <<readPtr, writePtr, answers, todo>>
  PROVE  Window' /\ Ordered' /\ InFlight' = InFlight
BY Zenon DEF Window, Ordered, InFlight, Depth, Behind

\* What is in flight is a packet.
LEMMA FlightTypes ==
  ASSUME Types, NEW x \in InFlight
  PROVE  /\ x \in Packets /\ x.ptr \in Pointers /\ x.cmd \in Int
         /\ Depth(x) \in 0..(MaxTfd - 1)
<1>1. x \in Packets
  BY DEF Types, InFlight
<1>2. x.ptr \in Pointers /\ x.cmd \in Int
  BY <1>1, PacketFields, Zenon
<1>. QED  BY <1>1, <1>2, BehindValue, Zenon DEF Types, Depth

\* The slot that the next command is put in is no slot of a command in flight.
LEMMA FreshSlot ==
  ASSUME Types, Window, NEW async \in BOOLEAN, ~NoSpace(async), NEW x \in InFlight
  PROVE  Slot(x) # iwl_txq_get_cmd_index(writePtr)
<1>1. x.ptr \in Pointers /\ writePtr \in Pointers /\ readPtr \in Pointers
  BY FlightTypes, Zenon DEF Types
<1>2. Behind(writePtr, writePtr) = 0
  <2>1. writePtr \in Int /\ writePtr - writePtr = 0
    BY <1>1, Ranges
  <2>. QED  BY <1>1, <2>1, BehindValue
<1>3. /\ 1 <= Depth(x) /\ Depth(x) + 1 <= NWindow /\ Depth(x) \in Int
  <2>1. Depth(x) \in Int /\ Behind(writePtr, readPtr) \in Int
    BY <1>1, FlightTypes, BehindValue, Sizes
  <2>. QED  BY <2>1, Room, Sizes DEF Window
<1>4. /\ Behind(writePtr, x.ptr) \in 0..NWindow
      /\ Behind(writePtr, writePtr) \in 0..NWindow
      /\ Behind(writePtr, x.ptr) # Behind(writePtr, writePtr)
      /\ Behind(writePtr, x.ptr) - Behind(writePtr, writePtr) < NWindow
      /\ Behind(writePtr, writePtr) - Behind(writePtr, x.ptr) < NWindow
  BY <1>2, <1>3, Sizes DEF Depth
<1>. QED  BY <1>1, <1>4, Apart, Zenon DEF Slot

\* A command is put in the queue.
LEMMA FlightEnqueued ==
  ASSUME Types, Window, Ordered, NEW async \in BOOLEAN, ~NoSpace(async),
         NEW cmd \in Int, NEW want, Enqueued(cmd, want)
  PROVE  /\ Window' /\ Ordered'
         /\ InFlight' = InFlight \cup {[ptr |-> writePtr, cmd |-> cmd]}
<1>. DEFINE new == [ptr |-> writePtr, cmd |-> cmd]
<1>1. /\ writePtr \in Pointers /\ readPtr \in Pointers /\ readPtr' = readPtr
      /\ writePtr' = iwl_txq_inc_wrap(writePtr)
      /\ answers' = answers /\ todo' = Append(todo, new)
      /\ answers \in Seq(Packets) /\ todo \in Seq(Packets) /\ new \in Packets
  BY Zenon DEF Types, Enqueued, Packets
<1>2. /\ Behind(writePtr', writePtr) = 1
      /\ Behind(writePtr', readPtr) = Behind(writePtr, readPtr) + 1
      /\ Behind(writePtr, readPtr) \in Nat
  <2>1. Behind(writePtr, readPtr) \in Nat /\ Behind(writePtr, readPtr) + 1 < MaxTfd
    BY <1>1, Room, BehindValue, Sizes
  <2>2. Behind(writePtr, writePtr) = 0
    <3>1. writePtr \in Int /\ writePtr - writePtr = 0
      BY <1>1, Ranges
    <3>. QED  BY <1>1, <3>1, BehindValue
  <2>3. Behind(writePtr, writePtr) + 1 < MaxTfd
    BY <2>1, <2>2, Sizes
  <2>. QED  BY <1>1, <2>1, <2>2, <2>3, BehindNext
<1>3. ASSUME NEW x \in InFlight
      PROVE  /\ Depth(x) \in Int /\ 1 <= Depth(x)
             /\ Behind(writePtr', x.ptr) = Depth(x) + 1
             /\ Depth(x) + 1 <= NWindow
             /\ Depth(x) <= Behind(writePtr, readPtr)
  <2>1. x.ptr \in Pointers /\ Depth(x) \in Int
    BY FlightTypes, Sizes
  <2>2. 1 <= Depth(x) /\ Depth(x) <= Behind(writePtr, readPtr)
    BY Zenon DEF Window
  <2>3. Depth(x) + 1 <= NWindow /\ Depth(x) + 1 < MaxTfd
    BY <1>2, <2>1, <2>2, Room, Sizes
  <2>4. Behind(writePtr', x.ptr) = Depth(x) + 1
    BY <1>1, <2>1, <2>3, BehindNext, Zenon DEF Depth
  <2>. QED  BY <2>1, <2>2, <2>3, <2>4, Zenon
<1>4. InFlight' = InFlight \cup {new}
  BY <1>1 DEF InFlight
<1>5. Window'
  <2>. SUFFICES ASSUME NEW x \in InFlight \cup {new}
                PROVE  /\ 1 <= Behind(writePtr', x.ptr)
                       /\ Behind(writePtr', x.ptr) <= NWindow
                       /\ Behind(writePtr', x.ptr) <= Behind(writePtr', readPtr')
    BY <1>4, Zenon DEF Window, Depth
  <2>1. CASE x \in InFlight
    BY <1>1, <1>2, <1>3, <2>1, Sizes
  <2>2. CASE x = new
    BY <1>1, <1>2, <2>2, Sizes
  <2>. QED  BY <2>1, <2>2, Zenon
<1>6. Ordered'
  <2>1. /\ DOMAIN answers' = DOMAIN answers
        /\ DOMAIN todo' = 1..(Len(todo) + 1) /\ DOMAIN todo = 1..Len(todo)
        /\ Len(todo) \in Nat /\ DOMAIN answers = 1..Len(answers) /\ Len(answers) \in Nat
    BY <1>1
  <2>2. /\ \A k \in DOMAIN answers : answers'[k] = answers[k]
        /\ \A k \in DOMAIN todo : todo'[k] = todo[k]
        /\ todo'[Len(todo) + 1] = new
    BY <1>1
  <2>3. /\ \A k \in DOMAIN answers : answers[k] \in InFlight
        /\ \A k \in DOMAIN todo : todo[k] \in InFlight
    BY Zenon DEF InFlight
  <2>4. \A x \in InFlight : Depth(x)' = Depth(x) + 1 /\ Depth(x) \in Int /\ 1 <= Depth(x)
    BY <1>3, Zenon DEF Depth
  <2>5. Behind(writePtr', new.ptr) = 1
    BY <1>2, Zenon
  <2>6. ASSUME NEW k \in DOMAIN answers', NEW l \in DOMAIN answers', k < l
        PROVE  Behind(writePtr', answers'[l].ptr) < Behind(writePtr', answers'[k].ptr)
    BY <2>1, <2>2, <2>3, <2>4, <2>6 DEF Ordered, Depth
  <2>7. ASSUME NEW k \in DOMAIN todo', NEW l \in DOMAIN todo', k < l
        PROVE  Behind(writePtr', todo'[l].ptr) < Behind(writePtr', todo'[k].ptr)
    <3>1. k \in DOMAIN todo
      BY <2>1, <2>7
    <3>2. CASE l \in DOMAIN todo
      BY <2>1, <2>2, <2>3, <2>4, <2>7, <3>1, <3>2 DEF Ordered, Depth
    <3>3. CASE l = Len(todo) + 1
      BY <2>1, <2>2, <2>3, <2>4, <2>5, <3>1, <3>3 DEF Depth
    <3>. QED  BY <2>1, <3>2, <3>3
  <2>8. ASSUME NEW k \in DOMAIN answers', NEW l \in DOMAIN todo'
        PROVE  Behind(writePtr', todo'[l].ptr) < Behind(writePtr', answers'[k].ptr)
    <3>2. CASE l \in DOMAIN todo
      BY <2>1, <2>2, <2>3, <2>4, <3>2 DEF Ordered, Depth
    <3>3. CASE l = Len(todo) + 1
      BY <2>1, <2>2, <2>3, <2>4, <2>5, <3>3 DEF Depth
    <3>. QED  BY <2>1, <3>2, <3>3
  <2>. QED  BY <2>6, <2>7, <2>8, Zenon DEF Ordered, Depth
<1>. QED  BY <1>4, <1>5, <1>6, Zenon

\* The first answer is handled: what stays in flight lies behind it, in other
\* slots.
LEMMA FlightCompleted ==
  ASSUME Types, Types', Window, Ordered, answers # <<>>,
         iwl_pcie_cmdq_reclaim(Head(answers).ptr),
         answers' = Tail(answers), UNCHANGED <<writePtr, todo>>
  PROVE  /\ Window' /\ Ordered' /\ InFlight' \subseteq InFlight
         /\ Head(answers) \in InFlight
         /\ \A x \in InFlight' : Slot(x) # Slot(Head(answers))
<1>. DEFINE a == Head(answers)
<1>1. /\ answers \in Seq(Packets) /\ todo \in Seq(Packets)
      /\ writePtr \in Pointers /\ readPtr \in Pointers
      /\ writePtr' = writePtr /\ todo' = todo
  BY Zenon DEF Types
<1>2. /\ DOMAIN answers = 1..Len(answers) /\ Len(answers) \in Nat
      /\ 1 \in DOMAIN answers /\ a = answers[1]
      /\ DOMAIN answers' = 1..(Len(answers) - 1)
      /\ \A k \in DOMAIN answers' : k + 1 \in DOMAIN answers /\ answers'[k] = answers[k + 1]
  BY <1>1
<1>3. a \in InFlight /\ InFlight' \subseteq InFlight
  BY <1>1, <1>2 DEF InFlight
<1>4. ASSUME NEW x \in InFlight'
      PROVE  Depth(x) < Depth(a)
  <2>1. CASE \E k \in DOMAIN answers' : x = answers'[k]
    <3>1. PICK k \in DOMAIN answers' : x = answers'[k]
      BY <2>1, Zenon
    <3>2. k + 1 \in DOMAIN answers /\ 1 < k + 1 /\ x = answers[k + 1]
      BY <1>2, <3>1
    <3>. QED  BY <1>2, <3>2, Zenon DEF Ordered
  <2>2. CASE \E k \in DOMAIN todo : x = todo[k]
    BY <1>2, <2>2, Zenon DEF Ordered
  <2>. QED  BY <1>1, <2>1, <2>2, Zenon DEF InFlight
<1>5. /\ a.ptr \in Pointers /\ Depth(a) \in Int
      /\ 1 <= Depth(a) /\ Depth(a) <= NWindow
  BY <1>3, FlightTypes, Sizes DEF Window
<1>6. Behind(writePtr, readPtr') >= Depth(a) - 1
  \/ UNCHANGED readPtr
  <2>1. CASE iwl_txq_used(a.ptr)
    <3>1. readPtr' = (readPtr + Freed(a.ptr)) % MaxTfd
      BY <2>1, Zenon DEF iwl_pcie_cmdq_reclaim
    <3>2. Behind(writePtr, a.ptr) \in 1..NWindow
      BY <1>5, Sizes DEF Depth
    <3>. QED  BY <1>1, <1>5, <3>1, <3>2, Reclaimed, Zenon DEF Depth
  <2>2. CASE ~iwl_txq_used(a.ptr)
    BY <2>2, Zenon DEF iwl_pcie_cmdq_reclaim
  <2>. QED  BY <2>1, <2>2, Zenon
<1>7. readPtr' \in Pointers
  BY Zenon DEF Types
<1>8. Window'
  <2>. SUFFICES ASSUME NEW x \in InFlight'
                PROVE  /\ 1 <= Behind(writePtr, x.ptr)
                       /\ Behind(writePtr, x.ptr) <= NWindow
                       /\ Behind(writePtr, x.ptr) <= Behind(writePtr, readPtr')
    BY <1>1, Zenon DEF Window, Depth
  <2>1. /\ 1 <= Depth(x) /\ Depth(x) <= NWindow /\ Depth(x) \in Int
        /\ Depth(x) <= Behind(writePtr, readPtr) /\ Depth(x) < Depth(a)
    BY <1>3, <1>4, FlightTypes, Sizes DEF Window
  <2>2. Behind(writePtr, readPtr') \in Int
    BY <1>1, <1>7, BehindValue, Sizes
  <2>. QED  BY <1>5, <1>6, <2>1, <2>2 DEF Depth
<1>9. Ordered'
  <2>1. \A x : Depth(x)' = Behind(writePtr, x.ptr)
    BY <1>1, Zenon DEF Depth
  <2>2. ASSUME NEW k \in DOMAIN answers', NEW l \in DOMAIN answers', k < l
        PROVE  Behind(writePtr, answers'[l].ptr) < Behind(writePtr, answers'[k].ptr)
    <3>1. k + 1 \in DOMAIN answers /\ l + 1 \in DOMAIN answers /\ k + 1 < l + 1
      BY <1>2, <2>2
    <3>. QED  BY <1>2, <3>1, Zenon DEF Ordered, Depth
  <2>3. ASSUME NEW k \in DOMAIN answers', NEW l \in DOMAIN todo
        PROVE  Behind(writePtr, todo[l].ptr) < Behind(writePtr, answers'[k].ptr)
    BY <1>2, Zenon DEF Ordered, Depth
  <2>4. \A k, l \in DOMAIN todo :
          k < l => Behind(writePtr, todo[l].ptr) < Behind(writePtr, todo[k].ptr)
    BY Zenon DEF Ordered, Depth
  <2>. QED  BY <1>1, <2>2, <2>3, <2>4, Zenon DEF Ordered, Depth
<1>10. ASSUME NEW x \in InFlight' PROVE Slot(x) # Slot(a)
  <2>1. /\ x.ptr \in Pointers /\ Depth(x) \in Int /\ Depth(x) < Depth(a)
        /\ 1 <= Depth(x) /\ Depth(x) <= NWindow
    BY <1>3, <1>4, FlightTypes, Sizes DEF Window
  <2>2. /\ Behind(writePtr, x.ptr) \in 0..NWindow
        /\ Behind(writePtr, a.ptr) \in 0..NWindow
        /\ Behind(writePtr, x.ptr) # Behind(writePtr, a.ptr)
        /\ Behind(writePtr, x.ptr) - Behind(writePtr, a.ptr) < NWindow
        /\ Behind(writePtr, a.ptr) - Behind(writePtr, x.ptr) < NWindow
    BY <1>5, <2>1, Sizes DEF Depth
  <2>. QED  BY <1>1, <1>5, <2>1, <2>2, Apart, Zenon DEF Slot
<1>. QED  BY <1>3, <1>8, <1>9, <1>10, Zenon

\* The device is stopped or started: nothing is in flight.
LEMMA FlightEmptied ==
  ASSUME answers' = <<>>, todo' = <<>>
  PROVE  Window' /\ Ordered' /\ InFlight' = {}
<1>1. InFlight' = {}
  BY DEF InFlight
<1>. QED  BY <1>1 DEF Window, Ordered

\* The firmware answers a command or drops one.
LEMMA FlightMoved ==
  ASSUME Types, Window, Ordered, FwAnswers \/ FwSkips
  PROVE  Window' /\ Ordered' /\ InFlight' \subseteq InFlight
<1>1. /\ answers \in Seq(Packets) /\ todo \in Seq(Packets) /\ todo # <<>>
      /\ todo' = Tail(todo) /\ UNCHANGED <<readPtr, writePtr>>
      /\ answers' = answers \/ answers' = Append(answers, Head(todo))
  BY Zenon DEF Types, FwAnswers, FwSkips, queue
<1>2. /\ DOMAIN todo = 1..Len(todo) /\ Len(todo) \in Nat /\ 1 \in DOMAIN todo
      /\ DOMAIN answers = 1..Len(answers) /\ Len(answers) \in Nat
      /\ DOMAIN todo' = 1..(Len(todo) - 1)
      /\ \A k \in DOMAIN todo' : k + 1 \in DOMAIN todo /\ todo'[k] = todo[k + 1]
      /\ Head(todo) = todo[1]
  BY <1>1
<1>3. /\ \A k \in DOMAIN answers' :
            (k \in DOMAIN answers /\ answers'[k] = answers[k])
            \/ (k = Len(answers) + 1 /\ answers'[k] = todo[1])
  BY <1>1, <1>2
<1>4. InFlight' \subseteq InFlight
  BY <1>2, <1>3, Zenon DEF InFlight
<1>5. \A x : Depth(x)' = Depth(x)
  BY <1>1, Zenon DEF Depth
<1>6. Window'
  BY <1>1, <1>4, <1>5, Zenon DEF Window
<1>7. Ordered'
  <2>1. ASSUME NEW k \in DOMAIN todo', NEW l \in DOMAIN todo', k < l
        PROVE  Depth(todo'[l]) < Depth(todo'[k])
    <3>1. k + 1 \in DOMAIN todo /\ l + 1 \in DOMAIN todo /\ k + 1 < l + 1
      BY <1>2, <2>1
    <3>. QED  BY <1>2, <3>1, Zenon DEF Ordered
  <2>2. ASSUME NEW k \in DOMAIN answers', NEW l \in DOMAIN answers', k < l
        PROVE  Depth(answers'[l]) < Depth(answers'[k])
    <3>1. k \in DOMAIN answers /\ answers'[k] = answers[k]
      <4>1. k \in DOMAIN answers \/ l \in DOMAIN answers
        BY <1>3, <2>2
      <4>. QED  BY <1>2, <1>3, <2>2, <4>1
    <3>. QED  BY <1>2, <1>3, <2>2, <3>1, Zenon DEF Ordered
  <2>3. ASSUME NEW k \in DOMAIN answers', NEW l \in DOMAIN todo'
        PROVE  Depth(todo'[l]) < Depth(answers'[k])
    <3>1. l + 1 \in DOMAIN todo /\ todo'[l] = todo[l + 1] /\ 1 < l + 1
      BY <1>2
    <3>. QED  BY <1>2, <1>3, <3>1, Zenon DEF Ordered
  <2>. QED  BY <1>1, <2>1, <2>2, <2>3, Zenon DEF Ordered, Depth
<1>. QED  BY <1>4, <1>6, <1>7, Zenon

----------------------------------------------------------------------------
(* Whose answer is whose. *)

\* The firmware runs, no error has been noticed, and no RF-kill interrupt is in
\* force.
Intact == ~fwError /\ ~opmodeDown /\ ~(rfkill /\ killed)

\* What is in flight is what its entry says.
Labelled ==
    \A x \in InFlight :
        /\ entries[Slot(x)].source \in {None, x.cmd}
        /\ entries[Slot(x)].async <=> x.cmd = Async
        /\ entries[Slot(x)].want => x.cmd # Async

\* A synchronous command in flight is the one that the caller waits for.
Awaited ==
    Intact => \A x \in InFlight : x.cmd # Async =>
        /\ call.pc \in {"wait", "timeout"} /\ active
        /\ x.cmd = call.id /\ Slot(x) = call.slot

\* Until the RF-kill interrupt comes, also after an error, no call starts while
\* an earlier one is in flight.
Alone ==
    call.pc # "idle" /\ ~killed => \A x \in InFlight : x.cmd \in {Async, call.id}

\* The receive path works on the first answer; the caller is woken with its
\* answer, or after an error; a stopped device has no answers.
Calling ==
    /\ napi.pc = "store" =>
         /\ Head(answers).ptr = napi.ptr /\ Head(answers).cmd = napi.cmd
         /\ napi.cmd # Async
    /\ Intact => /\ call.pc = "enqueue" => active
                 /\ call.pc = "wait" /\ ~active => call.id \in answered
                 /\ irq = "idle"
    /\ call.pc # "idle" => call.id # None
    /\ call.ret = "0" => call.pc = "idle"
    /\ device = "off" => answers = <<>>
    /\ opmodeDown => device = "off" /\ call.pc = "idle" /\ ~alive

\* The types that Types leaves out.
Scalars ==
    /\ active \in BOOLEAN /\ fwError \in BOOLEAN /\ rfkill \in BOOLEAN
    /\ alive \in BOOLEAN /\ resetPending \in BOOLEAN
    /\ awake \in BOOLEAN /\ watchdog \in BOOLEAN /\ killed \in BOOLEAN
    /\ warned \subseteq {"active", "awake", "range", "full", "space"}
    /\ device \in {"running", "crashed", "dead", "off"}
    /\ hwRfkill \in BOOLEAN /\ rfkillIrq \in BOOLEAN /\ opmodeDown \in BOOLEAN
    /\ sender \in {"idle", "enqueue"} /\ irq \in {"idle", "wake"}

Records ==
    /\ entries \in [Slots -> Metas]
    /\ call.id \in 0..MaxSync /\ call.slot \in Slots /\ call.resp \in 0..Async
    /\ \A x \in InFlight : x.cmd \in 1..Async /\ (x.cmd = Async \/ x.cmd <= call.id)
    /\ napi.cmd \in 1..Async /\ answered \subseteq 1..Async
    /\ budget \in [sync : 0..MaxSync, async : 0..MaxAsync, skips : 0..MaxSkips,
                   starts : 0..MaxStarts]
    /\ call.id + budget.sync = MaxSync

AInv == /\ Scalars /\ Records /\ Window /\ Ordered /\ Labelled /\ Awaited
        /\ Alone /\ Calling /\ OwnAnswer /\ SuccessAnswered

\* What the updates of the caller's record leave alone.
LEMMA CallKeeps ==
  ASSUME NEW c \in CallSet, NEW p, NEW r, NEW s
  PROVE  /\ [c EXCEPT !.pc = p].id = c.id /\ [c EXCEPT !.pc = p].slot = c.slot
         /\ [c EXCEPT !.pc = p].resp = c.resp /\ [c EXCEPT !.pc = p].ret = c.ret
         /\ [c EXCEPT !.pc = p].pc = p /\ [c EXCEPT !.pc = p].inRfkill = c.inRfkill
         /\ LET d == [c EXCEPT !.pc = p, !.ret = r]
            IN  d.id = c.id /\ d.slot = c.slot /\ d.resp = c.resp /\ d.pc = p /\ d.ret = r
                /\ d.inRfkill = c.inRfkill
         /\ LET d == [c EXCEPT !.pc = p, !.slot = s]
            IN  d.id = c.id /\ d.slot = s /\ d.resp = c.resp /\ d.pc = p /\ d.ret = c.ret
         /\ LET d == [c EXCEPT !.pc = p, !.resp = s]
            IN  d.id = c.id /\ d.slot = c.slot /\ d.resp = s /\ d.pc = p /\ d.ret = c.ret
         /\ LET d == [c EXCEPT !.resp = s]
            IN  d.id = c.id /\ d.slot = c.slot /\ d.resp = s /\ d.pc = c.pc /\ d.ret = c.ret
                /\ d.inRfkill = c.inRfkill
BY Zenon DEF CallSet

\* Every step keeps the types of the flags.
LEMMA ScalarsStep == Scalars /\ [Next]_vars => Scalars'
<1>. SUFFICES ASSUME Scalars, [Next]_vars PROVE Scalars'
  BY Zenon
<1>. USE DEF Scalars, bits, queue, firmware, switch
<1>1. CASE iwl_trans_send_cmd
  BY <1>1 DEF iwl_trans_send_cmd
<1>2. CASE SetActive
  <2>1. active' \in BOOLEAN /\ warned' \subseteq {"active", "awake", "range", "full", "space"}
    BY <1>2, Zenon DEF SetActive, Warn
  <2>. QED  BY <1>2, <2>1 DEF SetActive
<1>3. CASE SendSync
  <2>1. active' \in BOOLEAN /\ watchdog' \in BOOLEAN
    BY <1>3, Zenon DEF SendSync, EnqueueFails, Enqueued, ArmWatchdog, Fails
  <2>2. /\ awake' \in BOOLEAN /\ device' = device /\ resetPending' \in BOOLEAN
        /\ warned' \subseteq {"active", "awake", "range", "full", "space"}
    BY <1>3, Zenon DEF SendSync, EnqueueFails, Enqueued, Warn
  <2>. QED  BY <1>3, <2>1, <2>2 DEF SendSync
<1>4. CASE WaitTimesOut
  BY <1>4 DEF WaitTimesOut
<1>5. CASE TimeoutNmi
  BY <1>5, Zenon DEF TimeoutNmi, FwErrorSeen
<1>6. CASE Woken
  BY <1>6 DEF Woken
<1>7. CASE CancelWantSkb
  BY <1>7 DEF CancelWantSkb
<1>8. CASE FreeResp
  BY <1>8 DEF FreeResp
<1>9. CASE SendAsyncCheck
  BY <1>9 DEF SendAsyncCheck
<1>10. CASE SendAsync
  <2>1. active' \in BOOLEAN /\ watchdog' \in BOOLEAN
    BY <1>10, Zenon DEF SendAsync, EnqueueFails, Enqueued, ArmWatchdog, Fails
  <2>2. /\ awake' \in BOOLEAN /\ device' = device /\ resetPending' \in BOOLEAN
        /\ warned' \subseteq {"active", "awake", "range", "full", "space"}
    BY <1>10, Zenon DEF SendAsync, EnqueueFails, Enqueued, Warn
  <2>. QED  BY <1>10, <2>1, <2>2, Zenon DEF SendAsync
<1>11. CASE RxAnswer
  <2>1. /\ active' \in BOOLEAN /\ awake' \in BOOLEAN /\ watchdog' \in BOOLEAN
        /\ warned' \subseteq {"active", "awake", "range", "full", "space"}
    BY <1>11, Zenon DEF RxAnswer, Complete, iwl_pcie_cmdq_reclaim, ClearCmdInFlight, Warn
  <2>2. device' \in {device, "crashed"}
    BY <1>11, Zenon DEF RxAnswer, Complete, iwl_pcie_cmdq_reclaim, ForceNmi
  <2>. QED  BY <1>11, <2>1, <2>2 DEF RxAnswer
<1>12. CASE RxWanted
  BY <1>12 DEF RxWanted
<1>13. CASE RxStore
  <2>1. /\ active' \in BOOLEAN /\ awake' \in BOOLEAN /\ watchdog' \in BOOLEAN
        /\ warned' \subseteq {"active", "awake", "range", "full", "space"}
    BY <1>13, Zenon DEF RxStore, Complete, iwl_pcie_cmdq_reclaim, ClearCmdInFlight, Warn
  <2>2. device' \in {device, "crashed"}
    BY <1>13, Zenon DEF RxStore, Complete, iwl_pcie_cmdq_reclaim, ForceNmi
  <2>3. UNCHANGED <<fwError, rfkill, alive, resetPending, switch, opmodeDown, sender,
                    irq, killed>>
    BY <1>13, Zenon DEF RxStore
  <2>. QED  BY <2>1, <2>2, <2>3
<1>14. CASE IrqError
  BY <1>14, Zenon DEF IrqError, FwErrorSeen
<1>15. CASE IrqWake
  <2>1. active' \in BOOLEAN /\ irq' \in {"idle", "wake"}
    BY <1>15, Zenon DEF IrqWake
  <2>2. UNCHANGED <<fwError, rfkill, alive, resetPending, awake, watchdog, device,
                    hwRfkill, rfkillIrq, opmodeDown, sender, killed, warned>>
    BY <1>15, Zenon DEF IrqWake
  <2>. QED  BY <2>1, <2>2
<1>16. CASE IrqRfkill
  <2>1. /\ StopDevice \/ UNCHANGED <<active, queue, firmware, warned>>
        /\ rfkill' \in BOOLEAN /\ killed' \in BOOLEAN /\ rfkillIrq' \in BOOLEAN
        /\ irq' \in {"idle", "wake"}
        /\ UNCHANGED <<fwError, alive, resetPending, hwRfkill, opmodeDown, sender>>
    BY <1>16, Zenon DEF IrqRfkill
  <2>2. /\ active' \in BOOLEAN /\ awake' \in BOOLEAN /\ watchdog' \in BOOLEAN
        /\ device' \in {"running", "crashed", "dead", "off"}
        /\ warned' \subseteq {"active", "awake", "range", "full", "space"}
    BY <2>1, Zenon DEF StopDevice, Warn
  <2>. QED  BY <2>1, <2>2, Zenon
<1>17. CASE iwl_trans_stop_device
  BY <1>17, Zenon DEF iwl_trans_stop_device, StopDevice, Warn
<1>18. CASE iwl_trans_start_fw
  BY <1>18, Zenon DEF iwl_trans_start_fw
<1>19. CASE FwAnswers
  BY <1>19 DEF FwAnswers
<1>20. CASE FwSkips
  BY <1>20 DEF FwSkips
<1>21. CASE FwCrashes
  BY <1>21 DEF FwCrashes
<1>22. CASE Toggle
  BY <1>22 DEF Toggle
<1>23. CASE WatchdogFires
  <2>1. device' \in {"running", "crashed", "dead", "off"}
    BY <1>23, Zenon DEF WatchdogFires, ForceNmi
  <2>2. watchdog' \in BOOLEAN
    BY <1>23, Zenon DEF WatchdogFires
  <2>. QED  BY <1>23, <2>1, <2>2 DEF WatchdogFires, Empty
<1>24. CASE UNCHANGED vars
  BY <1>24 DEF vars
<1>. QED
  BY <1>1, <1>2, <1>3, <1>4, <1>5, <1>6, <1>7, <1>8, <1>9, <1>10, <1>11,
     <1>12, <1>13, <1>14, <1>15, <1>16, <1>17, <1>18, <1>19, <1>20, <1>21,
     <1>22, <1>23, <1>24, Zenon
   DEF Next, Caller, Sender, Napi, Irq, OpMode, Environment

\* What is in flight has a slot.
LEMMA FlightSlot ==
  ASSUME Types, NEW x \in InFlight
  PROVE  Slot(x) \in Slots
<1>1. x.ptr \in Int
  BY FlightTypes, Ranges, Zenon
<1>. QED  BY <1>1, Sizes, ModRange DEF Slot, iwl_txq_get_cmd_index, Slots

\* What is left of the bounds.
LEMMA BudgetSpent ==
  ASSUME NEW b \in [sync : 0..MaxSync, async : 0..MaxAsync, skips : 0..MaxSkips,
                    starts : 0..MaxStarts]
  PROVE  LET B == [sync : 0..MaxSync, async : 0..MaxAsync, skips : 0..MaxSkips,
                   starts : 0..MaxStarts]
         IN  /\ b.async > 0 => /\ [b EXCEPT !.async = @ - 1] \in B
                               /\ [b EXCEPT !.async = @ - 1].sync = b.sync
             /\ b.skips > 0 => /\ [b EXCEPT !.skips = @ - 1] \in B
                               /\ [b EXCEPT !.skips = @ - 1].sync = b.sync
             /\ b.starts > 0 => /\ [b EXCEPT !.starts = @ - 1] \in B
                                /\ [b EXCEPT !.starts = @ - 1].sync = b.sync
BY HostCmdAssumption

\* iwl_trans_send_cmd keeps the invariant of the answers.
LEMMA iwl_trans_send_cmdAns ==
  ASSUME AInv, Inv, Inv', Scalars', iwl_trans_send_cmd
  PROVE  AInv'
<1>. USE DEF bits, queue, firmware, switch
<1>1. Window' /\ Ordered' /\ InFlight' = InFlight
  BY FlightKept, Zenon DEF AInv, iwl_trans_send_cmd
<1>2. PICK want, inRfkill \in BOOLEAN :
        call' = [pc |-> IF Refused(inRfkill) THEN "idle" ELSE "send",
                 id |-> call.id + 1, want |-> want, inRfkill |-> inRfkill,
                 slot |-> 0, resp |-> None,
                 ret |-> IF Refused(inRfkill) THEN "refused" ELSE "none"]
  BY Zenon DEF iwl_trans_send_cmd
<1>3. /\ call'.pc \in {"idle", "send"} /\ call'.id = call.id + 1 /\ call'.slot = 0
      /\ call'.resp = None /\ call'.ret # "0"
      /\ fwError \/ opmodeDown => call'.pc = "idle"
  BY <1>2, Zenon DEF Refused, AInv, Calling
<1>4. Labelled'
  BY <1>1, Zenon DEF AInv, Labelled, Slot, iwl_trans_send_cmd
<1>5. Awaited' /\ Alone'
  <2>1. call.pc = "idle"
    BY Zenon DEF iwl_trans_send_cmd
  <2>2. Intact => \A x \in InFlight : x.cmd = Async
    BY <2>1, Zenon DEF AInv, Awaited
  <2>3. Awaited'
    BY <1>1, <2>2, Zenon DEF Awaited, Intact, iwl_trans_send_cmd
  <2>4. Alone'
    BY <1>1, <1>3, <2>2, Zenon DEF Alone, Intact, iwl_trans_send_cmd
  <2>. QED  BY <2>3, <2>4, Zenon
<1>6. Calling' /\ OwnAnswer' /\ SuccessAnswered'
  BY <1>3 DEF AInv, Records, Calling, OwnAnswer, SuccessAnswered, Intact, None, iwl_trans_send_cmd
<1>7. Records'
  <2>1. budget.sync \in 0..MaxSync /\ budget.sync > 0 /\ call.id \in 0..MaxSync
    BY Zenon DEF AInv, Records, iwl_trans_send_cmd
  <2>2. budget' = [budget EXCEPT !.sync = @ - 1]
    BY Zenon DEF iwl_trans_send_cmd
  <2>3. budget.sync - 1 \in 0..MaxSync
    BY <2>1, Ranges
  <2>4. /\ budget' \in [sync : 0..MaxSync, async : 0..MaxAsync, skips : 0..MaxSkips,
                        starts : 0..MaxStarts]
        /\ budget'.sync = budget.sync - 1
    BY <2>2, <2>3, Zenon DEF AInv, Records
  <2>5. 0 \in Slots /\ None \in 0..Async
    BY Sizes, Ranges DEF Slots, Async, None
  <2>6. call'.id \in 0..MaxSync /\ call'.id + budget'.sync = MaxSync
    BY <1>3, <2>1, <2>4, Ranges DEF AInv, Records
  <2>7. \A x \in InFlight' : x.cmd \in 1..Async /\ (x.cmd = Async \/ x.cmd <= call'.id)
    <3>1. ASSUME NEW x \in InFlight
          PROVE  x.cmd \in 1..Async /\ (x.cmd = Async \/ x.cmd <= call.id + 1)
      <4>1. x.cmd \in 1..Async /\ (x.cmd = Async \/ x.cmd <= call.id)
        BY Zenon DEF AInv, Records
      <4>. QED  BY <2>1, <4>1, Ranges DEF Async
    <3>. QED  BY <1>1, <1>3, <3>1, Zenon
  <2>. QED
    BY <1>3, <2>4, <2>5, <2>6, <2>7, Zenon DEF AInv, Records, iwl_trans_send_cmd
<1>. QED  BY <1>1, <1>4, <1>5, <1>6, <1>7, Zenon DEF AInv

\* SetActive keeps the invariant of the answers.
LEMMA SetActiveAns ==
  ASSUME AInv, Inv, Inv', Scalars', SetActive
  PROVE  AInv'
<1>. USE DEF bits, queue, firmware, switch
<1>1. Window' /\ Ordered' /\ InFlight' = InFlight
  BY FlightKept, Zenon DEF AInv, SetActive
<1>2. /\ call'.id = call.id /\ call'.slot = call.slot /\ call'.resp = call.resp
      /\ call.pc = "send" /\ call'.ret # "0"
      /\ call'.pc = "idle" \/ (call'.pc = "enqueue" /\ active')
  <2>1. call.pc = "send" /\ call.ret # "0" /\ call \in CallSet
    BY Zenon DEF SetActive, AInv, Calling, Inv, Types
  <2>2. \/ call' = [call EXCEPT !.pc = "idle", !.ret = "ERFKILL"]
        \/ call' = [call EXCEPT !.pc = "idle", !.ret = "EIO"]
        \/ call' = [call EXCEPT !.pc = "enqueue"] /\ active'
    BY Zenon DEF SetActive, Return
  <2>3. CASE call' = [call EXCEPT !.pc = "idle", !.ret = "ERFKILL"]
    BY <2>1, <2>3, CallKeeps
  <2>4. CASE call' = [call EXCEPT !.pc = "idle", !.ret = "EIO"]
    BY <2>1, <2>4, CallKeeps
  <2>5. CASE call' = [call EXCEPT !.pc = "enqueue"] /\ active'
    BY <2>1, <2>5, CallKeeps
  <2>. QED  BY <2>2, <2>3, <2>4, <2>5, Zenon
<1>3. Labelled'
  BY <1>1, Zenon DEF AInv, Labelled, Slot, SetActive
<1>4. Awaited' /\ Alone'
  BY <1>1, <1>2, Zenon DEF AInv, Awaited, Alone, Intact, SetActive
<1>5. Calling' /\ OwnAnswer' /\ SuccessAnswered'
  BY <1>2, Zenon DEF AInv, Calling, OwnAnswer, SuccessAnswered, Intact, SetActive
<1>6. Records'
  BY <1>1, <1>2, Zenon DEF AInv, Records, SetActive
<1>. QED  BY <1>1, <1>3, <1>4, <1>5, <1>6, Zenon DEF AInv

\* WaitTimesOut keeps the invariant of the answers.
LEMMA WaitTimesOutAns ==
  ASSUME AInv, Inv, Inv', Scalars', WaitTimesOut
  PROVE  AInv'
<1>. USE DEF bits, queue, firmware, switch
<1>1. Window' /\ Ordered' /\ InFlight' = InFlight
  BY FlightKept, Zenon DEF AInv, WaitTimesOut
<1>2. /\ call'.id = call.id /\ call'.slot = call.slot /\ call'.resp = call.resp
      /\ call.pc = "wait" /\ call'.ret = call.ret /\ call'.pc = "timeout"
  BY CallKeeps DEF WaitTimesOut, Inv, Types
<1>3. Labelled'
  BY <1>1, Zenon DEF AInv, Labelled, Slot, WaitTimesOut
<1>4. Awaited' /\ Alone'
  BY <1>1, <1>2, Zenon DEF AInv, Awaited, Alone, Intact, Slot, WaitTimesOut
<1>5. Calling' /\ OwnAnswer' /\ SuccessAnswered'
  BY <1>2, Zenon DEF AInv, Calling, OwnAnswer, SuccessAnswered, Intact, WaitTimesOut
<1>6. Records'
  BY <1>1, <1>2, Zenon DEF AInv, Records, WaitTimesOut
<1>. QED  BY <1>1, <1>3, <1>4, <1>5, <1>6, Zenon DEF AInv

\* TimeoutNmi keeps the invariant of the answers.
LEMMA TimeoutNmiAns ==
  ASSUME AInv, Inv, Inv', Scalars', TimeoutNmi
  PROVE  AInv'
<1>. USE DEF bits, queue, firmware, switch
<1>1. Window' /\ Ordered' /\ InFlight' = InFlight
  BY FlightKept, Zenon DEF AInv, TimeoutNmi
<1>2. /\ call'.id = call.id /\ call'.slot = call.slot /\ call'.resp = call.resp
      /\ call.pc = "timeout" /\ call'.ret = "ETIMEDOUT" /\ call'.pc = "cancel"
  BY CallKeeps DEF TimeoutNmi, Inv, Types
<1>3. ~Intact' /\ (device' = "off" => device = "off")
  BY Zenon DEF TimeoutNmi, FwErrorSeen, Intact
<1>4. Labelled'
  BY <1>1, Zenon DEF AInv, Labelled, Slot, TimeoutNmi
<1>5. Awaited' /\ Alone'
  BY <1>1, <1>2, <1>3, Zenon DEF AInv, Awaited, Alone, TimeoutNmi
<1>6. Calling' /\ OwnAnswer' /\ SuccessAnswered'
  BY <1>2, <1>3, Zenon DEF AInv, Calling, OwnAnswer, SuccessAnswered, TimeoutNmi
<1>7. Records'
  BY <1>1, <1>2, Zenon DEF AInv, Records, TimeoutNmi
<1>. QED  BY <1>1, <1>4, <1>5, <1>6, <1>7, Zenon DEF AInv

\* Woken keeps the invariant of the answers.
LEMMA WokenAns ==
  ASSUME AInv, Inv, Inv', Scalars', Woken
  PROVE  AInv'
<1>. USE DEF bits, queue, firmware, switch
<1>1. Window' /\ Ordered' /\ InFlight' = InFlight
  BY FlightKept, Zenon DEF AInv, Woken
<1>2. /\ call'.id = call.id /\ call'.slot = call.slot /\ call'.resp = call.resp
      /\ call.pc = "wait"
      /\ call'.inRfkill = call.inRfkill
      /\ \/ call'.pc = "idle" /\ call'.ret = "0" /\ ~fwError /\ (rfkill => call.inRfkill)
         \/ call'.pc = "cancel" /\ call'.ret # "0"
  <2>1. \/ /\ call' = [call EXCEPT !.pc = "idle", !.ret = "0"]
           /\ ~fwError /\ (rfkill => call.inRfkill)
        \/ call' = [call EXCEPT !.pc = "cancel", !.ret = Verdict] /\ Verdict # "0"
    BY Zenon DEF Woken, Return, Verdict
  <2>2. call \in CallSet /\ call.pc = "wait"
    BY Zenon DEF Woken, Inv, Types
  <2>3. CASE /\ call' = [call EXCEPT !.pc = "idle", !.ret = "0"]
             /\ ~fwError /\ (rfkill => call.inRfkill)
    BY <2>2, <2>3, CallKeeps
  <2>4. CASE call' = [call EXCEPT !.pc = "cancel", !.ret = Verdict] /\ Verdict # "0"
    BY <2>2, <2>4, CallKeeps
  <2>. QED  BY <2>1, <2>3, <2>4, Zenon
<1>3. call'.ret = "0" => call.id \in answered \/ (killed /\ call.inRfkill)
  <2>1. ~opmodeDown
    BY <1>2, Zenon DEF AInv, Calling
  <2>. QED  BY <1>2, <2>1, Zenon DEF AInv, Calling, Intact, Woken
<1>4. Labelled'
  BY <1>1, Zenon DEF AInv, Labelled, Slot, Woken
<1>5. Awaited' /\ Alone'
  BY <1>1, <1>2, Zenon DEF AInv, Awaited, Alone, Intact, Woken
<1>6. Calling' /\ OwnAnswer' /\ SuccessAnswered'
  BY <1>2, <1>3, Zenon DEF AInv, Calling, OwnAnswer, SuccessAnswered, Intact, Woken
<1>7. Records'
  BY <1>1, <1>2, Zenon DEF AInv, Records, Woken
<1>. QED  BY <1>1, <1>4, <1>5, <1>6, <1>7, Zenon DEF AInv

\* FreeResp keeps the invariant of the answers.
LEMMA FreeRespAns ==
  ASSUME AInv, Inv, Inv', Scalars', FreeResp
  PROVE  AInv'
<1>. USE DEF bits, queue, firmware, switch
<1>1. Window' /\ Ordered' /\ InFlight' = InFlight
  BY FlightKept, Zenon DEF AInv, FreeResp
<1>2. /\ call'.id = call.id /\ call'.slot = call.slot /\ call'.resp = None
      /\ call.pc = "free" /\ call'.ret = call.ret /\ call'.pc = "idle"
  BY CallKeeps DEF FreeResp, Inv, Types
<1>3. Labelled'
  BY <1>1, Zenon DEF AInv, Labelled, Slot, FreeResp
<1>4. Awaited' /\ Alone'
  BY <1>1, <1>2, Zenon DEF AInv, Awaited, Alone, Intact, FreeResp
<1>5. Calling' /\ OwnAnswer' /\ SuccessAnswered'
  BY <1>2, Zenon DEF AInv, Calling, OwnAnswer, SuccessAnswered, Intact, FreeResp
<1>6. Records'
  <2>1. None \in 0..Async
    BY Ranges DEF Async, None
  <2>. QED  BY <1>1, <1>2, <2>1, Zenon DEF AInv, Records, FreeResp
<1>. QED  BY <1>1, <1>3, <1>4, <1>5, <1>6, Zenon DEF AInv

\* CancelWantSkb keeps the invariant of the answers.
LEMMA CancelWantSkbAns ==
  ASSUME AInv, Inv, Inv', Scalars', CancelWantSkb
  PROVE  AInv'
<1>. USE DEF bits, queue, firmware, switch
<1>1. Window' /\ Ordered' /\ InFlight' = InFlight
  BY FlightKept, Zenon DEF AInv, CancelWantSkb
<1>2. /\ call'.id = call.id /\ call'.slot = call.slot /\ call'.resp = call.resp
      /\ call.pc = "cancel" /\ call'.ret = call.ret /\ call'.pc = "free"
  BY CallKeeps DEF CancelWantSkb, Inv, Types
<1>3. /\ entries' \in [Slots -> Metas]
      /\ \A i \in Slots : /\ entries'[i].source = entries[i].source
                          /\ entries'[i].async = entries[i].async
                          /\ entries'[i].want => entries[i].want
  <2>1. /\ entries \in [Slots -> Metas] /\ call.slot \in Slots
        /\ entries' = [entries EXCEPT ![call.slot].want = @ /\ ~call.want]
    BY Zenon DEF AInv, Records, CancelWantSkb
  <2>2. ASSUME NEW m \in Metas, NEW b \in BOOLEAN
        PROVE  /\ [m EXCEPT !.want = b] \in Metas
               /\ [m EXCEPT !.want = b].source = m.source
               /\ [m EXCEPT !.want = b].async = m.async
               /\ [m EXCEPT !.want = b].want = b
    BY Zenon DEF Metas
  <2>3. (entries[call.slot].want /\ ~call.want) \in BOOLEAN
    BY Zenon
  <2>. QED  BY <2>1, <2>2, <2>3, Zenon
<1>4. Labelled'
  <2>1. \A x \in InFlight : Slot(x) \in Slots
    BY FlightSlot, Zenon DEF Inv
  <2>. QED  BY <1>1, <1>3, <2>1, Zenon DEF AInv, Labelled, Slot
<1>5. Awaited' /\ Alone'
  BY <1>1, <1>2, Zenon DEF AInv, Awaited, Alone, Intact, CancelWantSkb
<1>6. Calling' /\ OwnAnswer' /\ SuccessAnswered'
  BY <1>2, Zenon DEF AInv, Calling, OwnAnswer, SuccessAnswered, Intact, CancelWantSkb
<1>7. Records'
  BY <1>1, <1>2, <1>3, Zenon DEF AInv, Records, CancelWantSkb
<1>. QED  BY <1>1, <1>4, <1>5, <1>6, <1>7, Zenon DEF AInv

\* SendAsyncCheck keeps the invariant of the answers.
LEMMA SendAsyncCheckAns ==
  ASSUME AInv, Inv, Inv', Scalars', SendAsyncCheck
  PROVE  AInv'
<1>. USE DEF bits, queue, firmware, switch
<1>1. Window' /\ Ordered' /\ InFlight' = InFlight
  BY FlightKept, Zenon DEF AInv, SendAsyncCheck
<1>2. /\ budget' \in [sync : 0..MaxSync, async : 0..MaxAsync, skips : 0..MaxSkips,
                      starts : 0..MaxStarts]
      /\ budget'.sync = budget.sync
  BY BudgetSpent, Zenon DEF AInv, Records, SendAsyncCheck
<1>3. Labelled'
  BY <1>1, Zenon DEF AInv, Labelled, Slot, SendAsyncCheck
<1>4. Awaited' /\ Alone'
  BY <1>1, <1>2, Zenon DEF AInv, Awaited, Alone, Intact, Slot, SendAsyncCheck
<1>5. Calling' /\ OwnAnswer' /\ SuccessAnswered'
  BY <1>2, Zenon DEF AInv, Calling, OwnAnswer, SuccessAnswered, Intact, SendAsyncCheck
<1>6. Records'
  BY <1>1, <1>2, Zenon DEF AInv, Records, SendAsyncCheck
<1>. QED  BY <1>1, <1>3, <1>4, <1>5, <1>6, Zenon DEF AInv

\* RxWanted keeps the invariant of the answers.
LEMMA RxWantedAns ==
  ASSUME AInv, Inv, Inv', Scalars', RxWanted
  PROVE  AInv'
<1>. USE DEF bits, queue, firmware, switch
<1>1. Window' /\ Ordered' /\ InFlight' = InFlight
  BY FlightKept, Zenon DEF AInv, RxWanted
<1>2. /\ napi'.ptr = Head(answers).ptr /\ napi'.cmd = Head(answers).cmd
      /\ napi'.cmd \in 1..Async /\ napi'.cmd # Async
  <2>1. napi' = [pc |-> "store", ptr |-> Head(answers).ptr, cmd |-> Head(answers).cmd]
    BY Zenon DEF RxWanted
  <2>2. Head(answers) \in InFlight
    BY DEF RxWanted, InFlight, Inv, Types
  <2>3. Head(answers).cmd # Async
    BY <2>2, Zenon DEF RxWanted, AInv, Labelled, Slot
  <2>. QED  BY <2>1, <2>2, <2>3, Zenon DEF AInv, Records
<1>3. Labelled'
  BY <1>1, Zenon DEF AInv, Labelled, Slot, RxWanted
<1>4. Awaited' /\ Alone'
  BY <1>1, <1>2, Zenon DEF AInv, Awaited, Alone, Intact, Slot, RxWanted
<1>5. Calling' /\ OwnAnswer' /\ SuccessAnswered'
  BY <1>2, Zenon DEF AInv, Calling, OwnAnswer, SuccessAnswered, Intact, RxWanted
<1>6. Records'
  BY <1>1, <1>2, Zenon DEF AInv, Records, RxWanted
<1>. QED  BY <1>1, <1>3, <1>4, <1>5, <1>6, Zenon DEF AInv

\* WatchdogFires keeps the invariant of the answers.
LEMMA WatchdogFiresAns ==
  ASSUME AInv, Inv, Inv', Scalars', WatchdogFires
  PROVE  AInv'
<1>. USE DEF bits, queue, firmware, switch
<1>1. Window' /\ Ordered' /\ InFlight' = InFlight
  BY FlightKept, Zenon DEF AInv, WatchdogFires
<1>2. device' = "off" <=> device = "off"
  BY Zenon DEF WatchdogFires, ForceNmi
<1>3. Labelled'
  BY <1>1, Zenon DEF AInv, Labelled, Slot, WatchdogFires
<1>4. Awaited' /\ Alone'
  BY <1>1, <1>2, Zenon DEF AInv, Awaited, Alone, Intact, Slot, WatchdogFires
<1>5. Calling' /\ OwnAnswer' /\ SuccessAnswered'
  BY <1>2, Zenon DEF AInv, Calling, OwnAnswer, SuccessAnswered, Intact, WatchdogFires
<1>6. Records'
  BY <1>1, <1>2, Zenon DEF AInv, Records, WatchdogFires
<1>. QED  BY <1>1, <1>3, <1>4, <1>5, <1>6, Zenon DEF AInv

\* IrqError keeps the invariant of the answers.
LEMMA IrqErrorAns ==
  ASSUME AInv, Inv, Inv', Scalars', IrqError
  PROVE  AInv'
<1>. USE DEF bits, queue, firmware, switch
<1>1. Window' /\ Ordered' /\ InFlight' = InFlight
  BY FlightKept, Zenon DEF AInv, IrqError
<1>2. ~Intact' /\ device = "crashed" /\ device' = "dead"
  BY Zenon DEF IrqError, FwErrorSeen, Intact
<1>3. Labelled'
  BY <1>1, Zenon DEF AInv, Labelled, Slot, IrqError
<1>4. Awaited' /\ Alone'
  BY <1>1, <1>2, Zenon DEF AInv, Awaited, Alone, Intact, Slot, IrqError
<1>5. Calling' /\ OwnAnswer' /\ SuccessAnswered'
  BY <1>2, Zenon DEF AInv, Calling, OwnAnswer, SuccessAnswered, Intact, IrqError
<1>6. Records'
  BY <1>1, <1>2, Zenon DEF AInv, Records, IrqError
<1>. QED  BY <1>1, <1>3, <1>4, <1>5, <1>6, Zenon DEF AInv

\* IrqWake keeps the invariant of the answers.
LEMMA IrqWakeAns ==
  ASSUME AInv, Inv, Inv', Scalars', IrqWake
  PROVE  AInv'
<1>. USE DEF bits, queue, firmware, switch
<1>1. Window' /\ Ordered' /\ InFlight' = InFlight
  BY FlightKept, Zenon DEF AInv, IrqWake
<1>2. ~Intact'
  BY Zenon DEF IrqWake, Intact, AInv, Calling
<1>3. Labelled'
  BY <1>1, Zenon DEF AInv, Labelled, Slot, IrqWake
<1>4. Awaited' /\ Alone'
  BY <1>1, <1>2, Zenon DEF AInv, Awaited, Alone, Intact, Slot, IrqWake
<1>5. Calling' /\ OwnAnswer' /\ SuccessAnswered'
  BY <1>2, Zenon DEF AInv, Calling, OwnAnswer, SuccessAnswered, Intact, IrqWake
<1>6. Records'
  BY <1>1, <1>2, Zenon DEF AInv, Records, IrqWake
<1>. QED  BY <1>1, <1>3, <1>4, <1>5, <1>6, Zenon DEF AInv

\* FwCrashes keeps the invariant of the answers.
LEMMA FwCrashesAns ==
  ASSUME AInv, Inv, Inv', Scalars', FwCrashes
  PROVE  AInv'
<1>. USE DEF bits, queue, firmware, switch
<1>1. Window' /\ Ordered' /\ InFlight' = InFlight
  BY FlightKept, Zenon DEF AInv, FwCrashes
<1>2. device = "running" /\ device' = "crashed"
  BY Zenon DEF FwCrashes
<1>3. Labelled'
  BY <1>1, Zenon DEF AInv, Labelled, Slot, FwCrashes
<1>4. Awaited' /\ Alone'
  BY <1>1, <1>2, Zenon DEF AInv, Awaited, Alone, Intact, Slot, FwCrashes
<1>5. Calling' /\ OwnAnswer' /\ SuccessAnswered'
  BY <1>2, Zenon DEF AInv, Calling, OwnAnswer, SuccessAnswered, Intact, FwCrashes
<1>6. Records'
  BY <1>1, <1>2, Zenon DEF AInv, Records, FwCrashes
<1>. QED  BY <1>1, <1>3, <1>4, <1>5, <1>6, Zenon DEF AInv

\* Toggle keeps the invariant of the answers.
LEMMA ToggleAns ==
  ASSUME AInv, Inv, Inv', Scalars', Toggle
  PROVE  AInv'
<1>. USE DEF bits, queue, firmware, switch
<1>1. Window' /\ Ordered' /\ InFlight' = InFlight
  BY FlightKept, Zenon DEF AInv, Toggle
<1>2. UNCHANGED <<entries, call, active, fwError>>
  BY Zenon DEF Toggle
<1>3. Labelled'
  BY <1>1, Zenon DEF AInv, Labelled, Slot, Toggle
<1>4. Awaited' /\ Alone'
  BY <1>1, <1>2 DEF AInv, Awaited, Alone, Intact, Slot, Toggle
<1>5. Calling' /\ OwnAnswer' /\ SuccessAnswered'
  BY <1>2 DEF AInv, Calling, OwnAnswer, SuccessAnswered, Intact, Toggle
<1>6. Records'
  BY <1>1, <1>2, Zenon DEF AInv, Records, Toggle
<1>. QED  BY <1>1, <1>3, <1>4, <1>5, <1>6, Zenon DEF AInv

\* What a new entry of the queue says.
LEMMA MetaFields ==
  ASSUME NEW cmd \in 1..Async, NEW want \in BOOLEAN, cmd = Async => ~want
  PROVE  /\ Meta(cmd, want) \in Metas
         /\ [Meta(cmd, want) EXCEPT !.want = FALSE, !.async = FALSE] \in Metas
         /\ Meta(cmd, want).source \in {None, cmd}
         /\ Meta(cmd, want).async <=> cmd = Async
         /\ Meta(cmd, want).want => cmd # Async
<1>1. /\ (IF want THEN cmd ELSE None) \in 0..MaxSync
      /\ (IF want THEN cmd ELSE None) \in {None, cmd}
  BY Ranges DEF Async, None
<1>2. (cmd = Async) \in BOOLEAN
  BY Zenon
<1>. QED  BY <1>1, <1>2, Zenon DEF Meta, Metas

\* The write pointer's slot.
LEMMA WriteSlot ==
  ASSUME Types
  PROVE  iwl_txq_get_cmd_index(writePtr) \in Slots
<1>1. writePtr \in Int
  BY Ranges, Zenon DEF Types
<1>. QED  BY <1>1, Sizes, ModRange DEF iwl_txq_get_cmd_index, Slots

\* An enqueue that fails writes to a slot that nothing in flight has.
LEMMA EnqueueFailsAns ==
  ASSUME AInv, Inv, NEW async \in BOOLEAN, ~NoSpace(async),
         NEW cmd \in 1..Async, NEW want \in BOOLEAN, cmd = Async => ~want,
         EnqueueFails(cmd, want)
  PROVE  /\ Window' /\ Ordered' /\ Labelled' /\ InFlight' = InFlight
         /\ entries' \in [Slots -> Metas]
<1>1. Window' /\ Ordered' /\ InFlight' = InFlight
  BY FlightKept, Zenon DEF AInv, EnqueueFails, firmware
<1>2. PICK m \in Metas :
        entries' = [entries EXCEPT ![iwl_txq_get_cmd_index(writePtr)] = m]
  BY MetaFields, Zenon DEF EnqueueFails
<1>3. entries \in [Slots -> Metas]
  BY Zenon DEF AInv, Records
<1>4. entries' \in [Slots -> Metas]
  BY <1>2, <1>3, Zenon
<1>5. \A x \in InFlight : /\ Slot(x) \in Slots
                          /\ Slot(x) # iwl_txq_get_cmd_index(writePtr)
  BY FreshSlot, FlightSlot, Zenon DEF Inv, AInv
<1>6. \A x \in InFlight : entries'[Slot(x)] = entries[Slot(x)]
  BY <1>2, <1>3, <1>5, Zenon
<1>7. Labelled'
  BY <1>1, <1>6, Zenon DEF AInv, Labelled, Slot
<1>. QED  BY <1>1, <1>4, <1>7, Zenon

\* A command enqueued is in flight as its entry says.
LEMMA EnqueuedAns ==
  ASSUME AInv, Inv, NEW async \in BOOLEAN, ~NoSpace(async),
         NEW cmd \in 1..Async, NEW want \in BOOLEAN, cmd = Async => ~want,
         Enqueued(cmd, want)
  PROVE  /\ Window' /\ Ordered' /\ Labelled'
         /\ InFlight' = InFlight \cup {[ptr |-> writePtr, cmd |-> cmd]}
         /\ entries' \in [Slots -> Metas]
<1>0. cmd \in Int
  BY Ranges
<1>1. /\ Window' /\ Ordered'
      /\ InFlight' = InFlight \cup {[ptr |-> writePtr, cmd |-> cmd]}
  BY <1>0, FlightEnqueued, Zenon DEF Inv, AInv
<1>2. entries' = [entries EXCEPT ![iwl_txq_get_cmd_index(writePtr)] = Meta(cmd, want)]
  BY Zenon DEF Enqueued
<1>3. entries \in [Slots -> Metas] /\ iwl_txq_get_cmd_index(writePtr) \in Slots
  BY WriteSlot, Zenon DEF AInv, Records, Inv
<1>4. entries' \in [Slots -> Metas]
  BY <1>2, <1>3, MetaFields, Zenon
<1>5. \A x \in InFlight : /\ Slot(x) \in Slots
                          /\ Slot(x) # iwl_txq_get_cmd_index(writePtr)
  BY FreshSlot, FlightSlot, Zenon DEF Inv, AInv
<1>6. /\ \A x \in InFlight : entries'[Slot(x)] = entries[Slot(x)]
      /\ entries'[iwl_txq_get_cmd_index(writePtr)] = Meta(cmd, want)
  BY <1>2, <1>3, <1>5, Zenon
<1>7. Labelled'
  <2>1. ASSUME NEW x \in InFlight
        PROVE  /\ entries'[Slot(x)].source \in {None, x.cmd}
               /\ entries'[Slot(x)].async <=> x.cmd = Async
               /\ entries'[Slot(x)].want => x.cmd # Async
    BY <1>6, Zenon DEF AInv, Labelled
  <2>2. LET x == [ptr |-> writePtr, cmd |-> cmd]
        IN  /\ entries'[Slot(x)].source \in {None, x.cmd}
            /\ entries'[Slot(x)].async <=> x.cmd = Async
            /\ entries'[Slot(x)].want => x.cmd # Async
    BY <1>6, MetaFields, Zenon DEF Slot
  <2>. QED  BY <1>1, <2>1, <2>2, Zenon DEF Labelled, Slot
<1>. QED  BY <1>1, <1>4, <1>7, Zenon

\* SendSync keeps the invariant of the answers.
LEMMA SendSyncAns ==
  ASSUME AInv, Inv, Inv', Scalars', SendSync
  PROVE  AInv'
<1>. USE DEF bits, queue, firmware, switch
<1>1. /\ call \in CallSet /\ call.pc = "enqueue" /\ call.id \in 1..Async
      /\ call.want \in BOOLEAN /\ call.id # Async /\ call.ret # "0"
  <2>1. call.id \in 0..MaxSync /\ call.id # 0
    BY Zenon DEF AInv, Calling, Records, SendSync, None
  <2>2. call.id \in 1..Async /\ call.id # Async
    BY <2>1, Ranges DEF Async
  <2>. QED  BY <2>2, Zenon DEF SendSync, Inv, Types, CallSet, AInv, Calling
<1>2. Intact => \A x \in InFlight : x.cmd = Async
  BY <1>1, Zenon DEF AInv, Awaited, Alone
<1>3. ASSUME Window', Ordered', Labelled', InFlight' = InFlight,
             entries' \in [Slots -> Metas], active' = FALSE, answers' = answers,
             device' = device,
             \/ call' = [call EXCEPT !.pc = "idle", !.ret = "ENOSPC"]
             \/ call' = [call EXCEPT !.pc = "idle", !.ret = "EIO"]
      PROVE  AInv'
  <2>1. /\ call'.id = call.id /\ call'.slot = call.slot /\ call'.resp = call.resp
        /\ call'.pc = "idle" /\ call'.ret # "0"
    <3>1. CASE call' = [call EXCEPT !.pc = "idle", !.ret = "ENOSPC"]
      BY <1>1, <3>1, CallKeeps
    <3>2. CASE call' = [call EXCEPT !.pc = "idle", !.ret = "EIO"]
      BY <1>1, <3>2, CallKeeps
    <3>. QED  BY <1>3, <3>1, <3>2, Zenon
  <2>2. Awaited' /\ Alone'
    BY <1>2, <1>3, <2>1, Zenon DEF Awaited, Alone, Intact, SendSync
  <2>3. Calling' /\ OwnAnswer' /\ SuccessAnswered'
    BY <1>3, <2>1, Zenon DEF AInv, Calling, OwnAnswer, SuccessAnswered, Intact, SendSync
  <2>4. Records'
    BY <1>3, <2>1, Zenon DEF AInv, Records, SendSync
  <2>. QED  BY <1>3, <2>2, <2>3, <2>4, Zenon DEF AInv
<1>4. CASE /\ NoSpace(FALSE) /\ Fails("ENOSPC")
           /\ UNCHANGED <<queue, firmware>>
  <2>1. Window' /\ Ordered' /\ InFlight' = InFlight
    BY <1>4, FlightKept, Zenon DEF AInv
  <2>2. Labelled' /\ entries' \in [Slots -> Metas]
    BY <1>4, <2>1, Zenon DEF AInv, Labelled, Slot, Records
  <2>. QED  BY <1>3, <1>4, <2>1, <2>2, Zenon DEF Fails, Return
<1>5. CASE /\ ~NoSpace(FALSE) /\ EnqueueFails(call.id, call.want) /\ Fails("EIO")
  <2>1. /\ Window' /\ Ordered' /\ Labelled' /\ InFlight' = InFlight
        /\ entries' \in [Slots -> Metas]
    BY <1>1, <1>5, EnqueueFailsAns, Zenon
  <2>2. answers' = answers /\ device' = device
    BY <1>5, Zenon DEF EnqueueFails
  <2>. QED  BY <1>3, <1>5, <2>1, <2>2, Zenon DEF Fails, Return
<1>6. CASE /\ ~NoSpace(FALSE) /\ Enqueued(call.id, call.want)
           /\ call' = [call EXCEPT !.pc = "wait",
                                   !.slot = iwl_txq_get_cmd_index(writePtr)]
           /\ UNCHANGED active
  <2>1. /\ Window' /\ Ordered' /\ Labelled'
        /\ InFlight' = InFlight \cup {[ptr |-> writePtr, cmd |-> call.id]}
        /\ entries' \in [Slots -> Metas]
    BY <1>1, <1>6, EnqueuedAns, Zenon
  <2>2. /\ call'.id = call.id /\ call'.slot = iwl_txq_get_cmd_index(writePtr)
        /\ call'.resp = call.resp /\ call'.pc = "wait" /\ call'.ret = call.ret
    BY <1>1, <1>6, CallKeeps
  <2>3. answers' = answers /\ device' = device
    BY <1>6, Zenon DEF Enqueued
  <2>4. Awaited' /\ Alone'
    BY <1>2, <1>1, <1>6, <2>1, <2>2 DEF AInv, Awaited, Alone, Calling, Intact, Slot, SendSync
  <2>5. Calling' /\ OwnAnswer' /\ SuccessAnswered'
    BY <1>1, <1>6, <2>2, <2>3, Zenon DEF AInv, Calling, OwnAnswer, SuccessAnswered,
       Intact, SendSync
  <2>6. call'.slot \in Slots
    BY <2>2, WriteSlot, Zenon DEF Inv
  <2>7. Records'
    BY <1>1, <2>1, <2>2, <2>6 DEF AInv, Records, SendSync
  <2>. QED  BY <2>1, <2>4, <2>5, <2>7, Zenon DEF AInv
<1>. QED  BY <1>4, <1>5, <1>6, Zenon DEF SendSync

\* SendAsync keeps the invariant of the answers.
LEMMA SendAsyncAns ==
  ASSUME AInv, Inv, Inv', Scalars', SendAsync
  PROVE  AInv'
<1>. USE DEF bits, queue, firmware, switch
<1>1. Async \in 1..Async /\ FALSE \in BOOLEAN
  BY Ranges DEF Async
<1>2. ASSUME Window', Ordered', Labelled', entries' \in [Slots -> Metas],
             \A x \in InFlight' : x \in InFlight \/ x.cmd = Async,
             answers' = answers, device' = device
      PROVE  AInv'
  <2>1. Awaited' /\ Alone'
    BY <1>2, Zenon DEF AInv, Awaited, Alone, Intact, Slot, SendAsync
  <2>2. Calling' /\ OwnAnswer' /\ SuccessAnswered'
    BY <1>2, Zenon DEF AInv, Calling, OwnAnswer, SuccessAnswered, Intact, SendAsync
  <2>3. Records'
    BY <1>1, <1>2, Zenon DEF AInv, Records, SendAsync
  <2>. QED  BY <1>2, <2>1, <2>2, <2>3, Zenon DEF AInv
<1>3. CASE UNCHANGED <<queue, firmware>>
  <2>1. Window' /\ Ordered' /\ InFlight' = InFlight
    BY <1>3, FlightKept, Zenon DEF AInv
  <2>2. Labelled' /\ entries' \in [Slots -> Metas]
    BY <1>3, <2>1, Zenon DEF AInv, Labelled, Slot, Records
  <2>. QED  BY <1>2, <1>3, <2>1, <2>2, Zenon
<1>4. CASE ~NoSpace(TRUE) /\ EnqueueFails(Async, FALSE)
  <2>1. /\ Window' /\ Ordered' /\ Labelled' /\ InFlight' = InFlight
        /\ entries' \in [Slots -> Metas]
    BY <1>1, <1>4, EnqueueFailsAns, Zenon
  <2>2. answers' = answers /\ device' = device
    BY <1>4, Zenon DEF EnqueueFails
  <2>. QED  BY <1>2, <2>1, <2>2, Zenon
<1>5. CASE ~NoSpace(TRUE) /\ Enqueued(Async, FALSE)
  <2>1. /\ Window' /\ Ordered' /\ Labelled'
        /\ InFlight' = InFlight \cup {[ptr |-> writePtr, cmd |-> Async]}
        /\ entries' \in [Slots -> Metas]
    BY <1>1, <1>5, EnqueuedAns, Zenon
  <2>2. answers' = answers /\ device' = device
    BY <1>5, Zenon DEF Enqueued
  <2>. QED  BY <1>2, <2>1, <2>2
<1>. QED  BY <1>3, <1>4, <1>5, Zenon DEF SendAsync

\* Completing the first answer: only the call that waits for it loses
\* STATUS_SYNC_HCMD_ACTIVE, and what is still in flight keeps its entry.
LEMMA CompleteAns ==
  ASSUME AInv, Inv, Inv', answers # <<>>,
         Complete(Head(answers).ptr, Head(answers).cmd),
         call'.pc = call.pc, call'.id = call.id, call'.slot = call.slot,
         call'.ret = call.ret, call'.inRfkill = call.inRfkill,
         UNCHANGED <<fwError, rfkill, alive, writePtr, todo, opmodeDown, irq, killed>>
  PROVE  /\ Window' /\ Ordered' /\ Labelled' /\ Awaited' /\ Alone' /\ Calling' /\ SuccessAnswered'
         /\ entries' \in [Slots -> Metas] /\ answered' \subseteq 1..Async
         /\ InFlight' \subseteq InFlight
         /\ napi'.cmd \in 1..Async
<1>. DEFINE a == Head(answers)
<1>1. /\ Window' /\ Ordered' /\ InFlight' \subseteq InFlight /\ a \in InFlight
      /\ \A x \in InFlight' : Slot(x) # Slot(a)
  <2>1. iwl_pcie_cmdq_reclaim(Head(answers).ptr) /\ answers' = Tail(answers)
    BY Zenon DEF Complete
  <2>. QED  BY <2>1, FlightCompleted, Zenon DEF AInv, Inv
<1>2. /\ active' = (active /\ entries[Slot(a)].async)
      /\ entries' = [entries EXCEPT ![Slot(a)].want = FALSE, ![Slot(a)].async = FALSE]
      /\ answered' = answered \cup {a.cmd}
      /\ napi' = [napi EXCEPT !.pc = "idle"]
  BY Zenon DEF Complete, Slot
<1>3. /\ napi'.pc = "idle" /\ napi'.cmd = napi.cmd
  BY <1>2, Zenon DEF Inv, Types, NapiSet
<1>4. a.cmd \in 1..Async /\ Slot(a) \in Slots /\ entries \in [Slots -> Metas]
  BY <1>1, FlightSlot, Zenon DEF AInv, Records, Inv
<1>5. /\ entries' \in [Slots -> Metas]
      /\ \A i \in Slots : i # Slot(a) => entries'[i] = entries[i]
  <2>1. ASSUME NEW m \in Metas
        PROVE  /\ [m EXCEPT !.want = FALSE] \in Metas
               /\ [m EXCEPT !.async = FALSE] \in Metas
    BY Zenon DEF Metas
  <2>2. PICK m \in Metas : entries' = [entries EXCEPT ![Slot(a)] = m]
    BY <1>2, <1>4, <2>1, Zenon
  <2>. QED  BY <1>4, <2>2, Zenon
<1>6. Labelled'
  <2>1. ASSUME NEW x \in InFlight'
        PROVE  entries'[Slot(x)] = entries[Slot(x)] /\ x \in InFlight
    BY <1>1, <1>5, FlightSlot, Zenon DEF Inv
  <2>. QED  BY <2>1, Zenon DEF AInv, Labelled, Slot
<1>7. Intact' => Intact
  BY <1>2, <1>4, Zenon DEF Intact
<1>8. entries[Slot(a)].async <=> a.cmd = Async
  BY <1>1, Zenon DEF AInv, Labelled
<1>9. Awaited'
  <2>. SUFFICES ASSUME Intact', NEW x \in InFlight', x.cmd # Async
                PROVE  /\ call'.pc \in {"wait", "timeout"} /\ active'
                       /\ x.cmd = call'.id /\ Slot(x) = call'.slot
    BY Zenon DEF Awaited, Slot
  <2>1. /\ call.pc \in {"wait", "timeout"} /\ active
        /\ x.cmd = call.id /\ Slot(x) = call.slot
    BY <1>1, <1>7, Zenon DEF AInv, Awaited, Alone
  <2>2. a.cmd = Async
    BY <1>1, <1>7, <2>1, Zenon DEF AInv, Awaited, Alone
  <2>. QED  BY <1>2, <1>8, <2>1, <2>2, Zenon
<1>12. Alone'
  BY <1>1, Zenon DEF AInv, Alone
<1>10. Calling'
  <2>1. device' = "off" => FALSE
    BY Zenon DEF Complete, iwl_pcie_cmdq_reclaim, ForceNmi, AInv, Calling
  <2>2. opmodeDown => FALSE
    BY Zenon DEF AInv, Calling
  <2>3. ASSUME Intact', a.cmd # Async
        PROVE  call.pc \in {"wait", "timeout"} /\ call.id \in answered'
    BY <1>1, <1>2, <1>7, <2>3, Zenon DEF AInv, Awaited, Alone
  <2>4. ASSUME Intact', a.cmd = Async
        PROVE  active' <=> active
    BY <1>2, <1>8, <2>4, Zenon
  <2>5. Intact' => /\ call.pc = "enqueue" => active'
                   /\ call.pc = "wait" /\ ~active' => call.id \in answered'
                   /\ irq = "idle"
    BY <1>2, <1>7, <2>3, <2>4, Zenon DEF AInv, Calling
  <2>. QED  BY <1>3, <2>1, <2>2, <2>5, Zenon DEF AInv, Calling
<1>11. SuccessAnswered'
  BY <1>2, Zenon DEF AInv, SuccessAnswered
<1>. QED
  BY <1>1, <1>2, <1>3, <1>4, <1>5, <1>6, <1>9, <1>10, <1>11, <1>12, Zenon DEF AInv, Records

\* RxAnswer keeps the invariant of the answers.
LEMMA RxAnswerAns ==
  ASSUME AInv, Inv, Inv', Scalars', RxAnswer
  PROVE  AInv'
<1>1. /\ answers # <<>> /\ Complete(Head(answers).ptr, Head(answers).cmd)
      /\ UNCHANGED <<fwError, rfkill, alive, writePtr, todo, opmodeDown, irq, call,
                     killed, budget>>
  BY Zenon DEF RxAnswer
<1>2. /\ Window' /\ Ordered' /\ Labelled' /\ Awaited' /\ Alone' /\ Calling' /\ SuccessAnswered'
      /\ entries' \in [Slots -> Metas] /\ answered' \subseteq 1..Async
      /\ InFlight' \subseteq InFlight
      /\ napi'.cmd \in 1..Async
  BY <1>1, CompleteAns, Zenon
<1>3. OwnAnswer' /\ Records'
  BY <1>1, <1>2, Zenon DEF AInv, OwnAnswer, Records
<1>. QED  BY <1>2, <1>3, Zenon DEF AInv

\* RxStore keeps the invariant of the answers.
LEMMA RxStoreAns ==
  ASSUME AInv, Inv, Inv', Scalars', RxStore
  PROVE  AInv'
<1>1. /\ answers # <<>> /\ Head(answers).ptr = napi.ptr /\ Head(answers).cmd = napi.cmd
      /\ napi.cmd \in 1..Async
  BY Zenon DEF AInv, Calling, Records, RxStore, Inv, Types
<1>2. /\ Complete(Head(answers).ptr, Head(answers).cmd)
      /\ UNCHANGED <<fwError, rfkill, alive, writePtr, todo, opmodeDown, irq, killed,
                     budget>>
  BY <1>1, Zenon DEF RxStore
<1>3. \/ call' = call
      \/ call' = [call EXCEPT !.resp = napi.cmd] /\ call.pc # "idle"
  BY Zenon DEF RxStore
<1>4. /\ call'.pc = call.pc /\ call'.id = call.id /\ call'.slot = call.slot
      /\ call'.ret = call.ret /\ call'.resp \in {call.resp, napi.cmd}
      /\ call'.inRfkill = call.inRfkill
  <2>1. call \in CallSet
    BY Zenon DEF Inv, Types
  <2>2. CASE call' = [call EXCEPT !.resp = napi.cmd]
    BY <2>1, <2>2, CallKeeps
  <2>. QED  BY <1>3, <2>2, Zenon
<1>5. /\ Window' /\ Ordered' /\ Labelled' /\ Awaited' /\ Alone' /\ Calling' /\ SuccessAnswered'
      /\ entries' \in [Slots -> Metas] /\ answered' \subseteq 1..Async
      /\ InFlight' \subseteq InFlight
      /\ napi'.cmd \in 1..Async
  BY <1>1, <1>2, <1>4, CompleteAns, Zenon
<1>6. OwnAnswer'
  <2>1. CASE call' = call
    BY <1>2, <2>1, Zenon DEF AInv, OwnAnswer
  <2>2. CASE call' = [call EXCEPT !.resp = napi.cmd] /\ call.pc # "idle"
    <3>1. Head(answers) \in InFlight /\ napi.cmd # Async
      BY <1>1 DEF InFlight, Inv, Types, AInv, Calling, RxStore
    <3>2. napi.cmd <= call.id
      BY <1>1, <3>1, Zenon DEF AInv, Records
    <3>3. killed \/ napi.cmd = call.id
      BY <1>1, <2>2, <3>1, Zenon DEF AInv, Alone
    <3>4. call'.resp = napi.cmd
      BY <2>2, CallKeeps DEF Inv, Types
    <3>5. napi.cmd \in Int /\ call.id \in Int
      BY Ranges DEF AInv, Records
    <3>6. napi.cmd = call.id \/ napi.cmd < call.id
      BY <3>2, <3>5
    <3>. QED  BY <1>2, <1>4, <3>3, <3>4, <3>6, Zenon DEF OwnAnswer
  <2>. QED  BY <1>3, <2>1, <2>2, Zenon
<1>7. Records'
  <2>1. \A n \in 1..Async : n \in 0..Async
    BY Ranges DEF Async
  <2>. QED  BY <1>2, <1>4, <1>5, <2>1, Zenon DEF AInv, Records
<1>. QED  BY <1>5, <1>6, <1>7, Zenon DEF AInv

\* Stopping the device leaves nothing in flight.
LEMMA StopDeviceAns ==
  ASSUME AInv, StopDevice
  PROVE  /\ Window' /\ Ordered' /\ Labelled'
         /\ InFlight' \subseteq InFlight
         /\ InFlight' = {} \/ UNCHANGED <<active, answers>>
         /\ device' = "off" /\ answers' = <<>>
         /\ entries' = entries
<1>1. CASE device = "off"
  <2>1. UNCHANGED <<active, queue, firmware, warned>>
    BY <1>1, Zenon DEF StopDevice
  <2>2. Window' /\ Ordered' /\ InFlight' = InFlight
    BY <2>1, FlightKept, Zenon DEF AInv, queue, firmware
  <2>. QED  BY <1>1, <2>1, <2>2, Zenon DEF AInv, Labelled, Slot, Calling, queue, firmware
<1>2. CASE device # "off"
  <2>1. device' = "off" /\ todo' = <<>> /\ answers' = <<>> /\ entries' = entries
    BY <1>2, Zenon DEF StopDevice
  <2>2. Window' /\ Ordered' /\ InFlight' = {}
    BY <2>1, FlightEmptied, Zenon
  <2>. QED  BY <2>1, <2>2, Zenon DEF Labelled
<1>. QED  BY <1>1, <1>2, Zenon

\* IrqRfkill keeps the invariant of the answers.
LEMMA IrqRfkillAns ==
  ASSUME AInv, Inv, Inv', Scalars', IrqRfkill
  PROVE  AInv'
<1>1. /\ UNCHANGED <<fwError, alive, opmodeDown, call, napi, answered, budget>>
      /\ irq = "idle"
      /\ \/ rfkill' /\ killed'
         \/ /\ UNCHANGED <<active, queue, firmware, irq, killed>>
            /\ rfkill' = (rfkill /\ ~opmodeDown)
      /\ StopDevice \/ UNCHANGED <<active, queue, firmware>>
  BY Zenon DEF IrqRfkill
<1>2. /\ Window' /\ Ordered' /\ Labelled' /\ InFlight' \subseteq InFlight
      /\ entries' = entries
      /\ \/ device' = "off" /\ answers' = <<>>
         \/ UNCHANGED <<device, answers>>
  <2>1. CASE StopDevice
    BY <2>1, StopDeviceAns, Zenon
  <2>2. CASE UNCHANGED <<active, queue, firmware>>
    <3>1. Window' /\ Ordered' /\ InFlight' = InFlight
      BY <2>2, FlightKept, Zenon DEF AInv, queue, firmware
    <3>. QED  BY <2>2, <3>1, Zenon DEF AInv, Labelled, Slot, queue, firmware
  <2>. QED  BY <1>1, <2>1, <2>2, Zenon
<1>3. CASE rfkill' /\ killed'
  <2>1. ~Intact'
    BY <1>3, Zenon DEF Intact
  <2>2. napi.pc = "store" => answers' = answers
    BY <1>2, <1>1, Zenon DEF Inv, Types
  <2>3. Calling'
    BY <1>1, <1>2, <2>1, <2>2, Zenon DEF AInv, Calling
  <2>5. SuccessAnswered'
    BY <1>1, <1>3, Zenon DEF AInv, SuccessAnswered
  <2>6. Alone'
    BY <1>3, Zenon DEF Alone
  <2>7. OwnAnswer'
    BY <1>1, <1>3, Zenon DEF AInv, OwnAnswer
  <2>. QED
    BY <1>1, <1>2, <2>1, <2>3, <2>5, <2>6, <2>7, Zenon DEF AInv, Awaited, Records
<1>4. CASE /\ UNCHANGED <<active, queue, firmware, irq, killed>>
           /\ rfkill' = (rfkill /\ ~opmodeDown)
  <2>1. Awaited' /\ Alone'
    BY <1>1, <1>2, <1>4, Zenon DEF AInv, Awaited, Alone, Intact, Slot
  <2>2. Calling' /\ OwnAnswer' /\ SuccessAnswered'
    BY <1>1, <1>4, Zenon DEF AInv, Calling, OwnAnswer, SuccessAnswered, Intact, firmware
  <2>. QED  BY <1>1, <1>2, <1>4, <2>1, <2>2, Zenon DEF AInv, Records
<1>. QED  BY <1>1, <1>3, <1>4, Zenon

\* iwl_trans_stop_device keeps the invariant of the answers.
LEMMA iwl_trans_stop_deviceAns ==
  ASSUME AInv, Inv, Inv', Scalars', iwl_trans_stop_device
  PROVE  AInv'
<1>1. /\ UNCHANGED <<fwError, call, napi, irq, answered, killed, budget>>
      /\ call.pc = "idle" /\ ~alive' /\ opmodeDown' /\ StopDevice
  BY Zenon DEF iwl_trans_stop_device
<1>2. /\ Window' /\ Ordered' /\ Labelled' /\ InFlight' \subseteq InFlight
      /\ device' = "off" /\ answers' = <<>> /\ entries' = entries
  BY <1>1, StopDeviceAns, Zenon
<1>3. napi.pc = "idle"
  BY <1>1, <1>2, Zenon DEF Inv, Types, NapiSet
<1>4. Awaited' /\ Alone'
  BY <1>1, <1>2, Zenon DEF AInv, Awaited, Alone, Intact
<1>5. Calling' /\ OwnAnswer' /\ SuccessAnswered'
  BY <1>1, <1>2, <1>3, Zenon DEF AInv, Calling, OwnAnswer, SuccessAnswered, Intact
<1>6. Records'
  BY <1>1, <1>2, Zenon DEF AInv, Records
<1>. QED  BY <1>2, <1>4, <1>5, <1>6, Zenon DEF AInv

\* iwl_trans_start_fw keeps the invariant of the answers.
LEMMA iwl_trans_start_fwAns ==
  ASSUME AInv, Inv, Inv', Scalars', iwl_trans_start_fw
  PROVE  AInv'
<1>1. /\ opmodeDown /\ irq = "idle" /\ ~opmodeDown' /\ todo' = <<>>
      /\ UNCHANGED <<entries, answers, call, napi, irq, answered, killed>>
      /\ device' = "running"
  BY Zenon DEF iwl_trans_start_fw
<1>2. answers = <<>> /\ call.pc = "idle" /\ napi.pc = "idle"
  BY <1>1, Zenon DEF AInv, Calling, Inv, Types, NapiSet
<1>3. Window' /\ Ordered' /\ InFlight' = {}
  BY <1>1, <1>2, FlightEmptied, Zenon
<1>4. Labelled' /\ Awaited' /\ Alone'
  BY <1>3, Zenon DEF Labelled, Awaited, Alone
<1>5. Calling' /\ OwnAnswer' /\ SuccessAnswered'
  BY <1>1, <1>2, Zenon DEF AInv, Calling, OwnAnswer, SuccessAnswered
<1>6. /\ budget' \in [sync : 0..MaxSync, async : 0..MaxAsync, skips : 0..MaxSkips,
                      starts : 0..MaxStarts]
      /\ budget'.sync = budget.sync
  BY BudgetSpent, Zenon DEF AInv, Records, iwl_trans_start_fw
<1>7. Records'
  BY <1>1, <1>3, <1>6, Zenon DEF AInv, Records
<1>. QED  BY <1>3, <1>4, <1>5, <1>7, Zenon DEF AInv

\* FwMoves keeps the invariant of the answers.
LEMMA FwMovesAns ==
  ASSUME AInv, Inv, Inv', Scalars', FwAnswers \/ FwSkips
  PROVE  AInv'
<1>1. Window' /\ Ordered' /\ InFlight' \subseteq InFlight
  BY FlightMoved, Zenon DEF AInv, Inv
<1>2. /\ UNCHANGED <<entries, active, fwError, rfkill, alive, device, opmodeDown,
                     call, napi, irq, answered, killed>>
      /\ device = "running"
  BY Zenon DEF FwAnswers, FwSkips, bits, queue
<1>3. napi.pc = "store" => Head(answers') = Head(answers)
  <2>1. ASSUME FwAnswers, napi.pc = "store" PROVE Head(answers') = Head(answers)
    <3>1. /\ answers \in Seq(Packets) /\ answers # <<>> /\ Head(todo) \in Packets
          /\ answers' = Append(answers, Head(todo))
      BY <2>1, PacketQueues, Zenon DEF FwAnswers, Inv, Types
    <3>. QED  BY <3>1
  <2>2. FwSkips => Head(answers') = Head(answers)
    BY Zenon DEF FwSkips
  <2>. QED  BY <2>1, <2>2, Zenon
<1>4. Labelled'
  BY <1>1, <1>2, Zenon DEF AInv, Labelled, Slot
<1>5. Awaited' /\ Alone'
  BY <1>1, <1>2, Zenon DEF AInv, Awaited, Alone, Intact, Slot
<1>6. Calling' /\ OwnAnswer' /\ SuccessAnswered'
  BY <1>2, <1>3, Zenon DEF AInv, Calling, OwnAnswer, SuccessAnswered, Intact
<1>7. /\ budget' \in [sync : 0..MaxSync, async : 0..MaxAsync, skips : 0..MaxSkips,
                      starts : 0..MaxStarts]
      /\ budget'.sync = budget.sync
  BY BudgetSpent, Zenon DEF AInv, Records, FwAnswers, FwSkips
<1>8. Records'
  BY <1>1, <1>2, <1>7, Zenon DEF AInv, Records
<1>. QED  BY <1>1, <1>4, <1>5, <1>6, <1>8, Zenon DEF AInv

\* The invariant holds initially.
LEMMA InitAns == Init => AInv
<1>. SUFFICES ASSUME Init PROVE AInv
  BY Zenon
<1>1. Window /\ Ordered /\ InFlight = {}
  BY DEF Init, Window, Ordered, InFlight
<1>2. Labelled /\ Awaited /\ Alone
  BY <1>1, Zenon DEF Labelled, Awaited, Alone
<1>3. Scalars
  BY Zenon DEF Init, Scalars
<1>4. Calling /\ OwnAnswer /\ SuccessAnswered
  BY Zenon DEF Init, Calling, OwnAnswer, SuccessAnswered, NotCalling, None
<1>5. Free \in Metas /\ 0 \in Slots /\ None \in 0..Async /\ Async \in 1..Async
  <2>1. 0 \in Slots /\ 0 \in 0..MaxSync /\ 0 \in 0..Async /\ Async \in 1..Async
    BY Ranges, Sizes DEF Slots, Async
  <2>. QED  BY <2>1, Zenon DEF Free, Metas, None
<1>6. entries \in [Slots -> Metas]
  BY <1>5, Zenon DEF Init, Slots
<1>7. /\ budget \in [sync : 0..MaxSync, async : 0..MaxAsync, skips : 0..MaxSkips,
                     starts : 0..MaxStarts]
      /\ budget.sync = MaxSync
  BY HostCmdAssumption DEF Init
<1>8. call.id = 0 /\ call.slot = 0 /\ call.resp = None /\ napi.cmd = Async
  BY Zenon DEF Init, NotCalling
<1>9. Records
  <2>1. 0 \in 0..MaxSync /\ 0 + MaxSync = MaxSync
    BY Ranges
  <2>2. answered \subseteq 1..Async
    BY Zenon DEF Init
  <2>. QED  BY <1>1, <1>5, <1>6, <1>7, <1>8, <2>1, <2>2, Zenon DEF Records
<1>. QED  BY <1>1, <1>2, <1>3, <1>4, <1>9, Zenon DEF AInv

\* Every step keeps it.
LEMMA NextAns == AInv /\ Inv /\ Inv' /\ [Next]_vars => AInv'
<1>. SUFFICES ASSUME AInv, Inv, Inv', [Next]_vars PROVE AInv'
  BY Zenon
<1>0. Scalars'
  BY ScalarsStep, Zenon DEF AInv
<1>1. CASE Caller
  BY <1>0, <1>1, iwl_trans_send_cmdAns, SetActiveAns, SendSyncAns, WaitTimesOutAns,
     TimeoutNmiAns, WokenAns, CancelWantSkbAns, FreeRespAns, Zenon DEF Caller
<1>2. CASE Sender
  BY <1>0, <1>2, SendAsyncCheckAns, SendAsyncAns, Zenon DEF Sender
<1>3. CASE Napi
  BY <1>0, <1>3, RxAnswerAns, RxWantedAns, RxStoreAns, Zenon DEF Napi
<1>4. CASE WatchdogFires
  BY <1>0, <1>4, WatchdogFiresAns, Zenon
<1>5. CASE Irq
  BY <1>0, <1>5, IrqErrorAns, IrqWakeAns, IrqRfkillAns, Zenon DEF Irq
<1>6. CASE OpMode
  BY <1>0, <1>6, iwl_trans_stop_deviceAns, iwl_trans_start_fwAns, Zenon DEF OpMode
<1>7. CASE Environment
  BY <1>0, <1>7, FwMovesAns, FwCrashesAns, ToggleAns, Zenon DEF Environment
<1>8. CASE UNCHANGED vars
  <2>. USE <1>8 DEF vars, bits, queue, firmware, switch
  <2>1. Window' /\ Ordered' /\ InFlight' = InFlight
    BY FlightKept, Zenon DEF AInv
  <2>2. Labelled'
    BY <2>1, Zenon DEF AInv, Labelled, Slot
  <2>3. Awaited' /\ Alone'
    BY <2>1, Zenon DEF AInv, Awaited, Alone, Intact, Slot
  <2>4. Calling' /\ OwnAnswer' /\ SuccessAnswered'
    BY Zenon DEF AInv, Calling, OwnAnswer, SuccessAnswered, Intact
  <2>5. Records'
    BY <2>1, Zenon DEF AInv, Records
  <2>. QED  BY <1>0, <2>1, <2>2, <2>3, <2>4, <2>5, Zenon DEF AInv
<1>. QED
  BY <1>1, <1>2, <1>3, <1>4, <1>5, <1>6, <1>7, <1>8, Zenon DEF Next

\* The inductive invariant of the answers holds in every reachable state.
THEOREM AnswersInvariance == Spec => [](Inv /\ AInv)
<1>1. Init => Inv /\ AInv
  BY InitInv, InitAns, Zenon
<1>2. (Inv /\ AInv) /\ [Next]_vars => (Inv /\ AInv)'
  BY NextInv, NextAns, Zenon
<1>. QED  BY <1>1, <1>2, PTL DEF Spec

\* The queues hold commands that were sent.
LEMMA ItemQueue ==
  ASSUME NEW q \in Seq(Packets), \A k \in DOMAIN q : q[k].cmd \in 1..Async
  PROVE  q \in Seq(Items)
<1>1. \A k \in DOMAIN q : q[k] \in Items
  <2>1. ASSUME NEW x \in Packets, x.cmd \in 1..Async PROVE x \in Items
    BY <2>1, Zenon DEF Packets, Items
  <2>2. \A k \in DOMAIN q : q[k] \in Packets
    OBVIOUS
  <2>. QED  BY <2>1, <2>2, Zenon
<1>2. Len(q) \in Nat /\ DOMAIN q = 1..Len(q) /\ q = [k \in 1..Len(q) |-> q[k]]
  OBVIOUS
<1>. QED  BY <1>1, <1>2

\* Every variable has the type the code gives it, for every size of the ring.
THEOREM TypeOKHolds == Spec => []TypeOK
<1>1. Inv /\ AInv => TypeOK
  <2>. SUFFICES ASSUME Inv, AInv PROVE TypeOK
    BY Zenon
  <2>1. \A x \in InFlight : x.cmd \in 1..Async
    BY Zenon DEF AInv, Records
  <2>2. todo \in Seq(Items) /\ answers \in Seq(Items)
    BY <2>1, ItemQueue, Zenon DEF InFlight, Inv, Types
  <2>3. call \in Calls
    BY Zenon DEF Inv, Types, AInv, Records, CallSet, Calls, Pcs, Rets
  <2>4. napi \in [pc : {"idle", "store"}, ptr : Pointers, cmd : 1..Async]
    BY Zenon DEF Inv, Types, AInv, Records, NapiSet
  <2>. QED
    BY <2>2, <2>3, <2>4, Zenon DEF TypeOK, Inv, Types, AInv, Records, Scalars
<1>. QED  BY <1>1, AnswersInvariance, PTL

\* The answer that a caller finds in its iwl_host_cmd is the answer to its own
\* command, for every size of the ring and of the window and however many
\* commands the firmware skips; only once the RF-kill interrupt has reported the
\* switch off can it be that of an earlier command.
THEOREM OwnAnswerHolds == Spec => []OwnAnswer
<1>1. Inv /\ AInv => OwnAnswer
  BY Zenon DEF AInv
<1>. QED  BY <1>1, AnswersInvariance, PTL

\* A synchronous command that returns 0 was answered by the firmware, unless it
\* has CMD_SEND_IN_RFKILL and the RF-kill interrupt has ended it.
THEOREM SuccessAnsweredHolds == Spec => []SuccessAnswered
<1>1. Inv /\ AInv => SuccessAnswered
  BY Zenon DEF AInv
<1>. QED  BY <1>1, AnswersInvariance, PTL

----------------------------------------------------------------------------
(* Which WARNs can fire. *)

\* Between the masked write pointer and a masked pointer lie as many slots as
\* between the pointers, modulo the window.
LEMMA Masked ==
  ASSUME NEW w \in Pointers, NEW p \in Pointers, Behind(w, p) < NWindow
  PROVE  LET d == iwl_txq_get_cmd_index(w) - iwl_txq_get_cmd_index(p)
         IN  d = Behind(w, p) \/ d = Behind(w, p) - NWindow
<1>. DEFINE i == w % NWindow
            j == p % NWindow
            b == Behind(w, p)
<1>1. /\ w \in Int /\ p \in Int /\ b \in Int /\ 0 <= b
      /\ i \in Int /\ j \in Int /\ 0 <= i /\ i < NWindow /\ 0 <= j /\ j < NWindow
  <2>1. w \in Int /\ p \in Int
    BY Ranges, Zenon
  <2>2. b \in 0..(MaxTfd - 1)
    BY BehindValue, Zenon
  <2>3. i \in 0..(NWindow - 1) /\ j \in 0..(NWindow - 1)
    BY <2>1, ModRange, HostCmdAssumption
  <2>. QED  BY <2>1, <2>2, <2>3, Sizes
<1>2. Same(i, w) /\ Same(j, p) /\ Same(b, w - p)
  BY <1>1, SameMod, BehindValue, Zenon
<1>. HIDE DEF i, j, b
<1>3. Same(i - j, w - p)
  BY <1>1, <1>2, SameSum
<1>4. PICK k \in Int : i - j = w - p + k * NWindow
  BY <1>3, Zenon DEF Same
<1>5. PICK l \in Int : b = w - p + l * NWindow
  BY <1>2, Zenon DEF Same
<1>6. i - j = b + (k - l) * NWindow /\ i - j + NWindow = b + (k - l + 1) * NWindow
  BY <1>1, <1>4, <1>5, Sizes
<1>7. Same(i - j, b) /\ Same(i - j + NWindow, b)
  <2>1. k - l \in Int /\ k - l + 1 \in Int
    OBVIOUS
  <2>. QED  BY <1>6, <2>1, Zenon DEF Same
<1>8. b < NWindow
  BY Zenon DEF b
<1>9. CASE i - j >= 0
  <2>1. i - j \in Int /\ (i - j) - b < NWindow /\ b - (i - j) < NWindow
    BY <1>1, <1>8, <1>9, Sizes
  <2>2. i - j = b
    BY <1>1, <1>7, <2>1, SameSmall
  <2>. QED  BY <2>2, Zenon DEF i, j, b, iwl_txq_get_cmd_index
<1>10. CASE i - j < 0
  <2>1. /\ i - j + NWindow \in Int /\ (i - j + NWindow) - b < NWindow
        /\ b - (i - j + NWindow) < NWindow
    BY <1>1, <1>8, <1>10, Sizes
  <2>2. i - j + NWindow = b
    BY <1>1, <1>7, <2>1, SameSmall
  <2>3. i - j = b - NWindow
    BY <1>1, <2>2, Sizes
  <2>. QED  BY <2>3, Zenon DEF i, j, b, iwl_txq_get_cmd_index
<1>. QED  BY <1>1, <1>9, <1>10

\* While the window is not full, iwl_txq_used() finds what is in flight.
LEMMA InRange ==
  ASSUME Types, Window, NEW x \in InFlight, Used < NWindow
  PROVE  iwl_txq_used(x.ptr)
<1>. DEFINE i == iwl_txq_get_cmd_index(x.ptr)
            r == iwl_txq_get_cmd_index(readPtr)
            w == iwl_txq_get_cmd_index(writePtr)
            d == Behind(writePtr, x.ptr)
            u == Behind(writePtr, readPtr)
<1>1. x.ptr \in Pointers /\ writePtr \in Pointers /\ readPtr \in Pointers
  BY FlightTypes, Zenon DEF Types
<1>2. i \in Slots /\ r \in Slots /\ w \in Slots
  <2>1. x.ptr \in Int /\ writePtr \in Int /\ readPtr \in Int
    BY <1>1, Ranges, Zenon
  <2>2. \A n \in Int : n % NWindow \in Slots
    BY Sizes, ModRange DEF Slots
  <2>. QED  BY <2>1, <2>2, Zenon DEF iwl_txq_get_cmd_index
<1>3. d \in Int /\ u \in Int /\ 1 <= d /\ d <= u /\ u < NWindow
  <2>1. d \in 0..(MaxTfd - 1) /\ u \in 0..(MaxTfd - 1)
    BY <1>1, BehindValue, Zenon
  <2>2. 1 <= d /\ d <= u
    BY Zenon DEF Window, Depth
  <2>3. u < NWindow
    BY Zenon DEF Used, Behind
  <2>. QED  BY <2>1, <2>2, <2>3, Sizes
<1>4. w - r = u \/ w - r = u - NWindow
  BY <1>1, <1>3, Masked, Zenon
<1>5. w - i = d \/ w - i = d - NWindow
  <2>1. d < NWindow
    BY <1>3, Sizes
  <2>. QED  BY <1>1, <2>1, Masked, Zenon
<1>. HIDE DEF i, r, w, d, u
<1>6. IF w >= r THEN i >= r /\ i < w ELSE ~(i < r /\ i >= w)
  BY <1>2, <1>3, <1>4, <1>5, Sizes DEF Slots
<1>. QED  BY <1>6, Zenon DEF i, r, w, iwl_txq_used

\* When the window is full, iwl_txq_used() finds nothing: the masked pointers
\* are equal.
LEMMA FullHides ==
  ASSUME Types, Used = NWindow, NEW ptr \in Pointers
  PROVE  ~iwl_txq_used(ptr)
<1>1. writePtr \in Pointers /\ readPtr \in Pointers
  BY Zenon DEF Types
<1>2. writePtr \in Int /\ readPtr \in Int
  BY <1>1, Ranges, Zenon
<1>3. Same(NWindow, writePtr - readPtr)
  BY <1>1, BehindValue, Zenon DEF Used, Behind
<1>. DEFINE i == writePtr % NWindow
            j == readPtr % NWindow
<1>4. i \in 0..(NWindow - 1) /\ j \in 0..(NWindow - 1)
  BY <1>2, ModRange, HostCmdAssumption
<1>5. Same(i, writePtr) /\ Same(j, readPtr)
  BY <1>2, SameMod, Zenon
<1>. HIDE DEF i, j
<1>6. PICK k \in Int : NWindow = writePtr - readPtr + k * NWindow
  BY <1>3, Zenon DEF Same
<1>7. PICK l \in Int : i = writePtr + l * NWindow
  BY <1>5, Zenon DEF Same
<1>8. PICK m \in Int : j = readPtr + m * NWindow
  BY <1>5, Zenon DEF Same
<1>9. i = j + (1 - k + l - m) * NWindow /\ 1 - k + l - m \in Int
  BY <1>2, <1>4, <1>6, <1>7, <1>8, Sizes
<1>10. Same(i, j)
  BY <1>9, Zenon DEF Same
<1>11. i \in Int /\ j \in Int /\ i - j < NWindow /\ j - i < NWindow
  BY <1>4, Sizes
<1>12. i = j
  BY <1>10, <1>11, SameSmall
<1>13. iwl_txq_get_cmd_index(writePtr) = iwl_txq_get_cmd_index(readPtr)
  BY <1>12, Zenon DEF i, j, iwl_txq_get_cmd_index
<1>14. iwl_txq_get_cmd_index(ptr) \in Int /\ iwl_txq_get_cmd_index(readPtr) \in Int
  BY <1>2, Ranges, Zenon
<1>. QED  BY <1>13, <1>14 DEF iwl_txq_used

\* The window is full, and no answer frees an entry any more ...
Full == NWindow < MaxTfd /\ Used = NWindow

\* ... or the entries in use are the commands in flight, one behind the other.
Dense ==
    /\ Used = Len(answers) + Len(todo) /\ Used <= MaxUsed
    /\ \A k \in DOMAIN answers : Depth(answers[k]) = Len(answers) + Len(todo) + 1 - k
    /\ \A k \in DOMAIN todo : Depth(todo[k]) = Len(todo) + 1 - k

\* So it is until the firmware skips a command.
Exact == budget.skips = MaxSkips => Full \/ Dense

WInv ==
    /\ "range" \notin warned
    /\ "space" \in warned => budget.skips < MaxSkips
    /\ Exact

\* The sizes of the window.
LEMMA WindowSizes ==
  /\ MaxUsed \in Nat /\ MaxUsed <= NWindow /\ MaxUsed < MaxTfd
  /\ NWindow < MaxTfd => MaxUsed = NWindow
BY Sizes DEF MaxUsed

\* The entries in use.
LEMMA UsedValue ==
  ASSUME Types
  PROVE  Used \in Nat /\ Used < MaxTfd /\ Used = Behind(writePtr, readPtr)
<1>1. Behind(writePtr, readPtr) \in 0..(MaxTfd - 1)
  BY BehindValue, Zenon DEF Types
<1>. QED  BY <1>1, Sizes DEF Used, Behind

\* A step that leaves the queue alone keeps its shape.
LEMMA ExactKept ==
  ASSUME Exact, UNCHANGED <<readPtr, writePtr, answers, todo>>,
         budget'.skips = budget.skips
  PROVE  Exact'
BY Zenon DEF Exact, Full, Dense, Used, Depth, Behind

\* WARNs of other kinds do not matter.
LEMMA WarnKept ==
  ASSUME WInv, Exact', budget'.skips = budget.skips,
         warned' \subseteq warned \cup {"active", "awake", "full"}
  PROVE  WInv'
<1>1. "range" \notin warned' /\ ("space" \in warned' => "space" \in warned)
  BY DEF WInv
<1>. QED  BY <1>1, Zenon DEF WInv

\* What the steps that spend the bounds leave of the skips.
LEMMA SkipsKept ==
  ASSUME NEW b \in [sync : 0..MaxSync, async : 0..MaxAsync, skips : 0..MaxSkips,
                    starts : 0..MaxStarts]
  PROVE  /\ [b EXCEPT !.sync = @ - 1].skips = b.skips
         /\ [b EXCEPT !.async = @ - 1].skips = b.skips
         /\ [b EXCEPT !.starts = @ - 1].skips = b.skips
         /\ [b EXCEPT !.skips = @ - 1].skips = b.skips - 1
BY Zenon

\* A command is put in the queue.
LEMMA DenseEnqueued ==
  ASSUME Types, Types', Window, Ordered, Dense, NEW async \in BOOLEAN, ~NoSpace(async),
         NEW cmd \in Int, NEW want, Enqueued(cmd, want)
  PROVE  Dense'
<1>. DEFINE new == [ptr |-> writePtr, cmd |-> cmd]
<1>1. /\ writePtr \in Pointers /\ readPtr \in Pointers /\ readPtr' = readPtr
      /\ writePtr' = iwl_txq_inc_wrap(writePtr)
      /\ answers' = answers /\ todo' = Append(todo, new)
      /\ answers \in Seq(Packets) /\ todo \in Seq(Packets) /\ new \in Packets
  BY Zenon DEF Types, Enqueued, Packets
<1>2. /\ Used \in Nat /\ Used + 1 <= MaxUsed /\ Used + 1 < MaxTfd
      /\ Used = Behind(writePtr, readPtr)
  <2>1. Used \in Nat /\ Used = Behind(writePtr, readPtr)
    BY UsedValue, Zenon
  <2>2. Used + 1 <= NWindow /\ Used + 1 < MaxTfd
    BY <2>1, Room, Zenon
  <2>. QED  BY <2>1, <2>2, Sizes DEF MaxUsed
<1>3. Used' = Used + 1
  <2>1. Behind(writePtr', readPtr) = Used + 1
    BY <1>1, <1>2, BehindNext, Zenon
  <2>. QED  BY <1>1, <2>1, Zenon DEF Used, Behind
<1>4. Behind(writePtr', writePtr) = 1
  <2>1. Behind(writePtr, writePtr) = 0
    <3>1. writePtr \in Int /\ writePtr - writePtr = 0
      BY <1>1, Ranges
    <3>. QED  BY <1>1, <3>1, BehindValue
  <2>2. Behind(writePtr, writePtr) + 1 < MaxTfd
    BY <1>2, <2>1, Sizes
  <2>. QED  BY <1>1, <2>1, <2>2, BehindNext
<1>5. ASSUME NEW x \in InFlight
      PROVE  Behind(writePtr', x.ptr) = Depth(x) + 1
  <2>1. x.ptr \in Pointers /\ Depth(x) \in Int
    BY FlightTypes, Sizes
  <2>2. Depth(x) <= Used
    BY <1>2, Zenon DEF Window
  <2>3. Depth(x) + 1 < MaxTfd
    BY <1>2, <2>1, <2>2, Sizes
  <2>. QED  BY <1>1, <2>1, <2>3, BehindNext, Zenon DEF Depth
<1>6. /\ DOMAIN answers = 1..Len(answers) /\ Len(answers) \in Nat
      /\ DOMAIN todo = 1..Len(todo) /\ Len(todo) \in Nat
      /\ DOMAIN todo' = 1..(Len(todo) + 1) /\ Len(todo') = Len(todo) + 1
      /\ \A k \in DOMAIN todo : todo'[k] = todo[k]
      /\ todo'[Len(todo) + 1] = new
  BY <1>1
<1>7. /\ \A k \in DOMAIN answers : answers[k] \in InFlight
      /\ \A k \in DOMAIN todo : todo[k] \in InFlight
  BY Zenon DEF InFlight
<1>8. Used' = Len(answers') + Len(todo') /\ Used' <= MaxUsed
  BY <1>1, <1>2, <1>3, <1>6, WindowSizes DEF Dense
<1>9. ASSUME NEW k \in DOMAIN answers'
      PROVE  Behind(writePtr', answers'[k].ptr) = Len(answers') + Len(todo') + 1 - k
  <2>1. k \in DOMAIN answers /\ answers'[k] = answers[k] /\ Len(answers') = Len(answers)
    BY <1>1, Zenon
  <2>2. Behind(writePtr', answers'[k].ptr) = Depth(answers[k]) + 1
    BY <1>5, <1>7, <2>1, Zenon
  <2>3. Depth(answers[k]) = Len(answers) + Len(todo) + 1 - k
    BY <2>1, Zenon DEF Dense
  <2>. QED  BY <1>6, <2>1, <2>2, <2>3
<1>10. ASSUME NEW k \in DOMAIN todo'
       PROVE  Behind(writePtr', todo'[k].ptr) = Len(todo') + 1 - k
  <2>1. CASE k \in DOMAIN todo
    <3>1. Behind(writePtr', todo'[k].ptr) = Depth(todo[k]) + 1
      BY <1>5, <1>6, <1>7, <2>1, Zenon
    <3>2. Depth(todo[k]) = Len(todo) + 1 - k
      BY <2>1, Zenon DEF Dense
    <3>. QED  BY <1>6, <2>1, <3>1, <3>2
  <2>2. CASE k = Len(todo) + 1
    <3>1. Behind(writePtr', todo'[k].ptr) = 1
      <4>1. todo'[k] = new /\ new.ptr = writePtr
        BY <1>6, <2>2, Zenon
      <4>. QED  BY <1>4, <4>1, Zenon
    <3>. QED  BY <1>6, <2>2, <3>1
  <2>. QED  BY <1>6, <2>1, <2>2
<1>. QED  BY <1>8, <1>9, <1>10, Zenon DEF Dense, Depth, MaxUsed

\* The firmware answers a command.
LEMMA DenseAnswers ==
  ASSUME Types, Dense, FwAnswers
  PROVE  Dense'
<1>1. /\ answers \in Seq(Packets) /\ todo \in Seq(Packets) /\ todo # <<>>
      /\ todo' = Tail(todo) /\ UNCHANGED <<readPtr, writePtr>>
      /\ answers' = Append(answers, Head(todo)) /\ Head(todo) \in Packets
  BY PacketQueues, Zenon DEF Types, FwAnswers, queue
<1>2. /\ DOMAIN todo = 1..Len(todo) /\ Len(todo) \in Nat /\ 1 \in DOMAIN todo
      /\ DOMAIN answers = 1..Len(answers) /\ Len(answers) \in Nat
      /\ DOMAIN todo' = 1..(Len(todo) - 1) /\ Len(todo') = Len(todo) - 1
      /\ DOMAIN answers' = 1..(Len(answers) + 1) /\ Len(answers') = Len(answers) + 1
  BY <1>1
<1>3. /\ \A k \in DOMAIN todo' : k + 1 \in DOMAIN todo /\ todo'[k] = todo[k + 1]
      /\ \A k \in DOMAIN answers : answers'[k] = answers[k]
      /\ answers'[Len(answers) + 1] = todo[1]
  BY <1>1
<1>4. Used' = Used /\ \A x : Depth(x)' = Depth(x)
  BY <1>1, Zenon DEF Used, Depth, Behind
<1>5. Used' = Len(answers') + Len(todo') /\ Used' <= MaxUsed
  BY <1>2, <1>4 DEF Dense
<1>6. ASSUME NEW k \in DOMAIN answers'
      PROVE  Depth(answers'[k]) = Len(answers') + Len(todo') + 1 - k
  <2>1. CASE k \in DOMAIN answers
    <3>1. Depth(answers'[k]) = Len(answers) + Len(todo) + 1 - k
      BY <1>3, <2>1, Zenon DEF Dense
    <3>. QED  BY <1>2, <2>1, <3>1
  <2>2. CASE k = Len(answers) + 1
    <3>1. Depth(answers'[k]) = Len(todo) + 1 - 1
      BY <1>2, <1>3, <2>2, Zenon DEF Dense
    <3>. QED  BY <1>2, <2>2, <3>1
  <2>. QED  BY <1>2, <2>1, <2>2
<1>7. ASSUME NEW k \in DOMAIN todo'
      PROVE  Depth(todo'[k]) = Len(todo') + 1 - k
  <2>1. Depth(todo'[k]) = Len(todo) + 1 - (k + 1)
    BY <1>3, Zenon DEF Dense
  <2>. QED  BY <1>2, <2>1
<1>. QED  BY <1>1, <1>4, <1>5, <1>6, <1>7, Zenon DEF Dense, Depth, MaxUsed

\* The device is stopped or started: the queue is empty.
LEMMA DenseEmptied ==
  ASSUME Types', answers' = <<>>, todo' = <<>>, readPtr' = writePtr'
  PROVE  Dense'
<1>1. writePtr' \in Pointers
  BY Zenon DEF Types
<1>2. Used' = 0
  <2>1. writePtr' \in Int
    BY <1>1, Ranges, Zenon
  <2>2. writePtr' - readPtr' = 0
    <3>1. \A n \in Int : n - n = 0
      OBVIOUS
    <3>. QED  BY <2>1, <3>1, Zenon
  <2>3. 0 % MaxTfd = 0
    BY HostCmdAssumption
  <2>. QED  BY <2>2, <2>3, Zenon DEF Used
<1>3. DOMAIN answers' = {} /\ DOMAIN todo' = {} /\ Len(answers') = 0 /\ Len(todo') = 0
  OBVIOUS
<1>. QED  BY <1>2, <1>3, WindowSizes DEF Dense, MaxUsed

\* The pointer that lies as far behind as the read pointer is the read pointer.
LEMMA BehindSame ==
  ASSUME NEW w \in Pointers, NEW p \in Pointers, NEW q \in Pointers,
         Behind(w, p) = Behind(w, q)
  PROVE  p = q
<1>1. /\ Behind(w, p) = IF w >= p THEN w - p ELSE w - p + MaxTfd
      /\ Behind(w, q) = IF w >= q THEN w - q ELSE w - q + MaxTfd
  BY BehindValue, Zenon
<1>2. /\ MaxTfd \in Nat /\ w \in Int /\ p \in Int /\ q \in Int
      /\ 0 <= p /\ p < MaxTfd /\ 0 <= q /\ q < MaxTfd /\ 0 <= w /\ w < MaxTfd
  BY Sizes DEF Pointers
<1>3. (IF w >= p THEN w - p ELSE w - p + MaxTfd) = (IF w >= q THEN w - q ELSE w - q + MaxTfd)
  BY <1>1, Zenon
<1>. QED  BY <1>2, <1>3

\* The read pointer moves on by one.
LEMMA BehindFreed ==
  ASSUME NEW w \in Pointers, NEW p \in Pointers, Behind(w, p) >= 1
  PROVE  Behind(w, iwl_txq_inc_wrap(p)) = Behind(w, p) - 1
<1>1. MaxTfd \in Nat \ {0} /\ w \in Int /\ p \in Int /\ 0 <= w /\ w < MaxTfd
      /\ 0 <= p /\ p < MaxTfd
  BY HostCmdAssumption DEF Pointers
<1>2. iwl_txq_inc_wrap(p) \in Pointers
  BY Ranges, Zenon
<1>3. iwl_txq_inc_wrap(p) = IF p + 1 = MaxTfd THEN 0 ELSE p + 1
  <2>1. CASE p + 1 = MaxTfd
    BY <1>1, <2>1 DEF iwl_txq_inc_wrap
  <2>2. CASE p + 1 < MaxTfd
    BY <1>1, <2>2, ModSmall DEF iwl_txq_inc_wrap
  <2>. QED  BY <1>1, <2>1, <2>2
<1>4. Behind(w, p) = IF w >= p THEN w - p ELSE w - p + MaxTfd
  BY BehindValue, Zenon
<1>5. Behind(w, iwl_txq_inc_wrap(p)) =
        IF w >= iwl_txq_inc_wrap(p) THEN w - iwl_txq_inc_wrap(p)
                                    ELSE w - iwl_txq_inc_wrap(p) + MaxTfd
  BY <1>2, BehindValue, Zenon
<1>. QED  BY <1>1, <1>3, <1>4, <1>5

\* The first answer is handled: it frees exactly its own entry, or the window is
\* full and stays so.
LEMMA ExactCompleted ==
  ASSUME Types, Types', Window, Full \/ Dense, answers # <<>>,
         iwl_pcie_cmdq_reclaim(Head(answers).ptr),
         answers' = Tail(answers), UNCHANGED <<writePtr, todo>>
  PROVE  Full' \/ Dense'
<1>. DEFINE a == Head(answers)
<1>1. /\ answers \in Seq(Packets) /\ todo \in Seq(Packets)
      /\ writePtr \in Pointers /\ readPtr \in Pointers
      /\ writePtr' = writePtr /\ todo' = todo
  BY Zenon DEF Types
<1>2. /\ DOMAIN answers = 1..Len(answers) /\ Len(answers) \in Nat
      /\ 1 \in DOMAIN answers /\ a = answers[1]
      /\ DOMAIN answers' = 1..(Len(answers) - 1) /\ Len(answers') = Len(answers) - 1
      /\ \A k \in DOMAIN answers' : k + 1 \in DOMAIN answers /\ answers'[k] = answers[k + 1]
      /\ Len(todo) \in Nat
  BY <1>1
<1>3. a \in InFlight /\ a.ptr \in Pointers
  <2>1. a \in InFlight
    BY <1>2, Zenon DEF InFlight
  <2>. QED  BY <2>1, FlightTypes, Zenon
<1>4. CASE ~iwl_txq_used(a.ptr)
  <2>1. readPtr' = readPtr
    BY <1>4, Zenon DEF iwl_pcie_cmdq_reclaim
  <2>2. Used' = Used
    BY <1>1, <2>1, Zenon DEF Used
  <2>3. Full
    <3>1. CASE Dense
      <4>1. ~(Used < NWindow)
        BY <1>3, <1>4, InRange, Zenon
      <4>2. Used \in Nat /\ Used <= MaxUsed
        BY <3>1, UsedValue, Zenon DEF Dense
      <4>. QED  BY <4>1, <4>2, Sizes DEF Full, MaxUsed
    <3>. QED  BY <3>1, Zenon
  <2>. QED  BY <2>2, <2>3, Zenon DEF Full
<1>5. CASE iwl_txq_used(a.ptr)
  <2>1. Dense
    BY <1>3, <1>5, FullHides, Zenon DEF Full
  <2>2. Used = Behind(writePtr, readPtr) /\ Used >= 1 /\ Used \in Nat /\ Used <= MaxUsed
    BY <1>2, <2>1, UsedValue DEF Dense
  <2>3. Depth(a) = Used
    <3>1. Depth(answers[1]) = Len(answers) + Len(todo) + 1 - 1
      BY <1>2, <2>1, Zenon DEF Dense
    <3>2. Used = Len(answers) + Len(todo)
      BY <2>1, Zenon DEF Dense
    <3>. QED  BY <1>2, <3>1, <3>2
  <2>4. a.ptr = readPtr
    BY <1>1, <1>3, <2>2, <2>3, BehindSame, Zenon DEF Depth
  <2>5. Freed(a.ptr) = 1
    <3>1. iwl_txq_get_cmd_index(readPtr) \in Int
      BY <1>1, Ranges, Zenon
    <3>2. /\ iwl_txq_get_cmd_index(readPtr) + 1 - iwl_txq_get_cmd_index(readPtr) = 1
          /\ 1 < MaxTfd
      BY <2>2, <3>1, WindowSizes, Sizes
    <3>3. 1 % MaxTfd = 1
      BY <3>2, Sizes, ModSmall
    <3>. QED  BY <2>4, <3>2, <3>3, Zenon DEF Freed
  <2>6. readPtr' = iwl_txq_inc_wrap(readPtr)
    BY <1>5, <2>5, Zenon DEF iwl_pcie_cmdq_reclaim, iwl_txq_inc_wrap
  <2>7. Used' = Used - 1
    BY <1>1, <2>2, <2>6, BehindFreed, Zenon DEF Used, Behind
  <2>8. \A x : Depth(x)' = Depth(x)
    BY <1>1, Zenon DEF Depth
  <2>9. Used' = Len(answers') + Len(todo') /\ Used' <= MaxUsed
    BY <1>1, <1>2, <2>1, <2>2, <2>7, WindowSizes DEF Dense
  <2>10. ASSUME NEW k \in DOMAIN answers'
         PROVE  Depth(answers'[k]) = Len(answers') + Len(todo') + 1 - k
    <3>1. Depth(answers'[k]) = Len(answers) + Len(todo) + 1 - (k + 1)
      BY <1>2, <2>1, Zenon DEF Dense
    <3>. QED  BY <1>1, <1>2, <3>1
  <2>11. \A k \in DOMAIN todo' : Depth(todo'[k]) = Len(todo') + 1 - k
    BY <1>1, <2>1, Zenon DEF Dense
  <2>. QED  BY <1>1, <2>8, <2>9, <2>10, <2>11, Zenon DEF Dense, Depth, MaxUsed
<1>. QED  BY <1>4, <1>5, Zenon

\* The enqueue warns of a negative space only after a skip.
LEMMA SpaceWarned ==
  ASSUME Types, AInv, WInv, Warn("space", Used > MaxUsed), budget' = budget, Exact'
  PROVE  WInv'
<1>1. warned' = warned \/ (Used > MaxUsed /\ warned' = warned \cup {"space"})
  BY Zenon DEF Warn
<1>2. CASE warned' = warned
  BY <1>2, Zenon DEF WInv
<1>3. CASE Used > MaxUsed /\ warned' = warned \cup {"space"}
  <2>1. Used \in Nat /\ MaxUsed \in Nat
    BY UsedValue, WindowSizes, Zenon
  <2>2. ~Full /\ ~Dense
    BY <1>3, <2>1, WindowSizes DEF Full, Dense
  <2>3. budget.skips # MaxSkips
    BY <2>2, Zenon DEF WInv, Exact
  <2>4. budget.skips \in 0..MaxSkips
    BY Zenon DEF AInv, Records
  <2>5. budget.skips < MaxSkips
    BY <2>3, <2>4, HostCmdAssumption
  <2>6. "range" \notin warned'
    BY <1>3 DEF WInv
  <2>. QED  BY <2>5, <2>6, Zenon DEF WInv
<1>. QED  BY <1>1, <1>2, <1>3, Zenon

\* What an enqueue that succeeds leaves.
LEMMA ExactEnqueued ==
  ASSUME Types, Types', AInv, WInv, NEW async \in BOOLEAN, ~NoSpace(async),
         NEW cmd \in Int, NEW want, Enqueued(cmd, want), budget' = budget
  PROVE  Exact'
<1>1. ~Full
  <2>1. Used \in Nat /\ Used + 1 <= NWindow
    BY Room, UsedValue, Zenon
  <2>. QED  BY <2>1, Sizes DEF Full
<1>2. Dense => Dense'
  BY DenseEnqueued, Zenon DEF AInv
<1>. QED  BY <1>1, <1>2, Zenon DEF WInv, Exact

\* The synchronous and the asynchronous send keep the invariant of the WARNs.
LEMMA SendWarns ==
  ASSUME Inv, Inv', AInv, WInv, SendSync \/ SendAsync
  PROVE  WInv'
<1>1. Types /\ Types'
  BY Zenon DEF Inv
<1>2. budget' = budget /\ Warn("space", Used > MaxUsed)
  BY Zenon DEF SendSync, SendAsync
<1>3. /\ call.id \in Int /\ Async \in Int /\ TRUE \in BOOLEAN /\ FALSE \in BOOLEAN
  BY <1>1, CallFields, Ranges, Zenon DEF Types
<1>4. \/ UNCHANGED <<readPtr, writePtr, answers, todo>>
      \/ ~NoSpace(FALSE) /\ Enqueued(call.id, call.want)
      \/ ~NoSpace(TRUE) /\ Enqueued(Async, FALSE)
  BY Zenon DEF SendSync, SendAsync, EnqueueFails, queue, firmware
<1>5. CASE UNCHANGED <<readPtr, writePtr, answers, todo>>
  <2>1. Exact'
    BY <1>2, <1>5, ExactKept, Zenon DEF WInv
  <2>. QED  BY <1>1, <1>2, <2>1, SpaceWarned, Zenon
<1>6. CASE ~NoSpace(FALSE) /\ Enqueued(call.id, call.want)
  <2>1. Exact'
    BY <1>1, <1>2, <1>3, <1>6, ExactEnqueued, Zenon
  <2>. QED  BY <1>1, <1>2, <2>1, SpaceWarned, Zenon
<1>7. CASE ~NoSpace(TRUE) /\ Enqueued(Async, FALSE)
  <2>1. Exact'
    BY <1>1, <1>2, <1>3, <1>7, ExactEnqueued, Zenon
  <2>. QED  BY <1>1, <1>2, <2>1, SpaceWarned, Zenon
<1>. QED  BY <1>4, <1>5, <1>6, <1>7, Zenon

\* Completing the first answer warns of its index only when the window is full.
LEMMA CompleteWarns ==
  ASSUME Inv, Inv', AInv, WInv, answers # <<>>,
         Complete(Head(answers).ptr, Head(answers).cmd),
         UNCHANGED <<writePtr, todo, budget>>
  PROVE  WInv'
<1>. DEFINE a == Head(answers)
<1>1. Types /\ Types' /\ Window
  BY Zenon DEF Inv, AInv
<1>2. iwl_pcie_cmdq_reclaim(Head(answers).ptr) /\ answers' = Tail(answers)
  BY Zenon DEF Complete
<1>3. Exact'
  BY <1>1, <1>2, ExactCompleted, Zenon DEF WInv, Exact
<1>4. warned' \subseteq warned \cup {"active", "awake", "full"}
  <2>1. CASE iwl_txq_used(a.ptr)
    BY <1>2, <2>1, Zenon DEF iwl_pcie_cmdq_reclaim, ClearCmdInFlight, Warn
  <2>2. CASE ~iwl_txq_used(a.ptr)
    <3>1. a \in InFlight
      BY <1>1 DEF InFlight, Types
    <3>2. ~(Used < NWindow)
      BY <1>1, <2>2, <3>1, InRange, Zenon
    <3>3. Used >= MaxUsed
      BY <1>1, <3>2, UsedValue, WindowSizes, Sizes
    <3>. QED  BY <1>2, <2>2, <3>3, Zenon DEF iwl_pcie_cmdq_reclaim, Warn
  <2>. QED  BY <2>1, <2>2, Zenon
<1>. QED  BY <1>3, <1>4, WarnKept, Zenon

\* Stopping the device empties the queue.
LEMMA StopDeviceWarns ==
  ASSUME Inv, Inv', AInv, WInv, StopDevice, budget' = budget
  PROVE  WInv'
<1>1. CASE device = "off"
  <2>1. UNCHANGED <<readPtr, writePtr, answers, todo, warned>>
    BY <1>1, Zenon DEF StopDevice, queue, firmware
  <2>2. Exact'
    BY <2>1, ExactKept, Zenon DEF WInv
  <2>. QED  BY <2>1, <2>2, Zenon DEF WInv
<1>2. CASE device # "off"
  <2>1. /\ answers' = <<>> /\ todo' = <<>> /\ readPtr' = writePtr'
        /\ warned' \subseteq warned \cup {"active", "awake", "full"}
    BY <1>2, Zenon DEF StopDevice, Warn
  <2>2. Exact'
    BY <2>1, DenseEmptied, Zenon DEF Exact, Inv
  <2>. QED  BY <2>1, <2>2, WarnKept, Zenon
<1>. QED  BY <1>1, <1>2, Zenon

\* The invariant of the WARNs holds initially.
LEMMA InitWarns == Init => WInv
<1>. SUFFICES ASSUME Init PROVE WInv
  BY Zenon
<1>1. Used = 0
  <2>1. writePtr \in Int /\ writePtr - readPtr = 0
    <3>1. Earlier \in Int /\ Earlier % MaxTfd \in Int
      BY HostCmdAssumption
    <3>2. \A n \in Int : n - n = 0
      OBVIOUS
    <3>. QED  BY <3>1, <3>2, Zenon DEF Init
  <2>2. 0 % MaxTfd = 0
    BY HostCmdAssumption
  <2>. QED  BY <2>1, <2>2, Zenon DEF Used
<1>2. DOMAIN answers = {} /\ DOMAIN todo = {} /\ Len(answers) = 0 /\ Len(todo) = 0
  BY DEF Init
<1>3. Dense
  BY <1>1, <1>2, WindowSizes DEF Dense
<1>4. warned = {}
  BY Zenon DEF Init
<1>. QED  BY <1>3, <1>4, Zenon DEF WInv, Exact

\* Every step keeps the invariant of the WARNs.
LEMMA NextWarns == Inv /\ Inv' /\ AInv /\ WInv /\ [Next]_vars => WInv'
<1>. SUFFICES ASSUME Inv, Inv', AInv, WInv, [Next]_vars PROVE WInv'
  BY Zenon
<1>. USE DEF bits, queue, firmware, switch
<1>0. budget \in [sync : 0..MaxSync, async : 0..MaxAsync, skips : 0..MaxSkips,
                  starts : 0..MaxStarts]
  BY Zenon DEF AInv, Records
<1>1. ASSUME UNCHANGED <<readPtr, writePtr, answers, todo>>, budget'.skips = budget.skips,
             warned' \subseteq warned \cup {"active", "awake", "full"}
      PROVE  WInv'
  BY <1>1, ExactKept, WarnKept, Zenon DEF WInv
<1>2. CASE iwl_trans_send_cmd
  BY <1>0, <1>1, <1>2, SkipsKept, Zenon DEF iwl_trans_send_cmd
<1>3. CASE SetActive
  BY <1>1, <1>3, Zenon DEF SetActive, Warn
<1>4. CASE SendSync \/ SendAsync
  BY <1>4, SendWarns, Zenon
<1>5. CASE WaitTimesOut \/ TimeoutNmi \/ Woken \/ CancelWantSkb \/ FreeResp
  BY <1>1, <1>5, Zenon DEF WaitTimesOut, TimeoutNmi, Woken, CancelWantSkb, FreeResp
<1>6. CASE SendAsyncCheck
  BY <1>0, <1>1, <1>6, SkipsKept, Zenon DEF SendAsyncCheck
<1>7. CASE RxAnswer
  BY <1>7, CompleteWarns, Zenon DEF RxAnswer
<1>8. CASE RxWanted
  BY <1>1, <1>8, Zenon DEF RxWanted
<1>9. CASE RxStore
  <2>1. answers # <<>> /\ Head(answers).ptr = napi.ptr /\ Head(answers).cmd = napi.cmd
    BY <1>9, Zenon DEF AInv, Calling, RxStore, Inv, Types
  <2>. QED  BY <1>9, <2>1, CompleteWarns, Zenon DEF RxStore
<1>10. CASE WatchdogFires \/ IrqError \/ IrqWake \/ FwCrashes \/ Toggle
  BY <1>1, <1>10, Zenon DEF WatchdogFires, IrqError, IrqWake, FwCrashes, Toggle
<1>11. CASE IrqRfkill
  <2>1. budget' = budget /\ (StopDevice \/ UNCHANGED <<queue, firmware, warned>>)
    BY <1>11, Zenon DEF IrqRfkill
  <2>. QED  BY <1>1, <2>1, StopDeviceWarns, Zenon
<1>12. CASE iwl_trans_stop_device
  BY <1>12, StopDeviceWarns, Zenon DEF iwl_trans_stop_device
<1>13. CASE iwl_trans_start_fw
  <2>1. answers = <<>>
    BY <1>13, Zenon DEF iwl_trans_start_fw, AInv, Calling
  <2>2. /\ answers' = <<>> /\ todo' = <<>> /\ readPtr' = writePtr' /\ warned' = warned
        /\ budget'.skips = budget.skips
    BY <1>0, <1>13, <2>1, SkipsKept, Zenon DEF iwl_trans_start_fw
  <2>3. Exact'
    BY <2>2, DenseEmptied, Zenon DEF Exact, Inv
  <2>. QED  BY <2>2, <2>3, Zenon DEF WInv
<1>14. CASE FwAnswers
  <2>1. UNCHANGED <<readPtr, writePtr, warned, budget>>
    BY <1>14, Zenon DEF FwAnswers
  <2>2. Full => Full'
    BY <2>1, Zenon DEF Full, Used
  <2>3. Dense => Dense'
    BY <1>14, DenseAnswers, Zenon DEF Inv
  <2>. QED  BY <2>1, <2>2, <2>3, Zenon DEF WInv, Exact
<1>15. CASE FwSkips
  <2>1. warned' = warned /\ budget'.skips = budget.skips - 1
    BY <1>0, <1>15, SkipsKept, Zenon DEF FwSkips
  <2>2. budget.skips \in 0..MaxSkips
    BY <1>0, Zenon
  <2>3. budget'.skips < MaxSkips /\ budget'.skips # MaxSkips
    BY <2>1, <2>2, HostCmdAssumption
  <2>. QED  BY <2>1, <2>3, Zenon DEF WInv, Exact
<1>16. CASE UNCHANGED vars
  BY <1>1, <1>16, Zenon DEF vars
<1>. QED
  BY <1>2, <1>3, <1>4, <1>5, <1>6, <1>7, <1>8, <1>9, <1>10, <1>11, <1>12, <1>13,
     <1>14, <1>15, <1>16, Zenon
   DEF Next, Caller, Sender, Napi, Irq, OpMode, Environment

\* For every size of the ring and of the window: no call leaves
\* STATUS_SYNC_HCMD_ACTIVE behind, the NIC is held awake for every command, an
\* answer's index is out of range only when the window is full, and the queue
\* holds more than the window only after the firmware has skipped a command.
THEOREM WarnsJustifiedHolds == Spec => []WarnsJustified
<1>1. Init => Inv /\ AInv /\ WInv
  BY InitInv, InitAns, InitWarns, Zenon
<1>2. (Inv /\ AInv /\ WInv) /\ [Next]_vars => (Inv /\ AInv /\ WInv)'
  BY NextInv, NextAns, NextWarns, Zenon
<1>3. Inv /\ AInv /\ WInv => WarnsJustified
  BY DEF Inv, Props, Quiet, AInv, Scalars, WInv, WarnsJustified
<1>. QED  BY <1>1, <1>2, <1>3, PTL DEF Spec

=============================================================================
