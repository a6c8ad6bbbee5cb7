------------------------------ MODULE HostCmd ------------------------------
(***************************************************************************)
(* Host commands of the PCIe transport (pcie/tx.c, pcie/rx.c, iwl-trans.c).*)
(*                                                                         *)
(* A synchronous caller, who holds the op mode's mutex, puts a command in  *)
(* the command queue, sets STATUS_SYNC_HCMD_ACTIVE and sleeps until the bit*)
(* clears or two seconds pass.  Other contexts send asynchronous commands. *)
(* The receive path (NAPI) completes commands with txq->lock held; the     *)
(* interrupt thread reports firmware errors and RF-kill.  All of them run  *)
(* concurrently; the steps below end where another of them can look.       *)
(*                                                                         *)
(* The firmware is external: it answers in order, may skip a command, may  *)
(* crash, and may take longer than any timeout.                            *)
(***************************************************************************)
EXTENDS Integers, Sequences

CONSTANTS
    NWindow,        \* txq->n_window: slots of the command queue
    MaxTfd,         \* max_tfd_queue_size: modulus of the two pointers
    Earlier,        \* commands sent and answered before the first state
    MaxSync,        \* bound: synchronous commands sent
    MaxAsync,       \* bound: asynchronous commands sent
    MaxSkips,       \* bound: commands the firmware drops without an answer
    MaxStarts,      \* bound: times the op mode starts the firmware again
    Rfkills,        \* whether the RF-kill switch is ever used
    RfkillStops     \* what the op mode may answer to a report of RF-kill:
                    \* TRUE makes the transport stop the device (firmware
                    \* that is not unified, once it is initialised)

ASSUME HostCmdAssumption ==
    /\ NWindow \in Nat \ {0}
    /\ MaxTfd \in Nat \ {0}
    /\ MaxTfd % NWindow = 0
    /\ {Earlier, MaxSync, MaxAsync, MaxSkips, MaxStarts} \subseteq Nat
    /\ Rfkills \in BOOLEAN /\ RfkillStops \subseteq BOOLEAN

VARIABLES
    active,         \* STATUS_SYNC_HCMD_ACTIVE
    fwError,        \* STATUS_FW_ERROR
    rfkill,         \* STATUS_RFKILL_OPMODE
    alive,          \* trans->state = IWL_TRANS_FW_ALIVE
    resetPending,   \* STATUS_RESET_PENDING
    readPtr,        \* txq->read_ptr
    writePtr,       \* txq->write_ptr
    entries,        \* txq->entries[].meta
    awake,          \* cmd_hold_nic_awake
    watchdog,       \* txq->stuck_timer is pending
    opmodeDown,     \* opmode_down
    device,         \* the firmware, and whether its error was seen
    todo,           \* commands the firmware has yet to answer
    answers,        \* answers in the receive queue
    hwRfkill,       \* the switch
    rfkillIrq,      \* its interrupt is pending
    call,           \* the synchronous caller and its iwl_host_cmd
    sender,         \* an asynchronous sender
    napi,           \* the receive path inside iwl_pcie_hcmd_complete()
    irq,            \* the interrupt thread
    answered,       \* commands whose answer was received
    killed,         \* the RF-kill interrupt has reported the switch off
    warned,         \* the WARNs of these functions that fired
    budget          \* what is left of the bounds

bits == <<active, fwError, rfkill, alive, resetPending>>
queue == <<readPtr, writePtr, entries, awake, watchdog>>
firmware == <<device, todo, answers>>
switch == <<hwRfkill, rfkillIrq>>
vars == <<bits, queue, firmware, switch, opmodeDown, call, sender, napi, irq,
          answered, killed, warned, budget>>

None == 0
Async == MaxSync + 1                \* an asynchronous command in the queue
Free == [want |-> FALSE, async |-> FALSE, source |-> None]
NotCalling == [pc |-> "idle", id |-> 0, want |-> FALSE, inRfkill |-> FALSE,
               slot |-> 0, resp |-> None, ret |-> "none"]

----------------------------------------------------------------------------
(* The ring. *)

iwl_txq_get_cmd_index(i) == i % NWindow

IncUnwrapped(i) == i + 1

iwl_txq_inc_wrap(i) == (i + 1) % MaxTfd

Used == (writePtr - readPtr) % MaxTfd

MaxUsed == IF NWindow < MaxTfd THEN NWindow ELSE MaxTfd - 1

iwl_txq_space == IF Used > MaxUsed THEN 0 ELSE MaxUsed - Used

iwl_txq_used(i) ==
    LET index == iwl_txq_get_cmd_index(i)
        r == iwl_txq_get_cmd_index(readPtr)
        w == iwl_txq_get_cmd_index(writePtr)
    IN  IF w >= r THEN index >= r /\ index < w
                  ELSE ~(index < r /\ index >= w)

Empty == readPtr = writePtr

\* Entries the loop of iwl_pcie_cmdq_reclaim() walks: from the masked read
\* index to the masked index after the answered one, modulo MaxTfd.
Freed(ptr) ==
    (iwl_txq_get_cmd_index(ptr) + 1 - iwl_txq_get_cmd_index(readPtr)) % MaxTfd

\* A WARN of the code: it fires if its condition holds.
Warn(name, cond) == warned' = IF cond THEN warned \cup {name} ELSE warned

\* The driver makes the firmware assert.
ForceNmi == IF device = "running" THEN "crashed" ELSE device

Init ==
    /\ active = FALSE /\ fwError = FALSE /\ rfkill = FALSE /\ alive = TRUE
    /\ resetPending = FALSE
    /\ readPtr = Earlier % MaxTfd /\ writePtr = readPtr
    /\ awake = FALSE /\ watchdog = FALSE
    /\ entries = [i \in 0..(NWindow - 1) |-> Free]
    /\ opmodeDown = FALSE
    /\ device = "running" /\ todo = <<>> /\ answers = <<>>
    /\ hwRfkill = FALSE /\ rfkillIrq = FALSE
    /\ call = NotCalling /\ sender = "idle" /\ irq = "idle"
    /\ napi = [pc |-> "idle", ptr |-> 0, cmd |-> Async]
    /\ answered = {} /\ killed = FALSE /\ warned = {}
    /\ budget = [sync |-> MaxSync, async |-> MaxAsync, skips |-> MaxSkips,
                 starts |-> MaxStarts]

----------------------------------------------------------------------------
(* The synchronous caller. *)

Return(ret) == call' = [call EXCEPT !.pc = "idle", !.ret = ret]

FailsActive(ret) == Return(ret) /\ UNCHANGED active

\* iwl_trans_pcie_send_hcmd_sync(): the enqueue failed.
Fails(ret) == Return(ret) /\ active' = FALSE

\* iwl_trans_send_cmd(): what makes it refuse a command.
Refused(inRfkill) == (rfkill /\ ~inRfkill) \/ fwError \/ ~alive

iwl_trans_send_cmd ==
    /\ call.pc = "idle" /\ budget.sync > 0
    /\ \E want, inRfkill \in BOOLEAN :
         call' = [pc |-> IF Refused(inRfkill) THEN "idle" ELSE "send",
                  id |-> call.id + 1, want |-> want, inRfkill |-> inRfkill,
                  slot |-> 0, resp |-> None,
                  ret |-> IF Refused(inRfkill) THEN "refused" ELSE "none"]
    /\ budget' = [budget EXCEPT !.sync = @ - 1]
    /\ UNCHANGED <<bits, queue, firmware, switch, opmodeDown, sender, napi,
                   irq, answered, killed, warned>>

\* iwl_trans_pcie_send_hcmd() tests RF-kill again; then test_and_set_bit().
SetActive ==
    /\ call.pc = "send"
    /\ \/ /\ rfkill /\ ~call.inRfkill
          /\ Return("ERFKILL")
          /\ UNCHANGED <<active, warned>>
       \/ /\ ~(rfkill /\ ~call.inRfkill)
          /\ active' = TRUE
          /\ Warn("active", active)
          /\ IF active THEN Return("EIO")
             ELSE call' = [call EXCEPT !.pc = "enqueue"]
    /\ UNCHANGED <<fwError, rfkill, alive, resetPending, queue, firmware,
                   switch, opmodeDown, sender, napi, irq, answered, killed,
                   budget>>

\* The parts of iwl_pcie_enqueue_hcmd(), which holds txq->lock throughout.
NoSpaceLate(async) == iwl_txq_space < (IF async THEN 1 ELSE 0)

NoSpace(async) == iwl_txq_space < (IF async THEN 2 ELSE 1)

Meta(cmd, want) ==
    [want |-> want, async |-> cmd = Async, source |-> IF want THEN cmd ELSE None]

ArmWatchdogBehind == watchdog' = (watchdog \/ ~Empty)

\* start timer if queue currently empty
ArmWatchdog == watchdog' = (watchdog \/ Empty)

Enqueued(cmd, want) ==
    /\ entries' = [entries EXCEPT
                     ![iwl_txq_get_cmd_index(writePtr)] = Meta(cmd, want)]
    /\ ArmWatchdog
    /\ awake' = TRUE
    /\ writePtr' = iwl_txq_inc_wrap(writePtr)
    /\ todo' = Append(todo, [ptr |-> writePtr, cmd |-> cmd])
    /\ UNCHANGED <<readPtr, device, answers>>

\* A mapping fails after the entry was cleared, or the device cannot be woken
\* after the entry was filled and the timer started.
EnqueueFails(cmd, want) ==
    /\ \/ /\ entries' = [entries EXCEPT
                           ![iwl_txq_get_cmd_index(writePtr)] =
                              [Meta(cmd, want) EXCEPT !.want = FALSE,
                                                      !.async = FALSE]]
          /\ UNCHANGED watchdog
       \/ /\ entries' = [entries EXCEPT
                           ![iwl_txq_get_cmd_index(writePtr)] = Meta(cmd, want)]
          /\ ArmWatchdog
    /\ UNCHANGED <<readPtr, writePtr, awake, firmware>>

SendSync ==
    /\ call.pc = "enqueue" /\ napi.pc = "idle"
    /\ Warn("space", Used > MaxUsed)
    /\ \/ /\ NoSpace(FALSE)
          /\ Fails("ENOSPC")
          /\ resetPending' = TRUE
          /\ UNCHANGED <<queue, firmware>>
       \/ /\ ~NoSpace(FALSE)
          /\ EnqueueFails(call.id, call.want)
          /\ Fails("EIO")
          /\ UNCHANGED resetPending
       \/ /\ ~NoSpace(FALSE)
          /\ Enqueued(call.id, call.want)
          /\ call' = [call EXCEPT !.pc = "wait",
                                  !.slot = iwl_txq_get_cmd_index(writePtr)]
          /\ UNCHANGED <<active, resetPending>>
    /\ UNCHANGED <<fwError, rfkill, alive, switch, opmodeDown, sender, napi,
                   irq, answered, killed, budget>>

WaitsForever ==
    /\ call.pc = "wait" /\ active /\ device = "running"
    /\ call' = [call EXCEPT !.pc = "timeout"]
    /\ UNCHANGED <<bits, queue, firmware, switch, opmodeDown, sender, napi, irq,
                   answered, killed, warned, budget>>

\* wait_event_timeout() returned 0: the bit was still set.
WaitTimesOut ==
    /\ call.pc = "wait" /\ active
    /\ call' = [call EXCEPT !.pc = "timeout"]
    /\ UNCHANGED <<bits, queue, firmware, switch, opmodeDown, sender, napi, irq,
                   answered, killed, warned, budget>>

\* iwl_trans_fw_error()
FwErrorSeen ==
    /\ fwError' = TRUE
    /\ IF fwError THEN UNCHANGED <<alive, resetPending>>
       ELSE alive' = FALSE /\ resetPending' = TRUE

\* The bit is cleared, iwl_trans_pcie_sync_nmi() kills the firmware and takes
\* the error interrupt's cause away.
TimeoutNmi ==
    /\ call.pc = "timeout"
    /\ call' = [call EXCEPT !.pc = "cancel", !.ret = "ETIMEDOUT"]
    /\ active' = FALSE
    /\ FwErrorSeen
    /\ device' = IF device = "off" THEN "off" ELSE "dead"
    /\ UNCHANGED <<rfkill, queue, todo, answers, switch, opmodeDown, sender,
                   napi, irq, answered, killed, warned, budget>>

\* What the woken caller makes of the status bits and of the answer.
Verdict ==
    IF fwError THEN "EIO" ELSE
    IF rfkill /\ ~call.inRfkill THEN "ERFKILL" ELSE
    IF call.want /\ call.resp = None THEN "EIO" ELSE "0"

Woken ==
    /\ call.pc = "wait" /\ ~active
    /\ IF Verdict = "0" THEN Return("0")
       ELSE call' = [call EXCEPT !.pc = "cancel", !.ret = Verdict]
    /\ UNCHANGED <<bits, queue, firmware, switch, opmodeDown, sender, napi, irq,
                   answered, killed, warned, budget>>

\* The flag is taken out of the entry without txq->lock.
CancelWantSkb ==
    /\ call.pc = "cancel"
    /\ entries' = [entries EXCEPT ![call.slot].want = @ /\ ~call.want]
    /\ call' = [call EXCEPT !.pc = "free"]
    /\ UNCHANGED <<bits, readPtr, writePtr, awake, watchdog, firmware, switch,
                   opmodeDown, sender, napi, irq, answered, killed, warned, budget>>

FreeResp ==
    /\ call.pc = "free"
    /\ call' = [call EXCEPT !.pc = "idle", !.resp = None]
    /\ UNCHANGED <<bits, queue, firmware, switch, opmodeDown, sender, napi, irq,
                   answered, killed, warned, budget>>

----------------------------------------------------------------------------
(* Asynchronous commands. *)

SendAsyncCheck ==
    /\ sender = "idle" /\ budget.async > 0
    /\ \E inRfkill \in BOOLEAN : ~Refused(inRfkill)
    /\ sender' = "enqueue"
    /\ budget' = [budget EXCEPT !.async = @ - 1]
    /\ UNCHANGED <<bits, queue, firmware, switch, opmodeDown, call, napi, irq,
                   answered, killed, warned>>

SendAsync ==
    /\ sender = "enqueue" /\ napi.pc = "idle"
    /\ Warn("space", Used > MaxUsed)
    /\ sender' = "idle"
    /\ \/ /\ NoSpace(TRUE)
          /\ resetPending' = TRUE
          /\ UNCHANGED <<queue, firmware>>
       \/ /\ ~NoSpace(TRUE)
          /\ EnqueueFails(Async, FALSE)
          /\ UNCHANGED resetPending
       \/ /\ ~NoSpace(TRUE)
          /\ Enqueued(Async, FALSE)
          /\ UNCHANGED resetPending
    /\ UNCHANGED <<active, fwError, rfkill, alive, switch, opmodeDown, call,
                   napi, irq, answered, killed, budget>>

----------------------------------------------------------------------------
(* iwl_pcie_hcmd_complete(), in NAPI, with txq->lock held. *)

\* The end of the queue's last command lets the NIC sleep;
\* iwl_pcie_clear_cmd_in_flight() warns if it already may.
ClearCmdInFlight(read) ==
    /\ awake' = (awake /\ read # writePtr)
    /\ Warn("awake", read = writePtr /\ ~awake)

\* iwl_pcie_cmdq_reclaim(): an index out of range is warned of ("full" when no
\* space is left) and ignored; more than one entry freed is a skipped command
\* and asserts the firmware; the watchdog moves on with the queue
\* (iwl_txq_progress()).
iwl_pcie_cmdq_reclaim(ptr) ==
    IF ~iwl_txq_used(ptr)
      THEN /\ Warn(IF Used >= MaxUsed THEN "full" ELSE "range", TRUE)
           /\ UNCHANGED <<readPtr, awake, watchdog, device>>
      ELSE LET read == (readPtr + Freed(ptr)) % MaxTfd
           IN  /\ readPtr' = read
               /\ device' = IF Freed(ptr) > 1 THEN ForceNmi ELSE device
               /\ ClearCmdInFlight(read)
               /\ watchdog' = (read # writePtr)

\* From the reclaim to the unlock.
Complete(ptr, cmd) ==
    LET idx == iwl_txq_get_cmd_index(ptr)
    IN  /\ iwl_pcie_cmdq_reclaim(ptr)
        /\ active' = (active /\ entries[idx].async)
        /\ entries' = [entries EXCEPT ![idx].want = FALSE, ![idx].async = FALSE]
        /\ answered' = answered \cup {cmd}
        /\ answers' = Tail(answers)
        /\ napi' = [napi EXCEPT !.pc = "idle"]

\* The answer is not wanted, or it shares its buffer with other packets.
RxAnswer ==
    /\ napi.pc = "idle" /\ answers # <<>>
    /\ LET a == Head(answers)
       IN  Complete(a.ptr, a.cmd)
    /\ UNCHANGED <<fwError, rfkill, alive, resetPending, writePtr, todo, switch,
                   opmodeDown, call, sender, irq, killed, budget>>

\* CMD_WANT_SKB is found set ...
RxWanted ==
    /\ napi.pc = "idle" /\ answers # <<>>
    /\ LET a == Head(answers)
       IN  /\ entries[iwl_txq_get_cmd_index(a.ptr)].want
           /\ napi' = [pc |-> "store", ptr |-> a.ptr, cmd |-> a.cmd]
    /\ UNCHANGED <<bits, queue, firmware, switch, opmodeDown, call, sender, irq,
                   answered, killed, warned, budget>>

\* ... and the answer is stored through meta->source, whoever is there now: when
\* that caller has returned, its stack may hold the iwl_host_cmd of the next.
RxStore ==
    /\ napi.pc = "store"
    /\ LET source == entries[iwl_txq_get_cmd_index(napi.ptr)].source
       IN  \/ call.pc # "idle" /\ call' = [call EXCEPT !.resp = napi.cmd]
           \/ (call.pc = "idle" \/ call.id # source) /\ UNCHANGED call
    /\ Complete(napi.ptr, napi.cmd)
    /\ UNCHANGED <<fwError, rfkill, alive, resetPending, writePtr, todo, switch,
                   opmodeDown, sender, irq, killed, budget>>

\* iwl_txq_stuck_timer()
WatchdogFires ==
    /\ watchdog /\ napi.pc = "idle"
    /\ watchdog' = FALSE
    /\ device' = IF Empty THEN device ELSE ForceNmi
    /\ UNCHANGED <<bits, readPtr, writePtr, entries, awake, todo, answers,
                   switch, opmodeDown, call, sender, napi, irq, answered,
                   killed, warned, budget>>

----------------------------------------------------------------------------
(* The interrupt thread. *)

IrqErrorWakesFirst ==
    /\ irq = "idle" /\ device = "crashed"
    /\ device' = "dead"
    /\ watchdog' = FALSE
    /\ active' = FALSE
    /\ irq' = "wake"
    /\ UNCHANGED <<fwError, rfkill, alive, resetPending, readPtr, writePtr,
                   entries, awake, todo, answers, switch, opmodeDown, call,
                   sender, napi, answered, killed, warned, budget>>

\* iwl_pcie_irq_handle_error(): STATUS_FW_ERROR first ...
IrqError ==
    /\ irq = "idle" /\ device = "crashed"
    /\ device' = "dead"
    /\ watchdog' = FALSE
    /\ FwErrorSeen
    /\ irq' = "wake"
    /\ UNCHANGED <<active, rfkill, readPtr, writePtr, entries, awake, todo,
                   answers, switch, opmodeDown, call, sender, napi, answered,
                   killed, warned, budget>>

\* ... then the caller is woken; so does iwl_pcie_handle_rfkill_irq().
IrqWake ==
    /\ irq = "wake"
    /\ active' = FALSE
    /\ irq' = "idle"
    /\ UNCHANGED <<fwError, rfkill, alive, resetPending, queue, firmware,
                   switch, opmodeDown, call, sender, napi, answered, killed, warned,
                   budget>>

\* _iwl_trans_pcie_stop_device(): the interrupts and NAPI have ended; what is
\* left in the queue is freed; the receive queue is dropped.
StopDevice ==
    IF device = "off" THEN UNCHANGED <<active, queue, firmware, warned>>
    ELSE /\ napi.pc = "idle" /\ irq = "idle"
         /\ device' = "off" /\ todo' = <<>> /\ answers' = <<>>
         /\ readPtr' = writePtr
         /\ awake' = (awake /\ Empty)
         /\ Warn("awake", ~awake /\ ~Empty)
         /\ active' = FALSE
         /\ UNCHANGED <<writePtr, entries, watchdog>>

\* iwl_pcie_handle_rfkill_irq(), up to its release of the mutex.
IrqRfkill ==
    /\ irq = "idle" /\ rfkillIrq
    /\ rfkillIrq' = FALSE
    /\ \/ /\ hwRfkill
          /\ rfkill' = TRUE
          /\ killed' = TRUE
          /\ \E stop \in RfkillStops :
               IF stop /\ ~rfkill THEN StopDevice
               ELSE UNCHANGED <<active, queue, firmware, warned>>
          /\ irq' = "wake"
       \/ /\ ~hwRfkill
          /\ rfkill' = (rfkill /\ ~opmodeDown)
          /\ UNCHANGED <<active, queue, firmware, warned, irq, killed>>
    /\ UNCHANGED <<fwError, alive, resetPending, hwRfkill, opmodeDown, call,
                   sender, napi, answered, budget>>

----------------------------------------------------------------------------
(* The op mode stops and starts the device with its mutex held: no command  *)
(* is being sent.                                                           *)

\* iwl_trans_stop_device() and iwl_trans_pcie_handle_stop_rfkill()
iwl_trans_stop_device ==
    /\ call.pc = "idle" /\ sender = "idle" /\ ~opmodeDown
    /\ opmodeDown' = TRUE
    /\ resetPending' = FALSE
    /\ StopDevice
    /\ alive' = FALSE
    /\ rfkill' = hwRfkill
    /\ UNCHANGED <<fwError, switch, call, sender, napi, irq, answered, killed,
                   budget>>

\* start_hw, start_fw and the ALIVE notification, with the switch off.
iwl_trans_start_fw ==
    /\ opmodeDown /\ budget.starts > 0 /\ ~hwRfkill /\ irq = "idle"
    /\ opmodeDown' = FALSE
    /\ fwError' = FALSE /\ alive' = TRUE
    /\ device' = "running" /\ todo' = <<>>
    /\ readPtr' = 0 /\ writePtr' = 0
    /\ budget' = [budget EXCEPT !.starts = @ - 1]
    /\ UNCHANGED <<active, rfkill, resetPending, entries, awake, watchdog,
                   answers, switch, call, sender, napi, irq, answered, killed, warned>>

----------------------------------------------------------------------------
(* The firmware and the switch. *)

FwAnswers ==
    /\ device = "running" /\ todo # <<>>
    /\ answers' = Append(answers, Head(todo))
    /\ todo' = Tail(todo)
    /\ UNCHANGED <<bits, queue, device, switch, opmodeDown, call, sender, napi,
                   irq, answered, killed, warned, budget>>

FwSkips ==
    /\ device = "running" /\ todo # <<>> /\ budget.skips > 0
    /\ todo' = Tail(todo)
    /\ budget' = [budget EXCEPT !.skips = @ - 1]
    /\ UNCHANGED <<bits, queue, device, answers, switch, opmodeDown, call,
                   sender, napi, irq, answered, killed, warned>>

FwCrashes ==
    /\ device = "running"
    /\ device' = "crashed"
    /\ UNCHANGED <<bits, queue, todo, answers, switch, opmodeDown, call, sender,
                   napi, irq, answered, killed, warned, budget>>

Toggle ==
    /\ Rfkills
    /\ hwRfkill' = ~hwRfkill
    /\ rfkillIrq' = TRUE
    /\ UNCHANGED <<bits, queue, firmware, opmodeDown, call, sender, napi, irq,
                   answered, killed, warned, budget>>

Caller == iwl_trans_send_cmd \/ SetActive \/ SendSync \/ WaitTimesOut
          \/ TimeoutNmi \/ Woken \/ CancelWantSkb \/ FreeResp
Sender == SendAsyncCheck \/ SendAsync
Napi == RxAnswer \/ RxWanted \/ RxStore
Irq == IrqError \/ IrqWake \/ IrqRfkill
OpMode == iwl_trans_stop_device \/ iwl_trans_start_fw
Environment == FwAnswers \/ FwSkips \/ FwCrashes \/ Toggle

Next == Caller \/ Sender \/ Napi \/ WatchdogFires \/ Irq \/ OpMode
        \/ Environment

Spec == Init /\ [][Next]_vars

\* A started call runs on, the timeout included; NAPI gives the lock back.
FairSpec ==
    /\ Spec
    /\ WF_vars(SetActive \/ SendSync \/ WaitTimesOut \/ TimeoutNmi \/ Woken
               \/ CancelWantSkb \/ FreeResp)
    /\ WF_vars(RxStore)

----------------------------------------------------------------------------
(* Properties. *)

Pointers == 0..(MaxTfd - 1)
Slots == 0..(NWindow - 1)
Items == [ptr : Pointers, cmd : 1..Async]
Metas == [want : BOOLEAN, async : BOOLEAN, source : 0..MaxSync]
Calls == [pc : {"idle", "send", "enqueue", "wait", "timeout", "cancel", "free"},
          id : 0..MaxSync, want : BOOLEAN, inRfkill : BOOLEAN, slot : Slots,
          resp : 0..Async,
          ret : {"none", "refused", "ERFKILL", "EIO", "ENOSPC", "ETIMEDOUT", "0"}]

\* Every variable has the type the code gives it.
TypeOK ==
    /\ active \in BOOLEAN /\ fwError \in BOOLEAN /\ rfkill \in BOOLEAN
    /\ alive \in BOOLEAN /\ resetPending \in BOOLEAN
    /\ readPtr \in Pointers /\ writePtr \in Pointers
    /\ entries \in [Slots -> Metas]
    /\ awake \in BOOLEAN /\ watchdog \in BOOLEAN /\ killed \in BOOLEAN
    /\ warned \subseteq {"active", "awake", "range", "full", "space"}
    /\ device \in {"running", "crashed", "dead", "off"}
    /\ todo \in Seq(Items) /\ answers \in Seq(Items)
    /\ hwRfkill \in BOOLEAN /\ rfkillIrq \in BOOLEAN /\ opmodeDown \in BOOLEAN
    /\ call \in Calls
    /\ sender \in {"idle", "enqueue"} /\ irq \in {"idle", "wake"}
    /\ napi \in [pc : {"idle", "store"}, ptr : Pointers, cmd : 1..Async]
    /\ answered \subseteq 1..Async
    /\ budget \in [sync : 0..MaxSync, async : 0..MaxAsync, skips : 0..MaxSkips,
                   starts : 0..MaxStarts]

\* The answer a caller finds in its iwl_host_cmd is the answer to its own
\* command, whatever was cancelled, skipped or restarted before:
\* iwl_pcie_hcmd_complete() finds the caller through the slot alone.  Only once
\* the RF-kill interrupt has ended a command that the receive path was about to
\* complete can the next caller be handed an answer that is not its own, and
\* then it is the one to an earlier synchronous command.
OwnAnswer ==
    call.resp \in {None, call.id} \/ (killed /\ call.resp < call.id)

\* A synchronous command that returns 0 was answered by the firmware; only one
\* that may be sent in RF-kill (CMD_SEND_IN_RFKILL) may also have been ended by
\* the RF-kill interrupt.  After an error the interrupt thread wakes the caller
\* too, but only after STATUS_FW_ERROR, and so it does with RF-kill.
SuccessAnswered ==
    call.pc = "idle" /\ call.ret = "0" =>
        call.id \in answered \/ (killed /\ call.inRfkill)

\* STATUS_SYNC_HCMD_ACTIVE is never left behind by a call ("active", tx.c:2559),
\* and cmd_hold_nic_awake is set whenever iwl_pcie_clear_cmd_in_flight() runs
\* ("awake", tx.c:202).  iwl_pcie_cmdq_reclaim() finds the index of an answer out
\* of range (tx.c:1098) only when the window is completely full, and
\* iwl_txq_space() finds more entries than the window has (tx-gen2.c:550) only
\* after the firmware has skipped a command.
WarnsJustified ==
    warned \subseteq {"full"} \cup {w \in {"space"} : budget.skips < MaxSkips}

\* While a command is in the queue the NIC is kept awake, so that the
\* firmware sees it (iwl_pcie_set_cmd_in_flight()).
AwakeWhileQueued == ~Empty => awake

\* While the firmware owes answers the stuck-queue timer runs; a queue that
\* stops moving is noticed.
WatchdogWhileQueued == ~Empty /\ device = "running" => watchdog

\* Every synchronous call returns.
CallReturns == (call.pc # "idle") ~> (call.pc = "idle")

\* Does not hold.  What the comment in iwl_trans_pcie_send_hcmd_sync() wants of
\* the cancelled flag: an answer is only ever stored in the command of a caller
\* who has not returned.
StoredWhileWaiting ==
    [][RxStore => /\ call.pc # "idle"
                  /\ call.id = entries[iwl_txq_get_cmd_index(napi.ptr)].source]_vars

\* Does not hold.  When every command was answered and every answer handled,
\* every entry has been reclaimed.
AnsweredReclaimed ==
    /\ device = "running" /\ todo = <<>> /\ answers = <<>>
    /\ budget.skips = MaxSkips
    => Empty

=============================================================================
