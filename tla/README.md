# TLA+ models of backport-iwlwifi

The repository holds a complete wireless stack for Intel hardware: cfg80211 and
mac80211, the iwlwifi driver below them (PCIe transport, firmware runtime, the
op modes mld, mvm, dvm and xvt), the link to the management engine and a
simulated radio. This directory models parts of it in TLA+, checks the models
with TLC and proves theorems about them with TLAPS. `W/` below stands for
`src/drivers/net/wireless/intel/iwlwifi/`, `M/` for `src/net/mac80211/`.

    tlc -workers 2 -config HostCmd.cfg MCHostCmd      # one run
    tlapm TxBaProofs.tla                              # the proofs of one module

| module      | code                                             | proofs            |
|-------------|--------------------------------------------------|-------------------|
| `NotifWait` | `W/fw/notif-wait.c`, `notif-wait.h`              | `NotifWaitProofs` |
| `TxBa`      | `M/agg-tx.c`, parts of `ht.c`, `tx.c`, `sta_info.c`, `main.c`, `util.c` | `TxBaProofs` |
| `Reorder`   | `M/rx.c` (reorder buffer), parts of `agg-rx.c`   | `ReorderSteps`, `ReorderOrder`, `ReorderProofs` |
| `HostCmd`   | `W/pcie/tx.c`, `rx.c`, `iwl-trans.c` (host commands) | `HostCmdProofs` |
| `RxAlloc`   | `W/pcie/rx.c` (receive buffers and their allocator) | `RxAllocProofs` |
| `Roc`       | `M/offchannel.c`, `scan.c`, `W/mld/roc.c`, `scan.c`, `notif.c`, the recovery | |

`ReorderInv` has the definitions that the proofs about `Reorder` share. `RbPool` is
the abstract specification that `RxAlloc` implements, and `Sums` the sum of a
function, which both sides of that refinement use.

An `MC*` module only extends its module, and adds a symmetry set or the bounds
where there are any. `PROJECT.json` gives the source lines behind every definition.


## 1. Inventory

What each part keeps, what changes it, and what makes it hard. "Planned" and
"candidate" refer to section 3.

### iwlwifi, transport

* **Host commands** (`W/pcie/tx.c`, `iwl-trans.c`) - *modelled: HostCmd*. State:
  two ring pointers, slot metadata, `STATUS_SYNC_HCMD_ACTIVE` and other status
  bits, the stuck-queue timer, the reference that keeps the NIC awake. Operations:
  send (sync, async), complete, time out, cancel, stop, start. Hard: late answers,
  firmware errors and RF-kill against a sleeping caller; the full queue.
* **Notification waits** (`W/fw/notif-wait.c`) - *modelled: NotifWait*. A list of
  entries on callers' stacks. Hard: wake-ups, timeouts against aborts, life time of
  the entries.
* **Receive buffers** (`W/pcie/rx.c`) - *modelled: RxAlloc*. State: the rings,
  `rx_free`, `rx_used`, and the background allocator with two atomic counters.
  Operations: poll, recycle, claim, restock, the work item, stop and start. Hard:
  requests are counted in one place and descriptors travel in another; emergencies.
* **Transmit queues** (`W/pcie/tx.c`, `tx-gen2.c`) - *planned*. Rings, watermarks,
  overflow queue, reclaim. Promise: a stopped queue is woken; no slot is reused
  before it is reclaimed.
* **Transport life cycle** (`W/iwl-trans.c`, `pcie/trans*.c`) - *planned*: the
  escalation of restarts (software reset, reprobe, remove, rescan) and its worker.
* **Driver loading, firmware runtime, regulatory, device tables** - firmware
  parsing, dumps, table decoding: mostly I/O and data.

### iwlwifi, op modes

* **mld asynchronous notifications** (`W/mld/notif.c`) - *partly, in Roc*. Firmware
  notifications are queued to a wiphy work, and those of an object that goes away
  are cancelled. Hard: the worker's private list, removal from inside a handler.
* **mld receiver sessions** (`W/mld/agg.c`) - *planned*. Reorder data per receive
  queue, frame-release notifications, the session timer.
* **mld links, EMLSR, session protection** - *planned*. Block and exit reasons with
  timed unblocking.
* **mld scan and remain-on-channel** (`W/mld/scan.c`, `roc.c`) - *modelled: Roc*.
  Late notifications against cancellation, abort and restart.
* **mld coexistence, power, wake-up, ranging, NAN** - small maps from notifications
  to commands; suspend and resume is a candidate.
* **mvm** answers the same questions with other locks; **dvm**, **xvt** are frozen
  or pass-through; **csme link** (`W/mei`) is a candidate: a handshake over shared
  memory with time-outs.

### mac80211

* **Originator Block Ack sessions** (`M/agg-tx.c`) - *modelled: TxBa*. State: the
  session and its bits, two timers, the TXQ's stop and A-MPDU bits, the driver's
  side. Hard: three kinds of contexts, two RCU grace periods, three callbacks.
* **Receiver reorder buffer** (`M/rx.c`) - *modelled: Reorder*. Slots, head, count,
  timer, life time under RCU. Hard: sequence numbers modulo 4096, holes, time-outs.
* **Recipient Block Ack sessions** (`M/agg-rx.c`, `ht.c`) - *planned*. ADDBA, DELBA,
  the session timer and the worker.
* **Stations** (`M/sta_info.c`) - *planned*. Insertion, state changes, RCU removal.
* **Channel contexts** (`M/chan.c`) - *planned*. Reservations and their swap.
* **Scan and off-channel** (`M/scan.c`, `offchannel.c`) - *modelled with hardware
  support: Roc*. Scans against the queue of remain-on-channel requests. Hard: every
  end of one must start what waits for it, also in a restart.
* **Mesh peering** (`M/mesh_plink.c`) - *planned*. Two peers over a lossy channel.
* **Station mode** (`M/mlme.c`), **transmit path** - candidates. **Restart**: what
  concerns scans and remain-on-channel is in Roc.
* **Receive path around the buffer, keys, capabilities, debugfs** - long chains of
  tests on one frame, arithmetic, parsing, output.

### cfg80211 and the rest

* **cfg80211** - the wiphy works are in Roc; `sme.c` and the scan-result table are
  candidates; `nl80211.c` is parsing. **hwsim** is a test driver and **compat** has
  no protocol of its own.

### How the modelled parts meet

A command that makes the firmware send a notification goes through `HostCmd`, and
its caller then sleeps in `NotifWait`; both are woken by the same receive thread.
A firmware error sets `STATUS_FW_ERROR`, lets the op mode abort its notification
waits (mvm and dvm at once, mld when it stops the firmware) and then wakes the
sleeping command. `TxBa` is the originator of the traffic whose
recipient is `Reorder`: its A-MPDUs have the holes, repeats and Block Ack requests
that `Reorder`'s originator produces. `Roc` is a client of `HostCmd`: its
synchronous commands are answered, or fail after an error, as proved and checked
there. The modules share no variable; each models its neighbour by what it may do.


## 2. The modules

### NotifWait

*State.* `notif_waits`, `triggered` and `aborted` are the list and the two flags of
its entries; `pc` is the caller's place between `iwl_init_notification_wait()` and
the result; `rx` and `aborting` are the receive path and an abort between their
critical section and their wake-up; `fwq` is the firmware's output.

*Actions.* One critical section of `notif_wait_lock` is one action. The unlocked
`list_empty()` test, the wake-ups, the last test before sleeping and the reading of
the result are actions of their own. `wait_event_timeout()` is external: prepare,
test, sleep, with the return value that says whether time was left.

*Checked and proved.* Linked entries are those of live stack frames
(`ListedWhileAlive`), results are true (`ResultIsTrue`), `fn` is not called after it
accepted (`OneShot`), a sleeper whose wait is over has a wake-up coming
(`WakeupOwed`); all four are theorems. `WaitEnds` (with fairness for the receive
path, the abort's wake-up and the caller, and none for the timeout) is checked only.

*Proof.* The strengthening relates the private return value to the flags:
"remaining" implies that the wait is over, and a result is present only in an idle
caller. One lemma for each of caller, receive path and abort.

### TxBa

One TID of one station. *State.* `tid_tx`, `tid_start_tx` are the two arrays (by
dialog token), `state` the `HT_AGG_STATE_*` bits, two timers, the TXQ's bits and
fragments, `drv` the driver's side, `tx` the dequeuing CPUs, `sent`/`ended` the
history of the exchange with the peer.

*Actions.* At most one thread holds the wiphy mutex; `pc` says where it is and
`caller` in which handler (worker, response, DELBA, tear-down, hardware restart,
destruction). It
gives up the CPU in `synchronize_net()`, `timer_delete_sync()` and the driver, and
that is where an action ends. Softirqs (requests, timers, callbacks) and the CPUs of
the transmit path interleave at each of these places. A critical section of
`sta->lock` or `fq->lock` is one action. The driver is external: it calls back, now,
later, or refuses. The peer is external: it answers, declines, repeats, stays silent
or sends a DELBA. It answers a request with that request's dialog token and invents
none: the code compares an answer's token with the session's and nothing else. Tokens
are not reused (`MaxToken` < 256; the `u8` counter does not wrap).

*Hardware restart.* `ieee80211_restart_hw()` stops the queues and sets `in_reconfig`
without the mutex (one flag in the model), so the bit can appear between any two steps
of a handler; `ieee80211_restart_work()` waits for the transmit paths, tears the
sessions down and `ieee80211_reconfig()` clears the bit. While it is set,
`__ieee80211_stop_tx_ba_session()` skips its `synchronize_net()` (`agg-tx.c:395`) and
the dequeuing hands out nothing.

*Left out.* The pending queue for drivers without TXQs and the queue-stop reference
count, buffer sizes, Block Ack requests, and the A-MSDU limits; a restart that fails,
and one that is requested before the last is over.

*Checked and proved.* A session is freed with both timers stopped
(`TimersStoppedFirst`); an operational session was accepted by both sides
(`OperationalAgreed`); no CPU hands the driver an A-MPDU frame outside one, with the
exception below (`AmpduOnlyInSession`); the peer is told of an end (`PeerNotLeftBehind`); a freed
station is referenced by nobody (`StationFreedQuietly`); a stopping session never
comes back to life (`NoRevival`). *Only proved:* the worker never moves a start over
a live session (`OneSession`), retries are bounded (`RetriesBounded`), a blocked
station has no session but a stopping one and, outside a hardware restart, no A-MPDU
frame on its way (`BlockedWithoutAmpdu`), the driver's callback finds its
session (`CallbackFindsSession`), and two that hold only without software
fragmentation, as their theorems say: `QuietDuringSetup` and `TxqReleased`. *Only
checked:* `SetupEnds` and `StopEnds`.

*The exception in `AmpduOnlyInSession`.* With `in_reconfig` set a stop does not wait for
the CPUs that have read `TXQ_AMPDU`, so the driver can be told to stop while such a CPU
is still on its way to it, which the comment at `agg-tx.c:391` wants to exclude ("Wait
for all currently running TX paths to finish before telling the driver"). The restart
itself waits for them before it stops sessions: the property has no exception from
there on.

*Proof.* Six conjuncts, each with a lemma that has one case per action: what the
holder may rely on at each place (`FlagsInv`), when timers may run (`TimersInv`), how
the driver's side follows the bits (`DriverInv`), freshness of tokens and the count
of requests (`PeerInv`), which CPUs a grace period still waits for (`TxInv`), and
destruction (`DestroyInv`). The grace periods are the reason for the strengthening:
"no CPU outside `waiting` holds a frame picked under the old bits" is what makes the
driver's stop safe. During a restart its place is taken by "every CPU is idle, or is one
that the restart still waits for".

*Fairness.* The holder runs; the worker, or the restart's, gets its turn although other
handlers take the mutex again and again (strong: the mutex is fair); pending timers expire and
their handlers run; the driver calls back, which its interface requires; RCU readers
and softirqs end; a blocked station is unblocked. Nothing is assumed of the peer or
of requests.

### Reorder

*State.* `head_seq_num`, `stored_mpdu_num`, `reorder` (a list per slot), times and
the timer of one `struct tid_ampdu_rx`; its life (published, removed, handed to RCU,
freed); the two softirqs, what each took out and not yet passed up; the originator's
window; histories of what left the buffer, of the MPDUs that came, and of those that
first came too late or were given up half complete.

*Actions.* `reorder_lock` is taken by the receive softirq or the timer's. The loops
under it run one round per action (release up to the head, release what is ready,
give up on holes that timed out, re-arm the timer), so the loop conditions are those
of the code. MPDUs have unbounded numbers; the code sees them modulo `SN_MODULO`,
and `ieee80211_sn_less()` is the comparison modulo of the source. Time is a tick.

*Assumptions.* Every MPDU of the originator's window may come, come again or not at all;
an A-MSDU comes in two subframes, the second may be lost, and it is sent again like any
other. MPDU 0, from before the session, comes once before the buffer has started: in
that time nothing else of the TID comes in between, and the duplicate detection ahead
of the buffer (`ieee80211_rx_h_check_dup()` or the driver's) drops a repetition. The
station is not an MLD: the return of `ieee80211_release_reorder_timeout()` for a link
that cannot be looked up (`rx.c:4410`) cannot be taken.

*Left out.* `reorder_buf_filtered` and `ieee80211_mark_rx_ba_filtered_frames()`; the
other fields of a frame.

*Checked and proved.* MPDUs leave in order, and nothing of an MPDU follows the frame or
the last subframe that completed it (`InOrder`); an MPDU that came is passed up, held,
first came too late or was given up half complete (`Accounted`); the count is the number of complete slots
(`StoredCounts`); what is held has the timer pending or its handler on the way
(`HeldIsTimed`); the session is freed with the timer off and nobody at work
(`FreedQuietly`). *Only checked:* with time passing and the lock given to whoever
spins, every complete frame leaves (`HeldLeaves`).

*What `InOrder` does not say.* The buffer does not compare the subframes of an A-MSDU.
When the last one is lost and the A-MSDU is sent again, its first subframe goes up
again (at the head at once, otherwise from the slot), before the last one and never
after it.

*An exception in `InOrder`.* The loop of `rx.c:1277` ("don't leave incomplete A-MSDUs
around") starts after the head, so the first part of an A-MSDU can stay in the head's
slot when the head moves past it (`LeftBehind`). A later MPDU of the same slot is then
mixed with it, or is passed up directly while the part stays. `InOrder` says that
these are the only frames that leave out of order; without the exception it fails in
the run `reorder`.

*Proof of the count.* It needs an invariant of the loops: which slots have been
visited between the start of the loop and `index` (`Scanned`), arithmetic of distances
modulo the buffer size (`Distance`, `Successor`, `BetweenStep`), and cardinality of
the set of ready slots when one is filled or emptied (`CountIn`, `CountOut`). These
theorems hold for every buffer size below 2^16, also those that do not divide the
modulus.

*Proof of the order.* `InOrder` and `Accounted` assume `HalfRange`: the buffer size
divides the modulus (the run `reorder_wrap` shows why it must), and the originator
does not lag or lead by so much that `ieee80211_sn_less()` compares the wrong way
round. The invariant names the MPDU that the head stands for (`Ordered(h)`): what
left is below it, or is a first subframe of it; what is held lies in the window from it
on, each MPDU in the slot of its number and behind what was left there incomplete; and
what is neither is late. Before the buffer has started, no last subframe of MPDU 0 has
left while a part of it is on its way (`NotStarted`). Numbers modulo the modulus and slots modulo
the buffer size then determine an MPDU, because a window is no longer than the
buffer. Most steps leave all of this alone or change one small part (`Quiet`, `Minor`);
the three ways to release a slot share one lemma (`Released`); placing a frame is the
last case. `ReorderSteps` has the invariant of the count and what passing up does,
`ReorderOrder` releasing and placing, and `ReorderProofs` joins them.

### HostCmd

*State.* `readPtr` and `writePtr` modulo `MaxTfd`, `entries` modulo `NWindow`, the
status bits, the watchdog, the firmware's unanswered commands and its answers, the
synchronous caller with its `iwl_host_cmd`, an asynchronous sender, the receive path
inside `iwl_pcie_hcmd_complete()`, the interrupt thread.

*Actions.* A step ends where another context can look: between the caller's tests
and the enqueue, after the enqueue, on waking, between the NMI and the cancellation,
between testing `CMD_WANT_SKB` and storing the answer. The store itself tests nothing:
`meta->source->resp_pkt` is written whatever has become of the caller since.
`iwl_trans_stop_device()` and `iwl_trans_start_fw()` are the op mode's restart; the
RF-kill interrupt may also stop the device by itself, under a caller that waits, when
the op mode says so (`RfkillStops`). The WARNs of the modelled functions are recorded
when they fire (`warned`).

*Assumptions.* One synchronous caller at a time, because op modes send with their
mutex held (`mvm/utils.c` says so, mld asserts it). No asynchronous sender overlaps
the stop of the device. An answer is identified by its command. The device is one
that needs `cmd_hold_nic_awake`, of the 7000 family: the branch of
`iwl_pcie_irq_handle_error()` for WiMAX (`rx.c:1791`), which only older devices take,
is not modelled. `MaxTfd` is a multiple of `NWindow`: both
are powers of two in the driver.

*Left out.* `CMD_BLOCK_TXQS`, `STATUS_TRANS_DEAD`, building of the descriptors.

*Checked and proved for every ring and window size.* A call that returns success was
answered, unless the RF-kill interrupt came and the command may be sent in RF-kill
(`SuccessAnswered`); the answer handed to a caller is that of its own command, and once
the RF-kill interrupt has come possibly that of an earlier one (`OwnAnswer`, below);
the WARNs fire only for the two reasons below (`WarnsJustified`); queued commands of a running firmware have the
watchdog armed (`WatchdogWhileQueued`). *Only proved:* the NIC is awake while a
command is queued (`AwakeWhileQueued`). *Only checked:* a call returns (`CallReturns`,
fairness for the caller with its timeout, and for the receive path once it holds the
lock).

*The exception in `OwnAnswer`.* The receive path has tested `CMD_WANT_SKB` and is about
to store; the RF-kill interrupt clears the active bit, the caller returns without an
answer, and the next call's `iwl_host_cmd` may lie on the stack where the last one's
did; the store then puts the old answer into the new call. Without an RF-kill interrupt this cannot
happen, also after time-outs, skipped commands, errors and restarts.

*The WARNs.* The active bit is never found set by a call (`tx.c:2559`), and the NIC's
reference is held whenever it is dropped (`tx.c:202`). The index of an answer is found
out of range (`tx.c:1098`) only when the window is completely full: `iwl_txq_used()`
then sees equal masked pointers and takes the queue for empty; no answer frees an entry
from then on. `iwl_txq_space()` finds more entries than the window has
(`tx-gen2.c:550`) only after the firmware has skipped a command. The first of these two
happens in the run, the second needs a larger window.

*Proof.* Three invariants. For the queue's flags, besides the types, `ActiveIsOwned`:
the active bit is set only for a caller between enqueue and wake-up. `UsedNonempty` is
the arithmetic: a slot that `iwl_txq_used()` accepts means that the masked pointers
differ. For the WARNs (`WInv`): until the firmware skips a command, either the window
is full, or the entries in use are exactly the commands in flight, one behind the
other (`Dense`), so that an answer frees one entry and space never runs below zero. For
the answers (`AInv`): the driver finds the caller through the slot of the answered entry alone, so the
commands in flight must lie in one window of the ring and in its order (`Window`,
`Ordered`), which puts them into different slots; the entry of each still says what
was sent (`Labelled`); a synchronous one in flight is the one that the caller
waits for as long as no error, stop or RF-kill is in force (`Awaited`), and until an
RF-kill interrupt no call starts while an earlier one is in flight (`Alone`).

### RxAlloc

*State.* Lists of descriptors are modelled by their lengths. Per queue: buffers posted
in the ring, those of them that the NIC does not know of, completions not read,
`rx_free`, `rx_used`, the counters, and where its NAPI poll is with its local
variables. The allocator: `rbd_empty`, `rbd_allocated`, `req_pending`, `req_ready`, and
the work item with its local lists.

*Actions.* One action makes at most one access to what polls, work item and NIC share:
a critical section of `rba->lock`, or one access to an atomic counter. The loops of
`iwl_pcie_rx_handle()` and `iwl_pcie_rx_allocator()` are cut there. The device may be
stopped and started.

*Assumptions.* The NIC may fill a buffer of any ring (external). The allocations of
the initialisation (`GFP_KERNEL`) succeed; those in an emergency (`GFP_ATOMIC`) fail if
`AllocFails`. *Left out.* The single-queue restock, `need_update` and the delayed
write pointer, sharing of one page by several buffers, the identity of descriptors
and the handling of bogus ones, polls that find no completion.

*Checked and proved.* The types, that is, no length and no counter becomes negative
(`TypeOK`); the `BUG_ON` of the allocator never fires and a claim finds its buffers
(`NeverBug`); the restock, which does not test for space, never overflows a ring
(`RingFits`); requests pending, served and ready are those that the queues' counters
stand for (`RequestsMatch`); while atomic allocations succeed, the whole implements
`RbPool` (`ImplementsPool`). *Only proved:* with the same proviso every buffer is with
the NIC, in a queue, owed or lent (`CreditKept`). *Only checked:* a NIC without buffers
gets new ones (`RxGoesOn`; a poll with completions is scheduled and goes on, so does the
work item once it is queued; nothing is assumed of the NIC or of the stack).

*Proof.* The heart is `Backed`: every request that the work item has still to serve
comes with `RX_CLAIM_REQ_ALLOC` empty descriptors, because each queue has a deposit in
the allocator (`Slack`) that makes up for those it does not bring along. Sums over the
queues are cardinalities (`Sums`), so that their laws can be proved. The refinement
maps `stock` to what has a page, `owed` to what a queue's counters entitle it to, and
`lent` to `rx_used` in an emergency; `CreditKept` determines the stock from the other
two.

### Roc

*State.* mac80211's `roc_list` with the flags of a request, the waiting or running
scan, `wiphy_work_list` and the delayed `scan_work`; the driver's `roc_activity` per
interface, auxiliary stations, the scan in `uid_status`, the two lists of
notifications; the firmware's ROC per activity, its scan and its output; the phases
of a recovery.

*Actions.* Requests, works and the recovery hold the wiphy mutex and sleep only for
the answer to a command. `agenda` is what the holder has still to do: a call pushes
steps, a return pops one, so a function is cut exactly at its commands and calls, and
`wiphy_work_flush()` runs works inside its caller as in the code, until the given one
has run or none is left. The receive path,
the error handler, the delayed work's timer and `iwl_mld_sw_reset()` run without the
mutex at any moment.

*Abstractions.* Durations are left out: whether a request fits into a started one is
open. An interface that goes down comes up again at once. The firmware reports the
end of an aborted scan before it answers (the code waits for it, up to a second).
`jiffies` has 64 bits: with 32, a started ROC that has not begun (`start_time` 0) is
not ended while they are negative as a `long`. A regular scan at a time has one
`uid`, so a behaviour makes one scan; `uid_status` and `scan.status`, of which
`iwl_mld_report_scan_aborted()` clears only the first, are one variable.

*Left out.* Software scans and software ROC, frames sent off channel, radar,
scheduled and internal scans, failed restarts.

*Checked.* A notification is applied to the ROC that it is about (`NotifOfThisRoc`);
user space is told "on channel" only for a request whose ROC the firmware has begun
(`ReadyMeansOnChannel`; it may have ended by then); the
firmware carries out no ROC that nobody asked for any more (`RocIsOwned`); a restart
loses no end of a scan (`ScanTracked`); every request ends (`RequestsEnd`). Two of
them assume that the first disagreement below did not happen (`NothingPending`), and
the last that no scan was completed twice (`ScanHasRequest`).

*Fairness.* The holder runs, works and the recovery get the mutex although others
take it again and again (strong), timers expire, the firmware answers commands, ends
ROCs and scans, and its error is noticed. Nothing is assumed of user space.


## 3. Plan

Done: the six modules above. Next, most important first:

1. `RocIsOwned` and `ReadyMeansOnChannel` by proof, which needs an invariant over the
   identity and the order of the requests in `roc_list`.
2. `RxBa` and the composition with `Reorder` (worker, session timer, DELBA), with an
   abstract specification "deliver in order, each at most once" that `Reorder`
   implements.
3. A composition of `HostCmd` and `NotifWait` over one receive thread.
4. Restart escalation, EMLSR, mesh peering.


## 4. Runs

| run | bounds | what it shows |
|-----|--------|---------------|
| `notif_wait` | 2 waiters, 2 identifiers, 1 aborter, 1 packet in flight, timeouts, fairness | safety of the wait, and that it ends without the timeout |
| `tx_ba` | 1 CPU, fragments, no retries, 2 tokens, 1 sequence number, hardware restarts, fairness | all safety properties of the session, and that set-up and stop end |
| `tx_ba_not_collected` | violation: 1 CPU, no fragments, 2 tokens | a start is left in the array for ever |
| `reorder` | 3 slots, modulus 15, 4 MPDUs from 13 across the wrap, 2 of them A-MSDUs, 2 first subframes, both kinds of session, fairness | order, accounting, count, timer, life time, and that complete frames leave |
| `reorder_wrap` | violation: 3 slots, modulus 16 | a buffer size that does not divide the modulus |
| `hostcmd` | 2 slots, ring of 4, 2 sync, 1 async, 1 skip, 1 restart, RF-kill, stop on RF-kill, fairness | results, queue state, and that every call returns |
| `roc` | 2 interfaces, 2 channels; 3 requests, or 2 and a scan, or 2 and an error, or one of each; fairness | ROCs and scans stay consistent and requests end |
| `roc_restart` | violation: 2 requests, 1 error | a restart starts a ROC twice |
| `roc_deferred_scan` | violation: 1 request, 1 scan | a purge forgets the scan that waits |
| `rx_alloc` | 2 queues of 4, claim 2, post 1, blocks of 2, splits of 2, 1 restart | no list or ring over- or underflows, no request is lost, `RbPool` is implemented |
| `rx_alloc_live` | 1 queue of 12, claim 3, post 1, blocks of 2, splits of 2, fairness | receiving goes on |
| `rx_alloc_fails` | violation: 1 queue of 4, atomic allocations may fail | buffers that no counter tracks |

*Why the bounds are enough.* Two waiters are needed for one entry's removal to meet
another's walk. Two tokens make a complete session and a second one, so that late
answers of the first meet the second; with a retry limit of 0 the first unanswered
request already reaches it, and the theorem `RetriesBoundedHolds` covers other limits.
Four MPDUs with a window of three pass the wrap of 15 and use a slot again, and the
originator may lead by a whole window; with two first subframes kept one A-MSDU can be
half there twice, or two of them can. Two slots are filled completely by one
synchronous and one asynchronous command; `Earlier` starts the pointers before the
wrap of the ring; larger windows, which can be full and partly reclaimed, are covered
by the theorems. Skips, restarts and switch toggles are bounded because each one
multiplies the states; one is enough to leave a hole or a late answer. Three requests
are one in the firmware, one coalesced with it and one behind; the combinations of
`roc` are initial states of one run, and its properties also hold for 4 requests, for
3 and a scan, 3 and an error, and for 2 with both (2 to 5 million states, 8 to 16
minutes each, therefore not among the runs). Two queues of four entries are enough for
one queue's request to be served with what the other brought. In `rx_alloc_live`, as in
the driver (512 entries, claims of 8, posts of 2), claims are small against the ring:
with a ring of 8 or 10, claims of 2 and blocks of 2, `RxGoesOn` fails, because all
descriptors can be waiting in amounts too small to be posted. `CHECK_DEADLOCK FALSE` is
set where the bounds, or a freed object, end the behaviour.

*Fairness.* Each section above says what is assumed. Common to all: a thread that runs
goes on, and timers expire; nothing is assumed of user space, of a peer, or of a
firmware that may have crashed.


## 5. Findings

Each is a violation run, with the quoted comment and the trace's story in
`PROJECT.json`.

* `agg-tx.c:752`: a start that passed the test of `BLOCK_BA` just before a tear-down
  is never collected by the worker, and later requests get `-EAGAIN`.
* `rx.c:1385`: with a buffer size that does not divide 4096, two numbers of one
  window share a slot at the wrap, and a new frame is dropped as already stored.
* `mld/roc.c:115`: in a restart the flush in `ieee80211_reconfig_roc()` starts the
  next ROC, and the loop after it, taking it for one lost in the restart, starts it
  again: a warning, and the request is destroyed while the firmware carries it out.
* `offchannel.c:1236`: when a purge empties the list, the scan that waits for it is
  not started.
* `pcie/rx.c:1724`: what an emergency leaves in `rx_used` is allocated with
  `GFP_ATOMIC`, and a failure is ignored. The comment at `rx.c:1711` says what then
  follows: descriptors without "tracking in the RBD allocator counters".

Further observations, which can be repeated by changing a constant or by adding the
property:

* `TxqReleased` fails with `Fragmentation = TRUE`: a start put off for fragments
  (`ht.c:373`, "Reschedule worker to retry later") and then dropped leaves
  `IEEE80211_TXQ_STOP` set.
* `StoredWhileWaiting` of `HostCmd` fails, and so does `OwnAnswer` without its proviso on
  the RF-kill interrupt: the flag that keeps a late answer away from
  the caller's stack (`pcie/tx.c:2649`) is cleared without `txq->lock`, and
  `iwl_pcie_hcmd_complete()` may have tested it before.
* `AnsweredReclaimed` of `HostCmd` fails: with `n_window` commands queued the masked
  pointers are equal, and every answer counts as out of range (`pcie/tx.c:1072`), with
  the WARN that `WarnsJustified` allows.
* `ScanHasRequest` of `Roc` fails with two requests and a scan: the timer of a deferred
  scan expires, a ROC comes and goes before `scan_work` runs, and the timer is armed
  again (`scan.c:663`). The second `scan_work` finds the scan in the hardware, goes on
  as in a software scan and completes it; the driver's completion comes later
  (`WARN_ON` at `scan.c:475`), and a request made in between is queued with nothing
  to start it.
* With four requests, the warning at `offchannel.c:793` ("that really must not happen -
  it was started") can be reached: a request coalesced with one that has not begun
  stays not started (`offchannel.c:554`), in front of started ones.
* The error paths of `iwl_mld_start_roc()` (`roc.c:122` to 143) leave EMLSR blocked by
  a ROC that does not exist, until another ends.
* `QuietDuringSetup` fails with `Fragmentation = TRUE`: a frame picked before the
  stop bit leaves its fragments after the worker found none (`agg-tx.c:526`,
  `tx.c:4115`).
* `SuccessAnswered` would fail without its proviso on the RF-kill interrupt: the RF-kill
  interrupt clears the active bit under a command sent with `CMD_SEND_IN_RFKILL`
  (`rx.c:1941`). The wrapper in `mvm/utils.c:42` documents such a 0; mld sets the flag
  on every command (`mld/hcmd.h:50`).
* `AmpduOnlyInSession` would fail without its exception for a hardware restart, and
  `InOrder` if it asked that no first subframe goes up twice; see the sections above.
* The WARN at `agg-tx.c:460` can be reached by a stop requested in softirq; the stop
  is still carried out.
* The loop of `rx.c:1277` ("don't leave incomplete A-MSDUs around") starts after the
  head, so an incomplete A-MSDU at the head stays until the head moves; see the
  exception in `InOrder` above.


## 6. What is proved and what is only checked

The theorems quantify over all values of the constants allowed by the named
assumptions of the modules: `ConstantsAssumption` (`NotifWait`, `TxBa`),
`ReorderAssumption` and `SessionAssumption`, `HostCmdAssumption`, `RxAllocAssumption`.
Each proof module proves `Spec => []Inv` from `InitInv` and one lemma per action or
conjunct, and then derives the properties. `InOrder` and `Accounted` of `Reorder` assume
in addition `HalfRange`, that is, the proportions under which the 802.11 numbering
works; `ImplementsPool` and `CreditKept` of `RxAlloc` assume that atomic allocations
succeed.

Proved: every safety property that a passing run of `NotifWait`, `TxBa`, `Reorder`,
`HostCmd` or `RxAlloc` checks, the action property `NoRevival` of `TxBa`, and the
refinement of `RbPool` by `RxAlloc`.

Only model-checked: the liveness properties (`WaitEnds`, `SetupEnds`, `StopEnds`,
`HeldLeaves`, `CallReturns`, `RequestsEnd`, `RxGoesOn`), because fairness is out of the
prover's reach; and the properties of `Roc`.

Not modelled: the parts marked above without a module, each with its reason in
`PROJECT.json`.
