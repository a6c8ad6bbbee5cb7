-------------------------------- MODULE TxBa --------------------------------
(***************************************************************************)
(* The originator side of a Block Ack session on one TID of one station:   *)
(* net/mac80211/agg-tx.c, its worker and tear-down in ht.c, the dequeue of *)
(* the TID's TXQ in tx.c, and the destruction of the station in            *)
(* sta_info.c.                                                             *)
(*                                                                         *)
(* Who runs concurrently:                                                  *)
(*   - the holder of the wiphy mutex (at most one): the BA worker, the     *)
(*     handlers of ADDBA responses and DELBAs, tear-downs.  It sleeps in   *)
(*     synchronize_net(), timer_delete_sync() and drv_ampdu_action(); pc   *)
(*     says where it is;                                                   *)
(*   - softirqs: requests of the rate control to start or stop a session, *)
(*     the two session timers, and the driver's callbacks;                 *)
(*   - the CPUs that dequeue frames from the TXQ for the driver.           *)
(* A critical section of sta->lock or fq->lock is one step.                *)
(***************************************************************************)
EXTENDS Naturals, FiniteSets

CONSTANTS
    Cpus,                   \* CPUs that may dequeue from the TXQ
    Fragmentation,          \* whether mac80211 fragments frames in software
    HT_AGG_MAX_RETRIES,     \* give up on a peer after so many requests
    HT_AGG_BURST_RETRIES,   \* space the requests out after so many
    MaxToken,               \* bound on the dialog tokens handed out
    MaxSeq                  \* bound on the sequence numbers assigned

ASSUME ConstantsAssumption ==
    /\ Fragmentation \in BOOLEAN
    /\ HT_AGG_MAX_RETRIES \in Nat
    /\ HT_AGG_BURST_RETRIES \in Nat
    /\ MaxToken \in Nat
    /\ MaxSeq \in Nat
    /\ "starter" \notin Cpus

VARIABLES
    tid_tx,         \* dialog token of the session in the tid_tx array, or 0
    state,          \* the HT_AGG_STATE_* bits set in it
    tid_start_tx,   \* dialog token of the struct in the start array, or 0
    dialog_token_allocator,
    addba_req_num, \* ADDBA requests sent since the last success
    addba_resp_timer,
    session_timer,
    tx_stop,        \* the peer is to be told with a DELBA
    block_ba,       \* WLAN_STA_BLOCK_BA
    hashed,         \* the station can still be looked up
    gone,           \* the station has been freed
    in_reconfig,    \* local->in_reconfig, with the queues stopped
    work,           \* ampdu_mlme.work is queued
    pc,             \* what the holder of the wiphy mutex does next
    caller,         \* which handler it is in
    waiting,        \* readers its synchronize_net() still waits for
    drv,            \* the driver's side of the session
    txq_stop,       \* IEEE80211_TXQ_STOP
    txq_ampdu,      \* IEEE80211_TXQ_AMPDU
    frags,          \* sequence numbers with fragments in txqi->frags
    tid_seq,        \* next sequence number of the TID
    tx,             \* what each dequeuing CPU is doing
    starter,        \* a softirq inside ieee80211_start_tx_ba_session()
    sent,           \* history: frames sent to the peer
    ended           \* history: tokens the peer declined or deleted

start == <<tid_start_tx, dialog_token_allocator>>
timers == <<addba_resp_timer, session_timer>>
session == <<tid_tx, state, start, addba_req_num, timers, tx_stop>>
station == <<block_ba, hashed, gone, in_reconfig>>
holder == <<pc, caller, waiting>>
txpath == <<txq_stop, txq_ampdu, frags, tid_seq, tx>>
peer == <<sent, ended>>
vars == <<session, station, work, holder, drv, txpath, starter, peer>>

Flags == {"DRV_READY", "RESPONSE_RECEIVED", "OPERATIONAL", "STOPPING",
          "WANT_START", "WANT_STOP", "START_CB", "STOP_CB", "SENT_ADDBA"}
Timer == {"off", "armed", "running"}
Callers == {"none", "start", "work", "resp", "delba", "teardown",
            "restart", "destroy1", "destroy2"}
PCs == {"free", "frags", "start", "start_sync", "start_ret", "addba", "start_cb",
        "oper", "oper_set", "resp_ok", "resp_declined", "resp_done",
        "want_stop", "stop_cb", "stop", "stop_resp_timer", "stop_session_timer",
        "stop_sync", "restart_sync", "reconfigured", "destroyed", "unhash",
        "destroy_sync", "cleanup"}
Tokens == 0 .. MaxToken
Dequeue == [step : {"idle", "loop", "picked", "frame"}, seq : 0 .. MaxSeq,
            ampdu : BOOLEAN]
At(step) == [step |-> step, seq |-> 0, ampdu |-> FALSE]
Readers == Cpus \cup {"starter"}

(* The type invariant; no bit is ever set in a struct that is freed.       *)
TypeOK ==
    /\ tid_tx \in Tokens /\ tid_start_tx \in Tokens
    /\ dialog_token_allocator \in Tokens
    /\ state \subseteq Flags
    /\ tid_tx = 0 => state = {}
    /\ addba_req_num \in Nat
    /\ addba_resp_timer \in Timer /\ session_timer \in Timer
    /\ tx_stop \in BOOLEAN
    /\ tid_seq \in 0 .. MaxSeq
    /\ block_ba \in BOOLEAN /\ hashed \in BOOLEAN /\ gone \in BOOLEAN
    /\ in_reconfig \in BOOLEAN
    /\ work \in BOOLEAN
    /\ pc \in PCs /\ caller \in Callers
    /\ waiting \subseteq Readers
    /\ drv \in {"off", "starting", "ready", "operational", "stopping"}
    /\ txq_stop \in BOOLEAN /\ txq_ampdu \in BOOLEAN
    /\ frags \subseteq 0 .. MaxSeq
    /\ tx \in [Cpus -> Dequeue]
    /\ starter \in {"idle", "checked", "again"}
    /\ sent \subseteq ({"addba", "delba"} \X Tokens)
    /\ ended \subseteq Tokens

Init ==
    /\ tid_tx = 0 /\ tid_start_tx = 0 /\ dialog_token_allocator = 0
    /\ state = {}
    /\ addba_req_num = 0
    /\ addba_resp_timer = "off" /\ session_timer = "off"
    /\ tx_stop = FALSE
    /\ tid_seq = 0
    /\ block_ba = FALSE /\ hashed = TRUE /\ gone = FALSE
    /\ in_reconfig = FALSE
    /\ work = FALSE
    /\ pc = "free" /\ caller = "none" /\ waiting = {}
    /\ drv = "off"
    /\ txq_stop = FALSE /\ txq_ampdu = FALSE
    /\ frags = {}
    /\ tx = [c \in Cpus |-> At("idle")]
    /\ starter = "idle"
    /\ sent = {} /\ ended = {}

Has(flag) == flag \in state

(* RCU read-side critical sections in progress, which synchronize_net()    *)
(* waits for; waiting loses a reader when its section ends.                *)
ActiveReaders ==
    {c \in Cpus : tx[c].step # "idle"}
      \cup (IF starter # "idle" THEN {"starter"} ELSE {})

SynchronizeNet == waiting' = ActiveReaders

(* timer_delete_sync() waits for a handler that is running.                *)
TimerDelete(timer, new) == new = IF timer = "running" THEN timer ELSE "off"
TimerDeleteSync(timer, new) == timer # "running" /\ new = "off"

----------------------------------------------------------------------------
(* Softirqs: the rate control, the timers, the driver's callbacks.         *)

(* ieee80211_start_tx_ba_session() tests WLAN_STA_BLOCK_BA first, without  *)
(* a lock ...                                                              *)
StartCheck ==
    /\ starter = "idle"
    /\ hashed
    /\ ~block_ba
    /\ starter' = "checked"
    /\ UNCHANGED <<session, station, work, holder, drv, txpath, peer>>

(* "Check if the TID is not in aggregation flow already."                  *)
InFlow == tid_tx # 0 \/ tid_start_tx # 0

(* "We have tried too many times, receiver does not want A-MPDU."          *)
TooManyTries == addba_req_num > HT_AGG_MAX_RETRIES

(* The request is refused: too many tries, too many in a short time, or    *)
(* no memory.                                                              *)
StartRefused ==
    /\ starter = "checked"
    /\ \/ TooManyTries
       \/ addba_req_num > HT_AGG_BURST_RETRIES
       \/ ~InFlow
    /\ starter' = "idle"
    /\ waiting' = waiting \ {"starter"}
    /\ UNCHANGED <<session, station, work, pc, caller, drv, txpath, peer>>

(* -EAGAIN: the TID is in the aggregation flow already.                    *)
StartAgain ==
    /\ starter = "checked"
    /\ ~TooManyTries
    /\ InFlow
    /\ starter' = "again"
    /\ UNCHANGED <<session, station, work, holder, drv, txpath, peer>>

(* ... and then, under sta->lock, puts a struct into the start array.      *)
ieee80211_start_tx_ba_session ==
    /\ starter = "checked"
    /\ ~TooManyTries
    /\ ~InFlow
    /\ dialog_token_allocator < MaxToken
    /\ dialog_token_allocator' = dialog_token_allocator + 1
    /\ tid_start_tx' = dialog_token_allocator'
    /\ work' = TRUE
    /\ starter' = "idle"
    /\ waiting' = waiting \ {"starter"}
    /\ UNCHANGED <<tid_tx, state, addba_req_num, timers, tx_stop, station,
                   pc, caller, drv, txpath, peer>>

(* ieee80211_stop_tx_ba_session(): ask the worker to stop the session.     *)
WantStopUnchecked ==
    IF ~Has("STOPPING")
    THEN state' = state \cup {"WANT_STOP"} /\ work' = TRUE
    ELSE UNCHANGED <<state, work>>

WantStop ==
    IF tid_tx # 0 /\ ~Has("STOPPING")
    THEN state' = state \cup {"WANT_STOP"} /\ work' = TRUE
    ELSE UNCHANGED <<state, work>>

(* After -EAGAIN a driver's rate control stops the session it does not     *)
(* know of (rs_tl_turn_on_agg_for_tid()), or leaves it alone.              *)
StopAfterAgain ==
    /\ starter = "again"
    /\ WantStop \/ UNCHANGED <<state, work>>
    /\ starter' = "idle"
    /\ waiting' = waiting \ {"starter"}
    /\ UNCHANGED <<tid_tx, start, addba_req_num, timers, tx_stop, station,
                   pc, caller, drv, txpath, peer>>

(* The rate control starts over, for example from the receive path when    *)
(* the peer changes its SMPS mode.                                         *)
ieee80211_stop_tx_ba_session ==
    /\ hashed
    /\ WantStop
    /\ UNCHANGED <<tid_tx, start, addba_req_num, timers, tx_stop, station,
                   holder, drv, txpath, starter, peer>>

(* sta_addba_resp_timer_expired(): tests RESPONSE_RECEIVED, then stops.    *)
RespTimerFires ==
    /\ addba_resp_timer = "armed"
    /\ addba_resp_timer' = IF Has("RESPONSE_RECEIVED") THEN "off" ELSE "running"
    /\ UNCHANGED <<tid_tx, state, start, addba_req_num, session_timer, tx_stop,
                    station, work, holder, drv, txpath, starter, peer>>

sta_addba_resp_timer_expired ==
    /\ addba_resp_timer = "running"
    /\ addba_resp_timer' = "off"
    /\ WantStop
    /\ UNCHANGED <<tid_tx, start, addba_req_num, session_timer, tx_stop,
                   station, holder, drv, txpath, starter, peer>>

(* sta_tx_agg_session_timer_expired(): tests STOPPING, then re-arms the    *)
(* timer if there was traffic, or stops.                                   *)
SessionTimerFires ==
    /\ session_timer = "armed"
    /\ session_timer' = IF Has("STOPPING") THEN "off" ELSE "running"
    /\ UNCHANGED <<tid_tx, state, start, addba_req_num, addba_resp_timer,
                   tx_stop, station, work, holder, drv, txpath, starter, peer>>

sta_tx_agg_session_timer_expired ==
    /\ session_timer = "running"
    /\ \/ session_timer' = "armed" /\ UNCHANGED <<state, work>>
       \/ session_timer' = "off" /\ WantStop
    /\ UNCHANGED <<tid_tx, start, addba_req_num, addba_resp_timer, tx_stop,
                   station, holder, drv, txpath, starter, peer>>

(* The driver is ready, some time after it was asked to start.             *)
ieee80211_start_tx_ba_cb_irqsafe ==
    /\ drv = "starting"
    /\ drv' = "ready"
    /\ IF hashed /\ tid_tx # 0
       THEN state' = state \cup {"START_CB"} /\ work' = TRUE
       ELSE UNCHANGED <<state, work>>
    /\ UNCHANGED <<tid_tx, start, addba_req_num, timers, tx_stop, station,
                   holder, txpath, starter, peer>>

(* The driver has transmitted what it had queued and stopped.              *)
StopCbWithoutWork ==
    /\ drv = "stopping"
    /\ drv' = "off"
    /\ IF hashed /\ tid_tx # 0
       THEN state' = state \cup {"STOP_CB"} /\ UNCHANGED work
       ELSE UNCHANGED <<state, work>>
    /\ UNCHANGED <<tid_tx, start, addba_req_num, timers, tx_stop, station,
                   holder, txpath, starter, peer>>

ieee80211_stop_tx_ba_cb_irqsafe ==
    /\ drv = "stopping"
    /\ drv' = "off"
    /\ IF hashed /\ tid_tx # 0
       THEN state' = state \cup {"STOP_CB"} /\ work' = TRUE
       ELSE UNCHANGED <<state, work>>
    /\ UNCHANGED <<tid_tx, start, addba_req_num, timers, tx_stop, station,
                   holder, txpath, starter, peer>>

----------------------------------------------------------------------------
(* The transmit path: the driver pulls frames with ieee80211_tx_dequeue()  *)
(* in an RCU read-side critical section.                                   *)

txrest == <<session, station, work, pc, caller, drv, starter, peer>>

(* It may until it is told that the station is gone, and gets nothing      *)
(* while the queues are stopped.                                           *)
TxBegin(c) ==
    /\ tx[c].step = "idle"
    /\ pc # "cleanup" /\ ~gone
    /\ ~in_reconfig
    /\ tx' = [tx EXCEPT ![c] = At("loop")]
    /\ UNCHANGED <<txrest, waiting, txq_stop, txq_ampdu, frags, tid_seq>>

(* A fragment left over goes first, also from a stopped TXQ.               *)
TxFragment(c) ==
    /\ tx[c].step = "loop"
    /\ \E s \in frags : /\ \A r \in frags : s <= r
                        /\ tx' = [tx EXCEPT ![c] = [step |-> "frame", seq |-> s,
                                                   ampdu |-> FALSE]]
                        /\ frags' = frags \ {s}
    /\ UNCHANGED <<txrest, waiting, txq_stop, txq_ampdu, tid_seq>>

(* A new frame leaves the flow queues under fq->lock ...                   *)
TxPick(c) ==
    /\ tx[c].step = "loop"
    /\ frags = {}
    /\ ~txq_stop
    /\ tx' = [tx EXCEPT ![c] = At("picked")]
    /\ UNCHANGED <<txrest, waiting, txq_stop, txq_ampdu, frags, tid_seq>>

(* ... and is given its flags and sequence number outside the lock; the    *)
(* later fragments of a frame that is not part of an A-MPDU are put aside. *)
TxProcess(c) ==
    /\ tx[c].step = "picked"
    /\ tid_seq < MaxSeq
    /\ tx' = [tx EXCEPT ![c] = [step |-> "frame", seq |-> tid_seq,
                               ampdu |-> txq_ampdu]]
    /\ tid_seq' = tid_seq + 1
    /\ \/ UNCHANGED frags
       \/ /\ Fragmentation /\ ~txq_ampdu
          /\ frags' = frags \cup {tid_seq}
    /\ UNCHANGED <<txrest, waiting, txq_stop, txq_ampdu>>

(* The next frame, which also finds out about stopped queues.              *)
TxAgain(c) ==
    IF in_reconfig
    THEN tx' = [tx EXCEPT ![c] = At("idle")] /\ waiting' = waiting \ {c}
    ELSE tx' = [tx EXCEPT ![c] = At("loop")] /\ UNCHANGED waiting

(* ... unless it is dropped: port not authorized, no key, no memory.       *)
TxDrop(c) ==
    /\ tx[c].step = "picked"
    /\ TxAgain(c)
    /\ UNCHANGED <<txrest, txq_stop, txq_ampdu, frags, tid_seq>>

(* The driver has the frame.                                               *)
TxDriver(c) ==
    /\ tx[c].step = "frame"
    /\ TxAgain(c)
    /\ UNCHANGED <<txrest, txq_stop, txq_ampdu, frags, tid_seq>>

(* The driver stops pulling: nothing left, or its own queue is full.       *)
TxEnd(c) ==
    /\ tx[c].step = "loop"
    /\ tx' = [tx EXCEPT ![c] = At("idle")]
    /\ waiting' = waiting \ {c}
    /\ UNCHANGED <<txrest, txq_stop, txq_ampdu, frags, tid_seq>>

----------------------------------------------------------------------------
(* The holder of the wiphy mutex.                                          *)

softirq == <<tx, starter>>

(* It goes on with the next step, or gives the mutex back.                 *)
Goto(next) ==
    /\ pc' = next
    /\ caller' = IF next = "free" THEN "none" ELSE caller

(* ieee80211_ba_session_work(), for this TID.  A pending start stops the   *)
(* TXQ; if fragments are still queued it is retried later, else the struct *)
(* goes live.                                                              *)
WorkCollect ==
    /\ pc = "free" /\ work /\ ~gone
    /\ ~block_ba /\ tid_start_tx # 0
    /\ work' = FALSE
    /\ txq_stop' = TRUE
    /\ caller' = "start"
    /\ IF frags # {}
       THEN /\ pc' = "frags"
            /\ SynchronizeNet
            /\ UNCHANGED <<tid_tx, state, tid_start_tx>>
       ELSE /\ pc' = "start"
            /\ tid_start_tx' = 0
            /\ IF tid_tx # 0 THEN UNCHANGED <<tid_tx, state>>
               ELSE tid_tx' = tid_start_tx /\ state' = {"WANT_START"}
            /\ UNCHANGED waiting
    /\ UNCHANGED <<dialog_token_allocator, addba_req_num, timers, tx_stop,
                   station, drv, txq_ampdu, frags, tid_seq, softirq, peer>>

WorkRequeue ==
    /\ pc = "frags" /\ waiting = {}
    /\ work' = TRUE
    /\ Goto("free")
    /\ UNCHANGED <<session, station, waiting, drv, txpath, starter,
                   peer>>

(* No start to collect: look at the flags of the live session, if any.     *)
WorkFlags ==
    /\ pc = "free" /\ work /\ ~gone
    /\ block_ba \/ tid_start_tx = 0
    /\ work' = FALSE
    /\ IF tid_tx = 0 THEN UNCHANGED <<pc, caller>>
       ELSE pc' = "start_cb" /\ caller' = "work"
    /\ UNCHANGED <<session, station, waiting, drv, txpath, starter, peer>>

(* ieee80211_tx_ba_session_handle_start().                                 *)
HandleStart ==
    /\ pc = "start"
    /\ state' = state \ {"WANT_START"}
    /\ SynchronizeNet
    /\ pc' = "start_sync"
    /\ UNCHANGED <<tid_tx, start, addba_req_num, timers, tx_stop, station,
                   work, caller, drv, txpath, starter, peer>>

DrvStart ==
    /\ pc = "start_sync" /\ waiting = {}
    /\ drv' = "starting"
    /\ pc' = "start_ret"
    /\ UNCHANGED <<tid_tx, state, start, addba_req_num, timers, tx_stop,
                   station, work, caller, waiting, txpath, starter, peer>>

startrest == <<start, addba_req_num, timers, tx_stop, station, work,
               waiting, frags, tid_seq, softirq, peer>>

(* What drv_ampdu_action(START) returns: 0 or DELAY_ADDBA with the         *)
(* callback to come or already come, IMMEDIATE, or an error.               *)
StartAccepted ==
    /\ pc = "start_ret"
    /\ Goto("addba") \/ Goto("free")
    /\ UNCHANGED <<startrest, tid_tx, state, drv, txq_stop, txq_ampdu>>

StartImmediate ==
    /\ pc = "start_ret" /\ drv = "starting"
    /\ drv' = "ready"
    /\ state' = state \cup {"DRV_READY"}
    /\ Goto("addba")
    /\ UNCHANGED <<startrest, tid_tx, txq_stop, txq_ampdu>>

StartDenied ==
    /\ pc = "start_ret" /\ drv = "starting"
    /\ drv' = "off"
    /\ tid_tx' = 0 /\ state' = {}
    /\ txq_stop' = FALSE /\ txq_ampdu' = FALSE
    /\ Goto("free")
    /\ UNCHANGED startrest

(* ieee80211_send_addba_with_timeout(): warns and does nothing when a stop *)
(* has been requested.  Called from the start, where the worker is done    *)
(* with the TID, and from the start callback, where it goes on.            *)
AddbaWithoutTimeout ==
    /\ pc = "addba"
    /\ IF Has("STOPPING") \/ Has("WANT_STOP")
       THEN UNCHANGED <<state, addba_resp_timer, addba_req_num, sent>>
       ELSE /\ UNCHANGED addba_resp_timer
            /\ addba_req_num' = addba_req_num + 1
            /\ sent' = sent \cup {<<"addba", tid_tx>>}
            /\ state' = state \cup {"SENT_ADDBA"}
    /\ Goto(IF caller = "start" THEN "free" ELSE "want_stop")
    /\ UNCHANGED <<tid_tx, start, session_timer, tx_stop, station, work,
                   waiting, drv, txpath, starter, ended>>

ieee80211_send_addba_with_timeout ==
    /\ pc = "addba"
    /\ IF Has("STOPPING") \/ Has("WANT_STOP")
       THEN UNCHANGED <<state, addba_resp_timer, addba_req_num, sent>>
       ELSE /\ addba_resp_timer' = "armed"
            /\ addba_req_num' = addba_req_num + 1
            /\ sent' = sent \cup {<<"addba", tid_tx>>}
            /\ state' = state \cup {"SENT_ADDBA"}
    /\ Goto(IF caller = "start" THEN "free" ELSE "want_stop")
    /\ UNCHANGED <<tid_tx, start, session_timer, tx_stop, station, work,
                   waiting, drv, txpath, starter, ended>>

(* ieee80211_start_tx_ba_cb(), when the driver has called back.            *)
ieee80211_start_tx_ba_cb ==
    /\ pc = "start_cb"
    /\ IF block_ba \/ ~Has("START_CB")
       THEN pc' = "want_stop" /\ UNCHANGED state
       ELSE /\ state' = (state \ {"START_CB"}) \cup {"DRV_READY"}
            /\ pc' = IF \/ Has("DRV_READY")
                        \/ Has("STOPPING") \/ Has("WANT_STOP") THEN "want_stop"
                     ELSE IF ~Has("SENT_ADDBA") THEN "addba"
                     ELSE IF Has("RESPONSE_RECEIVED") THEN "oper"
                     ELSE "want_stop"
    /\ UNCHANGED <<tid_tx, start, addba_req_num, timers, tx_stop, station,
                   work, caller, waiting, drv, txpath, starter, peer>>

(* ieee80211_agg_tx_operational(): first the driver ...                    *)
DrvOperational ==
    /\ pc = "oper"
    /\ drv' = "operational"
    /\ pc' = "oper_set"
    /\ UNCHANGED <<session, station, work, caller, waiting, txpath, starter,
                   peer>>

(* ... then the flag and, with ieee80211_agg_start_txq(), the TXQ.         *)
ieee80211_agg_tx_operational ==
    /\ pc = "oper_set"
    /\ state' = state \cup {"OPERATIONAL"}
    /\ txq_stop' = FALSE /\ txq_ampdu' = TRUE
    /\ pc' = IF caller = "resp" THEN "resp_done" ELSE "want_stop"
    /\ UNCHANGED <<tid_tx, start, addba_req_num, timers, tx_stop, station,
                   work, caller, waiting, drv, frags, tid_seq, softirq, peer>>

(* The worker takes up a requested stop ...                                *)
WorkWantStop ==
    /\ pc = "want_stop"
    /\ state' = state \ {"WANT_STOP"}
    /\ pc' = IF Has("WANT_STOP") THEN "stop" ELSE "stop_cb"
    /\ UNCHANGED <<tid_tx, start, addba_req_num, timers, tx_stop,
                   station, work, caller, waiting, drv, txpath, starter, peer>>

(* The reason the callers of __ieee80211_stop_tx_ba_session() give ...     *)
Reason == CASE caller = "resp" -> "DECLINED"
            [] caller = "delba" -> "PEER_REQUEST"
            [] caller \in {"destroy1", "destroy2"} -> "DESTROY_STA"
            [] OTHER -> "LOCAL_REQUEST"

(* ... and where they go on.                                               *)
AfterStop == CASE caller = "work" -> "stop_cb"
               [] caller = "restart" -> "reconfigured"
               [] caller \in {"destroy1", "destroy2"} -> "destroyed"
               [] OTHER -> "free"

(* __ieee80211_stop_tx_ba_session() under sta->lock: a pending start is    *)
(* dropped; nothing more happens without a session, or with one that is    *)
(* already stopping, except that a destruction is passed on to the driver. *)
StopNothing ==
    /\ pc = "stop"
    /\ tid_tx = 0 \/ Has("STOPPING")
    /\ tid_start_tx' = 0
    /\ drv' = IF tid_tx # 0 /\ Reason = "DESTROY_STA" THEN "off" ELSE drv
    /\ Goto(AfterStop)
    /\ UNCHANGED <<tid_tx, state, dialog_token_allocator, addba_req_num,
                   timers, tx_stop, station, work, waiting, txpath, starter,
                   peer>>

(* A session that has not been started is freed; else the stop begins.     *)
__ieee80211_stop_tx_ba_session ==
    /\ pc = "stop"
    /\ tid_tx # 0 /\ ~Has("STOPPING")
    /\ tid_start_tx' = 0
    /\ IF Has("WANT_START")
       THEN tid_tx' = 0 /\ state' = {} /\ Goto(AfterStop) /\ UNCHANGED txq_stop
       ELSE /\ state' = state \cup {"STOPPING"}
            /\ txq_stop' = TRUE
            /\ Goto("stop_resp_timer")
            /\ UNCHANGED tid_tx
    /\ UNCHANGED <<dialog_token_allocator, addba_req_num, timers, tx_stop,
                   station, work, waiting, drv, txq_ampdu, frags,
                   tid_seq, softirq, peer>>

StopRespTimer ==
    /\ pc = "stop_resp_timer"
    /\ TimerDeleteSync(addba_resp_timer, addba_resp_timer')
    /\ pc' = "stop_session_timer"
    /\ UNCHANGED <<tid_tx, state, start, addba_req_num, session_timer, tx_stop,
                    station, work, caller, waiting, drv, txpath, starter, peer>>

(* The wait for the transmit paths is left out during a hardware restart.  *)
StopWithoutSync ==
    /\ pc = "stop_session_timer"
    /\ TimerDeleteSync(session_timer, session_timer')
    /\ state' = state \ {"OPERATIONAL"}
    /\ UNCHANGED waiting
    /\ pc' = "stop_sync"
    /\ UNCHANGED <<tid_tx, start, addba_req_num, addba_resp_timer, tx_stop,
                   station, work, caller, drv, txpath, starter, peer>>

StopSessionTimer ==
    /\ pc = "stop_session_timer"
    /\ TimerDeleteSync(session_timer, session_timer')
    /\ state' = state \ {"OPERATIONAL"}
    /\ IF in_reconfig THEN UNCHANGED waiting ELSE SynchronizeNet
    /\ pc' = "stop_sync"
    /\ UNCHANGED <<tid_tx, start, addba_req_num, addba_resp_timer, tx_stop,
                   station, work, caller, drv, txpath, starter, peer>>

DrvStopOnlyReady ==
    /\ pc = "stop_sync" /\ waiting = {}
    /\ tx_stop' = (Reason = "LOCAL_REQUEST" /\ Has("DRV_READY"))
    /\ ended' = IF Reason \in {"PEER_REQUEST", "DECLINED"}
                THEN ended \cup {tid_tx} ELSE ended
    /\ drv' = IF Reason = "DESTROY_STA" THEN "off" ELSE "stopping"
    /\ Goto(AfterStop)
    /\ UNCHANGED <<tid_tx, state, start, addba_req_num, timers,
                    station, work, waiting, txpath, starter, sent>>

DrvStop ==
    /\ pc = "stop_sync" /\ waiting = {}
    /\ tx_stop' = (Reason = "LOCAL_REQUEST")
    /\ ended' = IF Reason \in {"PEER_REQUEST", "DECLINED"}
                THEN ended \cup {tid_tx} ELSE ended
    /\ drv' = IF Reason = "DESTROY_STA" THEN "off" ELSE "stopping"
    /\ Goto(AfterStop)
    /\ UNCHANGED <<tid_tx, state, start, addba_req_num, timers,
                    station, work, waiting, txpath, starter, sent>>

(* ieee80211_stop_tx_ba_cb(): ieee80211_remove_tid_tx(), restart the TXQ   *)
(* without aggregation, tell the peer.                                     *)
RemoveTidTx ==
    /\ tid_tx' = 0 /\ state' = {}
    /\ txq_stop' = FALSE /\ txq_ampdu' = FALSE
    /\ sent' = IF tx_stop THEN sent \cup {<<"delba", tid_tx>>} ELSE sent

ieee80211_stop_tx_ba_cb ==
    /\ pc = "stop_cb"
    /\ IF Has("STOP_CB") /\ Has("STOPPING") THEN RemoveTidTx
       ELSE /\ state' = state \ {"STOP_CB"}
            /\ UNCHANGED <<tid_tx, txq_stop, txq_ampdu, sent>>
    /\ Goto("free")
    /\ UNCHANGED <<start, addba_req_num, timers, tx_stop, station, work,
                   waiting, drv, frags, tid_seq, softirq, ended>>

----------------------------------------------------------------------------
(* Frames from the peer, handled under the wiphy mutex.  A response may    *)
(* come late, twice or never, and answers a request that was sent: the     *)
(* code only compares its token with the session's.  in_reconfig is tested *)
(* before the queue of received frames is taken up, so that a frame may    *)
(* still be handled after it was set.                                      *)

ieee80211_process_addba_resp(token, success) ==
    /\ pc = "free" /\ hashed
    /\ <<"addba", token>> \in sent
    /\ token = tid_tx
    /\ pc' = IF success THEN "resp_ok" ELSE "resp_declined"
    /\ caller' = "resp"
    /\ UNCHANGED <<session, station, work, waiting, drv, txpath, starter,
                   peer>>

(* The timer is stopped for good first; the response counts only if no     *)
(* stop was requested meanwhile, and only once.                            *)
AcceptedEarly ==
    /\ pc = "resp_ok"
    /\ TimerDeleteSync(addba_resp_timer, addba_resp_timer')
    /\ IF Has("WANT_STOP") \/ Has("STOPPING") \/ Has("RESPONSE_RECEIVED")
       THEN Goto("free") /\ UNCHANGED state
       ELSE /\ state' = state \cup {"RESPONSE_RECEIVED"}
            /\ Goto("oper")
    /\ UNCHANGED <<tid_tx, start, addba_req_num, session_timer, tx_stop,
                   station, work, waiting, drv, txpath, starter, peer>>

AcceptedLate ==
    /\ pc = "resp_ok"
    /\ TimerDeleteSync(addba_resp_timer, addba_resp_timer')
    /\ IF Has("WANT_STOP") \/ Has("RESPONSE_RECEIVED")
       THEN Goto("free") /\ UNCHANGED state
       ELSE /\ state' = state \cup {"RESPONSE_RECEIVED"}
            /\ Goto(IF Has("DRV_READY") THEN "oper" ELSE "resp_done")
    /\ UNCHANGED <<tid_tx, start, addba_req_num, session_timer, tx_stop,
                   station, work, waiting, drv, txpath, starter, peer>>

RespAccepted ==
    /\ pc = "resp_ok"
    /\ TimerDeleteSync(addba_resp_timer, addba_resp_timer')
    /\ IF Has("WANT_STOP") \/ Has("STOPPING") \/ Has("RESPONSE_RECEIVED")
       THEN Goto("free") /\ UNCHANGED state
       ELSE /\ state' = state \cup {"RESPONSE_RECEIVED"}
            /\ Goto(IF Has("DRV_READY") THEN "oper" ELSE "resp_done")
    /\ UNCHANGED <<tid_tx, start, addba_req_num, session_timer, tx_stop,
                   station, work, waiting, drv, txpath, starter, peer>>

(* The response may ask for a session timeout.                             *)
RespDone ==
    /\ pc = "resp_done"
    /\ addba_req_num' = 0
    /\ session_timer' \in {session_timer, "armed"}
    /\ Goto("free")
    /\ UNCHANGED <<tid_tx, state, start, addba_resp_timer, tx_stop,
                   station, work, waiting, drv, txpath, starter, peer>>

RespDeclined ==
    /\ pc = "resp_declined"
    /\ TimerDeleteSync(addba_resp_timer, addba_resp_timer')
    /\ IF Has("WANT_STOP") \/ Has("STOPPING")
       THEN Goto("free")
       ELSE Goto("stop")
    /\ UNCHANGED <<tid_tx, state, start, addba_req_num, session_timer,
                   tx_stop, station, work, waiting, drv, txpath, starter, peer>>

stoprest == <<tid_tx, state, start, addba_req_num, timers, tx_stop,
             hashed, gone, in_reconfig, work, waiting, drv, txpath, starter,
             peer>>

ieee80211_process_delba ==
    /\ pc = "free" /\ hashed
    /\ pc' = "stop" /\ caller' = "delba"
    /\ UNCHANGED <<stoprest, block_ba>>

(* Rekeying, suspend or a TID reservation blocks new sessions and stops    *)
(* the present one.                                                        *)
TearDown ==
    /\ pc = "free" /\ hashed
    /\ block_ba' = TRUE
    /\ pc' = "stop" /\ caller' = "teardown"
    /\ UNCHANGED stoprest

(* New key installed, resumed, reservation over.                           *)
Unblock ==
    /\ pc = "free" /\ hashed /\ block_ba
    /\ block_ba' = FALSE
    /\ UNCHANGED <<session, hashed, gone, in_reconfig, work, holder, drv,
                   txpath, starter, peer>>

(* A hardware restart.  The driver reports the failure from any context:   *)
(* the queues are stopped and in_reconfig is set without the mutex.        *)
ieee80211_restart_hw ==
    /\ hashed /\ ~in_reconfig
    /\ in_reconfig' = TRUE
    /\ UNCHANGED <<session, block_ba, hashed, gone, work, holder, drv, txpath,
                   starter, peer>>

(* The work it queues runs all pending works, waits for the transmit paths *)
(* ...                                                                     *)
ieee80211_restart_work ==
    /\ pc = "free" /\ hashed /\ in_reconfig
    /\ ~work
    /\ SynchronizeNet
    /\ pc' = "restart_sync" /\ caller' = "restart"
    /\ UNCHANGED <<session, station, work, drv, txpath, starter, peer>>

(* ... reconfigures the hardware, tears the sessions down ...              *)
ReconfigTearDown ==
    /\ pc = "restart_sync" /\ waiting = {}
    /\ pc' = "stop"
    /\ UNCHANGED <<session, station, work, caller, waiting, drv, txpath,
                   starter, peer>>

(* ... and opens the station and the queues again.                         *)
ieee80211_reconfig ==
    /\ pc = "reconfigured"
    /\ block_ba' = FALSE
    /\ in_reconfig' = FALSE
    /\ Goto("free")
    /\ UNCHANGED <<session, hashed, gone, work, waiting, drv, txpath, starter,
                   peer>>

(* __sta_info_destroy_part1(): block, tear down ...                        *)
DestroyPart1 ==
    /\ pc = "free" /\ hashed
    /\ block_ba' = TRUE
    /\ pc' = "stop" /\ caller' = "destroy1"
    /\ UNCHANGED stoprest

(* ... and at the end of the tear-down cancel the worker and finish a stop *)
(* that the driver has reported.                                           *)
DestroyTearDown ==
    /\ pc = "destroyed"
    /\ work' = FALSE
    /\ IF Has("STOP_CB") /\ Has("STOPPING") THEN RemoveTidTx
       ELSE /\ state' = state \ {"STOP_CB"}
            /\ UNCHANGED <<tid_tx, txq_stop, txq_ampdu, sent>>
    /\ pc' = IF caller = "destroy1" THEN "unhash" ELSE "cleanup"
    /\ UNCHANGED <<start, addba_req_num, timers, tx_stop, station, caller,
                   waiting, drv, frags, tid_seq, softirq, ended>>

(* The station can no longer be found; wait for those who have found it.   *)
Unhash ==
    /\ pc = "unhash"
    /\ hashed' = FALSE
    /\ SynchronizeNet
    /\ pc' = "destroy_sync"
    /\ UNCHANGED <<session, block_ba, gone, in_reconfig, work, caller, drv,
                   txpath, starter, peer>>

(* __sta_info_destroy_part2(): do it again, now that nobody can find it.   *)
DestroyOnce ==
    /\ pc = "destroy_sync" /\ waiting = {}
    /\ pc' = "cleanup" /\ caller' = "destroy2"
    /\ UNCHANGED <<stoprest, block_ba>>

DestroyPart2 ==
    /\ pc = "destroy_sync" /\ waiting = {}
    /\ pc' = "stop" /\ caller' = "destroy2"
    /\ UNCHANGED <<stoprest, block_ba>>

(* cleanup_single_sta() frees what is left of the session with the         *)
(* station.                                                                *)
CleanupSta ==
    /\ pc = "cleanup"
    /\ tid_tx' = 0 /\ state' = {} /\ tid_start_tx' = 0 /\ frags' = {}
    /\ gone' = TRUE
    /\ Goto("free")
    /\ UNCHANGED <<dialog_token_allocator, addba_req_num, timers, tx_stop,
                   block_ba, hashed, in_reconfig, work, waiting, drv,
                   txq_stop, txq_ampdu, tid_seq, softirq, peer>>

----------------------------------------------------------------------------
Softirq ==
    \/ StartCheck \/ StartRefused \/ StartAgain
    \/ ieee80211_start_tx_ba_session
    \/ StopAfterAgain
    \/ ieee80211_stop_tx_ba_session
    \/ RespTimerFires \/ sta_addba_resp_timer_expired
    \/ SessionTimerFires \/ sta_tx_agg_session_timer_expired
    \/ ieee80211_start_tx_ba_cb_irqsafe
    \/ ieee80211_stop_tx_ba_cb_irqsafe
    \/ ieee80211_restart_hw

Transmit(c) ==
    TxBegin(c) \/ TxFragment(c) \/ TxPick(c) \/ TxProcess(c) \/ TxDrop(c)
      \/ TxDriver(c) \/ TxEnd(c)

(* The worker gets the mutex.                                              *)
Work == WorkCollect \/ WorkFlags

(* The steps of a handler that has begun.                                  *)
Holder ==
    \/ WorkRequeue
    \/ HandleStart \/ DrvStart
    \/ StartAccepted \/ StartImmediate \/ StartDenied
    \/ ieee80211_send_addba_with_timeout
    \/ ieee80211_start_tx_ba_cb
    \/ DrvOperational \/ ieee80211_agg_tx_operational
    \/ WorkWantStop
    \/ StopNothing \/ __ieee80211_stop_tx_ba_session
    \/ StopRespTimer \/ StopSessionTimer \/ DrvStop
    \/ ieee80211_stop_tx_ba_cb
    \/ RespAccepted \/ RespDone \/ RespDeclined
    \/ ReconfigTearDown \/ ieee80211_reconfig
    \/ DestroyTearDown \/ Unhash \/ DestroyPart2 \/ CleanupSta

(* What makes another handler take the mutex.                              *)
Requests ==
    \/ \E t \in Tokens, ok \in BOOLEAN : ieee80211_process_addba_resp(t, ok)
    \/ ieee80211_process_delba
    \/ TearDown
    \/ Unblock
    \/ ieee80211_restart_work
    \/ DestroyPart1

Next ==
    \/ Softirq
    \/ \E c \in Cpus : Transmit(c)
    \/ Work \/ Holder \/ Requests

Spec == Init /\ [][Next]_vars

(***************************************************************************)
(* The holder of the mutex is scheduled, and the worker, or the restart    *)
(* that runs it first, gets its turn even if other handlers keep taking    *)
(* the mutex; an expired timer runs; softirqs and RCU read-side sections   *)
(* end (a driver pulls a bounded number of frames at a time); the driver   *)
(* keeps its promise to call back; a blocked station is unblocked unless   *)
(* it is destroyed.  Nobody has to ask for sessions, answer, tear down, or *)
(* restart the hardware.                                                   *)
(***************************************************************************)
Fairness ==
    /\ WF_vars(Holder) /\ SF_vars(Work \/ ieee80211_restart_work)
    /\ WF_vars(RespTimerFires) /\ WF_vars(sta_addba_resp_timer_expired)
    /\ WF_vars(sta_tx_agg_session_timer_expired)
    /\ WF_vars(StartRefused \/ StartAgain \/ ieee80211_start_tx_ba_session)
    /\ WF_vars(StopAfterAgain)
    /\ WF_vars(ieee80211_start_tx_ba_cb_irqsafe)
    /\ WF_vars(ieee80211_stop_tx_ba_cb_irqsafe)
    /\ \A c \in Cpus : /\ WF_vars(TxProcess(c) \/ TxDrop(c))
                        /\ WF_vars(TxDriver(c))
                        /\ SF_vars(TxEnd(c))
    /\ SF_vars(Unblock)

FairSpec == Spec /\ Fairness

----------------------------------------------------------------------------
(***************************************************************************)
(* There is never a struct in the start array while a session is live:     *)
(* where the worker moves it over, "could there be a race?" is answered no.*)
(***************************************************************************)
OneSession == tid_tx = 0 \/ tid_start_tx = 0

(***************************************************************************)
(* When a session's struct is freed both of its timers are stopped, with   *)
(* no handler running: the warnings in ieee80211_remove_tid_tx() and in    *)
(* the other places that free it do not trigger.                           *)
(***************************************************************************)
TimersStoppedFirst ==
    tid_tx = 0 => addba_resp_timer = "off" /\ session_timer = "off"

(***************************************************************************)
(* A session is operational only when the peer has accepted it and the     *)
(* driver is ready and has been told.                                      *)
(***************************************************************************)
OperationalAgreed ==
    Has("OPERATIONAL") =>
        /\ {"DRV_READY", "SENT_ADDBA", "RESPONSE_RECEIVED"} \subseteq state
        /\ drv = "operational"

(***************************************************************************)
(* A frame marked for an A-MPDU is on its way to the driver only while the *)
(* driver's session is operational: none arrives after the driver was told *)
(* to stop, which "could confuse the driver".  The exception is a hardware *)
(* restart: a stop then does not wait for the transmit paths.  It lasts    *)
(* until the restart has waited for them itself, before it stops sessions. *)
(***************************************************************************)
AmpduOnlyInSession ==
    \A c \in Cpus : tx[c].ampdu =>
        \/ drv = "operational"
        \/ in_reconfig /\ (caller = "restart" => pc = "restart_sync")

(***************************************************************************)
(* While the driver sets up a session no frame of the TID is on its way to *)
(* it, so the starting sequence number is valid.                           *)
(***************************************************************************)
QuietDuringSetup ==
    drv \in {"starting", "ready"} => \A c \in Cpus : tx[c].step \in {"idle", "loop"}

(***************************************************************************)
(* The peer is not left with a session of ours that is over: it was asked  *)
(* for one, and it ended it itself, or was sent a DELBA, or the station is *)
(* being removed.                                                          *)
(***************************************************************************)
PeerNotLeftBehind ==
    \A t \in Tokens :
        <<"addba", t>> \in sent /\ t # tid_tx =>
            <<"delba", t>> \in sent \/ t \in ended \/ ~hashed

(***************************************************************************)
(* A freed station leaves nothing behind that would use it: no worker, no  *)
(* timer, no request in progress.  This is why it is torn down twice.      *)
(***************************************************************************)
StationFreedQuietly ==
    gone => /\ ~work
            /\ addba_resp_timer = "off" /\ session_timer = "off"
            /\ starter = "idle"
            /\ tid_start_tx = 0

(***************************************************************************)
(* The u8 counter of unanswered requests stays within one of the limit.    *)
(***************************************************************************)
RetriesBounded == addba_req_num <= HT_AGG_MAX_RETRIES + 1

(***************************************************************************)
(* While sessions are blocked, for a rekeying for example, and the mutex   *)
(* is free, no session is alive other than one that is stopping, and no    *)
(* frame of an A-MPDU is on its way, unless the hardware is restarted.     *)
(***************************************************************************)
BlockedWithoutAmpdu ==
    block_ba /\ pc = "free" =>
        /\ tid_tx = 0 \/ Has("STOPPING")
        /\ in_reconfig \/ \A c \in Cpus : ~(tx[c].ampdu)

(***************************************************************************)
(* The driver's callbacks find the session they are about: the warning in  *)
(* ieee80211_lookup_tid_tx() does not trigger.                             *)
(***************************************************************************)
CallbackFindsSession ==
    hashed =>
        /\ drv = "starting" => tid_tx # 0
        /\ drv = "stopping" => tid_tx # 0 /\ Has("STOPPING")

(***************************************************************************)
(* The TXQ is stopped only for a session that is live or about to be.      *)
(***************************************************************************)
TxqReleased ==
    txq_stop /\ pc = "free" /\ hashed => tid_tx # 0 \/ tid_start_tx # 0

(***************************************************************************)
(* Once it is stopping, a session only goes away: no late response and no  *)
(* late callback makes it operational again.                               *)
(***************************************************************************)
NoRevival ==
    [][Has("STOPPING") /\ tid_tx' = tid_tx =>
          /\ "STOPPING" \in state'
          /\ "OPERATIONAL" \in state' => Has("OPERATIONAL")]_vars

(***************************************************************************)
(* A session that is being set up becomes operational or goes away, also   *)
(* when the response or the driver's callback is late or the peer never    *)
(* answers.                                                                *)
(***************************************************************************)
SetupEnds == tid_tx # 0 ~> tid_tx = 0 \/ Has("OPERATIONAL")

(***************************************************************************)
(* A stop, once begun, frees the session.                                  *)
(***************************************************************************)
StopEnds == Has("STOPPING") ~> tid_tx = 0

(***************************************************************************)
(* "The work item will collect it and move it to the normal array": a      *)
(* struct in the start array does not stay there.                          *)
(***************************************************************************)
StartCollected == tid_start_tx # 0 ~> tid_start_tx = 0

=============================================================================
