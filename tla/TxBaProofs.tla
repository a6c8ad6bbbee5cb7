----------------------------- MODULE TxBaProofs -----------------------------
(***************************************************************************)
(* The safety properties of TxBa hold for any number of CPUs, sessions,    *)
(* retries and frames.  They rest on one inductive invariant, which says   *)
(* for every place the holder of the wiphy mutex can be at what it may     *)
(* rely on.                                                                *)
(***************************************************************************)
EXTENDS TxBa, TLAPS

(* Some of the steps below need more than the five seconds of the default. *)
USE SMTT(30)

Starting == {"start", "start_sync", "start_ret"}
Stopping == {"stop_resp_timer", "stop_session_timer", "stop_sync"}
Operating == {"oper", "oper_set", "resp_done"}
Restarting == {"restart_sync", "reconfigured"}
Destroying == {"destroyed", "unhash", "destroy_sync", "cleanup"}
WithSession == Starting \cup Stopping \cup Operating
                 \cup {"addba", "start_cb", "want_stop", "resp_ok", "resp_declined"}

(* Which session and which flags there are, and where.                     *)
FlagsInv ==
    /\ tid_tx = 0 \/ tid_start_tx = 0
    /\ pc \in WithSession => tid_tx # 0
    /\ Has("WANT_START") => pc = "start"
    /\ pc \in Starting => state \subseteq {"WANT_START", "WANT_STOP", "START_CB"}
    /\ pc \in Stopping => Has("STOPPING")
    /\ pc \in Operating => ~Has("STOPPING")
    /\ pc \in Destroying => tid_tx = 0 \/ Has("STOPPING")
    /\ pc \in Starting => caller = "start"
    /\ pc \in {"start_cb", "want_stop", "stop_cb"} => caller = "work"
    /\ pc = "addba" => caller \in {"start", "work"}
    /\ pc \in {"oper", "oper_set"} => caller \in {"work", "resp"}
    /\ pc \in {"resp_ok", "resp_declined"} => caller = "resp"
    /\ pc \in Stopping \cup {"stop"} =>
         caller \in Callers \ {"none", "start"}
    /\ pc \in Destroying => caller \in {"destroy1", "destroy2"}
    /\ pc \in Restarting => caller = "restart"
    /\ caller = "restart" => pc \in Restarting \cup Stopping \cup {"stop"}
    /\ pc = "reconfigured" => tid_tx = 0 \/ Has("STOPPING")
    /\ block_ba => tid_tx = 0 \/ Has("STOPPING") \/ pc = "stop"

(* The timers run only for a session that has been started and not stopped.*)
TimersInv ==
    /\ tid_tx = 0 => addba_resp_timer = "off" /\ session_timer = "off"
    /\ pc \in Starting => addba_resp_timer = "off" /\ session_timer = "off"
    /\ Has("STOPPING") /\ pc \notin Stopping =>
         addba_resp_timer = "off" /\ session_timer = "off"
    /\ pc = "stop_session_timer" => addba_resp_timer = "off"
    /\ pc = "stop_sync" => addba_resp_timer = "off" /\ session_timer = "off"

(* The driver's side follows the flags.                                    *)
DriverInv ==
    /\ tid_tx = 0 => drv = "off"
    /\ pc \in {"start", "start_sync"} => drv = "off"
    /\ pc \in Starting => drv \in {"off", "starting", "ready"}
    /\ drv = "stopping" => Has("STOPPING") /\ pc \notin Stopping
    /\ Has("STOPPING") /\ pc \notin Stopping => drv \in {"stopping", "off"}
    /\ Has("STOP_CB") => Has("STOPPING") /\ pc \notin Stopping /\ drv = "off"
    /\ pc \in Destroying => drv = "off"
    /\ Has("OPERATIONAL") =>
         /\ {"DRV_READY", "SENT_ADDBA", "RESPONSE_RECEIVED"} \subseteq state
         /\ drv = "operational"
    /\ pc \in {"oper", "oper_set"} =>
         {"DRV_READY", "SENT_ADDBA", "RESPONSE_RECEIVED"} \subseteq state
    /\ pc = "oper_set" => drv = "operational"
    /\ pc = "stop_sync" => ~Has("OPERATIONAL")

(* Tokens are fresh, requests are counted, and a session that was asked    *)
(* for is not forgotten.                                                   *)
PeerInv ==
    /\ tid_tx <= dialog_token_allocator /\ tid_start_tx <= dialog_token_allocator
    /\ \A t \in Tokens : <<"addba", t>> \in sent =>
         /\ t # 0 /\ t <= dialog_token_allocator
         /\ t # tid_start_tx
         /\ t = tid_tx => Has("SENT_ADDBA")
    /\ Has("RESPONSE_RECEIVED") \/ pc = "resp_ok" => Has("SENT_ADDBA")
    /\ pc = "addba" => ~Has("SENT_ADDBA")
    /\ addba_req_num <= HT_AGG_MAX_RETRIES + 1
    /\ tid_start_tx # 0 => addba_req_num <= HT_AGG_MAX_RETRIES
    /\ tid_tx # 0 /\ ~Has("SENT_ADDBA") => addba_req_num <= HT_AGG_MAX_RETRIES
    /\ \A t \in Tokens : <<"addba", t>> \in sent /\ t # tid_tx =>
         <<"delba", t>> \in sent \/ t \in ended \/ ~hashed
    /\ Has("STOPPING") /\ pc \notin Stopping =>
         \/ tx_stop \/ tid_tx \in ended
         \/ /\ pc \in Destroying \/ (pc = "stop" /\ caller = "destroy2")
            /\ ~Has("STOP_CB")

(* The transmit path is quiet when it has to be.                           *)
TxInv ==
    /\ Has("STOPPING") \/ pc \in Starting => txq_stop
    /\ \A c \in Cpus : tx[c].ampdu => tx[c].step = "frame"
    /\ drv # "operational" /\ txq_ampdu => txq_stop
    /\ drv # "operational" =>
         \/ in_reconfig
         \/ /\ \A c \in Cpus : ~(tx[c].ampdu)
            /\ txq_ampdu => \A c \in Cpus : tx[c].step # "picked"
    /\ caller = "restart" =>
         /\ in_reconfig
         /\ \A c \in Cpus : \/ tx[c].step = "idle"
                            \/ pc = "restart_sync" /\ c \in waiting
    /\ pc = "stop_sync" /\ ~in_reconfig =>
         \A c \in Cpus \ waiting : tx[c].step # "picked" /\ ~(tx[c].ampdu)
    /\ ~Fragmentation =>
         /\ frags = {}
         /\ pc # "frags"
         /\ txq_stop => tid_tx # 0 \/ ~hashed
         /\ drv \in {"starting", "ready"} =>
              txq_stop /\ \A c \in Cpus : tx[c].step \in {"idle", "loop"}
         /\ pc = "start_sync" =>
              \A c \in Cpus \ waiting : tx[c].step \in {"idle", "loop"}

(* Destruction: nobody is left who could use the station.                  *)
DestroyInv ==
    /\ caller \in {"destroy1", "destroy2"} =>
         /\ block_ba
         /\ gone \/ pc \in Stopping \cup {"stop"} \cup Destroying
    /\ pc \in {"destroy_sync", "cleanup"} => ~hashed
    /\ caller = "destroy2" => ~hashed /\ starter = "idle"
    /\ pc = "cleanup" => caller = "destroy2" /\ ~work
    /\ pc = "unhash" => caller = "destroy1"
    /\ ~hashed /\ starter # "idle" => pc = "destroy_sync" /\ "starter" \in waiting
    /\ ~hashed =>
         \/ gone /\ pc = "free"
         \/ pc \in {"destroy_sync", "cleanup"}
         \/ caller = "destroy2" /\ pc \in Stopping \cup {"stop", "destroyed"}
    /\ gone => /\ ~hashed /\ ~work /\ tid_tx = 0 /\ tid_start_tx = 0
               /\ pc = "free" /\ starter = "idle"

IInv == /\ TypeOK /\ FlagsInv /\ TimersInv /\ DriverInv /\ PeerInv /\ TxInv
        /\ DestroyInv

----------------------------------------------------------------------------
(* ieee80211_stop_tx_ba_session() never marks a session that is not there. *)
LEMMA WantStopType ==
    ASSUME TypeOK, WantStop
    PROVE  state' \subseteq Flags /\ work' \in BOOLEAN /\ (tid_tx = 0 => state' = {})
BY Zenon DEF WantStop, TypeOK, Flags

(* Every step of every handler keeps the types.                            *)
LEMMA TypeStep ==
    ASSUME TypeOK, FlagsInv, [Next]_vars PROVE TypeOK'
<1> USE ConstantsAssumption DEF TypeOK, start, timers, session, station,
   holder, txpath, peer, softirq, txrest, startrest, stoprest
<1>1. CASE StartCheck
  BY <1>1 DEF StartCheck
<1>2. CASE StartRefused
  BY <1>2 DEF StartRefused, InFlow, TooManyTries
<1>3. CASE StartAgain
  BY <1>3 DEF StartAgain, InFlow, TooManyTries
<1>4. CASE ieee80211_start_tx_ba_session
  BY <1>4 DEF ieee80211_start_tx_ba_session, InFlow, TooManyTries, Tokens
<1>5. CASE StopAfterAgain
  <2>1. state' \subseteq Flags /\ work' \in BOOLEAN /\ (tid_tx = 0 => state' = {})
    BY WantStopType, <1>5, Zenon DEF StopAfterAgain
  <2> QED
    BY <1>5, <2>1 DEF StopAfterAgain, Timer
<1>6. CASE ieee80211_stop_tx_ba_session
  <2>1. state' \subseteq Flags /\ work' \in BOOLEAN /\ (tid_tx = 0 => state' = {})
    BY WantStopType, <1>6, Zenon DEF ieee80211_stop_tx_ba_session
  <2> QED
    BY <1>6, <2>1 DEF ieee80211_stop_tx_ba_session, Timer
<1>7. CASE RespTimerFires
  BY <1>7 DEF RespTimerFires, Timer
<1>8. CASE sta_addba_resp_timer_expired
  <2>1. state' \subseteq Flags /\ work' \in BOOLEAN /\ (tid_tx = 0 => state' = {})
    BY WantStopType, <1>8, Zenon DEF sta_addba_resp_timer_expired
  <2> QED
    BY <1>8, <2>1 DEF sta_addba_resp_timer_expired, Timer
<1>9. CASE SessionTimerFires
  BY <1>9 DEF SessionTimerFires, Timer
<1>10. CASE sta_tx_agg_session_timer_expired
  <2>1. state' \subseteq Flags /\ work' \in BOOLEAN /\ (tid_tx = 0 => state' = {})
    BY WantStopType, <1>10, Zenon DEF sta_tx_agg_session_timer_expired
  <2> QED
    BY <1>10, <2>1 DEF sta_tx_agg_session_timer_expired, Timer
<1>11. CASE ieee80211_start_tx_ba_cb_irqsafe
  BY <1>11, Zenon DEF ieee80211_start_tx_ba_cb_irqsafe, Flags
<1>12. CASE ieee80211_stop_tx_ba_cb_irqsafe
  BY <1>12, ZenonT(30) DEF ieee80211_stop_tx_ba_cb_irqsafe, Flags
<1>13. CASE WorkCollect
  <2>1. tid_tx' \in Tokens /\ tid_start_tx' \in Tokens
    BY <1>13 DEF WorkCollect, Tokens
  <2>2. state' \subseteq Flags /\ (tid_tx' = 0 => state' = {})
    BY <1>13, Zenon DEF WorkCollect, Flags
  <2>3. pc' \in PCs /\ waiting' \subseteq Readers
    BY <1>13, Zenon DEF WorkCollect, PCs, SynchronizeNet, ActiveReaders,
       Readers
  <2> QED
    BY <1>13, <2>1, <2>2, <2>3, Zenon DEF WorkCollect, Callers
<1>14. CASE WorkFlags
  <2>1. pc' \in PCs /\ caller' \in Callers
    BY <1>14, Zenon DEF WorkFlags, PCs, Callers
  <2> QED
    BY <1>14, <2>1, Zenon DEF WorkFlags
<1>15. CASE WorkRequeue
  BY <1>15 DEF WorkRequeue, PCs, Goto, Callers
<1>16. CASE HandleStart
  BY <1>16 DEF HandleStart, SynchronizeNet, ActiveReaders, Readers, PCs
<1>17. CASE DrvStart
  BY <1>17 DEF DrvStart, PCs
<1>18. CASE StartAccepted
  BY <1>18 DEF StartAccepted, PCs, Goto, Callers
<1>19. CASE StartImmediate
  BY <1>19 DEF StartImmediate, FlagsInv, WithSession, Starting, Operating,
     Stopping, Flags, PCs, Goto, Callers
<1>20. CASE StartDenied
  <2>1. tid_tx' \in Tokens /\ state' = {} /\ pc' \in PCs
    BY <1>20 DEF StartDenied, Tokens, PCs, Goto, Callers
  <2> QED
    BY <1>20, <2>1, Zenon DEF StartDenied, Goto, Callers
<1>21. CASE ieee80211_send_addba_with_timeout
  <2>1. tid_tx # 0
    BY <1>21, Zenon DEF ieee80211_send_addba_with_timeout, FlagsInv,
       WithSession, Goto, Callers
  <2>2. state' \subseteq Flags
    BY <1>21, Zenon DEF ieee80211_send_addba_with_timeout, Flags, Goto, Callers
  <2>3. addba_resp_timer' \in Timer
    BY <1>21, Zenon DEF ieee80211_send_addba_with_timeout, Timer, Goto, Callers
  <2>4. addba_req_num' \in Nat
    BY <1>21 DEF ieee80211_send_addba_with_timeout, Goto, Callers
  <2>5. sent' \subseteq ({"addba", "delba"} \X Tokens)
    BY <1>21 DEF ieee80211_send_addba_with_timeout, Goto, Callers
  <2>6. pc' \in PCs
    BY <1>21, Zenon DEF ieee80211_send_addba_with_timeout, PCs, Goto, Callers
  <2> QED
    BY <1>21, <2>1, <2>2, <2>3, <2>4, <2>5, <2>6 DEF
       ieee80211_send_addba_with_timeout, Goto, Callers
<1>22. CASE ieee80211_start_tx_ba_cb
  <2>1. state' \subseteq Flags /\ pc' \in PCs /\ tid_tx # 0
    BY <1>22, Zenon DEF ieee80211_start_tx_ba_cb, Flags, PCs, FlagsInv,
       WithSession
  <2> QED
    BY <1>22, <2>1 DEF ieee80211_start_tx_ba_cb
<1>23. CASE DrvOperational
  BY <1>23 DEF DrvOperational, PCs
<1>24. CASE ieee80211_agg_tx_operational
  BY <1>24, Zenon DEF ieee80211_agg_tx_operational, FlagsInv, WithSession,
     Starting, Operating, Stopping, Flags, PCs
<1>25. CASE WorkWantStop
  BY <1>25 DEF WorkWantStop, PCs
<1>26. CASE StopNothing
  BY <1>26 DEF StopNothing, PCs, AfterStop, Tokens, Goto, Callers, Reason
<1>27. CASE __ieee80211_stop_tx_ba_session
  <2>1. tid_tx' \in Tokens /\ tid_start_tx' \in Tokens
    BY <1>27 DEF __ieee80211_stop_tx_ba_session, Tokens, Goto, Callers
  <2>2. state' \subseteq Flags /\ (tid_tx' = 0 => state' = {})
    BY <1>27, Zenon DEF __ieee80211_stop_tx_ba_session, Flags, Goto, Callers
  <2>3. pc' \in PCs
    BY <1>27, Zenon DEF __ieee80211_stop_tx_ba_session, PCs, AfterStop, Goto,
       Callers
  <2>4. txq_stop' \in BOOLEAN
    BY <1>27, Zenon DEF __ieee80211_stop_tx_ba_session, Goto, Callers
  <2> QED
    BY <1>27, <2>1, <2>2, <2>3, <2>4 DEF __ieee80211_stop_tx_ba_session, Goto,
       Callers
<1>28. CASE StopRespTimer
  BY <1>28 DEF StopRespTimer, PCs, Timer, TimerDeleteSync
<1>29. CASE StopSessionTimer
  BY <1>29 DEF StopSessionTimer, PCs, Timer, TimerDeleteSync, SynchronizeNet,
     ActiveReaders, Readers
<1>30. CASE DrvStop
  BY <1>30 DEF DrvStop, PCs, AfterStop, Goto, Callers, Reason
<1>31. CASE ieee80211_stop_tx_ba_cb
  <2>1. tid_tx' \in Tokens
    BY <1>31 DEF ieee80211_stop_tx_ba_cb, RemoveTidTx, Tokens, Goto, Callers
  <2>2. state' \subseteq Flags /\ (tid_tx' = 0 => state' = {})
    BY <1>31, Zenon DEF ieee80211_stop_tx_ba_cb, RemoveTidTx, Goto, Callers
  <2>3. sent' \subseteq ({"addba", "delba"} \X Tokens)
    BY <1>31 DEF ieee80211_stop_tx_ba_cb, RemoveTidTx, Goto, Callers
  <2>4. txq_stop' \in BOOLEAN /\ txq_ampdu' \in BOOLEAN
    BY <1>31, Zenon DEF ieee80211_stop_tx_ba_cb, RemoveTidTx, Goto, Callers
  <2>5. pc' \in PCs
    BY <1>31, Zenon DEF ieee80211_stop_tx_ba_cb, PCs, Goto, Callers
  <2> QED
    BY <1>31, <2>1, <2>2, <2>3, <2>4, <2>5 DEF ieee80211_stop_tx_ba_cb, Goto,
       Callers
<1>32. CASE RespAccepted
  <2>1. state' \subseteq Flags /\ addba_resp_timer' \in Timer /\ pc' \in PCs /\ tid_tx # 0
    BY <1>32, Zenon DEF RespAccepted, TimerDeleteSync, Timer, Flags, PCs,
       FlagsInv, WithSession, Goto, Callers
  <2> QED
    BY <1>32, <2>1 DEF RespAccepted, Goto, Callers
<1>33. CASE RespDone
  BY <1>33 DEF RespDone, PCs, Timer, Goto, Callers
<1>34. CASE RespDeclined
  BY <1>34 DEF RespDeclined, PCs, Timer, TimerDeleteSync, Goto, Callers
<1>35. CASE DestroyTearDown
  <2>1. tid_tx' \in Tokens
    BY <1>35 DEF DestroyTearDown, RemoveTidTx, Tokens
  <2>2. state' \subseteq Flags /\ (tid_tx' = 0 => state' = {})
    BY <1>35, Zenon DEF DestroyTearDown, RemoveTidTx
  <2>3. sent' \subseteq ({"addba", "delba"} \X Tokens)
    BY <1>35 DEF DestroyTearDown, RemoveTidTx
  <2>4. txq_stop' \in BOOLEAN /\ txq_ampdu' \in BOOLEAN
    BY <1>35, Zenon DEF DestroyTearDown, RemoveTidTx
  <2>5. pc' \in PCs
    BY <1>35, Zenon DEF DestroyTearDown, PCs
  <2> QED
    BY <1>35, <2>1, <2>2, <2>3, <2>4, <2>5, Zenon DEF DestroyTearDown
<1>36. CASE Unhash
  <2>1. pc' \in PCs /\ waiting' \in SUBSET Readers
    BY <1>36, Zenon DEF Unhash, PCs, SynchronizeNet, ActiveReaders, Readers
  <2> QED
    BY <1>36, <2>1, Zenon DEF Unhash
<1>37. CASE DestroyPart2
  BY <1>37 DEF DestroyPart2, PCs, Callers
<1>38. CASE CleanupSta
  BY <1>38 DEF CleanupSta, PCs, Tokens, Goto, Callers
<1>39. CASE ieee80211_process_delba
  BY <1>39 DEF ieee80211_process_delba, PCs, Callers
<1>40. CASE Unblock
  BY <1>40, Zenon DEF Unblock
<1>41. CASE DestroyPart1
  BY <1>41 DEF DestroyPart1, PCs, Callers
<1>42. CASE TearDown
  BY <1>42 DEF TearDown, PCs, Callers
<1>43. ASSUME NEW t \in Tokens, NEW ok \in BOOLEAN,
             ieee80211_process_addba_resp(t, ok)
      PROVE  TypeOK'
  BY <1>43 DEF ieee80211_process_addba_resp, PCs, Callers
<1>44. ASSUME NEW c \in Cpus, TxBegin(c) PROVE TypeOK'
  BY <1>44 DEF TxBegin, Dequeue, At
<1>45. ASSUME NEW c \in Cpus, TxFragment(c) PROVE TypeOK'
  BY <1>45 DEF TxFragment, Dequeue, At
<1>46. ASSUME NEW c \in Cpus, TxPick(c) PROVE TypeOK'
  BY <1>46 DEF TxPick, Dequeue, At
<1>47. ASSUME NEW c \in Cpus, TxProcess(c) PROVE TypeOK'
  <2>1. tid_seq' \in 0 .. MaxSeq
    BY <1>47 DEF TxProcess
  <2>3. frags' \subseteq 0 .. MaxSeq
    BY <1>47, ZenonT(30) DEF TxProcess
  <2>2. tx' \in [Cpus -> Dequeue]
    BY <1>47, Zenon DEF TxProcess, Dequeue
  <2> QED
    BY <1>47, <2>1, <2>2, <2>3 DEF TxProcess
<1>48. ASSUME NEW c \in Cpus, TxDrop(c) PROVE TypeOK'
  <2>0. At("idle") \in Dequeue /\ At("loop") \in Dequeue
    BY DEF Dequeue, At
  <2>1. tx' \in [Cpus -> Dequeue]
    BY <1>48, <2>0, Zenon DEF TxDrop, TxAgain
  <2>2. waiting' \subseteq Readers
    BY <1>48, Zenon DEF TxDrop, TxAgain
  <2> QED
    BY <1>48, <2>1, <2>2 DEF TxDrop
<1>49. ASSUME NEW c \in Cpus, TxDriver(c) PROVE TypeOK'
  <2>0. At("idle") \in Dequeue /\ At("loop") \in Dequeue
    BY DEF Dequeue, At
  <2>1. tx' \in [Cpus -> Dequeue]
    BY <1>49, <2>0, Zenon DEF TxDriver, TxAgain
  <2>2. waiting' \subseteq Readers
    BY <1>49, Zenon DEF TxDriver, TxAgain
  <2> QED
    BY <1>49, <2>1, <2>2 DEF TxDriver
<1>50. ASSUME NEW c \in Cpus, TxEnd(c) PROVE TypeOK'
  BY <1>50 DEF TxEnd, Dequeue, At
<1>51. CASE UNCHANGED vars
  BY <1>51 DEF vars
<1>52. CASE ieee80211_restart_hw
  BY <1>52, Zenon DEF ieee80211_restart_hw
<1>53. CASE ieee80211_restart_work
  <2>1. pc' \in PCs /\ caller' \in Callers /\ waiting' \in SUBSET Readers
    BY <1>53, Zenon DEF ieee80211_restart_work, PCs, Callers, SynchronizeNet,
       ActiveReaders, Readers
  <2> QED
    BY <1>53, <2>1, Zenon DEF ieee80211_restart_work
<1>54. CASE ReconfigTearDown
  <2>1. pc' \in PCs
    BY <1>54, Zenon DEF ReconfigTearDown, PCs
  <2> QED
    BY <1>54, <2>1 DEF ReconfigTearDown
<1>55. CASE ieee80211_reconfig
  BY <1>55, Zenon DEF ieee80211_reconfig, Goto, PCs, Callers
<1> QED
  BY <1>1, <1>2, <1>3, <1>4, <1>5, <1>6, <1>7, <1>8, <1>9, <1>10, <1>11, <1>12,
     <1>13, <1>14, <1>15, <1>16, <1>17, <1>18, <1>19, <1>20, <1>21, <1>22,
     <1>23, <1>24, <1>25, <1>26, <1>27, <1>28, <1>29, <1>30, <1>31, <1>32,
     <1>33, <1>34, <1>35, <1>36, <1>37, <1>38, <1>39, <1>40, <1>41, <1>42,
     <1>43, <1>44, <1>45, <1>46, <1>47, <1>48, <1>49, <1>50, <1>51, <1>52,
     <1>53, <1>54, <1>55, Zenon DEF Next, Softirq, Work, Holder, Requests,
     Transmit

(* The flags of the session and the place the holder is at agree.          *)
LEMMA FlagsStep ==
    ASSUME TypeOK, FlagsInv, DriverInv, PeerInv, [Next]_vars
    PROVE  FlagsInv'
<1>0. tid_tx = 0 => state = {}
  BY Zenon DEF TypeOK
<1> USE ConstantsAssumption, <1>0 DEF FlagsInv, Starting, Stopping, Operating,
   Restarting, Destroying, WithSession, Callers, Has
<1>1. CASE UNCHANGED <<tid_tx, tid_start_tx, pc, state, caller,
                        block_ba>>
  BY <1>1, Zenon
<1>2. CASE ieee80211_start_tx_ba_session
  BY <1>2, Zenon DEF ieee80211_start_tx_ba_session, InFlow, TooManyTries, peer,
     station, timers, txpath
<1>3. CASE StopAfterAgain
  BY <1>3 DEF StopAfterAgain, WantStop, peer, start, station, timers, txpath
<1>4. CASE ieee80211_stop_tx_ba_session
  BY <1>4 DEF ieee80211_stop_tx_ba_session, WantStop, holder, peer, start,
     station, timers, txpath
<1>5. CASE sta_addba_resp_timer_expired
  BY <1>5 DEF sta_addba_resp_timer_expired, WantStop, holder, peer, start,
     station, txpath
<1>6. CASE sta_tx_agg_session_timer_expired
  BY <1>6 DEF sta_tx_agg_session_timer_expired, WantStop, holder, peer, start,
     station, txpath
<1>7. CASE ieee80211_start_tx_ba_cb_irqsafe
  BY <1>7 DEF ieee80211_start_tx_ba_cb_irqsafe, holder, peer, start, station,
     timers, txpath
<1>8. CASE ieee80211_stop_tx_ba_cb_irqsafe
  BY <1>8 DEF ieee80211_stop_tx_ba_cb_irqsafe, holder, peer, start, station,
     timers, txpath, DriverInv
<1>9. CASE WorkCollect
  BY <1>9, Zenon DEF WorkCollect, SynchronizeNet, ActiveReaders, peer, softirq,
     station, timers
<1>10. CASE WorkFlags
  BY <1>10, Zenon DEF WorkFlags, peer, session, start, station, timers, txpath
<1>11. CASE WorkRequeue
  BY <1>11, Zenon DEF WorkRequeue, peer, session, start, station, timers,
     txpath, Goto
<1>12. CASE HandleStart
  BY <1>12, Zenon DEF HandleStart, SynchronizeNet, ActiveReaders, peer, start,
     station, timers, txpath
<1>13. CASE DrvStart
  BY <1>13, Zenon DEF DrvStart, peer, start, station, timers, txpath
<1>14. CASE StartAccepted
  BY <1>14, Zenon DEF StartAccepted, peer, softirq, start, startrest, station,
     timers, Goto
<1>15. CASE StartImmediate
  BY <1>15, Zenon DEF StartImmediate, peer, softirq, start, startrest, station,
     timers, Goto
<1>16. CASE StartDenied
  BY <1>16, Zenon DEF StartDenied, peer, softirq, start, startrest, station,
     timers, Goto
<1>17. CASE ieee80211_send_addba_with_timeout
  BY <1>17 DEF ieee80211_send_addba_with_timeout, start, station, txpath, Goto
<1>18. CASE ieee80211_start_tx_ba_cb
  BY <1>18 DEF ieee80211_start_tx_ba_cb, peer, start, station, timers, txpath
<1>19. CASE DrvOperational
  BY <1>19, Zenon DEF DrvOperational, peer, session, start, station, timers,
     txpath
<1>20. CASE ieee80211_agg_tx_operational
  BY <1>20, Zenon DEF ieee80211_agg_tx_operational, peer, softirq, start,
     station, timers
<1>21. CASE WorkWantStop
  BY <1>21, Zenon DEF WorkWantStop, peer, start, station, timers, txpath
<1>22. CASE StopNothing
  BY <1>22, Zenon DEF StopNothing, AfterStop, peer, station, timers, txpath,
     Goto, Reason
<1>23. CASE __ieee80211_stop_tx_ba_session
  BY <1>23 DEF __ieee80211_stop_tx_ba_session, AfterStop, peer, softirq,
     station, timers, Goto
<1>24. CASE StopRespTimer
  BY <1>24, Zenon DEF StopRespTimer, TimerDeleteSync, peer, start, station,
     txpath
<1>25. CASE StopSessionTimer
  BY <1>25, Zenon DEF StopSessionTimer, SynchronizeNet, TimerDeleteSync,
     ActiveReaders, peer, start, station, txpath
<1>26. CASE DrvStop
  BY <1>26, Zenon DEF DrvStop, AfterStop, start, station, timers, txpath, Goto,
     Reason
<1>27. CASE ieee80211_stop_tx_ba_cb
  BY <1>27, Zenon DEF ieee80211_stop_tx_ba_cb, RemoveTidTx, softirq, start,
     station, timers, Goto
<1>28. CASE RespAccepted
  BY <1>28 DEF RespAccepted, TimerDeleteSync, peer, start, station, txpath,
     Goto
<1>29. CASE RespDone
  BY <1>29, Zenon DEF RespDone, peer, start, station, txpath, Goto
<1>30. CASE RespDeclined
  BY <1>30, Zenon DEF RespDeclined, TimerDeleteSync, peer, start, station,
     txpath, Goto
<1>31. CASE DestroyTearDown
  BY <1>31, Zenon DEF DestroyTearDown, RemoveTidTx, softirq, start, station,
     timers
<1>32. CASE Unhash
  BY <1>32, Zenon DEF Unhash, SynchronizeNet, ActiveReaders, peer, session,
     start, timers, txpath
<1>33. CASE DestroyPart2
  BY <1>33, Zenon DEF DestroyPart2, peer, start, stoprest, timers, txpath
<1>34. CASE CleanupSta
  BY <1>34, Zenon DEF CleanupSta, peer, softirq, timers, Goto
<1>35. CASE ieee80211_process_delba
  BY <1>35, Zenon DEF ieee80211_process_delba, peer, start, stoprest, timers,
     txpath
<1>36. CASE Unblock
  BY <1>36, Zenon DEF Unblock, holder, peer, session, start, timers, txpath
<1>37. CASE DestroyPart1
  BY <1>37, Zenon DEF DestroyPart1, peer, start, stoprest, timers, txpath
<1>38. CASE TearDown
  BY <1>38, Zenon DEF TearDown, peer, start, stoprest, timers, txpath
<1>39. ASSUME NEW t \in Tokens, NEW ok \in BOOLEAN,
             ieee80211_process_addba_resp(t, ok)
      PROVE  FlagsInv'
  BY <1>39, Zenon DEF ieee80211_process_addba_resp, peer, session, start,
     station, timers, txpath, PeerInv
<1>40. CASE \/ StartCheck \/ StartRefused \/ StartAgain \/ RespTimerFires
           \/ SessionTimerFires \/ (\E c \in Cpus : Transmit(c))
           \/ UNCHANGED vars
  BY <1>1, <1>40, Zenon DEF StartCheck, StartRefused, StartAgain,
     RespTimerFires, SessionTimerFires, TxBegin, TxFragment, TxPick, TxProcess,
     TxDrop, TxDriver, TxEnd, Transmit, holder, peer, session, start, station,
     timers, txpath, txrest, vars, TxAgain
<1>41. CASE ieee80211_restart_hw
  BY <1>41, Zenon DEF ieee80211_restart_hw, holder, peer, session, start,
     timers, txpath
<1>42. CASE ieee80211_restart_work
  BY <1>42, Zenon DEF ieee80211_restart_work, SynchronizeNet, ActiveReaders,
     peer, session, start, station, timers, txpath
<1>43. CASE ReconfigTearDown
  BY <1>43, Zenon DEF ReconfigTearDown, peer, session, start, station, timers,
     txpath
<1>44. CASE ieee80211_reconfig
  BY <1>44, Zenon DEF ieee80211_reconfig, Goto, peer, session, start, timers,
     txpath
<1> QED
  BY <1>1, <1>2, <1>3, <1>4, <1>5, <1>6, <1>7, <1>8, <1>9, <1>10, <1>11, <1>12,
     <1>13, <1>14, <1>15, <1>16, <1>17, <1>18, <1>19, <1>20, <1>21, <1>22,
     <1>23, <1>24, <1>25, <1>26, <1>27, <1>28, <1>29, <1>30, <1>31, <1>32,
     <1>33, <1>34, <1>35, <1>36, <1>37, <1>38, <1>39, <1>40, <1>41, <1>42,
     <1>43, <1>44, Zenon DEF Next, Softirq, Transmit, Work, Holder, Requests

(* No timer outlives its session.                                          *)
LEMMA TimersStep ==
    ASSUME TypeOK, FlagsInv, TimersInv, [Next]_vars
    PROVE  TimersInv'
<1>0. tid_tx = 0 => state = {}
  BY Zenon DEF TypeOK
<1> USE ConstantsAssumption, <1>0 DEF FlagsInv, TimersInv, Starting, Stopping,
   Operating, Restarting, Destroying, WithSession, Has
<1>1. CASE UNCHANGED <<tid_tx, pc, state, addba_resp_timer, session_timer>>
  BY <1>1, Zenon
<1>2. CASE StopAfterAgain
  BY <1>2 DEF StopAfterAgain, WantStop, peer, start, station, timers, txpath
<1>3. CASE ieee80211_stop_tx_ba_session
  BY <1>3 DEF ieee80211_stop_tx_ba_session, WantStop, holder, peer, start,
     station, timers, txpath
<1>4. CASE RespTimerFires
  BY <1>4, Zenon DEF RespTimerFires, holder, peer, start, station, txpath
<1>5. CASE sta_addba_resp_timer_expired
  BY <1>5 DEF sta_addba_resp_timer_expired, WantStop, holder, peer, start,
     station, txpath
<1>6. CASE SessionTimerFires
  BY <1>6, Zenon DEF SessionTimerFires, holder, peer, start, station, txpath
<1>7. CASE sta_tx_agg_session_timer_expired
  BY <1>7 DEF sta_tx_agg_session_timer_expired, WantStop, holder, peer, start,
     station, txpath
<1>8. CASE ieee80211_start_tx_ba_cb_irqsafe
  BY <1>8 DEF ieee80211_start_tx_ba_cb_irqsafe, holder, peer, start, station,
     timers, txpath
<1>9. CASE ieee80211_stop_tx_ba_cb_irqsafe
  BY <1>9 DEF ieee80211_stop_tx_ba_cb_irqsafe, holder, peer, start, station,
     timers, txpath
<1>10. CASE WorkCollect
  BY <1>10, Zenon DEF WorkCollect, SynchronizeNet, ActiveReaders, peer,
     softirq, station, timers
<1>11. CASE WorkFlags
  BY <1>11, Zenon DEF WorkFlags, peer, session, start, station, timers, txpath
<1>12. CASE WorkRequeue
  BY <1>12, Zenon DEF WorkRequeue, peer, session, start, station, timers,
     txpath, Goto
<1>13. CASE HandleStart
  BY <1>13, Zenon DEF HandleStart, SynchronizeNet, ActiveReaders, peer, start,
     station, timers, txpath
<1>14. CASE DrvStart
  BY <1>14, Zenon DEF DrvStart, peer, start, station, timers, txpath
<1>15. CASE StartAccepted
  BY <1>15, Zenon DEF StartAccepted, peer, softirq, start, startrest, station,
     timers, Goto
<1>16. CASE StartImmediate
  BY <1>16, Zenon DEF StartImmediate, peer, softirq, start, startrest, station,
     timers, Goto
<1>17. CASE StartDenied
  BY <1>17, Zenon DEF StartDenied, peer, softirq, start, startrest, station,
     timers, Goto
<1>18. CASE ieee80211_send_addba_with_timeout
  BY <1>18 DEF ieee80211_send_addba_with_timeout, start, station, txpath, Goto
<1>19. CASE ieee80211_start_tx_ba_cb
  BY <1>19 DEF ieee80211_start_tx_ba_cb, peer, start, station, timers, txpath
<1>20. CASE DrvOperational
  BY <1>20, Zenon DEF DrvOperational, peer, session, start, station, timers,
     txpath
<1>21. CASE ieee80211_agg_tx_operational
  BY <1>21, Zenon DEF ieee80211_agg_tx_operational, peer, softirq, start,
     station, timers
<1>22. CASE WorkWantStop
  BY <1>22, Zenon DEF WorkWantStop, peer, start, station, timers, txpath
<1>23. CASE StopNothing
  BY <1>23, Zenon DEF StopNothing, AfterStop, peer, station, timers, txpath,
     Goto, Reason
<1>24. CASE __ieee80211_stop_tx_ba_session
  BY <1>24, Zenon DEF __ieee80211_stop_tx_ba_session, AfterStop, peer, softirq,
     station, timers, Goto
<1>25. CASE StopRespTimer
  BY <1>25, Zenon DEF StopRespTimer, TimerDeleteSync, peer, start, station,
     txpath
<1>26. CASE StopSessionTimer
  BY <1>26, Zenon DEF StopSessionTimer, SynchronizeNet, TimerDeleteSync,
     ActiveReaders, peer, start, station, txpath
<1>27. CASE DrvStop
  BY <1>27, Zenon DEF DrvStop, AfterStop, start, station, timers, txpath, Goto,
     Reason
<1>28. CASE ieee80211_stop_tx_ba_cb
  BY <1>28, Zenon DEF ieee80211_stop_tx_ba_cb, RemoveTidTx, softirq, start,
     station, timers, Goto
<1>29. CASE RespAccepted
  BY <1>29 DEF RespAccepted, TimerDeleteSync, peer, start, station, txpath,
     Goto
<1>30. CASE RespDone
  BY <1>30, Zenon DEF RespDone, peer, start, station, txpath, Goto
<1>31. CASE RespDeclined
  BY <1>31, Zenon DEF RespDeclined, TimerDeleteSync, peer, start, station,
     txpath, Goto
<1>32. CASE DestroyTearDown
  BY <1>32, Zenon DEF DestroyTearDown, RemoveTidTx, softirq, start, station,
     timers
<1>33. CASE Unhash
  BY <1>33, Zenon DEF Unhash, SynchronizeNet, ActiveReaders, peer, session,
     start, timers, txpath
<1>34. CASE DestroyPart2
  BY <1>34, Zenon DEF DestroyPart2, peer, start, stoprest, timers, txpath
<1>35. CASE CleanupSta
  BY <1>35, Zenon DEF CleanupSta, peer, softirq, timers, Goto
<1>36. CASE ieee80211_process_delba
  BY <1>36, Zenon DEF ieee80211_process_delba, peer, start, stoprest, timers,
     txpath
<1>37. CASE DestroyPart1
  BY <1>37, Zenon DEF DestroyPart1, peer, start, stoprest, timers, txpath
<1>38. CASE TearDown
  BY <1>38, Zenon DEF TearDown, peer, start, stoprest, timers, txpath
<1>39. ASSUME NEW t \in Tokens, NEW ok \in BOOLEAN,
             ieee80211_process_addba_resp(t, ok)
      PROVE  TimersInv'
  BY <1>39, Zenon DEF ieee80211_process_addba_resp, peer, session, start,
     station, timers, txpath
<1>40. CASE \/ StartCheck \/ StartRefused \/ StartAgain
           \/ ieee80211_start_tx_ba_session \/ Unblock
           \/ (\E c \in Cpus : Transmit(c)) \/ UNCHANGED vars
  BY <1>1, <1>40, Zenon DEF StartCheck, StartRefused, StartAgain,
     ieee80211_start_tx_ba_session, Unblock, TxBegin, TxFragment, TxPick,
     TxProcess, TxDrop, TxDriver, TxEnd, Transmit, holder, peer, session,
     start, station, timers, txpath, txrest, vars, TxAgain
<1>41. CASE ieee80211_restart_hw
  BY <1>41, Zenon DEF ieee80211_restart_hw, holder, peer, session, start,
     timers, txpath
<1>42. CASE ieee80211_restart_work
  BY <1>42, Zenon DEF ieee80211_restart_work, SynchronizeNet, ActiveReaders,
     peer, session, start, station, timers, txpath
<1>43. CASE ReconfigTearDown
  BY <1>43, Zenon DEF ReconfigTearDown, peer, session, start, station, timers,
     txpath
<1>44. CASE ieee80211_reconfig
  BY <1>44, Zenon DEF ieee80211_reconfig, Goto, peer, session, start, timers,
     txpath
<1> QED
  BY <1>1, <1>2, <1>3, <1>4, <1>5, <1>6, <1>7, <1>8, <1>9, <1>10, <1>11, <1>12,
     <1>13, <1>14, <1>15, <1>16, <1>17, <1>18, <1>19, <1>20, <1>21, <1>22,
     <1>23, <1>24, <1>25, <1>26, <1>27, <1>28, <1>29, <1>30, <1>31, <1>32,
     <1>33, <1>34, <1>35, <1>36, <1>37, <1>38, <1>39, <1>40, <1>41, <1>42,
     <1>43, <1>44, Zenon DEF Next, Softirq, Transmit, Work, Holder, Requests

(* The driver is where the flags say it is.                                *)
LEMMA DriverStep ==
    ASSUME TypeOK, FlagsInv, DriverInv, PeerInv, [Next]_vars
    PROVE  DriverInv'
<1>0. tid_tx = 0 => state = {}
  BY Zenon DEF TypeOK
<1> USE ConstantsAssumption, <1>0 DEF FlagsInv, DriverInv, PeerInv, Starting,
   Stopping, Operating, Restarting, Destroying, WithSession, Has
<1>1. CASE UNCHANGED <<tid_tx, pc, state, drv>>
  BY <1>1, Zenon
<1>2. CASE StopAfterAgain
  BY <1>2 DEF StopAfterAgain, WantStop, peer, start, station, timers, txpath
<1>3. CASE ieee80211_stop_tx_ba_session
  BY <1>3 DEF ieee80211_stop_tx_ba_session, WantStop, holder, peer, start,
     station, timers, txpath
<1>4. CASE sta_addba_resp_timer_expired
  BY <1>4 DEF sta_addba_resp_timer_expired, WantStop, holder, peer, start,
     station, txpath
<1>5. CASE sta_tx_agg_session_timer_expired
  BY <1>5 DEF sta_tx_agg_session_timer_expired, WantStop, holder, peer, start,
     station, txpath
<1>6. CASE ieee80211_start_tx_ba_cb_irqsafe
  BY <1>6 DEF ieee80211_start_tx_ba_cb_irqsafe, holder, peer, start, station,
     timers, txpath
<1>7. CASE ieee80211_stop_tx_ba_cb_irqsafe
  BY <1>7 DEF ieee80211_stop_tx_ba_cb_irqsafe, holder, peer, start, station,
     timers, txpath
<1>8. CASE WorkCollect
  BY <1>8 DEF WorkCollect, SynchronizeNet, ActiveReaders, peer, softirq,
     station, timers
<1>9. CASE WorkFlags
  BY <1>9, Zenon DEF WorkFlags, peer, session, start, station, timers, txpath
<1>10. CASE WorkRequeue
  BY <1>10, Zenon DEF WorkRequeue, peer, session, start, station, timers,
     txpath, Goto
<1>11. CASE HandleStart
  BY <1>11, Zenon DEF HandleStart, SynchronizeNet, ActiveReaders, peer, start,
     station, timers, txpath
<1>12. CASE DrvStart
  BY <1>12, Zenon DEF DrvStart, peer, start, station, timers, txpath
<1>13. CASE StartAccepted
  BY <1>13, Zenon DEF StartAccepted, peer, softirq, start, startrest, station,
     timers, Goto
<1>14. CASE StartImmediate
  BY <1>14, Zenon DEF StartImmediate, peer, softirq, start, startrest, station,
     timers, Goto
<1>15. CASE StartDenied
  BY <1>15, Zenon DEF StartDenied, peer, softirq, start, startrest, station,
     timers, Goto
<1>16. CASE ieee80211_send_addba_with_timeout
  BY <1>16 DEF ieee80211_send_addba_with_timeout, start, station, txpath, Goto
<1>17. CASE ieee80211_start_tx_ba_cb
  BY <1>17 DEF ieee80211_start_tx_ba_cb, peer, start, station, timers, txpath
<1>18. CASE DrvOperational
  BY <1>18, Zenon DEF DrvOperational, peer, session, start, station, timers,
     txpath
<1>19. CASE ieee80211_agg_tx_operational
  BY <1>19, Zenon DEF ieee80211_agg_tx_operational, peer, softirq, start,
     station, timers
<1>20. CASE WorkWantStop
  BY <1>20, Zenon DEF WorkWantStop, peer, start, station, timers, txpath
<1>21. CASE StopNothing
  BY <1>21, Zenon DEF StopNothing, AfterStop, peer, station, timers, txpath,
     Goto, Reason
<1>22. CASE __ieee80211_stop_tx_ba_session
  BY <1>22 DEF __ieee80211_stop_tx_ba_session, AfterStop, peer, softirq,
     station, timers, Goto
<1>23. CASE StopRespTimer
  BY <1>23, Zenon DEF StopRespTimer, TimerDeleteSync, peer, start, station,
     txpath
<1>24. CASE StopSessionTimer
  BY <1>24, Zenon DEF StopSessionTimer, SynchronizeNet, TimerDeleteSync,
     ActiveReaders, peer, start, station, txpath
<1>25. CASE DrvStop
  BY <1>25, Zenon DEF DrvStop, AfterStop, start, station, timers, txpath, Goto,
     Reason
<1>26. CASE ieee80211_stop_tx_ba_cb
  BY <1>26, Zenon DEF ieee80211_stop_tx_ba_cb, RemoveTidTx, softirq, start,
     station, timers, Goto
<1>27. CASE RespAccepted
  BY <1>27 DEF RespAccepted, TimerDeleteSync, peer, start, station, txpath,
     Goto
<1>28. CASE RespDone
  BY <1>28, Zenon DEF RespDone, peer, start, station, txpath, Goto
<1>29. CASE RespDeclined
  BY <1>29, Zenon DEF RespDeclined, TimerDeleteSync, peer, start, station,
     txpath, Goto
<1>30. CASE DestroyTearDown
  BY <1>30, Zenon DEF DestroyTearDown, RemoveTidTx, softirq, start, station,
     timers
<1>31. CASE Unhash
  BY <1>31, Zenon DEF Unhash, SynchronizeNet, ActiveReaders, peer, session,
     start, timers, txpath
<1>32. CASE DestroyPart2
  BY <1>32, Zenon DEF DestroyPart2, peer, start, stoprest, timers, txpath
<1>33. CASE CleanupSta
  BY <1>33, Zenon DEF CleanupSta, peer, softirq, timers, Goto
<1>34. CASE ieee80211_process_delba
  BY <1>34, Zenon DEF ieee80211_process_delba, peer, start, stoprest, timers,
     txpath
<1>35. CASE DestroyPart1
  BY <1>35, Zenon DEF DestroyPart1, peer, start, stoprest, timers, txpath
<1>36. CASE TearDown
  BY <1>36, Zenon DEF TearDown, peer, start, stoprest, timers, txpath
<1>37. ASSUME NEW t \in Tokens, NEW ok \in BOOLEAN,
             ieee80211_process_addba_resp(t, ok)
      PROVE  DriverInv'
  BY <1>37, Zenon DEF ieee80211_process_addba_resp, peer, session, start,
     station, timers, txpath
<1>38. CASE \/ StartCheck \/ StartRefused \/ StartAgain
           \/ ieee80211_start_tx_ba_session \/ RespTimerFires
           \/ SessionTimerFires \/ Unblock
           \/ (\E c \in Cpus : Transmit(c)) \/ UNCHANGED vars
  BY <1>1, <1>38, Zenon DEF StartCheck, StartRefused, StartAgain,
     ieee80211_start_tx_ba_session, RespTimerFires, SessionTimerFires, Unblock,
     TxBegin, TxFragment, TxPick, TxProcess, TxDrop, TxDriver, TxEnd, Transmit,
     holder, peer, session, start, station, timers, txpath, txrest, vars,
     TxAgain
<1>39. CASE ieee80211_restart_hw
  BY <1>39, Zenon DEF ieee80211_restart_hw, holder, peer, session, start,
     timers, txpath
<1>40. CASE ieee80211_restart_work
  BY <1>40, Zenon DEF ieee80211_restart_work, SynchronizeNet, ActiveReaders,
     peer, session, start, station, timers, txpath
<1>41. CASE ReconfigTearDown
  BY <1>41, Zenon DEF ReconfigTearDown, peer, session, start, station, timers,
     txpath
<1>42. CASE ieee80211_reconfig
  BY <1>42, Zenon DEF ieee80211_reconfig, Goto, peer, session, start, timers,
     txpath
<1> QED
  BY <1>1, <1>2, <1>3, <1>4, <1>5, <1>6, <1>7, <1>8, <1>9, <1>10, <1>11, <1>12,
     <1>13, <1>14, <1>15, <1>16, <1>17, <1>18, <1>19, <1>20, <1>21, <1>22,
     <1>23, <1>24, <1>25, <1>26, <1>27, <1>28, <1>29, <1>30, <1>31, <1>32,
     <1>33, <1>34, <1>35, <1>36, <1>37, <1>38, <1>39, <1>40, <1>41, <1>42,
     Zenon DEF Next, Softirq, Transmit, Work, Holder, Requests

(* What the peer was told is remembered.                                   *)
LEMMA PeerStep ==
    ASSUME TypeOK, FlagsInv, DriverInv, PeerInv, DestroyInv, [Next]_vars
    PROVE  PeerInv'
<1> USE ConstantsAssumption DEF TypeOK, FlagsInv, DriverInv, PeerInv,
   DestroyInv, Starting, Stopping, Operating, Restarting, Destroying, WithSession, Tokens,
   Callers, Has
<1>1. CASE UNCHANGED <<tid_tx, tid_start_tx, dialog_token_allocator, sent,
                        state, pc, addba_req_num, ended, hashed, tx_stop,
                        caller>>
  BY <1>1, Zenon
<1>2. CASE ieee80211_start_tx_ba_session
  BY <1>2 DEF ieee80211_start_tx_ba_session, InFlow, TooManyTries, peer,
     station, timers, txpath
<1>3. CASE StopAfterAgain
  BY <1>3 DEF StopAfterAgain, WantStop, peer, start, station, timers, txpath
<1>4. CASE ieee80211_stop_tx_ba_session
  BY <1>4 DEF ieee80211_stop_tx_ba_session, WantStop, holder, peer, start,
     station, timers, txpath
<1>5. CASE sta_addba_resp_timer_expired
  BY <1>5 DEF sta_addba_resp_timer_expired, WantStop, holder, peer, start,
     station, txpath
<1>6. CASE sta_tx_agg_session_timer_expired
  BY <1>6 DEF sta_tx_agg_session_timer_expired, WantStop, holder, peer, start,
     station, txpath
<1>7. CASE ieee80211_start_tx_ba_cb_irqsafe
  BY <1>7 DEF ieee80211_start_tx_ba_cb_irqsafe, holder, peer, start, station,
     timers, txpath
<1>8. CASE ieee80211_stop_tx_ba_cb_irqsafe
  BY <1>8 DEF ieee80211_stop_tx_ba_cb_irqsafe, holder, peer, start, station,
     timers, txpath
<1>9. CASE WorkCollect
  BY <1>9 DEF WorkCollect, SynchronizeNet, ActiveReaders, peer, softirq,
     station, timers
<1>10. CASE WorkFlags
  BY <1>10, Zenon DEF WorkFlags, peer, session, start, station, timers, txpath
<1>11. CASE WorkRequeue
  BY <1>11, Zenon DEF WorkRequeue, peer, session, start, station, timers,
     txpath, Goto
<1>12. CASE HandleStart
  BY <1>12, Zenon DEF HandleStart, SynchronizeNet, ActiveReaders, peer, start,
     station, timers, txpath
<1>13. CASE DrvStart
  BY <1>13, Zenon DEF DrvStart, peer, start, station, timers, txpath
<1>14. CASE StartAccepted
  BY <1>14, Zenon DEF StartAccepted, peer, softirq, start, startrest, station,
     timers, Goto
<1>15. CASE StartImmediate
  BY <1>15, Zenon DEF StartImmediate, peer, softirq, start, startrest, station,
     timers, Goto
<1>16. CASE StartDenied
  BY <1>16, Zenon DEF StartDenied, peer, softirq, start, startrest, station,
     timers, Goto
<1>17. CASE ieee80211_send_addba_with_timeout
  BY <1>17 DEF ieee80211_send_addba_with_timeout, start, station, txpath, Goto
<1>18. CASE ieee80211_start_tx_ba_cb
  BY <1>18 DEF ieee80211_start_tx_ba_cb, peer, start, station, timers, txpath
<1>19. CASE DrvOperational
  BY <1>19, Zenon DEF DrvOperational, peer, session, start, station, timers,
     txpath
<1>20. CASE ieee80211_agg_tx_operational
  BY <1>20, Zenon DEF ieee80211_agg_tx_operational, peer, softirq, start,
     station, timers
<1>21. CASE WorkWantStop
  BY <1>21, Zenon DEF WorkWantStop, peer, start, station, timers, txpath
<1>22. CASE StopNothing
  BY <1>22, Zenon DEF StopNothing, AfterStop, peer, station, timers, txpath,
     Goto, Reason
<1>23. CASE __ieee80211_stop_tx_ba_session
  BY <1>23 DEF __ieee80211_stop_tx_ba_session, AfterStop, peer, softirq,
     station, timers, Goto
<1>24. CASE StopRespTimer
  BY <1>24, Zenon DEF StopRespTimer, TimerDeleteSync, peer, start, station,
     txpath
<1>25. CASE StopSessionTimer
  BY <1>25, Zenon DEF StopSessionTimer, SynchronizeNet, TimerDeleteSync,
     ActiveReaders, peer, start, station, txpath
<1>26. CASE DrvStop
  BY <1>26, Zenon DEF DrvStop, AfterStop, start, station, timers, txpath, Goto,
     Reason
<1>27. CASE ieee80211_stop_tx_ba_cb
  BY <1>27 DEF ieee80211_stop_tx_ba_cb, RemoveTidTx, softirq, start, station,
     timers, Goto
<1>28. CASE RespAccepted
  BY <1>28 DEF RespAccepted, TimerDeleteSync, peer, start, station, txpath,
     Goto
<1>29. CASE RespDone
  BY <1>29 DEF RespDone, peer, start, station, txpath, Goto
<1>30. CASE RespDeclined
  BY <1>30, Zenon DEF RespDeclined, TimerDeleteSync, peer, start, station,
     txpath, Goto
<1>31. CASE DestroyTearDown
  BY <1>31 DEF DestroyTearDown, RemoveTidTx, softirq, start, station, timers
<1>32. CASE Unhash
  BY <1>32, Zenon DEF Unhash, SynchronizeNet, ActiveReaders, peer, session,
     start, timers, txpath
<1>33. CASE DestroyPart2
  BY <1>33, Zenon DEF DestroyPart2, peer, start, stoprest, timers, txpath
<1>34. CASE CleanupSta
  BY <1>34, Zenon DEF CleanupSta, peer, softirq, timers, Goto
<1>35. CASE ieee80211_process_delba
  BY <1>35, Zenon DEF ieee80211_process_delba, peer, start, stoprest, timers,
     txpath
<1>36. CASE DestroyPart1
  BY <1>36, Zenon DEF DestroyPart1, peer, start, stoprest, timers, txpath
<1>37. CASE TearDown
  BY <1>37, Zenon DEF TearDown, peer, start, stoprest, timers, txpath
<1>38. ASSUME NEW t \in Tokens, NEW ok \in BOOLEAN,
             ieee80211_process_addba_resp(t, ok)
      PROVE  PeerInv'
  BY <1>38, Zenon DEF ieee80211_process_addba_resp, peer, session, start,
     station, timers, txpath
<1>39. CASE \/ StartCheck \/ StartRefused \/ StartAgain \/ RespTimerFires
           \/ SessionTimerFires \/ Unblock
           \/ (\E c \in Cpus : Transmit(c)) \/ UNCHANGED vars
  BY <1>1, <1>39, Zenon DEF StartCheck, StartRefused, StartAgain,
     RespTimerFires, SessionTimerFires, Unblock, TxBegin, TxFragment, TxPick,
     TxProcess, TxDrop, TxDriver, TxEnd, Transmit, holder, peer, session,
     start, station, timers, txpath, txrest, vars, TxAgain
<1>40. CASE ieee80211_restart_hw
  BY <1>40, Zenon DEF ieee80211_restart_hw, holder, peer, session, start,
     timers, txpath
<1>41. CASE ieee80211_restart_work
  BY <1>41, Zenon DEF ieee80211_restart_work, SynchronizeNet, ActiveReaders,
     peer, session, start, station, timers, txpath
<1>42. CASE ReconfigTearDown
  BY <1>42, Zenon DEF ReconfigTearDown, peer, session, start, station, timers,
     txpath
<1>43. CASE ieee80211_reconfig
  BY <1>43, Zenon DEF ieee80211_reconfig, Goto, peer, session, start, timers,
     txpath
<1> QED
  BY <1>1, <1>2, <1>3, <1>4, <1>5, <1>6, <1>7, <1>8, <1>9, <1>10, <1>11, <1>12,
     <1>13, <1>14, <1>15, <1>16, <1>17, <1>18, <1>19, <1>20, <1>21, <1>22,
     <1>23, <1>24, <1>25, <1>26, <1>27, <1>28, <1>29, <1>30, <1>31, <1>32,
     <1>33, <1>34, <1>35, <1>36, <1>37, <1>38, <1>39, <1>40, <1>41, <1>42,
     <1>43, Zenon DEF Next, Softirq, Transmit, Work, Holder, Requests

(* The transmit path is quiet when the driver starts and stops.            *)
LEMMA TxStep ==
    ASSUME TypeOK, FlagsInv, DriverInv, TxInv, DestroyInv, [Next]_vars
    PROVE  TxInv'
<1> USE ConstantsAssumption DEF TypeOK, FlagsInv, DriverInv, TxInv, DestroyInv,
   Starting, Stopping, Operating, Restarting, Destroying, WithSession, Dequeue, Has
<1>1. CASE UNCHANGED <<state, pc, caller, txq_stop, drv, tx, txq_ampdu,
                        waiting, frags, tid_tx, hashed, in_reconfig>>
  BY <1>1, Zenon
<1>2. CASE StartRefused
  BY <1>2 DEF StartRefused, InFlow, TooManyTries, peer, session, start,
     station, timers, txpath
<1>3. CASE ieee80211_start_tx_ba_session
  BY <1>3, Zenon DEF ieee80211_start_tx_ba_session, InFlow, TooManyTries, peer,
     station, timers, txpath
<1>4. CASE StopAfterAgain
  BY <1>4 DEF StopAfterAgain, WantStop, peer, start, station, timers, txpath
<1>5. CASE ieee80211_stop_tx_ba_session
  BY <1>5 DEF ieee80211_stop_tx_ba_session, WantStop, holder, peer, start,
     station, timers, txpath
<1>6. CASE sta_addba_resp_timer_expired
  BY <1>6 DEF sta_addba_resp_timer_expired, WantStop, holder, peer, start,
     station, txpath
<1>7. CASE sta_tx_agg_session_timer_expired
  BY <1>7 DEF sta_tx_agg_session_timer_expired, WantStop, holder, peer, start,
     station, txpath
<1>8. CASE ieee80211_start_tx_ba_cb_irqsafe
  BY <1>8 DEF ieee80211_start_tx_ba_cb_irqsafe, holder, peer, start, station,
     timers, txpath
<1>9. CASE ieee80211_stop_tx_ba_cb_irqsafe
  BY <1>9, Zenon DEF ieee80211_stop_tx_ba_cb_irqsafe, holder, peer, start,
     station, timers, txpath
<1>10. CASE WorkCollect
  BY <1>10, Zenon DEF WorkCollect, SynchronizeNet, ActiveReaders, peer,
     softirq, station, timers
<1>11. CASE WorkFlags
  BY <1>11, Zenon DEF WorkFlags, peer, session, start, station, timers, txpath
<1>12. CASE WorkRequeue
  BY <1>12, Zenon DEF WorkRequeue, peer, session, start, station, timers,
     txpath, Goto
<1>13. CASE HandleStart
  BY <1>13, Zenon DEF HandleStart, SynchronizeNet, ActiveReaders, peer, start,
     station, timers, txpath
<1>14. CASE DrvStart
  BY <1>14, Zenon DEF DrvStart, peer, start, station, timers, txpath
<1>15. CASE StartAccepted
  BY <1>15, Zenon DEF StartAccepted, peer, softirq, start, startrest, station,
     timers, Goto
<1>16. CASE StartImmediate
  BY <1>16, Zenon DEF StartImmediate, peer, softirq, start, startrest, station,
     timers, Goto
<1>17. CASE StartDenied
  BY <1>17, Zenon DEF StartDenied, peer, softirq, start, startrest, station,
     timers, Goto
<1>18. CASE ieee80211_send_addba_with_timeout
  BY <1>18 DEF ieee80211_send_addba_with_timeout, start, station, txpath, Goto
<1>19. CASE ieee80211_start_tx_ba_cb
  BY <1>19 DEF ieee80211_start_tx_ba_cb, peer, start, station, timers, txpath
<1>20. CASE DrvOperational
  BY <1>20, Zenon DEF DrvOperational, peer, session, start, station, timers,
     txpath
<1>21. CASE ieee80211_agg_tx_operational
  BY <1>21, Zenon DEF ieee80211_agg_tx_operational, peer, softirq, start,
     station, timers
<1>22. CASE WorkWantStop
  BY <1>22, Zenon DEF WorkWantStop, peer, start, station, timers, txpath
<1>23. CASE StopNothing
  BY <1>23, Zenon DEF StopNothing, AfterStop, peer, station, timers, txpath,
     Goto, Reason
<1>24. CASE __ieee80211_stop_tx_ba_session
  BY <1>24, Zenon DEF __ieee80211_stop_tx_ba_session, AfterStop, peer, softirq,
     station, timers, Goto
<1>25. CASE StopRespTimer
  BY <1>25, Zenon DEF StopRespTimer, TimerDeleteSync, peer, start, station,
     txpath
<1>26. CASE StopSessionTimer
  BY <1>26, Zenon DEF StopSessionTimer, SynchronizeNet, TimerDeleteSync,
     ActiveReaders, peer, start, station, txpath
<1>27. CASE DrvStop
  BY <1>27, Zenon DEF DrvStop, AfterStop, start, station, timers, txpath, Goto,
     Reason
<1>28. CASE ieee80211_stop_tx_ba_cb
  BY <1>28, Zenon DEF ieee80211_stop_tx_ba_cb, RemoveTidTx, softirq, start,
     station, timers, Goto
<1>29. CASE RespAccepted
  BY <1>29 DEF RespAccepted, TimerDeleteSync, peer, start, station, txpath,
     Goto
<1>30. CASE RespDone
  BY <1>30, Zenon DEF RespDone, peer, start, station, txpath, Goto
<1>31. CASE RespDeclined
  BY <1>31, Zenon DEF RespDeclined, TimerDeleteSync, peer, start, station,
     txpath, Goto
<1>32. CASE DestroyTearDown
  BY <1>32, Zenon DEF DestroyTearDown, RemoveTidTx, softirq, start, station,
     timers
<1>33. CASE Unhash
  BY <1>33, Zenon DEF Unhash, SynchronizeNet, ActiveReaders, peer, session,
     start, timers, txpath
<1>34. CASE DestroyPart2
  BY <1>34, Zenon DEF DestroyPart2, peer, start, stoprest, timers, txpath
<1>35. CASE CleanupSta
  BY <1>35, Zenon DEF CleanupSta, peer, softirq, timers, Goto
<1>36. CASE ieee80211_process_delba
  BY <1>36, Zenon DEF ieee80211_process_delba, peer, start, stoprest, timers,
     txpath
<1>37. CASE DestroyPart1
  BY <1>37, Zenon DEF DestroyPart1, peer, start, stoprest, timers, txpath
<1>38. CASE TearDown
  BY <1>38, Zenon DEF TearDown, peer, start, stoprest, timers, txpath
<1>39. ASSUME NEW t \in Tokens, NEW ok \in BOOLEAN,
             ieee80211_process_addba_resp(t, ok)
      PROVE  TxInv'
  BY <1>39, Zenon DEF ieee80211_process_addba_resp, peer, session, start,
     station, timers, txpath
<1>40. ASSUME NEW c \in Cpus, TxBegin(c) PROVE TxInv'
  BY <1>40 DEF TxBegin, At, peer, session, start, station, timers, txrest
<1>41. ASSUME NEW c \in Cpus, TxFragment(c) PROVE TxInv'
  BY <1>41 DEF TxFragment, peer, session, start, station, timers, txrest
<1>42. ASSUME NEW c \in Cpus, TxPick(c) PROVE TxInv'
  BY <1>42, Zenon DEF TxPick, At, peer, session, start, station, timers, txrest
<1>43. ASSUME NEW c \in Cpus, TxProcess(c) PROVE TxInv'
  BY <1>43, Zenon DEF TxProcess, peer, session, start, station, timers, txrest
<1>44. ASSUME NEW c \in Cpus, TxDrop(c) PROVE TxInv'
  BY <1>44 DEF TxDrop, At, peer, session, start, station, timers, txrest,
     TxAgain
<1>45. ASSUME NEW c \in Cpus, TxDriver(c) PROVE TxInv'
  BY <1>45 DEF TxDriver, At, peer, session, start, station, timers, txrest,
     TxAgain
<1>46. ASSUME NEW c \in Cpus, TxEnd(c) PROVE TxInv'
  BY <1>46 DEF TxEnd, At, peer, session, start, station, timers, txrest
<1>47. CASE \/ StartCheck \/ StartAgain \/ RespTimerFires
           \/ SessionTimerFires \/ Unblock \/ UNCHANGED vars
  BY <1>1, <1>47, Zenon DEF StartCheck, StartAgain, RespTimerFires,
     SessionTimerFires, Unblock, holder, peer, session, start, station, timers,
     txpath, vars
<1>48. CASE ieee80211_restart_hw
  BY <1>48, Zenon DEF ieee80211_restart_hw, holder, peer, session, start,
     timers, txpath
<1>49. CASE ieee80211_restart_work
  BY <1>49, Zenon DEF ieee80211_restart_work, SynchronizeNet, ActiveReaders,
     peer, session, start, station, timers, txpath
<1>50. CASE ReconfigTearDown
  BY <1>50, Zenon DEF ReconfigTearDown, peer, session, start, station, timers,
     txpath
<1>51. CASE ieee80211_reconfig
  BY <1>51, Zenon DEF ieee80211_reconfig, Goto, peer, session, start, timers,
     txpath
<1> QED
  BY <1>1, <1>2, <1>3, <1>4, <1>5, <1>6, <1>7, <1>8, <1>9, <1>10, <1>11, <1>12,
     <1>13, <1>14, <1>15, <1>16, <1>17, <1>18, <1>19, <1>20, <1>21, <1>22,
     <1>23, <1>24, <1>25, <1>26, <1>27, <1>28, <1>29, <1>30, <1>31, <1>32,
     <1>33, <1>34, <1>35, <1>36, <1>37, <1>38, <1>39, <1>40, <1>41, <1>42,
     <1>43, <1>44, <1>45, <1>46, <1>47, <1>48, <1>49, <1>50, <1>51, Zenon DEF
     Next, Softirq, Transmit, Work, Holder, Requests

(* A destroyed station is left alone.                                      *)
LEMMA DestroyStep ==
    ASSUME TypeOK, FlagsInv, TimersInv, DestroyInv, [Next]_vars
    PROVE  DestroyInv'
<1>0. tid_tx = 0 => state = {}
  BY Zenon DEF TypeOK
<1> USE ConstantsAssumption, <1>0 DEF FlagsInv, TimersInv, DestroyInv,
   Starting, Stopping, Operating, Restarting, Destroying, WithSession, Has
<1>1. CASE UNCHANGED <<caller, block_ba, gone, pc, hashed, starter, work,
                        waiting, tid_tx, tid_start_tx>>
  BY <1>1, Zenon
<1>2. CASE StartCheck
  BY <1>2, Zenon DEF StartCheck, holder, peer, session, start, station, timers,
     txpath
<1>3. CASE StartRefused
  BY <1>3, Zenon DEF StartRefused, InFlow, TooManyTries, peer, session, start,
     station, timers, txpath
<1>4. CASE StartAgain
  BY <1>4, Zenon DEF StartAgain, InFlow, TooManyTries, holder, peer, session,
     start, station, timers, txpath
<1>5. CASE ieee80211_start_tx_ba_session
  BY <1>5, Zenon DEF ieee80211_start_tx_ba_session, InFlow, TooManyTries, peer,
     station, timers, txpath
<1>6. CASE StopAfterAgain
  BY <1>6, Zenon DEF StopAfterAgain, WantStop, peer, start, station, timers,
     txpath
<1>7. CASE ieee80211_stop_tx_ba_session
  BY <1>7, Zenon DEF ieee80211_stop_tx_ba_session, WantStop, holder, peer,
     start, station, timers, txpath
<1>8. CASE sta_addba_resp_timer_expired
  BY <1>8, Zenon DEF sta_addba_resp_timer_expired, WantStop, holder, peer,
     start, station, txpath
<1>9. CASE sta_tx_agg_session_timer_expired
  BY <1>9, Zenon DEF sta_tx_agg_session_timer_expired, WantStop, holder, peer,
     start, station, txpath
<1>10. CASE ieee80211_start_tx_ba_cb_irqsafe
  BY <1>10, Zenon DEF ieee80211_start_tx_ba_cb_irqsafe, holder, peer, start,
     station, timers, txpath
<1>11. CASE ieee80211_stop_tx_ba_cb_irqsafe
  BY <1>11, Zenon DEF ieee80211_stop_tx_ba_cb_irqsafe, holder, peer, start,
     station, timers, txpath
<1>12. CASE WorkCollect
  BY <1>12, Zenon DEF WorkCollect, SynchronizeNet, ActiveReaders, peer,
     softirq, station, timers
<1>13. CASE WorkFlags
  BY <1>13, Zenon DEF WorkFlags, peer, session, start, station, timers, txpath
<1>14. CASE WorkRequeue
  BY <1>14, Zenon DEF WorkRequeue, peer, session, start, station, timers,
     txpath, Goto
<1>15. CASE HandleStart
  BY <1>15, Zenon DEF HandleStart, SynchronizeNet, ActiveReaders, peer, start,
     station, timers, txpath
<1>16. CASE DrvStart
  BY <1>16, Zenon DEF DrvStart, peer, start, station, timers, txpath
<1>17. CASE StartAccepted
  BY <1>17, Zenon DEF StartAccepted, peer, softirq, start, startrest, station,
     timers, Goto
<1>18. CASE StartImmediate
  BY <1>18, Zenon DEF StartImmediate, peer, softirq, start, startrest, station,
     timers, Goto
<1>19. CASE StartDenied
  BY <1>19, Zenon DEF StartDenied, peer, softirq, start, startrest, station,
     timers, Goto
<1>20. CASE ieee80211_send_addba_with_timeout
  BY <1>20, Zenon DEF ieee80211_send_addba_with_timeout, start, station,
     txpath, Goto
<1>21. CASE ieee80211_start_tx_ba_cb
  BY <1>21, Zenon DEF ieee80211_start_tx_ba_cb, peer, start, station, timers,
     txpath
<1>22. CASE DrvOperational
  BY <1>22, Zenon DEF DrvOperational, peer, session, start, station, timers,
     txpath
<1>23. CASE ieee80211_agg_tx_operational
  BY <1>23, Zenon DEF ieee80211_agg_tx_operational, peer, softirq, start,
     station, timers
<1>24. CASE WorkWantStop
  BY <1>24, Zenon DEF WorkWantStop, peer, start, station, timers, txpath
<1>25. CASE StopNothing
  BY <1>25, Zenon DEF StopNothing, AfterStop, peer, station, timers, txpath,
     Goto, Reason
<1>26. CASE __ieee80211_stop_tx_ba_session
  BY <1>26, Zenon DEF __ieee80211_stop_tx_ba_session, AfterStop, peer, softirq,
     station, timers, Goto
<1>27. CASE StopRespTimer
  BY <1>27, Zenon DEF StopRespTimer, TimerDeleteSync, peer, start, station,
     txpath
<1>28. CASE StopSessionTimer
  BY <1>28, Zenon DEF StopSessionTimer, SynchronizeNet, TimerDeleteSync,
     ActiveReaders, peer, start, station, txpath
<1>29. CASE DrvStop
  BY <1>29, Zenon DEF DrvStop, AfterStop, start, station, timers, txpath, Goto,
     Reason
<1>30. CASE ieee80211_stop_tx_ba_cb
  BY <1>30, Zenon DEF ieee80211_stop_tx_ba_cb, RemoveTidTx, softirq, start,
     station, timers, Goto
<1>31. CASE RespAccepted
  BY <1>31, Zenon DEF RespAccepted, TimerDeleteSync, peer, start, station,
     txpath, Goto
<1>32. CASE RespDone
  BY <1>32, Zenon DEF RespDone, peer, start, station, txpath, Goto
<1>33. CASE RespDeclined
  BY <1>33, Zenon DEF RespDeclined, TimerDeleteSync, peer, start, station,
     txpath, Goto
<1>34. CASE DestroyTearDown
  BY <1>34, Zenon DEF DestroyTearDown, RemoveTidTx, softirq, start, station,
     timers
<1>35. CASE Unhash
  BY <1>35, Zenon DEF Unhash, SynchronizeNet, ActiveReaders, peer, session,
     start, timers, txpath
<1>36. CASE DestroyPart2
  BY <1>36, Zenon DEF DestroyPart2, peer, start, stoprest, timers, txpath
<1>37. CASE CleanupSta
  BY <1>37, Zenon DEF CleanupSta, peer, softirq, timers, Goto
<1>38. CASE ieee80211_process_delba
  BY <1>38, Zenon DEF ieee80211_process_delba, peer, start, stoprest, timers,
     txpath
<1>39. CASE Unblock
  BY <1>39, Zenon DEF Unblock, holder, peer, session, start, timers, txpath
<1>40. CASE DestroyPart1
  BY <1>40, Zenon DEF DestroyPart1, peer, start, stoprest, timers, txpath
<1>41. CASE TearDown
  BY <1>41, Zenon DEF TearDown, peer, start, stoprest, timers, txpath
<1>42. ASSUME NEW t \in Tokens, NEW ok \in BOOLEAN,
             ieee80211_process_addba_resp(t, ok)
      PROVE  DestroyInv'
  BY <1>42, Zenon DEF ieee80211_process_addba_resp, peer, session, start,
     station, timers, txpath
<1>43. ASSUME NEW c \in Cpus, TxEnd(c) PROVE DestroyInv'
  BY <1>43, Zenon DEF TxEnd, At, peer, session, start, station, timers, txrest
<1>44. CASE \/ RespTimerFires \/ SessionTimerFires
           \/ (\E c \in Cpus : TxBegin(c))
           \/ (\E c \in Cpus : TxFragment(c))
           \/ (\E c \in Cpus : TxPick(c))
           \/ (\E c \in Cpus : TxProcess(c)) \/ UNCHANGED vars
  BY <1>1, <1>44, Zenon DEF RespTimerFires, SessionTimerFires, TxBegin,
     TxFragment, TxPick, TxProcess, holder, peer, session, start, station,
     timers, txpath, txrest, vars
<1>45. CASE ieee80211_restart_hw
  BY <1>45, Zenon DEF ieee80211_restart_hw, holder, peer, session, start,
     timers, txpath
<1>46. CASE ieee80211_restart_work
  BY <1>46, Zenon DEF ieee80211_restart_work, SynchronizeNet, ActiveReaders,
     peer, session, start, station, timers, txpath
<1>47. CASE ReconfigTearDown
  BY <1>47, Zenon DEF ReconfigTearDown, peer, session, start, station, timers,
     txpath
<1>48. CASE ieee80211_reconfig
  BY <1>48, Zenon DEF ieee80211_reconfig, Goto, peer, session, start, timers,
     txpath
<1>49. ASSUME NEW c \in Cpus, TxDrop(c) PROVE DestroyInv'
  BY <1>49, Zenon DEF TxDrop, TxAgain, peer, session, start, station, timers,
     txrest
<1>50. ASSUME NEW c \in Cpus, TxDriver(c) PROVE DestroyInv'
  BY <1>50, Zenon DEF TxDriver, TxAgain, peer, session, start, station, timers,
     txrest
<1> QED
  BY <1>1, <1>2, <1>3, <1>4, <1>5, <1>6, <1>7, <1>8, <1>9, <1>10, <1>11, <1>12,
     <1>13, <1>14, <1>15, <1>16, <1>17, <1>18, <1>19, <1>20, <1>21, <1>22,
     <1>23, <1>24, <1>25, <1>26, <1>27, <1>28, <1>29, <1>30, <1>31, <1>32,
     <1>33, <1>34, <1>35, <1>36, <1>37, <1>38, <1>39, <1>40, <1>41, <1>42,
     <1>43, <1>44, <1>45, <1>46, <1>47, <1>48, <1>49, <1>50, Zenon DEF Next,
     Softirq, Transmit, Work, Holder, Requests

----------------------------------------------------------------------------
(* A new station has no sessions.                                          *)
LEMMA InitInv == Init => IInv
<1> SUFFICES ASSUME Init PROVE IInv
  BY Zenon
<1> USE ConstantsAssumption DEF Init, Has
<1>1. TypeOK
  <2>1. tx \in [Cpus -> Dequeue]
    BY DEF Dequeue, At
  <2>2. /\ tid_tx \in Tokens /\ tid_start_tx \in Tokens
        /\ dialog_token_allocator \in Tokens
    BY DEF Tokens
  <2>3. addba_resp_timer \in Timer /\ session_timer \in Timer
    BY Zenon DEF Timer
  <2>4. pc \in PCs /\ caller \in Callers
    BY Zenon DEF PCs, Callers
  <2>5. /\ addba_req_num \in Nat
        /\ tid_seq \in 0 .. MaxSeq
    OBVIOUS
  <2> QED
    BY <2>1, <2>2, <2>3, <2>4, <2>5, Zenon DEF TypeOK
<1>2. FlagsInv /\ TimersInv
  BY Zenon DEF FlagsInv, TimersInv, Starting, Stopping, Operating, Restarting,
     Destroying, WithSession
<1>3. DriverInv
  BY Zenon DEF DriverInv, Starting, Stopping, Destroying
<1>4. PeerInv
  BY DEF PeerInv, Stopping, Destroying
<1>5. TxInv
  BY Zenon DEF TxInv, Starting, At
<1>6. DestroyInv
  BY Zenon DEF DestroyInv, Stopping, Destroying
<1> QED
  BY <1>1, <1>2, <1>3, <1>4, <1>5, <1>6, Zenon DEF IInv

(* The invariant holds in every state of every behaviour of the code.      *)
THEOREM Invariance == Spec => []IInv
<1>1. IInv /\ [Next]_vars => IInv'
  <2> SUFFICES ASSUME IInv, [Next]_vars PROVE IInv'
    BY Zenon
  <2>1. TypeOK' /\ FlagsInv' /\ TimersInv'
    BY TypeStep, FlagsStep, TimersStep, Zenon DEF IInv
  <2>2. DriverInv' /\ PeerInv' /\ TxInv' /\ DestroyInv'
    BY DriverStep, PeerStep, TxStep, DestroyStep, Zenon DEF IInv
  <2> QED
    BY <2>1, <2>2, Zenon DEF IInv
<1> QED
  BY <1>1, InitInv, PTL DEF Spec

(* Every field keeps its type, and without a session no flag of one is     *)
(* left behind: ieee80211_remove_tid_tx() forgets both.                    *)
THEOREM TypeOKHolds == Spec => []TypeOK
<1>1. IInv => TypeOK
  BY Zenon DEF IInv
<1> QED
  BY <1>1, Invariance, PTL

(* The worker never finds a live session when it moves a start over: the   *)
(* answer to "could there be a race?" is no.                               *)
THEOREM OneSessionHolds == Spec => []OneSession
<1>1. IInv => OneSession
  BY Zenon DEF IInv, OneSession, FlagsInv
<1> QED
  BY <1>1, Invariance, PTL

(* No session's struct is freed with a timer pending or its handler        *)
(* running.                                                                *)
THEOREM TimersStoppedFirstHolds == Spec => []TimersStoppedFirst
<1>1. IInv => TimersStoppedFirst
  BY Zenon DEF IInv, TimersStoppedFirst, TimersInv
<1> QED
  BY <1>1, Invariance, PTL

(* An operational session was accepted by the peer and by the driver.      *)
THEOREM OperationalAgreedHolds == Spec => []OperationalAgreed
<1>1. IInv => OperationalAgreed
  BY Zenon DEF IInv, OperationalAgreed, DriverInv
<1> QED
  BY <1>1, Invariance, PTL

(* However many CPUs transmit, no frame marked for an A-MPDU reaches the   *)
(* driver outside an operational session, except between                   *)
(* ieee80211_restart_hw() and the end of the synchronize_net() of          *)
(* ieee80211_restart_work().                                               *)
THEOREM AmpduOnlyInSessionHolds == Spec => []AmpduOnlyInSession
<1>1. IInv => AmpduOnlyInSession
  BY Zenon DEF IInv, AmpduOnlyInSession, TxInv
<1> QED
  BY <1>1, Invariance, PTL

(* A peer that was asked for a session which is over knows that it is, or  *)
(* the station is being removed.                                           *)
THEOREM PeerNotLeftBehindHolds == Spec => []PeerNotLeftBehind
<1>1. IInv => PeerNotLeftBehind
  BY Zenon DEF IInv, PeerNotLeftBehind, PeerInv
<1> QED
  BY <1>1, Invariance, PTL

(* The second tear-down leaves nobody who could use a freed station.       *)
THEOREM StationFreedQuietlyHolds == Spec => []StationFreedQuietly
<1>1. IInv => StationFreedQuietly
  BY Zenon DEF IInv, StationFreedQuietly, DestroyInv, TimersInv
<1> QED
  BY <1>1, Invariance, PTL

(* Unanswered requests stop after HT_AGG_MAX_RETRIES + 1, whatever the     *)
(* limit.                                                                  *)
THEOREM RetriesBoundedHolds == Spec => []RetriesBounded
<1>1. IInv => RetriesBounded
  BY Zenon DEF IInv, RetriesBounded, PeerInv
<1> QED
  BY <1>1, Invariance, PTL

(* A blocked station has no session except one that is stopping and, if    *)
(* the hardware is not being restarted, no A-MPDU frame is on its way.     *)
THEOREM BlockedWithoutAmpduHolds == Spec => []BlockedWithoutAmpdu
<1>1. IInv => BlockedWithoutAmpdu
  BY Zenon DEF IInv, BlockedWithoutAmpdu, FlagsInv, DriverInv, TxInv, Stopping
<1> QED
  BY <1>1, Invariance, PTL

(* The driver's callbacks find the session they are about.                 *)
THEOREM CallbackFindsSessionHolds == Spec => []CallbackFindsSession
<1>1. IInv => CallbackFindsSession
  BY Zenon DEF IInv, CallbackFindsSession, DriverInv
<1> QED
  BY <1>1, Invariance, PTL

(* Without software fragmentation nothing reaches the driver while it sets *)
(* a session up.                                                           *)
THEOREM QuietDuringSetupHolds == ~Fragmentation => (Spec => []QuietDuringSetup)
<1> SUFFICES ASSUME ~Fragmentation PROVE Spec => []QuietDuringSetup
  BY Zenon
<1>1. IInv => QuietDuringSetup
  BY Zenon DEF IInv, QuietDuringSetup, TxInv
<1> QED
  BY <1>1, Invariance, PTL

(* Without software fragmentation a TXQ is stopped only for a session.     *)
THEOREM TxqReleasedHolds == ~Fragmentation => (Spec => []TxqReleased)
<1> SUFFICES ASSUME ~Fragmentation PROVE Spec => []TxqReleased
  BY Zenon
<1>1. IInv => TxqReleased
  BY Zenon DEF IInv, TxqReleased, TxInv
<1> QED
  BY <1>1, Invariance, PTL

(* A session that is stopping never comes back to life.                    *)
THEOREM NoRevivalHolds == Spec => NoRevival
<1> DEFINE Revival == /\ Has("STOPPING") /\ tid_tx' = tid_tx
                      /\ \/ "STOPPING" \notin state'
                         \/ "OPERATIONAL" \in state' /\ ~Has("OPERATIONAL")
<1>1. IInv /\ [Next]_vars => ~Revival
  <2> SUFFICES ASSUME IInv, [Next]_vars, Has("STOPPING"), tid_tx' = tid_tx
               PROVE  /\ "STOPPING" \in state'
                      /\ "OPERATIONAL" \in state' => Has("OPERATIONAL")
    BY Zenon
  <2>1. tid_tx # 0
    BY Zenon DEF IInv, TypeOK, Has
  <2>2. pc \notin Operating /\ pc \notin Starting
    BY Zenon DEF IInv, FlagsInv, Has, Operating, Starting
  <2>3. CASE UNCHANGED state
    BY <2>3, Zenon DEF Has
  <2>4. CASE Softirq
    BY <2>4 DEF Softirq, StartCheck, StartRefused, StartAgain,
       ieee80211_start_tx_ba_session, StopAfterAgain,
       ieee80211_stop_tx_ba_session, RespTimerFires,
       sta_addba_resp_timer_expired, SessionTimerFires,
       sta_tx_agg_session_timer_expired, ieee80211_start_tx_ba_cb_irqsafe,
       ieee80211_stop_tx_ba_cb_irqsafe, ieee80211_restart_hw, WantStop,
       session, Has
  <2>5. ASSUME NEW c \in Cpus, Transmit(c) PROVE UNCHANGED state
    BY <2>5, Zenon DEF Transmit, TxBegin, TxFragment, TxPick, TxProcess,
       TxDrop, TxDriver, TxEnd, txrest, session, TxAgain
  <2>6. CASE Work
    BY <2>1, <2>6, Zenon DEF Work, WorkCollect, WorkFlags, session, Has
  <2>7. CASE Requests
    BY <2>7, Zenon DEF Requests, ieee80211_process_addba_resp,
       ieee80211_process_delba, TearDown, Unblock, ieee80211_restart_work,
       DestroyPart1, session, stoprest, Has
  <2>8. CASE Holder
    <3> USE <2>1, <2>2 DEF Operating, Starting, Has
    <3>1. CASE \/ WorkRequeue \/ DrvOperational \/ WorkWantStop \/ StopNothing
               \/ StopRespTimer \/ DrvStop \/ RespDeclined \/ Unhash
               \/ DestroyPart2 \/ ReconfigTearDown \/ ieee80211_reconfig
      BY <3>1, Zenon DEF WorkRequeue, DrvOperational, WorkWantStop,
         StopNothing, StopRespTimer, DrvStop, RespDeclined, Unhash,
         DestroyPart2, ReconfigTearDown, ieee80211_reconfig, session, stoprest,
         Goto, Reason
    <3>2. CASE \/ HandleStart \/ DrvStart \/ StartAccepted \/ StartImmediate
               \/ StartDenied \/ ieee80211_agg_tx_operational \/ RespDone
      BY <3>2, Zenon DEF HandleStart, DrvStart, StartAccepted, StartImmediate,
         StartDenied, ieee80211_agg_tx_operational, RespDone, Goto
    <3>3. CASE \/ ieee80211_send_addba_with_timeout \/ ieee80211_start_tx_ba_cb
               \/ RespAccepted
      BY <3>3 DEF ieee80211_send_addba_with_timeout, ieee80211_start_tx_ba_cb,
         RespAccepted, Goto
    <3>4. CASE \/ __ieee80211_stop_tx_ba_session \/ StopSessionTimer
               \/ ieee80211_stop_tx_ba_cb \/ DestroyTearDown \/ CleanupSta
      BY <3>4, Zenon DEF __ieee80211_stop_tx_ba_session, StopSessionTimer,
         ieee80211_stop_tx_ba_cb, DestroyTearDown, RemoveTidTx, CleanupSta,
         Goto
    <3> QED
      BY <2>8, <3>1, <3>2, <3>3, <3>4, Zenon DEF Holder
  <2> QED
    BY <2>3, <2>4, <2>5, <2>6, <2>7, <2>8, Zenon DEF Next, vars, session
<1>2. IInv /\ [Next]_vars => [Has("STOPPING") /\ tid_tx' = tid_tx =>
                                  /\ "STOPPING" \in state'
                                  /\ "OPERATIONAL" \in state' => Has("OPERATIONAL")]_vars
  BY <1>1, Zenon
<1> QED
  BY <1>2, Invariance, PTL DEF Spec, NoRevival

=============================================================================
