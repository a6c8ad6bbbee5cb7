-------------------------------- MODULE Roc --------------------------------
(***************************************************************************)
(* Remain-on-channel (ROC) requests and scans, which share the radio: the  *)
(* queue of requests in mac80211 (offchannel.c), scans and how they wait   *)
(* for it (scan.c), the mld op mode that has the firmware carry both out   *)
(* (roc.c, scan.c, notif.c), the queue of wiphy works (wireless/core.c)    *)
(* and the recovery from a firmware error (mld.c, main.c, util.c).         *)
(*                                                                         *)
(* Requests, works and the recovery hold the wiphy mutex.  Its holder      *)
(* sleeps only while the firmware answers a command; the receive path and  *)
(* the error handler run meanwhile.  agenda is what the holder has still   *)
(* to do: a call pushes steps, a return pops one, and with an empty agenda *)
(* the mutex is free.  The firmware is external.                           *)
(***************************************************************************)
EXTENDS Naturals, Sequences, SequencesExt, FiniteSets

CONSTANTS
    Vifs,       \* interfaces: stations and a P2P device
    Stations,
    Chans,      \* channels
    Budgets     \* bounds: ROC requests, scans and firmware errors of a behaviour

ASSUME RocAssumption ==
    /\ Stations \subseteq Vifs
    /\ Budgets \subseteq [req : Nat, scan : 0..1, crash : Nat]

None == "none"
\* iwl_mld_start_roc(): stations share an activity.  Requests are of type
\* IEEE80211_ROC_TYPE_NORMAL.
Activity(v) == IF v \in Stations THEN "HOTSPOT" ELSE "P2P_DISC"
Activities == {"HOTSPOT", "P2P_DISC"}

VARIABLES
    (* mac80211 *)
    roc_list, in_reconfig,
    scan_req,       \* the interface of the waiting or running scan
    scanning,       \* SCAN_HW_SCANNING
    scan_done,      \* SCAN_COMPLETED
    scan_timer,     \* scan_work is delayed
    works,          \* wiphy_work_list
    agenda, ret,    \* the holder of the mutex and what its last call returned
    (* mld *)
    roc,            \* per interface: the ROC behind roc_activity, or 0
    aux_sta,        \* interfaces with an auxiliary station
    emlsr_blocked,  \* IWL_MLD_EMLSR_BLOCKED_ROC
    scan_status,    \* a scan is in uid_status as IWL_MLD_SCAN_REGULAR
    async_list, local_list,
    cmd,            \* the synchronous command
    (* the device *)
    fw, fw_scan, rxq, device,
    (* history *)
    rocs,           \* ROCs sent to the firmware so far: their channels
    begun,          \* those it has begun
    left,           \* what is left of the budget
    warned          \* the WARN_ON()s that fired, and "pending" if a flush of
                    \* ieee80211_reconfig_roc() started the next ROC

mac == <<roc_list, in_reconfig>>
scan == <<scan_req, scanning, scan_done, scan_timer>>
drvroc == <<roc, aux_sta, emlsr_blocked>>
lists == <<async_list, local_list>>
mld == <<drvroc, scan_status, lists>>
dev == <<fw, fw_scan, rxq, device, begun>>
vars == <<mac, scan, works, agenda, ret, mld, cmd, dev, rocs, left, warned>>

Idle == [op |-> None, act |-> None, id |-> 0]
NoRoc == [id |-> 0, phase |-> None]

Init ==
    /\ roc_list = <<>> /\ in_reconfig = FALSE
    /\ scan_req = None
    /\ scanning = FALSE /\ scan_done = FALSE /\ scan_timer = FALSE
    /\ works = <<>> /\ agenda = <<>> /\ ret = 0
    /\ roc = [v \in Vifs |-> 0] /\ aux_sta = {} /\ emlsr_blocked = FALSE
    /\ scan_status = FALSE /\ async_list = <<>> /\ local_list = <<>>
    /\ cmd = Idle
    /\ fw = [a \in Activities |-> NoRoc] /\ fw_scan = FALSE /\ rxq = <<>>
    /\ device = "ok"
    /\ rocs = <<>> /\ begun = {} /\ left \in Budgets /\ warned = {}

-----------------------------------------------------------------------------
(* The wiphy works and the agenda.                                         *)

\* wiphy_work_queue() and wiphy_work_cancel()
QueueTwice(q, w) == Append(q, w)
Queue(q, w) == IF Contains(q, w) THEN q ELSE Append(q, w)
Cancel(q, w) == SelectSeq(q, LAMBDA x : x # w)

MutexFree == agenda = <<>>
Now(step) == ~MutexFree /\ Head(agenda)[1] = step
Arg == Head(agenda)[2]
Call(steps) == agenda' = steps \o Tail(agenda)
Return == Call(<<>>)
\* WARN_ON(test)
Warn(test, what) == IF test THEN warned \cup {what} ELSE warned

\* cfg80211_wiphy_work() runs the first work.
cfg80211_wiphy_work ==
    /\ MutexFree /\ works # <<>>
    /\ agenda' = << <<Head(works)>> >> /\ works' = Tail(works)
    /\ UNCHANGED <<mac, scan, ret, mld, cmd, dev, rocs, left, warned>>

\* wiphy_work_flush() looks once whether the work is queued; for scan_work it
\* is wiphy_delayed_work_flush().
wiphy_work_flush ==
    /\ Now("flush")
    /\ IF Arg = "all" \/ Contains(works, Arg)
       THEN Call(<< <<"process", Arg>> >>)
       ELSE Return
    /\ scan_timer' = (scan_timer /\ Arg # "scan_work")
    /\ UNCHANGED <<mac, scan_req, scanning, scan_done, works, ret, mld, cmd, dev,
                   rocs, left, warned>>

\* Runs works until the given one has run or none is left.
cfg80211_process_wiphy_works ==
    /\ Now("process")
    /\ IF works # <<>>
       THEN /\ works' = Tail(works)
            /\ Call(<< <<Head(works)>> >> \o
                    (IF Head(works) = Arg THEN <<>> ELSE <<Head(agenda)>>))
       ELSE Return /\ UNCHANGED works
    /\ UNCHANGED <<mac, scan, ret, mld, cmd, dev, rocs, left, warned>>

-----------------------------------------------------------------------------
(* mld: ROC.                                                               *)

RocVifs(a) == {v \in Vifs : roc[v] # 0 /\ Activity(v) = a}
\* A command is refused once the error was noticed.
Running == device \in {"ok", "crashed"}
Send(op, a, i) == cmd' = [op |-> op, act |-> a, id |-> i]
Over == cmd.op \in {"answered", "failed"}

iwl_mld_start_roc ==
    /\ Now("start_roc")
    /\ LET busy == RocVifs(Activity(Arg.vif)) # {} IN
       /\ emlsr_blocked' = (emlsr_blocked \/ ~busy)
       /\ warned' = Warn(busy, "one ROC of each type")
       /\ \/ /\ ret' = 1 /\ Return       \* busy, or no auxiliary station
             /\ UNCHANGED <<aux_sta, cmd, rocs>>
          \/ /\ ~busy /\ Running
             /\ aux_sta' = aux_sta \cup {Arg.vif}
             /\ rocs' = Append(rocs, Arg.chan)
             /\ Send("add", Activity(Arg.vif), Len(rocs'))
             /\ Call(<< <<"started_roc", Arg.vif>> >>)
             /\ UNCHANGED ret
    /\ UNCHANGED <<mac, scan, works, roc, scan_status, lists, dev, left>>

\* iwl_mld_start_roc() after the command
StartedRoc ==
    /\ Now("started_roc") /\ Over
    /\ ret' = IF cmd.op = "failed" THEN 1 ELSE 0
    /\ roc' = [roc EXCEPT ![Arg] = IF cmd.op = "failed" THEN @ ELSE cmd.id]
    /\ cmd' = Idle /\ Return
    /\ UNCHANGED <<mac, scan, works, aux_sta, emlsr_blocked, scan_status, lists,
                   dev, rocs, left, warned>>

iwl_mld_destroy_roc(v) ==
    /\ roc' = [roc EXCEPT ![v] = 0]
    /\ emlsr_blocked' = FALSE /\ aux_sta' = aux_sta \ {v}
    /\ warned' = Warn(v \notin aux_sta, "no aux station")

KeepNotifications(a) == UNCHANGED async_list
iwl_mld_cancel_notifications_of_object(a) ==
    async_list' = SelectSeq(async_list, LAMBDA n : n.act # a)

iwl_mld_cancel_roc ==
    /\ Now("cancel_roc")
    /\ \/ /\ roc[Arg] = 0
          /\ Return /\ UNCHANGED <<cmd, drvroc, async_list, warned>>
       \/ /\ roc[Arg] # 0 /\ Running
          /\ Send("remove", Activity(Arg), roc[Arg])
          /\ Call(<< <<"cancelled_roc", Arg>> >>)
          /\ UNCHANGED <<drvroc, async_list, warned>>
       \/ /\ roc[Arg] # 0 /\ ~Running
          /\ iwl_mld_cancel_notifications_of_object(Activity(Arg))
          /\ iwl_mld_destroy_roc(Arg)
          /\ Return /\ UNCHANGED cmd
    /\ UNCHANGED <<mac, scan, works, ret, scan_status, local_list, dev, rocs, left>>

\* iwl_mld_cancel_roc() after the command
CancelledRoc ==
    /\ Now("cancelled_roc") /\ Over
    /\ iwl_mld_cancel_notifications_of_object(Activity(Arg))
    /\ iwl_mld_destroy_roc(Arg)
    /\ cmd' = Idle /\ Return
    /\ UNCHANGED <<mac, scan, works, ret, scan_status, local_list, dev, rocs, left>>

-----------------------------------------------------------------------------
(* mld: notifications and scans.                                           *)

\* iwl_mld_async_handlers_wk() takes the whole queue, then one by one.
iwl_mld_async_handlers_wk ==
    /\ Now("async_handlers_wk")
    /\ local_list' = async_list /\ async_list' = <<>>
    /\ Call(<< <<"handle">> >>)
    /\ UNCHANGED <<mac, scan, works, ret, drvroc, scan_status, cmd, dev, rocs, left,
                   warned>>

iwl_mld_handle_roc_notif(n) ==
    /\ IF RocVifs(n.act) = {} THEN UNCHANGED <<works, drvroc, agenda, warned>>
       ELSE LET v == CHOOSE x \in RocVifs(n.act) : TRUE IN
            \/ /\ n.what = "started" /\ works' = Queue(works, "hw_roc_start")
               /\ UNCHANGED <<drvroc, agenda, warned>>
            \/ /\ n.what = "ended" /\ iwl_mld_destroy_roc(v)
               /\ works' = Queue(works, "hw_roc_done") /\ UNCHANGED agenda
            \/ /\ n.what = "failed"
               /\ Call(<< <<"cancel_roc", v>>, <<"expired">>, <<"handle">> >>)
               /\ UNCHANGED <<works, drvroc, warned>>
    /\ UNCHANGED <<scan, scan_status>>

\* ieee80211_scan_completed()
Completed ==
    /\ scan_done' = TRUE /\ scan_timer' = FALSE
    /\ works' = Queue(works, "scan_work")
    /\ UNCHANGED <<scan_req, scanning>>

\* For a scan that was stopped, uid_status is IWL_MLD_SCAN_NONE.
iwl_mld_handle_scan_complete_notif ==
    /\ scan_status' = FALSE
    /\ IF scan_status THEN Completed ELSE UNCHANGED <<scan, works>>
    /\ UNCHANGED <<drvroc, agenda, warned>>

Handle ==
    /\ Now("handle") /\ local_list # <<>>
    /\ local_list' = Tail(local_list)
    /\ LET n == Head(local_list) IN
       \/ n.act # "SCAN" /\ iwl_mld_handle_roc_notif(n)
       \/ n.act = "SCAN" /\ iwl_mld_handle_scan_complete_notif
    /\ UNCHANGED <<mac, ret, async_list, cmd, dev, rocs, left>>

AllHandled ==
    /\ Now("handle") /\ local_list = <<>> /\ Return
    /\ UNCHANGED <<mac, scan, works, ret, mld, cmd, dev, rocs, left, warned>>

ieee80211_remain_on_channel_expired ==
    /\ Now("expired") /\ Return
    /\ works' = Queue(works, "hw_roc_done")
    /\ UNCHANGED <<mac, scan, ret, mld, cmd, dev, rocs, left, warned>>

\* __ieee80211_start_scan() from drv_hw_scan() on: the driver refuses, or
\* _iwl_mld_single_scan_start() sends the command.
NotScanning == scan_req' = None /\ scanning' = FALSE /\ scan_done' = FALSE

HwScan ==
    /\ Now("hw_scan")
    /\ \/ NotScanning /\ Return /\ UNCHANGED cmd
       \/ /\ Running /\ Send("scan", "SCAN", 0)
          /\ Call(<< <<"sent_scan">> >>) /\ UNCHANGED <<scan_req, scanning, scan_done>>
    /\ UNCHANGED <<mac, scan_timer, works, ret, mld, dev, rocs, left, warned>>

SentScan ==
    /\ Now("sent_scan") /\ Over /\ cmd' = Idle /\ Return
    /\ IF cmd.op = "failed" THEN NotScanning /\ UNCHANGED scan_status
       ELSE scan_status' = TRUE /\ UNCHANGED <<scan_req, scanning, scan_done>>
    /\ UNCHANGED <<mac, scan_timer, works, ret, drvroc, lists, dev, rocs,
                   left, warned>>

\* The abort command, which is refused after an error.
iwl_mld_scan_stop_wait ==
    IF Running THEN Send("abort", "SCAN", 0) ELSE cmd' = [Idle EXCEPT !.op = "failed"]

\* iwl_mld_scan_stop() after SCAN_ABORT_UMAC, which may have failed.  The
\* firmware reports the end of the scan before it answers; the code waits.
ScanStopped ==
    /\ Now("scan_stopped") /\ Over /\ cmd' = Idle /\ Return
    /\ scan_status' = FALSE
    /\ iwl_mld_cancel_notifications_of_object("SCAN")
    /\ Completed
    /\ UNCHANGED <<mac, ret, drvroc, local_list, dev, rocs, left, warned>>

-----------------------------------------------------------------------------
(* mac80211: the list of ROC requests.                                     *)

Request(i, v, c) ==
    [id |-> i, vif |-> v, chan |-> c, started |-> FALSE, hw_begun |-> FALSE,
     abort |-> FALSE, notified |-> FALSE,
     roc |-> 0]     \* history: the ROC that serves it

\* The loops over the list stop at the first request that is not started, or
\* at the first of another interface or channel.
FirstThat(Test(_)) == SelectInSeq(roc_list, Test)
Prefix(i) == IF i = 0 THEN Len(roc_list) ELSE i - 1
StartedPart == Prefix(FirstThat(LAMBDA r : ~r.started))
SameVif(r, s) == r.vif = s.vif
Same(r, s) == r.vif = s.vif /\ r.chan = s.chan
HeadPart == Prefix(FirstThat(LAMBDA r : ~Same(r, roc_list[1])))
Change(n, Op(_)) == [i \in DOMAIN roc_list |->
                       IF i <= n THEN Op(roc_list[i]) ELSE roc_list[i]]
Drop(n) == SubSeq(roc_list, n + 1, Len(roc_list))

\* ieee80211_handle_roc_started() after hw_begun is set
Begin(r) == [r EXCEPT !.hw_begun = TRUE, !.started = TRUE, !.notified = TRUE]

\* local->scanning as a whole
Scanning == scanning \/ scan_done

ieee80211_run_deferred_scan ==
    scan_timer' = (scan_timer \/ (scan_req # None /\ ~Scanning))

ieee80211_start_next_roc ==
    /\ Now("start_next_roc")
    /\ \/ /\ roc_list = <<>> /\ ieee80211_run_deferred_scan
          /\ Return /\ UNCHANGED warned
       \/ /\ roc_list # <<>> /\ (in_reconfig \/ roc_list[1].started)
          /\ warned' = Warn(~in_reconfig, "next is started")
          /\ Return /\ UNCHANGED scan_timer
       \/ /\ roc_list # <<>> /\ ~in_reconfig /\ ~roc_list[1].started
          /\ Call(<< <<"start_roc", roc_list[1]>>, <<"next_roc">> >>)
          /\ UNCHANGED <<scan_timer, warned>>
    /\ UNCHANGED <<mac, scan_req, scanning, scan_done, works, ret, mld, cmd, dev,
                   rocs, left>>

\* _ieee80211_start_next_roc() after drv_remain_on_channel()
NextRoc ==
    /\ Now("next_roc") /\ Return
    /\ roc_list' = Change(HeadPart, LAMBDA r :
          [r EXCEPT !.started = TRUE, !.abort = @ \/ ret # 0,
                    !.roc = IF ret = 0 THEN roc[r.vif] ELSE 0])
    /\ works' = IF ret = 0 THEN works ELSE Queue(works, "hw_roc_done")
    /\ UNCHANGED <<in_reconfig, scan, ret, mld, cmd, dev, rocs, left, warned>>

ieee80211_hw_roc_start ==
    /\ Now("hw_roc_start") /\ Return
    /\ roc_list' = Change(StartedPart, Begin)
    /\ warned' = Warn(\E i \in 1..StartedPart : roc_list[i].notified, "notified twice")
    /\ UNCHANGED <<in_reconfig, scan, works, ret, mld, cmd, dev, rocs, left>>

\* ieee80211_hw_roc_done() with ieee80211_end_finished_rocs(), which ends all
\* that are started: without hw_begun start_time is 0 and, with a 64-bit
\* jiffies, nothing remains.
ieee80211_hw_roc_done ==
    /\ Now("hw_roc_done")
    /\ roc_list' = Drop(StartedPart)
    /\ Call(<< <<"start_next_roc">> >>)
    /\ UNCHANGED <<in_reconfig, scan, works, ret, mld, cmd, dev, rocs, left, warned>>

DropOnly(v, rest) == Call(rest)
drv_cancel_remain_on_channel(v, rest) == Call(<< <<"cancel_roc", v>> >> \o rest)

\* ieee80211_start_roc_work(): after drv_remain_on_channel()
NewRoc ==
    /\ Now("new_roc") /\ Return
    /\ roc_list' = IF ret # 0 THEN roc_list
                   ELSE Append(roc_list, [Arg EXCEPT !.started = TRUE,
                                                     !.roc = roc[Arg.vif]])
    /\ UNCHANGED <<in_reconfig, scan, works, ret, mld, cmd, dev, rocs, left, warned>>

\* ieee80211_coalesce_hw_started_roc(): the new request as it is queued
Coalesced(r, cur) == IF cur.hw_begun THEN [Begin(r) EXCEPT !.roc = cur.roc] ELSE r

After(i, r) == IF i = 0 THEN Append(roc_list, r) ELSE InsertAt(roc_list, i + 1, r)

\* Where a request is queued: with the first that matches and is not started,
\* or with the first that matches at all, if it fits there.  That depends on
\* durations; with one that has not begun, on its duration alone, as
\* start_time is 0.
Enqueue(r) ==
    LET u == FirstThat(LAMBDA x : Same(x, r) /\ ~x.started)
        s == FirstThat(LAMBDA x : Same(x, r) /\ x.started)
    IN  \/ /\ s # 0 /\ (u = 0 \/ s < u)
           /\ roc_list' = After(s, Coalesced(r, roc_list[s]))
        \/ roc_list' = After(u, r)

ieee80211_start_roc_work(v, c) ==
    /\ MutexFree /\ left.req > 0
    /\ left' = [left EXCEPT !.req = @ - 1]
    /\ LET r == Request(left.req, v, c) IN
       \/ /\ roc_list = <<>> /\ ~Scanning
          /\ agenda' = << <<"start_roc", r>>, <<"new_roc", r>> >>
          /\ UNCHANGED roc_list
       \/ /\ roc_list # <<>> \/ Scanning
          /\ Enqueue(r) /\ UNCHANGED agenda
    /\ UNCHANGED <<in_reconfig, scan, works, ret, mld, cmd, dev, rocs, warned>>

\* ieee80211_cancel_roc()
CancelRequest ==
    /\ MutexFree
    /\ \E i \in DOMAIN roc_list :
          agenda' = << <<"flush", "hw_roc_start">>, <<"cancel", roc_list[i].id>> >>
    /\ UNCHANGED <<mac, scan, works, ret, mld, cmd, dev, rocs, left, warned>>

Index(i) == FirstThat(LAMBDA r : r.id = i)

ieee80211_cancel_roc ==
    /\ Now("cancel")
    /\ LET f == Index(Arg) IN
       IF f # 0 /\ roc_list[f].started
       THEN /\ drv_cancel_remain_on_channel(roc_list[f].vif, << <<"cancelled", Arg>> >>)
            /\ UNCHANGED roc_list
       ELSE /\ roc_list' = IF f = 0 THEN roc_list ELSE RemoveAt(roc_list, f)
            /\ Return
    /\ UNCHANGED <<in_reconfig, scan, works, ret, mld, cmd, dev, rocs, left, warned>>

\* ieee80211_cancel_roc() after drv_cancel_remain_on_channel()
Cancelled ==
    /\ Now("cancelled")
    /\ works' = Cancel(works, "hw_roc_done")
    /\ roc_list' = Drop(StartedPart)
    /\ warned' = Warn(Index(Arg) > StartedPart, "not found")
    /\ Call(<< <<"start_next_roc">> >>)
    /\ UNCHANGED <<in_reconfig, scan, ret, mld, cmd, dev, rocs, left>>

\* ieee80211_roc_purge(): a request at a time, then the end.  The argument
\* is the interface and start_next_roc.
ieee80211_roc_purge ==
    /\ Now("purge")
    /\ LET f == FirstThat(LAMBDA r : r.vif = Arg.vif) IN
       \/ /\ f # 0 /\ roc_list' = RemoveAt(roc_list, f)
          /\ IF roc_list[f].started
             THEN drv_cancel_remain_on_channel(Arg.vif, << <<"purge", [Arg EXCEPT !.next = TRUE]>> >>)
             ELSE UNCHANGED agenda
          /\ UNCHANGED works
       \/ /\ f = 0 /\ UNCHANGED roc_list
          /\ works' = IF Arg.next THEN Cancel(works, "hw_roc_done") ELSE works
          /\ Call(IF Arg.next /\ roc_list # <<>> THEN << <<"start_next_roc">> >> ELSE <<>>)
    /\ UNCHANGED <<in_reconfig, scan, ret, mld, cmd, dev, rocs, left, warned>>

-----------------------------------------------------------------------------
(* mac80211: scans.                                                        *)

\* __ieee80211_start_scan() up to drv_hw_scan()
StartScan(v, rest) ==
    /\ scan_req' = v
    /\ \/ roc_list # <<>> /\ UNCHANGED scanning /\ agenda' = rest
       \/ roc_list = <<>> /\ scanning' = TRUE /\ agenda' = << <<"hw_scan">> >> \o rest

ieee80211_request_scan(v) ==
    /\ MutexFree /\ left.scan > 0 /\ scan_req = None
    /\ left' = [left EXCEPT !.scan = @ - 1]
    /\ StartScan(v, <<>>)
    /\ UNCHANGED <<mac, scan_done, scan_timer, works, ret, mld, cmd, dev, rocs, warned>>

\* __ieee80211_scan_completed(): if (was_scanning) ieee80211_start_next_roc()
NoResume(done) == <<>>
Resume(done) == IF scanning \/ done THEN << <<"start_next_roc">> >> ELSE <<>>

\* __ieee80211_scan_completed() when SCAN_COMPLETED is as given
ScanCompleted(done) ==
    /\ warned' = Warn(scan_req = None, "no scan")
    /\ IF scan_req = None
       THEN Return /\ scan_done' = done /\ UNCHANGED <<scan_req, scanning>>
       ELSE NotScanning /\ Call(Resume(done))

\* wiphy_delayed_work_timer()
ScanTimer ==
    /\ scan_timer /\ scan_timer' = FALSE
    /\ works' = Queue(works, "scan_work")
    /\ UNCHANGED <<mac, scan_req, scanning, scan_done, agenda, ret, mld, cmd, dev, rocs,
                   left, warned>>

\* A second scan_work of a scan in the hardware goes on as in a software scan,
\* channel after channel, to its end.
ieee80211_scan_work ==
    /\ Now("scan_work")
    /\ \/ in_reconfig /\ ScanCompleted(scan_done) /\ UNCHANGED scan_timer
       \/ ~in_reconfig /\ scan_done /\ ScanCompleted(FALSE) /\ UNCHANGED scan_timer
       \/ /\ ~in_reconfig /\ ~scan_done /\ scan_req = None
          /\ Return /\ UNCHANGED <<scan, warned>>
       \/ /\ ~in_reconfig /\ ~scan_done /\ scan_req # None /\ ~scanning
          /\ StartScan(scan_req, Tail(agenda)) /\ UNCHANGED <<scan_done, scan_timer, warned>>
       \/ /\ ~in_reconfig /\ ~scan_done /\ scanning
          /\ \/ ScanCompleted(FALSE) /\ UNCHANGED scan_timer
             \/ /\ scan_timer' = TRUE /\ Return
                /\ UNCHANGED <<scan_req, scanning, scan_done, warned>>
    /\ UNCHANGED <<mac, works, ret, mld, cmd, dev, rocs, left>>

ieee80211_scan_cancel ==
    /\ Now("scan_cancel")
    /\ \/ /\ scan_req = None \/ (scanning /\ (scan_done \/ ~scan_status))
          /\ Return /\ UNCHANGED <<scan, works, cmd, warned>>
       \/ /\ scanning /\ ~scan_done /\ scan_status
          /\ iwl_mld_scan_stop_wait
          /\ Call(<< <<"scan_stopped">> >>)
          /\ UNCHANGED <<scan, works, warned>>
       \/ /\ scan_req # None /\ ~scanning
          /\ scan_timer' = FALSE /\ works' = Cancel(works, "scan_work")
          /\ ScanCompleted(scan_done) /\ UNCHANGED cmd
    /\ UNCHANGED <<mac, ret, mld, dev, rocs, left>>

\* ieee80211_abort_scan()
AbortScan ==
    /\ MutexFree /\ scan_req # None
    /\ agenda' = << <<"scan_cancel">> >>
    /\ UNCHANGED <<mac, scan, works, ret, mld, cmd, dev, rocs, left, warned>>

\* ieee80211_do_stop(); cancel_scan is tested again at its end.  The
\* interface comes up again at once.
FlushScan(cancel_scan) ==
    IF cancel_scan THEN << <<"flush", "scan_work">> >> ELSE <<>>

ieee80211_do_stop(v) ==
    /\ MutexFree
    /\ agenda' = (IF scan_req = v THEN << <<"scan_cancel">> >> ELSE <<>>)
                 \o << <<"flush", "hw_roc_start">>, <<"purge", [vif |-> v, next |-> FALSE]>> >>
                 \o FlushScan(scan_req = v)
    /\ UNCHANGED <<mac, scan, works, ret, mld, cmd, dev, rocs, left, warned>>

-----------------------------------------------------------------------------
(* The firmware (external) and the receive path.                           *)

Notify(a, i, w) == rxq' = Append(rxq, [act |-> a, id |-> i, what |-> w])
Response == [act |-> "response", id |-> 0, what |-> "response"]

FwCommand ==
    /\ device = "ok" /\ cmd.op \in {"add", "remove", "scan", "abort"}
    /\ cmd' = [cmd EXCEPT !.op = "done"]
    /\ fw' = IF cmd.act = "SCAN" THEN fw
             ELSE [fw EXCEPT ![cmd.act] = IF cmd.op = "remove" THEN NoRoc
                                          ELSE [id |-> cmd.id, phase |-> "scheduled"]]
    /\ fw_scan' = CASE cmd.op = "scan" -> TRUE [] cmd.op = "abort" -> FALSE [] OTHER -> fw_scan
    /\ rxq' = rxq \o (IF cmd.op = "abort" /\ fw_scan
                      THEN <<[act |-> "SCAN", id |-> 0, what |-> "ended"]>> ELSE <<>>)
                  \o <<Response>>
    /\ UNCHANGED <<mac, scan, works, agenda, ret, mld, device, begun, rocs, left, warned>>

FwRoc(a) ==
    /\ device = "ok"
    /\ \/ /\ fw[a].phase = "scheduled" /\ fw' = [fw EXCEPT ![a].phase = "begun"]
          /\ begun' = begun \cup {fw[a].id} /\ Notify(a, fw[a].id, "started")
       \/ /\ fw[a].phase = "scheduled" /\ fw' = [fw EXCEPT ![a].phase = "failed"]
          /\ Notify(a, fw[a].id, "failed") /\ UNCHANGED begun
       \/ /\ fw[a].phase \in {"scheduled", "begun"} /\ fw' = [fw EXCEPT ![a] = NoRoc]
          /\ Notify(a, fw[a].id, "ended") /\ UNCHANGED begun
    /\ UNCHANGED <<mac, scan, works, agenda, ret, mld, cmd, fw_scan, device, rocs, left,
                   warned>>

FwScanEnds ==
    /\ device = "ok" /\ fw_scan /\ fw_scan' = FALSE /\ Notify("SCAN", 0, "ended")
    /\ UNCHANGED <<mac, scan, works, agenda, ret, mld, cmd, fw, device, begun, rocs, left,
                   warned>>

iwl_mld_rx_notif ==
    /\ rxq # <<>> /\ rxq' = Tail(rxq)
    /\ \/ /\ Head(rxq) = Response
          /\ cmd' = IF cmd.op = "done" THEN [cmd EXCEPT !.op = "answered"] ELSE cmd
          /\ UNCHANGED <<async_list, works>>
       \/ /\ Head(rxq) # Response
          /\ async_list' = Append(async_list, Head(rxq))
          /\ works' = Queue(works, "async_handlers_wk")
          /\ UNCHANGED cmd
    /\ UNCHANGED <<mac, scan, agenda, ret, drvroc, scan_status, local_list, fw, fw_scan,
                   device, begun, rocs, left, warned>>

-----------------------------------------------------------------------------
(* Recovery.                                                               *)

FwCrash ==
    /\ device = "ok" /\ left.crash > 0
    /\ device' = "crashed" /\ left' = [left EXCEPT !.crash = @ - 1]
    /\ UNCHANGED <<mac, scan, works, agenda, ret, mld, cmd, fw, fw_scan, rxq, begun, rocs,
                   warned>>

ForgetScan == scan_status' = FALSE /\ UNCHANGED <<scan, works>>
iwl_mld_report_scan_aborted ==
    /\ scan_status' = FALSE
    /\ IF scan_status THEN Completed ELSE UNCHANGED <<scan, works>>

iwl_mld_nic_error ==
    /\ device = "crashed" /\ device' = "error"
    /\ iwl_mld_report_scan_aborted
    /\ async_list' = <<>>
    /\ cmd' = IF cmd.op \in {None, "answered"} THEN cmd ELSE [cmd EXCEPT !.op = "failed"]
    /\ UNCHANGED <<mac, agenda, ret, drvroc, local_list, fw, fw_scan, rxq, begun, rocs,
                   left, warned>>

\* iwl_trans_restart_wk(): iwl_mld_dump_error() takes the mutex ...
DumpError ==
    /\ device = "error" /\ MutexFree /\ device' = "dumped"
    /\ UNCHANGED <<mac, scan, works, agenda, ret, mld, cmd, fw, fw_scan, rxq, begun, rocs,
                   left, warned>>

\* ... and iwl_mld_sw_reset() does not; ieee80211_restart_hw() is its end.
iwl_mld_sw_reset ==
    /\ device = "dumped" /\ device' = "restart"
    /\ iwl_mld_report_scan_aborted
    /\ in_reconfig' = TRUE
    /\ UNCHANGED <<roc_list, agenda, ret, drvroc, lists, cmd, fw, fw_scan, rxq, begun,
                   rocs, left, warned>>

ieee80211_restart_work ==
    /\ device = "restart" /\ MutexFree /\ device' = "restarting"
    /\ agenda' = << <<"flush", "all">>, <<"check_scan">>, <<"scan_cancel">>,
                    <<"flush", "hw_roc_done">>, <<"reconfig">>,
                    <<"flush", "hw_roc_start">>, <<"flush", "hw_roc_done">>,
                    <<"reconfig_roc">>, <<"start_next_roc">> >>
    /\ UNCHANGED <<mac, scan, works, ret, mld, cmd, fw, fw_scan, rxq, begun, rocs, left,
                   warned>>

CheckScan ==
    /\ Now("check_scan") /\ Return
    /\ warned' = Warn(scanning, "scan in progress")
    /\ UNCHANGED <<mac, scan, works, ret, mld, cmd, dev, rocs, left>>

\* iwl_mld_mac80211_start() stops and starts the firmware, with
\* iwl_mld_restart_cleanup() between.
iwl_mld_mac80211_start ==
    /\ device' = "ok"
    /\ rxq' = <<>> /\ async_list' = <<>>
    /\ fw' = [a \in Activities |-> NoRoc] /\ fw_scan' = FALSE
    /\ works' = IF \E v \in Vifs : roc[v] # 0 THEN Queue(works, "hw_roc_done") ELSE works
    /\ roc' = [v \in Vifs |-> 0] /\ aux_sta' = {} /\ emlsr_blocked' = FALSE
    /\ scan_status' = FALSE

\* ieee80211_reconfig() up to ieee80211_reconfig_roc(), all with the mutex
\* held: the driver starts, and in_reconfig is cleared.
ieee80211_reconfig ==
    /\ Now("reconfig") /\ Return
    /\ iwl_mld_mac80211_start
    /\ in_reconfig' = FALSE
    /\ UNCHANGED <<roc_list, scan, ret, local_list, cmd, begun, rocs, left, warned>>

\* ieee80211_reconfig_roc() between the flushes and ieee80211_start_next_roc()
ieee80211_reconfig_roc ==
    /\ Now("reconfig_roc") /\ Return
    /\ LET kept == SelectSeq(SubSeq(roc_list, 1, StartedPart), LAMBDA r : ~r.hw_begun)
       IN  roc_list' = [i \in DOMAIN kept |-> [kept[i] EXCEPT !.started = FALSE]]
                       \o Drop(StartedPart)
    /\ warned' = Warn(Contains(works, "hw_roc_done") \/ \E v \in Vifs : roc[v] # 0, "pending")
    /\ UNCHANGED <<in_reconfig, scan, works, ret, mld, cmd, dev, rocs, left>>

-----------------------------------------------------------------------------
\* Steps of the holder of the mutex
Holder ==
    \/ wiphy_work_flush \/ cfg80211_process_wiphy_works
    \/ iwl_mld_start_roc \/ StartedRoc \/ iwl_mld_cancel_roc \/ CancelledRoc
    \/ iwl_mld_async_handlers_wk \/ Handle \/ AllHandled
    \/ ieee80211_remain_on_channel_expired
    \/ HwScan \/ SentScan \/ ScanStopped
    \/ ieee80211_start_next_roc \/ NextRoc
    \/ ieee80211_hw_roc_start \/ ieee80211_hw_roc_done \/ NewRoc
    \/ ieee80211_cancel_roc \/ Cancelled \/ ieee80211_roc_purge
    \/ ieee80211_scan_work \/ ieee80211_scan_cancel
    \/ CheckScan \/ ieee80211_reconfig \/ ieee80211_reconfig_roc

\* Steps that go on whoever holds it
Free == ScanTimer \/ iwl_mld_rx_notif \/ iwl_mld_nic_error \/ iwl_mld_sw_reset

\* Steps that take it
Take == cfg80211_wiphy_work \/ DumpError \/ ieee80211_restart_work

User ==
    \/ \E v \in Vifs, c \in Chans : ieee80211_start_roc_work(v, c)
    \/ \E v \in Vifs : ieee80211_request_scan(v) \/ ieee80211_do_stop(v)
    \/ CancelRequest \/ AbortScan

Firmware == FwCommand \/ FwScanEnds \/ \E a \in Activities : FwRoc(a)

Next == Holder \/ Free \/ Take \/ User \/ Firmware \/ FwCrash

Spec == Init /\ [][Next]_vars

\* The mutex is handed over in turn.  The firmware ends a ROC and a scan, and
\* its error is noticed.
FairSpec ==
    /\ Spec
    /\ WF_vars(Holder)
    /\ SF_vars(cfg80211_wiphy_work)
    /\ SF_vars(DumpError) /\ SF_vars(ieee80211_restart_work)
    /\ WF_vars(ScanTimer) /\ WF_vars(iwl_mld_rx_notif)
    /\ WF_vars(iwl_mld_nic_error) /\ WF_vars(iwl_mld_sw_reset)
    /\ WF_vars(FwCommand) /\ WF_vars(FwScanEnds)
    /\ \A a \in Activities : WF_vars(FwRoc(a))

-----------------------------------------------------------------------------
Requests == [id : Nat \ {0}, vif : Vifs, chan : Chans, started : BOOLEAN,
             hw_begun : BOOLEAN, abort : BOOLEAN, notified : BOOLEAN, roc : 0..Len(rocs)]
Notifs == [act : Activities \cup {"SCAN"}, id : 0..Len(rocs), what : {"started", "ended", "failed"}]

\* The types, and: wiphy_work_queue() has a work on wiphy_work_list at most
\* once, and a request is on roc_list at most once and is begun only when
\* started.
TypeOK ==
    /\ roc_list \in Seq(Requests)
    /\ \A i, j \in DOMAIN roc_list : roc_list[i].id = roc_list[j].id => i = j
    /\ \A i \in DOMAIN roc_list : roc_list[i].hw_begun => roc_list[i].started
    /\ scan_req \in Vifs \cup {None}
    /\ {in_reconfig, scanning, scan_done, scan_timer, scan_status, emlsr_blocked, fw_scan}
          \subseteq BOOLEAN
    /\ works \in Seq({"hw_roc_start", "hw_roc_done", "scan_work", "async_handlers_wk"})
    /\ IsInjective(works)
    /\ roc \in [Vifs -> 0..Len(rocs)] /\ aux_sta \subseteq Vifs
    /\ async_list \in Seq(Notifs) /\ local_list \in Seq(Notifs)
    /\ rxq \in Seq(Notifs \cup {Response})
    /\ cmd.op \in {None, "add", "remove", "scan", "abort", "done", "answered", "failed"}
    /\ fw \in [Activities -> [id : 0..Len(rocs), phase : {None, "scheduled", "begun", "failed"}]]
    /\ device \in {"ok", "crashed", "error", "dumped", "restart", "restarting"}
    /\ begun \subseteq 1..Len(rocs)

Quiet == MutexFree /\ device = "ok"

\* "The FW supports one ROC of each type simultaneously": WARN_ON() of
\* iwl_mld_start_roc().
OneRocOfEachType == "one ROC of each type" \notin warned

\* "flush work so nothing from the driver is still pending" held for every
\* ieee80211_reconfig_roc() so far.
NothingPending == "pending" \notin warned

\* A notification is applied to the ROC that it is about, never to the next
\* one of the same activity: the claim of the comment in iwl_mld_cancel_roc()
\* on the race with the firmware.
NotifOfThisRoc ==
    (Now("handle") /\ local_list # <<>>) =>
        \A v \in RocVifs(Head(local_list).act) : roc[v] = Head(local_list).id

\* User space is told that it is on the channel (cfg80211_ready_on_channel())
\* only when the firmware has begun the very ROC that serves the request, on
\* the channel that it asked for.
ReadyMeansOnChannel ==
    NothingPending =>
        \A i \in DOMAIN roc_list : roc_list[i].notified =>
            roc_list[i].roc \in begun /\ rocs[roc_list[i].roc] = roc_list[i].chan

\* When nobody holds the mutex, a ROC in the firmware serves a started request:
\* cancelling, purging and ending requests leave none behind off channel.
RocIsOwned ==
    (Quiet /\ NothingPending) =>
        \A a \in Activities : fw[a].id # 0 =>
            \E i \in DOMAIN roc_list : roc_list[i].started /\ roc_list[i].roc = fw[a].id

\* A scan that mac80211 takes to be in the hardware is known to the driver, or
\* its end is reported: no restart loses the end of a scan.
ScanTracked == (Quiet /\ scanning) => scan_status \/ scan_done

\* WARN_ON(!local->scan_req) in __ieee80211_scan_completed().
ScanHasRequest == "no scan" \notin warned

\* Every request leaves the list, whatever scans, cancellations and firmware
\* errors come between: as only so many are made, the list becomes empty.
\* Only after a scan was completed twice may ieee80211_start_roc_work() queue a
\* request that nothing starts.
RequestsEnd == roc_list # <<>> ~> roc_list = <<>> \/ ~ScanHasRequest

\* "wait for the work to finish/time out": a scan that waits for the ROCs has
\* one to wait for, or is about to be started.
ScanWaits ==
    (Quiet /\ scan_req # None /\ ~scanning) =>
        roc_list # <<>> \/ scan_timer \/ Contains(works, "scan_work")
=============================================================================
