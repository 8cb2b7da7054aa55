------------------------------ MODULE ProbeTab ------------------------------
(***************************************************************************)
(* The Host Monitor and Disk Health tabs (ui/tabs/monitor_tab.py,          *)
(* ui/tabs/smart_tab.py, workers/probes.py): a row and a worker for every  *)
(* host with a user name.  A worker's signals are queued to the UI thread: *)
(* its answer, then that it has finished.  A question about a changed host *)
(* key runs an event loop of its own, in which the timer and the signals   *)
(* of other workers go on.                                                 *)
(***************************************************************************)
EXTENDS Integers, Sequences, SequencesExt

CONSTANTS
    ProbeIps,       \* the addresses of hosts with a profile
    MaxAsking       \* bound: the timer fires with fewer questions open

ASSUME ProbeAssumption == MaxAsking \in Nat

VARIABLES
    status,     \* the row of each address, or "absent"
    probed,     \* the addresses with a result of this session
    worker,     \* the thread the tab holds for an address, or 0
    thread,     \* every thread: where it is, and the answer still queued
    asking,     \* the open questions, the last one on top
    overtaken   \* history: the addresses where a queued "finished" came after
                \* its worker had been replaced

probeVars == <<status, probed, worker, thread, asking, overtaken>>

Threads == 1..2         \* an address has no more than two at a time
NoThread == [at |-> "none", said |-> "none"]

ProbeTypeOK ==
    /\ status \in [ProbeIps -> {"absent", "new", "probing", "online", "error", "key"}]
    /\ probed \subseteq ProbeIps /\ worker \in [ProbeIps -> {0} \cup Threads]
    /\ thread \in [ProbeIps -> [Threads -> [at : {"none", "running", "cleanup", "done"},
                                            said : {"none", "result", "error", "key"}]]]
    /\ asking \in Seq(ProbeIps) /\ overtaken \subseteq ProbeIps

ProbeInit ==
    /\ status = [ip \in ProbeIps |-> "absent"] /\ probed = {}
    /\ worker = [ip \in ProbeIps |-> 0]
    /\ thread = [ip \in ProbeIps |-> [t \in Threads |-> NoThread]]
    /\ asking = <<>> /\ overtaken = {}

\* _populate(), when the tab is shown: the rows of hosts that are gone go,
\* those of new hosts come with what is known of them.
Populate(wanted) ==
    /\ asking = <<>>
    /\ status' = [ip \in ProbeIps |->
         IF ip \notin wanted THEN "absent"
         ELSE IF status[ip] # "absent" THEN status[ip]
         ELSE IF ip \in probed THEN "online" ELSE "new"]
    /\ UNCHANGED <<probed, worker, thread, asking, overtaken>>

\* QThread.isRunning(): not any more once the thread is about to say so.
IsRunning(ip) == worker[ip] # 0 /\ thread[ip][worker[ip]].at \in {"running", "cleanup"}
Free(ip) == {t \in Threads : thread[ip][t].at = "none"}

\* _probe_row() for some rows: those without a running worker get one.
ProbeRows(ips) ==
    LET start == {ip \in ips : status[ip] # "absent" /\ ~IsRunning(ip)} IN
    /\ \A ip \in start : Free(ip) # {}
    /\ \E new \in [start -> Threads] :
         /\ \A ip \in start : new[ip] \in Free(ip) /\ \A t \in Free(ip) : new[ip] <= t
         /\ worker' = [ip \in ProbeIps |-> IF ip \in start THEN new[ip] ELSE worker[ip]]
         /\ thread' = [ip \in ProbeIps |->
              IF ip \in start THEN [thread[ip] EXCEPT ![new[ip]] = [at |-> "running", said |-> "none"]]
              ELSE thread[ip]]
    /\ status' = [ip \in ProbeIps |-> IF ip \in start THEN "probing" ELSE status[ip]]

\* The button, F5, or the timer.
RefreshAll ==
    /\ Len(asking) < MaxAsking
    /\ ProbeRows(ProbeIps)
    /\ UNCHANGED <<probed, asking, overtaken>>

\* run(): one answer, and then the thread comes to its end.
Reports(ip, t) ==
    /\ thread[ip][t].at = "running"
    /\ \E said \in {"result", "error", "key"} :
         thread' = [thread EXCEPT ![ip][t] = [at |-> "cleanup", said |-> said]]
    /\ UNCHANGED <<status, probed, worker, asking, overtaken>>

Returns(ip, t) ==
    /\ thread[ip][t].at = "cleanup"
    /\ thread' = [thread EXCEPT ![ip][t].at = "done"]
    /\ UNCHANGED <<status, probed, worker, asking, overtaken>>

\* _on_result(), _on_error() and _on_key_change() up to its question; the
\* worker stays where it is.
Told(ip, s) == IF status[ip] = "absent" THEN status ELSE [status EXCEPT ![ip] = s]
DeliverMutant(ip, t) ==
    LET said == thread[ip][t].said IN
    /\ said # "none"
    /\ thread' = [thread EXCEPT ![ip][t].said = "none"]
    /\ \/ said = "result" /\ status' = Told(ip, "online") /\ probed' = probed \cup {ip} /\ UNCHANGED asking
       \/ said = "error"  /\ status' = Told(ip, "error") /\ UNCHANGED <<probed, asking>>
       \/ said = "key"    /\ status' = Told(ip, "key") /\ asking' = Append(asking, ip) /\ UNCHANGED probed
    /\ worker' = [worker EXCEPT ![ip] = 0]
    /\ UNCHANGED overtaken
DeliverDeafMutant(ip, t) ==
    LET said == thread[ip][t].said IN
    /\ said # "none"
    /\ thread' = [thread EXCEPT ![ip][t].said = "none"]
    /\ \/ said = "result" /\ status' = Told(ip, "online") /\ probed' = probed \cup {ip} /\ UNCHANGED asking
       \/ said = "error"  /\ UNCHANGED <<status, probed, asking>>
       \/ said = "key"    /\ status' = Told(ip, "key") /\ asking' = Append(asking, ip) /\ UNCHANGED probed
    /\ UNCHANGED <<worker, overtaken>>
Deliver(ip, t) ==
    LET said == thread[ip][t].said IN
    /\ said # "none"
    /\ thread' = [thread EXCEPT ![ip][t].said = "none"]
    /\ \/ said = "result" /\ status' = Told(ip, "online") /\ probed' = probed \cup {ip} /\ UNCHANGED asking
       \/ said = "error"  /\ status' = Told(ip, "error") /\ UNCHANGED <<probed, asking>>
       \/ said = "key"    /\ status' = Told(ip, "key") /\ asking' = Append(asking, ip) /\ UNCHANGED probed
    /\ UNCHANGED <<worker, overtaken>>

\* The question on top is answered: a trusted host with a row is probed anew.
Answered ==
    /\ asking # <<>>
    /\ asking' = Front(asking)
    /\ \/ ProbeRows({Last(asking)})
       \/ UNCHANGED <<status, worker, thread>>
    /\ UNCHANGED <<probed, overtaken>>

\* finished: the entry of the address goes, whichever worker it holds.  The
\* signal of a worker that was replaced may also have gone with it.
Finished(ip, t) ==
    /\ thread[ip][t] = [at |-> "done", said |-> "none"]
    /\ thread' = [thread EXCEPT ![ip][t] = NoThread]
    /\ \/ worker' = [worker EXCEPT ![ip] = 0]
          /\ overtaken' = IF worker[ip] \in {0, t} THEN overtaken ELSE overtaken \cup {ip}
       \/ worker[ip] # t /\ UNCHANGED <<worker, overtaken>>
    /\ UNCHANGED <<status, probed, asking>>

ProbeSignals(ip, t) == Reports(ip, t) \/ Returns(ip, t) \/ Deliver(ip, t) \/ Finished(ip, t)

ProbeNext ==
    \/ \E wanted \in SUBSET ProbeIps : Populate(wanted)
    \/ RefreshAll \/ Answered
    \/ \E ip \in ProbeIps, t \in Threads : ProbeSignals(ip, t)

ProbeSpec == ProbeInit /\ [][ProbeNext]_probeVars

---------------------------------------------------------------------------
(* monitor_tab.py: "Remove from dict only after run() has fully returned".  *)
(* A thread that still runs is the one its tab holds, so it is neither      *)
(* destroyed while running nor doubled by a refresh; only the signal of a   *)
(* replaced worker can take it from the tab.                                *)
RunningIsHeld ==
    \A ip \in ProbeIps \ overtaken : \A t \in Threads :
        thread[ip][t].at \in {"running", "cleanup"} => worker[ip] = t

(* No row goes on showing "Probing..." for good, whatever the worker found  *)
(* and however often the tab was refreshed, populated or asked meanwhile.   *)
RowsAreAnswered == \A ip \in ProbeIps : status[ip] = "probing" ~> status[ip] # "probing"
=============================================================================
