---------------------------- MODULE ScheduleRun ----------------------------
(***************************************************************************)
(* One scheduled list while it runs: the loop of core/schedule_runner.py   *)
(* on the thread of workers/scheduled_runner.py, the signals it queues for *)
(* the UI thread, the table of per-transfer statuses the panel keeps       *)
(* (_run_status), and the edits the user makes meanwhile.  When a run may  *)
(* start is Schedules' business: here it starts whenever none is           *)
(* registered.                                                             *)
(***************************************************************************)
EXTENDS Naturals, Sequences, SequencesExt

CONSTANTS
    Transfers,  \* the transfers lists are made of
    Invalid,    \* those that do not pass Transfer.validate(): a tampered file
    Reports,    \* bound: the statuses RsyncWorker ends a transfer with
    MaxRunLog,  \* MAX_RUN_LOG
    MaxLen      \* bound: the length of a list

ASSUME InvalidAssumption == Invalid \subseteq Transfers
ASSUME ReportsAssumption == Reports \subseteq {"Completed", "Failed", "Cancelled"}
ASSUME MaxRunLogAssumption == MaxRunLog \in Nat \ {0}
ASSUME MaxLenAssumption == MaxLen \in Nat

VARIABLES
    here,        \* the list has not been deleted
    list,        \* s.transfers
    policy,      \* s.on_transfer_failure
    log,         \* s.run_log
    registered,  \* s.id in _active_runners
    rows,        \* _run_status[s.id]: a status for each transfer of the last run
    detail,      \* the run detail dialog: "closed", or the rows it was given are
                 \* the panel's ("current") or a list of its own ("own")
    work,        \* the runner: its deep copy of the list and its local variables
    stop,        \* _stop_requested
    whole,       \* history: no row was removed since the run started
    inbox        \* signals queued for the UI thread

panel  == <<here, list, policy, log>>
vars   == <<panel, registered, rows, detail, work, stop, whole, inbox>>

\* Bound: a transfer is in a list once, so that a row can be told by it.
Lists     == {l \in BoundedSeq(Transfers, MaxLen) : IsInjective(l)}
Statuses  == {"Completed", "Failed", "Cancelled", "rejected"}
Shown     == Statuses \cup {"Not started", "Running"}
Overalls  == {"completed", "partial", "aborted"}
Result    == [of : Transfers, st : Statuses]
Row       == [of : Transfers, st : Shown]

Started(i)     == [kind |-> "started", at |-> i]
Finished(i, s) == [kind |-> "finished", at |-> i, st |-> s]
Over(o, rs)    == [kind |-> "over", status |-> o, done |-> rs]

Parked == [at |-> "none", todo |-> <<>>, policy |-> "continue", done |-> <<>>, overall |-> "completed"]

TypeOK ==
    /\ here \in BOOLEAN
    /\ list \in Lists
    /\ policy \in {"continue", "abort"}
    /\ Len(log) <= MaxRunLog
    /\ \A i \in DOMAIN log : log[i].status \in Overalls /\ log[i].done \in Seq(Result)
    /\ registered \in BOOLEAN
    /\ rows \in Seq(Row) /\ Len(rows) <= MaxLen
    /\ detail \in {"closed", "current", "own"}
    /\ work.at \in {"none", "top", "rsync", "over"}
    /\ work.todo \in Lists /\ work.policy \in {"continue", "abort"}
    /\ work.done \in Seq(Result) /\ work.overall \in Overalls
    /\ stop \in BOOLEAN /\ whole \in BOOLEAN

Init ==
    /\ here = TRUE /\ list = <<>> /\ policy = "continue" /\ log = <<>>
    /\ registered = FALSE /\ rows = <<>> /\ detail = "closed"
    /\ work = Parked /\ stop = FALSE /\ whole = TRUE /\ inbox = <<>>

---------------------------------------------------------------------------
\* The panel.

\* run_schedule's last lines, by the user or by a timer while the detail
\* dialog is open: the dialog keeps the rows of the run before.
Begin ==
    /\ here /\ ~registered /\ list # <<>>
    /\ registered' = TRUE
    /\ rows' = [i \in DOMAIN list |-> [of |-> list[i], st |-> "Not started"]]
    /\ detail' = IF detail = "current" THEN "own" ELSE detail
    /\ work' = [Parked EXCEPT !.at = "top", !.todo = list, !.policy = policy]
    /\ stop' = FALSE /\ whole' = TRUE
    /\ UNCHANGED <<panel, inbox>>

\* The edit dialog, accepted: any transfers, any policy; id and log are kept.
Edit(l, p) ==
    /\ here /\ detail = "closed"
    /\ list' = l /\ policy' = p
    /\ UNCHANGED <<here, log, registered, rows, detail, work, stop, inbox, whole>>

\* "Add to schedule list" of the transfer queue.
AddTransfer(t) ==
    /\ here /\ detail = "closed"
    /\ Append(list, t) \in Lists
    /\ list' = Append(list, t)
    /\ UNCHANGED <<here, policy, log, registered, rows, detail, work, stop, inbox, whole>>

Delete ==
    /\ here /\ detail = "closed"
    /\ here' = FALSE /\ list' = <<>>
    /\ UNCHANGED <<policy, log, registered, rows, detail, work, stop, inbox, whole>>

\* The detail dialog opens on `run_status or []`.
OpenDetail ==
    /\ here /\ detail = "closed"
    /\ detail' = IF rows = <<>> THEN "own" ELSE "current"
    /\ UNCHANGED <<panel, registered, rows, work, stop, inbox, whole>>

CloseDetail ==
    /\ detail # "closed"
    /\ detail' = "closed"
    /\ UNCHANGED <<panel, registered, rows, work, stop, inbox, whole>>

\* "Remove from list" in the dialog: the transfer, and the row of that index.
RemoveTransfer(i) ==
    /\ detail # "closed" /\ i \in DOMAIN list
    /\ list' = RemoveAt(list, i)
    /\ IF detail = "current" /\ i \in DOMAIN rows
       THEN rows' = RemoveAt(rows, i) /\ whole' = FALSE
       ELSE UNCHANGED <<rows, whole>>
    /\ UNCHANGED <<here, policy, log, registered, detail, work, stop, inbox>>

---------------------------------------------------------------------------
\* The runner thread: run_schedule's loop.

IsFailure(s) == s \in {"Failed", "Cancelled", "Interrupted"}

\* MUTANT of Conclude: the status of a run that went on after a failure is lost.
ConcludeMutant(w, o) ==
    /\ work' = [w EXCEPT !.at = "over", !.overall = o]
    /\ inbox' = Append(inbox, Over(IF o = "partial" THEN "completed" ELSE o, w.done))

\* The loop is left: list_finished carries what was recorded.
Conclude(w, o) ==
    /\ work' = [w EXCEPT !.at = "over", !.overall = o]
    /\ inbox' = Append(inbox, Over(o, w.done))

\* The runner's results and status after one more transfer.
Recorded(s) ==
    [work EXCEPT !.done = Append(@, [of |-> work.todo[Len(@) + 1], st |-> s]),
                 !.overall = IF s = "Completed" THEN @ ELSE "partial"]

idx == Len(work.done) + 1

\* The top of the loop when nothing is left, or when a stop is asked for.
LeaveLoop ==
    /\ work.at = "top"
    /\ \/ idx > Len(work.todo) /\ Conclude(work, work.overall)
       \/ idx <= Len(work.todo) /\ stop /\ Conclude(work, "aborted")
    /\ UNCHANGED <<panel, registered, rows, detail, stop, whole>>

\* A transfer that does not validate is recorded without being run.
Reject ==
    /\ work.at = "top" /\ idx <= Len(work.todo) /\ ~stop
    /\ work.todo[idx] \in Invalid
    /\ IF work.policy = "abort"
       THEN Conclude(Recorded("rejected"), "aborted")
       ELSE work' = Recorded("rejected") /\ UNCHANGED inbox
    /\ UNCHANGED <<panel, registered, rows, detail, stop, whole>>

StartTransfer ==
    /\ work.at = "top" /\ idx <= Len(work.todo) /\ ~stop
    /\ work.todo[idx] \notin Invalid
    /\ work' = [work EXCEPT !.at = "rsync"]
    /\ inbox' = Append(inbox, Started(idx))
    /\ UNCHANGED <<panel, registered, rows, detail, stop, whole>>

\* rsync ends (or raises: "Failed"): the result is recorded and announced,
\* and the loop is left on a failure that aborts or on a stop.
TransferEnds(s) ==
    /\ work.at = "rsync"
    /\ LET w    == [Recorded(s) EXCEPT !.at = "top"]
           told == Append(inbox, Finished(idx, s))
       IN  IF stop \/ (IsFailure(s) /\ work.policy = "abort")
           THEN /\ work' = [w EXCEPT !.at = "over", !.overall = "aborted"]
                /\ inbox' = Append(told, Over("aborted", w.done))
           ELSE work' = w /\ inbox' = told
    /\ UNCHANGED <<panel, registered, rows, detail, stop, whole>>

\* ScheduledRunner.stop().
Stop ==
    /\ work.at \in {"top", "rsync"}
    /\ stop' = TRUE
    /\ UNCHANGED <<panel, registered, rows, detail, work, inbox, whole>>

---------------------------------------------------------------------------
\* The UI thread receives the runner's signals, in the order they were sent.

ShowAt(i, s) == IF i \in DOMAIN rows THEN [rows EXCEPT ![i].st = s] ELSE rows

TransferStarted ==
    /\ inbox # <<>> /\ Head(inbox).kind = "started"
    /\ rows' = ShowAt(Head(inbox).at, "Running")
    /\ inbox' = Tail(inbox)
    /\ UNCHANGED <<panel, registered, detail, work, stop, whole>>

TransferFinished ==
    /\ inbox # <<>> /\ Head(inbox).kind = "finished"
    /\ rows' = ShowAt(Head(inbox).at, Head(inbox).st)
    /\ inbox' = Tail(inbox)
    /\ UNCHANGED <<panel, registered, detail, work, stop, whole>>

\* MUTANT of AddRun: MAX_RUN_LOG is not applied.
AddRunMutant(e) == <<e>> \o log

\* Schedule.add_run(): newest first, the oldest dropped.
AddRun(e) ==
    LET longer == <<e>> \o log
    IN  SubSeq(longer, 1, IF Len(longer) > MaxRunLog THEN MaxRunLog ELSE Len(longer))

\* MUTANT of ListFinished: the rows are left as the signals before made them.
ListFinishedMutant ==
    /\ inbox # <<>> /\ Head(inbox).kind = "over"
    /\ registered' = FALSE
    /\ inbox' = Tail(inbox)
    /\ IF here
       THEN log' = AddRun([status |-> Head(inbox).status, done |-> Head(inbox).done])
       ELSE UNCHANGED log
    /\ work' = Parked /\ stop' = FALSE
    /\ UNCHANGED <<here, list, policy, rows, detail, whole>>

\* MUTANT of ListFinished: a deleted list returns before its runner is popped.
ListFinishedDeletedMutant ==
    /\ inbox # <<>> /\ Head(inbox).kind = "over"
    /\ inbox' = Tail(inbox)
    /\ IF here
       THEN /\ registered' = FALSE /\ work' = Parked /\ stop' = FALSE
            /\ log' = AddRun([status |-> Head(inbox).status, done |-> Head(inbox).done])
            /\ rows' = [i \in DOMAIN rows |->
                            IF i \in DOMAIN Head(inbox).done
                            THEN [rows[i] EXCEPT !.st = Head(inbox).done[i].st]
                            ELSE rows[i]]
       ELSE UNCHANGED <<registered, work, stop, log, rows>>
    /\ UNCHANGED <<here, list, policy, detail, whole>>

\* _on_list_finished: unregister and drop the runner, record the run, and
\* settle the rows by the results.
ListFinished ==
    /\ inbox # <<>> /\ Head(inbox).kind = "over"
    /\ registered' = FALSE
    /\ inbox' = Tail(inbox)
    /\ LET e == Head(inbox)
       IN  IF here
           THEN /\ log' = AddRun([status |-> e.status, done |-> e.done])
                /\ rows' = [i \in DOMAIN rows |->
                                IF i \in DOMAIN e.done THEN [rows[i] EXCEPT !.st = e.done[i].st]
                                ELSE rows[i]]
           ELSE UNCHANGED <<log, rows>>
    /\ work' = Parked /\ stop' = FALSE
    /\ UNCHANGED <<here, list, policy, detail, whole>>

---------------------------------------------------------------------------

User ==
    \/ Begin \/ Delete \/ OpenDetail \/ CloseDetail
    \/ \E l \in Lists, p \in {"continue", "abort"} : Edit(l, p)
    \/ \E t \in Transfers : AddTransfer(t)
    \/ \E i \in 1..MaxLen : RemoveTransfer(i)

Runner ==
    \/ LeaveLoop \/ Reject \/ StartTransfer \/ Stop
    \/ \E s \in Reports : TransferEnds(s)

Signals == TransferStarted \/ TransferFinished \/ ListFinished

Next == User \/ Runner \/ Signals

Spec == Init /\ [][Next]_vars

\* The thread runs, rsync ends, and the UI thread takes its events.
FairSpec ==
    /\ Spec
    /\ WF_vars(LeaveLoop \/ Reject \/ StartTransfer)
    /\ WF_vars(\E s \in Reports : TransferEnds(s))
    /\ WF_vars(Signals)

---------------------------------------------------------------------------
\* Properties.

\* The run in progress, as ListRun sees it: it lasts until the UI thread has
\* recorded it.
Asked == IF stop THEN "asked" ELSE "no"

RunAsPromised ==
    IF ~registered THEN [st |-> "none"]
    ELSE [st |-> "running", all |-> work.todo, done |-> work.done,
          policy |-> work.policy, stop |-> Asked]

Promise == INSTANCE ListRun WITH run <- RunAsPromised

\* The threaded run keeps the promise: it works once, in order, through the
\* list as it was when it started, whatever the user does to the list
\* meanwhile, and is recorded with the status its results deserve.
RunKeepsPromise == Promise!Spec

\* Until a row is removed, a row never shows more than the run has done, and
\* once the run is recorded the rows show exactly what was recorded.
RowsFollowTheRun ==
    here /\ whole =>
        \A i \in DOMAIN rows :
            IF registered
            THEN \/ rows[i].st = "Not started"
                 \/ rows[i].st = "Running" /\ (i \in DOMAIN work.done \/ (work.at = "rsync" /\ i = idx))
                 \/ i \in DOMAIN work.done /\ rows[i].st = work.done[i].st
            ELSE rows[i].st = IF i \in DOMAIN log[1].done THEN log[1].done[i].st ELSE "Not started"

\* A run that starts is recorded or, its list deleted, forgotten: the list can
\* run again.
RunIsRecorded == registered ~> ~registered

---------------------------------------------------------------------------
\* What makes the refinement inductive.

Signal ==
    [kind : {"started"}, at : Nat]
    \cup [kind : {"finished"}, at : Nat, st : Statuses]
    \cup [kind : {"over"}, status : Overalls, done : Seq(Result)]

WorkTypes ==
    /\ list \in Seq(Transfers) /\ policy \in {"continue", "abort"}
    /\ registered \in BOOLEAN /\ stop \in BOOLEAN
    /\ work \in [at : {"none", "top", "rsync", "over"}, todo : Seq(Transfers),
                 policy : {"continue", "abort"}, done : Seq(Result), overall : Overalls]
    /\ inbox \in Seq(Signal)

\* A runner that is not registered is gone, and nothing it sent is left.
GoneWhenUnregistered ==
    IF registered THEN work.at # "none" ELSE work = Parked /\ inbox = <<>>

\* list_finished is the last signal, and tells what the runner recorded.
OverIsLast ==
    \A i \in 1..Len(inbox) : inbox[i].kind = "over" =>
        /\ i = Len(inbox) /\ work.at = "over"
        /\ inbox[i].status = work.overall /\ inbox[i].done = work.done

\* In the loop, `overall` tells whether every result so far is a success, and
\* no failure so far was one to abort on.
LoopStatus ==
    work.at \in {"top", "rsync"} =>
        /\ work.overall = IF Promise!AllCompleted(work.done) THEN "completed" ELSE "partial"
        /\ ~Promise!Aborts(work)
        /\ Len(work.done) <= Len(work.todo)
        /\ work.at = "rsync" => Len(work.done) < Len(work.todo)

OverStatus == work.at = "over" => work.overall \in Promise!Verdicts(RunAsPromised)

RunInv == WorkTypes /\ GoneWhenUnregistered /\ OverIsLast /\ LoopStatus /\ OverStatus
=============================================================================
