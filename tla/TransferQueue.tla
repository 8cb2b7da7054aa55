--------------------------- MODULE TransferQueue ---------------------------
(***************************************************************************)
(* The queue of the File Transfers tab (ui/tabs/transfer_tab.py) and the   *)
(* threads it starts (workers/rsync.py): the text in the status column,    *)
(* active_workers, the signals on their way to the UI thread, the context  *)
(* menu, and transfer_history.json.  A row is known by its transfer id.    *)
(* Signals carry that id and not the worker they come from, and a row may  *)
(* be restarted: which worker a signal speaks of is the question here.     *)
(*                                                                         *)
(* Left out: progress bars, sizes, speeds, output lines, notifications.    *)
(***************************************************************************)
EXTENDS Naturals, Sequences

CONSTANTS
    Tids,     \* bound: the ids handed out by _new_id in a session
    Workers,  \* bound: the RsyncWorkers alive at once
    None,
    MaxInbox  \* bound: a worker is started while no more signals than this wait, and
              \* reports progress while fewer do

ASSUME NoneAssumption == None \notin Workers /\ None \notin Tids

VARIABLES
    row,      \* the status text of each row; "absent" before, "gone" after it
    dry,      \* the rows whose args hold --dry-run
    saved,    \* the status of each row in transfer_history.json
    held,     \* active_workers
    worker,   \* the threads: the row each works for, and how far it is
    inbox,    \* signals queued for the UI thread
    menu,     \* the open context menu: its row and the text it was built for
    waits,    \* the worker the UI thread waits for in _on_finished
    shared    \* history: the rows restarted before their last worker was done with

vars == <<row, dry, saved, held, worker, inbox, menu, waits, shared>>

\* Mutant: a transfer that is queued is not active.
ActiveMutant == {"Transferring"}

\* The texts for which the menu offers Cancel rather than Restart and Delete.
Active == {"Queued", "Dry Run - Queued", "Transferring"}
\* The texts of a row whose transfer is not over.
Going  == {"Queued", "Dry Run - Queued", "Transferring", "Cancelling", "Dry Run"}
\* "Failed: ..." carries an error message, "Failed" does not.
Settled == {"Completed", "Failed", "Failed: ...", "Cancelled", "Interrupted", "Dry Run - Done"}
Shown   == Going \cup Settled
Kept    == {"Completed", "Failed", "Cancelled"}
Ends    == {"Completed", "Failed", "Failed: ...", "Cancelled"}
\* What _clear_finished removes: "Dry Run" is a prefix.
Clearable == Settled \cup {"Dry Run - Queued", "Dry Run"}

At(place, t, hit) == [at |-> place, of |-> t, hit |-> hit]
Idle    == At("idle", None, FALSE)
Closed  == [of |-> None, text |-> "absent"]
Places  == {"pinning", "launching", "rsync", "ended"}

Busy(w)   == worker[w].at \in {"pinning", "launching", "rsync"}
BusyOf(t) == {w \in Workers : Busy(w) /\ worker[w].of = t}
\* A finished signal of row t is on its way.
Settling(t) == \E i \in 1..Len(inbox) : inbox[i].kind = "finished" /\ inbox[i].of = t
Present(t) == row[t] \in Shown

TypeOK ==
    /\ row \in [Tids -> Shown \cup {"absent", "gone"}]
    /\ dry \subseteq Tids
    /\ saved \in [Tids -> Shown \cup {"absent"}]
    /\ held \in [Tids -> Workers \cup {None}]
    /\ worker \in [Workers -> [at : Places, of : Tids, hit : BOOLEAN] \cup {Idle}]
    /\ inbox \in Seq([kind : {"progress"}, of : Tids, text : {"Transferring", "Dry Run"}]
                     \cup [kind : {"finished"}, of : Tids, text : Ends])
    /\ menu \in [of : Tids, text : Shown] \cup {Closed}
    /\ waits \in Workers \cup {None}
    /\ shared \subseteq Tids

-----------------------------------------------------------------------------
(* The files and the rows. *)

\* _load_history: whatever is not one of three texts was interrupted.
Loaded(file) ==
    [t \in Tids |-> IF file[t] = "absent" THEN "absent"
                    ELSE IF file[t] \in Kept THEN file[t] ELSE "Interrupted"]

\* _save_history: the rows as they are.
Contents(rows) == [t \in Tids |-> IF rows[t] = "gone" THEN "absent" ELSE rows[t]]

\* The first start; Reopen is the later ones.
Init ==
    /\ row = [t \in Tids |-> "absent"] /\ saved = row /\ dry = {}
    /\ held = [t \in Tids |-> None] /\ worker = [w \in Workers |-> Idle]
    /\ inbox = <<>> /\ menu = Closed /\ waits = None /\ shared = {}

\* An ended thread is forgotten when active_workers lets go of it.
Dropped(ws, holders) ==
    [w \in Workers |->
        IF ws[w].at = "ended" /\ \A t \in Tids : holders[t] # w THEN Idle ELSE ws[w]]

\* A new worker for row t, started: it replaces the one active_workers had.
StartsWorker(t) ==
    /\ Len(inbox) <= MaxInbox
    /\ \E w \in Workers :
        /\ worker[w] = Idle
        /\ held' = [held EXCEPT ![t] = w]
        /\ worker' = Dropped([worker EXCEPT ![w] = At("pinning", t, FALSE)], held')
        /\ shared' = IF BusyOf(t) = {} /\ ~Settling(t) THEN shared ELSE shared \cup {t}

-----------------------------------------------------------------------------
(* The user, on the UI thread. *)

UiFree == waits = None /\ menu = Closed

\* _process_new: the dialog was accepted.
ProcessNew(t) ==
    /\ UiFree /\ row[t] = "absent"
    /\ \/ dry' = dry \ {t} /\ row' = [row EXCEPT ![t] = "Queued"]
       \/ dry' = dry \cup {t} /\ row' = [row EXCEPT ![t] = "Dry Run - Queued"]
    /\ StartsWorker(t)
    /\ saved' = Contents(row')
    /\ UNCHANGED <<inbox, menu, waits>>

\* _show_context_menu: menu.exec() runs an event loop, so signals are handled
\* beneath it, and what it offers follows the text it was opened on.
ShowContextMenu(t) ==
    /\ UiFree /\ Present(t)
    /\ menu' = [of |-> t, text |-> row[t]]
    /\ UNCHANGED <<row, dry, saved, held, worker, inbox, waits, shared>>

CloseMenu ==
    /\ waits = None /\ menu # Closed
    /\ menu' = Closed
    /\ UNCHANGED <<row, dry, saved, held, worker, inbox, waits, shared>>

\* RsyncWorker.stop: a signal to the process group, when there is a process.
Stopped(w) == [worker EXCEPT ![w] = At(@.at, @.of, @.hit \/ @.at = "rsync")]

\* Mutant: the text is written before the worker is looked for.
CancelMutant(t) ==
    /\ waits = None /\ menu.of = t /\ menu.text \in Active
    /\ worker' = IF held[t] = None THEN worker ELSE Stopped(held[t])
    /\ row' = [row EXCEPT ![t] = "Cancelling"]
    /\ menu' = Closed
    /\ UNCHANGED <<dry, saved, held, inbox, waits, shared>>

\* (Without a worker it does nothing, as CloseMenu.)
Cancel(t) ==
    /\ waits = None /\ menu.of = t /\ menu.text \in Active
    /\ held[t] # None
    /\ worker' = Stopped(held[t])
    /\ row' = [row EXCEPT ![t] = "Cancelling"]
    /\ menu' = Closed
    /\ UNCHANGED <<dry, saved, held, inbox, waits, shared>>

\* _restart: a new worker under the same id; the history is not saved.
Restart(t) ==
    /\ waits = None /\ menu.of = t /\ menu.text \notin Active
    /\ row' = [row EXCEPT ![t] = "Queued"]
    /\ StartsWorker(t)
    /\ menu' = Closed
    /\ UNCHANGED <<dry, saved, inbox, waits>>

\* Mutant: active_workers is not asked.
DeleteRowMutant(t) ==
    /\ waits = None /\ menu.of = t /\ menu.text \notin Active
    /\ row' = [row EXCEPT ![t] = "gone"]
    /\ saved' = Contents(row')
    /\ menu' = Closed
    /\ UNCHANGED <<dry, held, worker, inbox, waits, shared>>

DeleteRow(t) ==
    /\ waits = None /\ menu.of = t /\ menu.text \notin Active
    /\ held[t] = None
    /\ row' = [row EXCEPT ![t] = "gone"]
    /\ saved' = Contents(row')
    /\ menu' = Closed
    /\ UNCHANGED <<dry, held, worker, inbox, waits, shared>>

ClearFinished ==
    /\ UiFree
    /\ row' = [t \in Tids |-> IF row[t] \in Clearable THEN "gone" ELSE row[t]]
    /\ saved' = Contents(row')
    /\ UNCHANGED <<dry, held, worker, inbox, menu, waits, shared>>

-----------------------------------------------------------------------------
(* The threads: RsyncWorker.run. *)

Label(t) == IF t \in dry THEN "Dry Run" ELSE "Transferring"
Progress(t)    == [kind |-> "progress", of |-> t, text |-> Label(t)]
Finished(t, s) == [kind |-> "finished", of |-> t, text |-> s]

Moved(w, place) == [worker EXCEPT ![w] = At(place, @.of, @.hit)]

\* The host key is pinned and the source is there: the first progress signal
\* goes out before there is a process.
Checked(w) ==
    /\ worker[w].at = "pinning"
    /\ worker' = Moved(w, "launching")
    /\ inbox' = Append(inbox, Progress(worker[w].of))
    /\ UNCHANGED <<row, dry, saved, held, menu, waits, shared>>

Launch(w) ==
    /\ worker[w].at = "launching"
    /\ worker' = Moved(w, "rsync")
    /\ UNCHANGED <<row, dry, saved, held, inbox, menu, waits, shared>>

Report(w) ==
    /\ worker[w].at = "rsync" /\ Len(inbox) < MaxInbox
    /\ inbox' = Append(inbox, Progress(worker[w].of))
    /\ UNCHANGED <<row, dry, saved, held, worker, menu, waits, shared>>

\* The last thing a worker does.  It fails with a message before there is a
\* process; rsync may end in any way, and with EXIT_CANCELLED when it was hit.
Outcomes(w) ==
    IF worker[w].at # "rsync" THEN {"Failed: ..."}
    ELSE IF worker[w].hit THEN Ends ELSE Ends \ {"Cancelled"}

End(w) ==
    /\ Busy(w)
    /\ \E s \in Outcomes(w) : inbox' = Append(inbox, Finished(worker[w].of, s))
    /\ worker' = Dropped(Moved(w, "ended"), held)
    /\ UNCHANGED <<row, dry, saved, held, menu, waits, shared>>

-----------------------------------------------------------------------------
(* The signals, on the UI thread; the menu's event loop handles them too. *)

OnProgress ==
    /\ waits = None /\ inbox # <<>> /\ Head(inbox).kind = "progress"
    /\ LET t == Head(inbox).of
       IN  row' = IF Present(t) THEN [row EXCEPT ![t] = Head(inbox).text] ELSE row
    /\ inbox' = Tail(inbox)
    /\ UNCHANGED <<dry, saved, held, worker, menu, waits, shared>>

\* What the row of a finished transfer says: a dry run that ends without a
\* message is done, however it ended.
Verdict(t, s) == IF t \in dry /\ s # "Failed: ..." THEN "Dry Run - Done" ELSE s

\* Mutants: the signal of a row that is gone is ignored; a row that is being
\* cancelled keeps its text; the history is saved only after a wait.
OnFinishedIgnoresMutant ==
    /\ waits = None /\ inbox # <<>> /\ Head(inbox).kind = "finished"
    /\ LET t == Head(inbox).of
       IN  IF Present(t)
           THEN /\ row' = [row EXCEPT ![t] = Verdict(t, Head(inbox).text)]
                /\ held' = [held EXCEPT ![t] = None]
                /\ worker' = Dropped(worker, held')
                /\ saved' = Contents(row')
           ELSE UNCHANGED <<row, held, worker, saved>>
    /\ inbox' = Tail(inbox)
    /\ UNCHANGED <<dry, menu, waits, shared>>

OnFinishedKeepsMutant ==
    /\ waits = None /\ inbox # <<>> /\ Head(inbox).kind = "finished"
    /\ LET t == Head(inbox).of
       IN  /\ row' = IF Present(t) /\ row[t] # "Cancelling"
                     THEN [row EXCEPT ![t] = Verdict(t, Head(inbox).text)] ELSE row
           /\ held' = [held EXCEPT ![t] = None]
           /\ worker' = Dropped(worker, held')
           /\ saved' = Contents(row')
    /\ inbox' = Tail(inbox)
    /\ UNCHANGED <<dry, menu, waits, shared>>

OnFinishedUnsavedMutant ==
    /\ waits = None /\ inbox # <<>> /\ Head(inbox).kind = "finished"
    /\ LET t == Head(inbox).of
       IN  /\ row' = IF Present(t) THEN [row EXCEPT ![t] = Verdict(t, Head(inbox).text)] ELSE row
           /\ held' = [held EXCEPT ![t] = None]
           /\ worker' = Dropped(worker, held')
           /\ waits' = IF held[t] # None /\ Busy(held[t]) THEN held[t] ELSE None
    /\ inbox' = Tail(inbox)
    /\ UNCHANGED <<dry, saved, menu, shared>>

\* _on_finished up to worker.wait(): the worker popped is the one held under
\* the id, whichever the signal came from.
OnFinished ==
    /\ waits = None /\ inbox # <<>> /\ Head(inbox).kind = "finished"
    /\ LET t == Head(inbox).of
           w == held[t]
       IN  /\ row' = IF Present(t) THEN [row EXCEPT ![t] = Verdict(t, Head(inbox).text)] ELSE row
           /\ held' = [held EXCEPT ![t] = None]
           /\ worker' = Dropped(worker, held')
           /\ IF w # None /\ Busy(w)
              THEN waits' = w /\ UNCHANGED saved
              ELSE waits' = None /\ saved' = Contents(row')
    /\ inbox' = Tail(inbox)
    /\ UNCHANGED <<dry, menu, shared>>

\* The thread waited for is over: _on_finished goes on to save.
WaitOver ==
    /\ waits # None /\ ~Busy(waits)
    /\ waits' = None
    /\ saved' = Contents(row)
    /\ UNCHANGED <<row, dry, held, worker, inbox, menu, shared>>

-----------------------------------------------------------------------------
\* The program is closed, or dies, and is started again.  (A thread dropped
\* while it runs aborts the program: one way to die.)
Reopen ==
    /\ row' = Loaded(saved)
    /\ held' = [t \in Tids |-> None] /\ worker' = [w \in Workers |-> Idle]
    /\ inbox' = <<>> /\ menu' = Closed /\ waits' = None /\ shared' = {}
    /\ UNCHANGED <<dry, saved>>

UserStep ==
    \/ \E t \in Tids : ProcessNew(t) \/ ShowContextMenu(t) \/ Cancel(t) \/ Restart(t) \/ DeleteRow(t)
    \/ CloseMenu
    \/ ClearFinished
    \/ Reopen

WorkerStep(w) == Checked(w) \/ Launch(w) \/ Report(w) \/ End(w)

Signal == OnProgress \/ OnFinished \/ WaitOver

Next == UserStep \/ (\E w \in Workers : WorkerStep(w)) \/ Signal

Spec == Init /\ [][Next]_vars

\* A thread ends (rsync does, and so do the timeouts of the connection), and
\* Qt delivers what is queued.  Nothing is asked of the user.
FairSpec == Spec /\ (\A w \in Workers : WF_vars(End(w))) /\ WF_vars(Signal)

-----------------------------------------------------------------------------
(* Properties. *)

\* A row that says its transfer is going on has a worker that is at work, or
\* the signal that will settle it is queued: no row is left saying
\* "Cancelling".  (_on_progress, _cancel and _restart write the text of
\* whatever row has the id.)
GoingIsWorked == \A t \in Tids : row[t] \in Going => BusyOf(t) # {} \/ Settling(t)

\* active_workers is the workers whose finished signal was not handled yet,
\* for every row that was not restarted early.  (The registry that _cancel,
\* _delete_row and _on_finished go by; with it, worker.wait() waits for a
\* thread that is about to end.)
HeldAreRunning ==
    \A t \in Tids \ shared :
        /\ \A w \in BusyOf(t) : held[t] = w
        /\ held[t] # None => (BusyOf(t) # {} <=> ~Settling(t))
        /\ Settling(t) => held[t] # None

\* A worker loses its row only when "Clear Finished" takes a dry run for a
\* finished one, or the row was restarted early.  (_delete_row, _clear_finished)
RowOutlivesWorker ==
    \A t \in Tids : row[t] = "gone" /\ BusyOf(t) # {} => t \in dry \cup shared

\* No worker is lost sight of: the registry has it, and its row stays.
WorkersAreHeld == HeldAreRunning /\ RowOutlivesWorker

\* A row is restarted early only from a menu that was opened while it said
\* "Cancelling" or, for a dry run, "Dry Run": nowhere else is Restart offered
\* before the last worker's finished signal was handled.  (_show_context_menu)
SharedByRestart ==
    [][\A t \in shared' \ shared :
          menu.of = t /\ (menu.text = "Cancelling" \/ (menu.text = "Dry Run" /\ t \in dry))]_vars

\* The history holds what the settled rows say, except what _load_history
\* reads as "Interrupted".  (_save_history, called by all but _restart, _cancel
\* and _on_progress)
HistoryTells ==
    waits = None => \A t \in Tids :
        row[t] \in Settled => row[t] \in {saved[t], Loaded(saved)[t]}

\* A row does not say forever that its transfer is going on.
GoingEnds == \A t \in Tids : row[t] \in Going ~> row[t] \notin Going
=============================================================================
