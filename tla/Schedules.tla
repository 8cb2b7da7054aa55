----------------------------- MODULE Schedules -----------------------------
(***************************************************************************)
(* The scheduled transfer lists of one program: the minute timer and the   *)
(* startup handler of the main window (app.py), the Schedules panel        *)
(* (ui/tabs/schedules_widget.py), the store (core/schedules.py) and the    *)
(* runner threads (workers/scheduled_runner.py), over several sessions.    *)
(*                                                                         *)
(* Everything but the runners happens on the UI thread.  A dialog runs an  *)
(* event loop of its own inside the handler that opened it, so up to three *)
(* handlers can be suspended at once: the user's Run Now confirmation, the *)
(* startup handler above it, the timer's above both.  Only the topmost     *)
(* dialog can be answered.  Qt does not re-enter a timer whose slot has    *)
(* not returned, so the timer's handler is never stacked on itself.        *)
(***************************************************************************)
EXTENDS ScheduleDue

CONSTANTS
    Lists,        \* ids of the lists the user may ever create
    Configs,      \* bound: what the edit dialog may set for each list, records
                  \* of trigger, confirm, missed and empty (no transfers)
    MaxTime,      \* bound: the last instant of the clock
    Slots,        \* bound: the runners of one list alive at a time
    DiskMayFail,  \* whether a read or a write of schedules.json may fail
    None          \* no list, no runner

ASSUME ListsAssumption == None \notin Lists /\ None \notin Slots
ASSUME MaxTimeAssumption == MaxTime \in Nat
ASSUME DiskMayFailAssumption == DiskMayFail \in BOOLEAN
ASSUME ConfigsAssumption ==
    \A l \in Lists : \A c \in Configs[l] :
        /\ ValidTrigger(c.trigger)
        /\ c.confirm \in BOOLEAN
        /\ c.missed \in {"skip", "run", "warn"}
        /\ c.empty \in BOOLEAN

VARIABLES
    open,       \* the program is running
    failed,     \* _integrity_failed: schedules.json did not verify
    keyOk,      \* the signing key can be had
    paused,     \* Pause All
    now,        \* the clock
    mem,        \* manager.schedules: each list's entry, or Absent
    disk,       \* what schedules.json holds
    used,       \* ids ever given to a list (a new one gets a fresh uuid4)
    faulty,     \* memory and disk are known to differ: a load or save failed
    user,       \* the list whose Run Now confirmation is open, or None
    missed,     \* _handle_missed_schedules_on_startup
    tick,       \* _check_due_schedules
    run,        \* the runner threads of each list
    registry,   \* _active_runners
    doubled     \* history: lists started while one of their runners was alive

session == <<open, failed, keyOk, paused>>
store   == <<mem, disk, faulty>>
frames  == <<user, missed, tick>>
threads == <<run, registry, doubled>>
vars    == <<session, now, store, used, frames, threads>>

Times == {Never} \cup 0..MaxTime

Absent == [here |-> FALSE]
Entry  == [here : {TRUE}, enabled : BOOLEAN, conf : UNION {Configs[l] : l \in Lists}, last : Times]

Present == {l \in Lists : mem[l].here}

\* A suspended or running handler: what it waits for, the list its dialog is
\* about, and the lists of its snapshot it has still to go through.
Frame == [st : {"idle", "pending", "loop", "ask", "empty"},
          list : Lists \cup {None}, rest : SUBSET Lists]
Idle       == [st |-> "idle", list |-> None, rest |-> {}]
Pending    == [st |-> "pending", list |-> None, rest |-> {}]
Loop(rest) == IF rest = {} THEN Idle ELSE [st |-> "loop", list |-> None, rest |-> rest]
Dialog(st, l, rest) == [st |-> st, list |-> l, rest |-> rest]

Free       == [st |-> "free", at |-> Never]
Running(t) == [st |-> "running", at |-> t]
Emitted(t) == [st |-> "emitted", at |-> t]
Runner     == {Free} \cup {Running(t) : t \in Times} \cup {Emitted(t) : t \in Times}

Live(l) == {i \in Slots : run[l][i] # Free}

TypeOK ==
    /\ open \in BOOLEAN /\ failed \in BOOLEAN /\ keyOk \in BOOLEAN /\ paused \in BOOLEAN
    /\ now \in 0..MaxTime
    /\ mem \in [Lists -> Entry \cup {Absent}]
    /\ disk \in [Lists -> Entry \cup {Absent}]
    /\ used \in SUBSET Lists
    /\ faulty \in BOOLEAN
    /\ user \in Lists \cup {None}
    /\ missed \in Frame
    /\ tick \in Frame
    /\ run \in [Lists -> [Slots -> Runner]]
    /\ registry \in [Lists -> Slots \cup {None}]
    /\ doubled \in SUBSET Lists

Init ==
    /\ open = FALSE /\ failed = FALSE /\ keyOk = TRUE /\ paused = FALSE
    /\ now = 0
    /\ mem = [l \in Lists |-> Absent]
    /\ disk = [l \in Lists |-> Absent]
    /\ used = {} /\ faulty = FALSE
    /\ user = None /\ missed = Idle /\ tick = Idle
    /\ run = [l \in Lists |-> [i \in Slots |-> Free]]
    /\ registry = [l \in Lists |-> None]
    /\ doubled = {}

---------------------------------------------------------------------------
\* The UI thread.

\* An event loop is running: the main one or the topmost dialog's.
Waiting == open /\ missed.st # "loop" /\ tick.st # "loop"

NoDialog == Waiting /\ user = None /\ missed.st \in {"idle", "pending"} /\ tick = Idle

UserOnTop   == user # None /\ missed.st \in {"idle", "pending"} /\ tick = Idle /\ open
MissedOnTop == missed.st \in {"ask", "empty"} /\ tick = Idle /\ open
TickOnTop   == tick.st \in {"ask", "empty"} /\ open

\* manager.save(): the whole file is rewritten, so one good save repairs an
\* earlier bad one.  A refused key and an OSError are only logged.  Bound:
\* the disk does not fail twice in a row.
Save(m) ==
    /\ mem' = m
    /\ \/ keyOk /\ disk' = m /\ faulty' = FALSE
       \/ (~keyOk \/ (DiskMayFail /\ ~faulty)) /\ disk' = disk /\ faulty' = TRUE

Due(l) == mem[l].here /\ IsDue(mem[l].enabled, mem[l].conf.trigger, mem[l].last, now)

WasMissed(l) == mem[l].here /\ Missed(mem[l].enabled, mem[l].conf.trigger, mem[l].last, now)

\* MUTANT of Skip: not saved.
SkipUnsavedMutant(l) == mem' = [mem EXCEPT ![l].last = now] /\ UNCHANGED <<disk, faulty>>

\* Schedule.skip() and the save that follows it at every place that skips.
Skip(l) == Save([mem EXCEPT ![l].last = now])

\* MUTANT of RunOutcome: `if s.id in self._active_runners: return` is missing.
RunOutcomeUnregisteredMutant(l, skipConfirm, byTimer) ==
    IF ~mem[l].here \/ failed \/ (byTimer /\ paused) THEN "refuse"
    ELSE IF mem[l].conf.empty THEN "empty"
    ELSE IF mem[l].conf.confirm /\ ~skipConfirm THEN "ask"
    ELSE "start"

\* MUTANT of RunOutcome: `if self._integrity_failed: return` is missing.
RunOutcomeUnverifiedMutant(l, skipConfirm, byTimer) ==
    IF ~mem[l].here \/ (byTimer /\ paused) \/ registry[l] # None THEN "refuse"
    ELSE IF mem[l].conf.empty THEN "empty"
    ELSE IF mem[l].conf.confirm /\ ~skipConfirm THEN "ask"
    ELSE "start"

\* run_schedule up to its first dialog or its runner.  A list that is
\* already registered, a paused timer and a failed load refuse silently.
RunOutcome(l, skipConfirm, byTimer) ==
    IF ~mem[l].here \/ failed \/ (byTimer /\ paused) \/ registry[l] # None THEN "refuse"
    ELSE IF mem[l].conf.empty THEN "empty"
    ELSE IF mem[l].conf.confirm /\ ~skipConfirm THEN "ask"
    ELSE "start"

\* The end of run_schedule: a new thread, registered under the list's id
\* whatever is registered there.
StartRunner(l) ==
    /\ \E i \in Slots :
        /\ run[l][i] = Free
        /\ run' = [run EXCEPT ![l][i] = Running(now)]
        /\ registry' = [registry EXCEPT ![l] = i]
    /\ doubled' = IF Live(l) = {} THEN doubled ELSE doubled \cup {l}

---------------------------------------------------------------------------
\* Sessions.

\* main() and LanScanManApp.__init__.  A refused key or a file that does not
\* verify leaves the panel without lists and the timer stopped; a file that
\* cannot be read or parsed leaves it without lists and the timer running.
Load(loaded, fails, key, fault) ==
    /\ mem' = loaded /\ failed' = fails /\ keyOk' = key /\ faulty' = fault
    /\ missed' = IF fails THEN Idle ELSE Pending

Open ==
    /\ ~open
    /\ open' = TRUE
    /\ LET nothing == [l \in Lists |-> Absent]
       IN  \/ Load(disk, FALSE, TRUE, FALSE)
           \/ Load(nothing, TRUE, FALSE, TRUE)
           \/ Load(nothing, TRUE, TRUE, TRUE)
           \/ DiskMayFail /\ Load(nothing, FALSE, TRUE, TRUE)
    /\ UNCHANGED <<paused, now, disk, used, user, tick, threads>>

\* The program ends, at any point: a runner's thread ends with it and its
\* run is not recorded.
Quit ==
    /\ open
    /\ open' = FALSE /\ failed' = FALSE /\ paused' = FALSE
    /\ user' = None /\ missed' = Idle /\ tick' = Idle
    /\ mem' = [l \in Lists |-> Absent]
    /\ run' = [l \in Lists |-> [i \in Slots |-> Free]]
    /\ registry' = [l \in Lists |-> None]
    /\ doubled' = {}
    /\ UNCHANGED <<keyOk, now, disk, faulty, used>>

\* The user unlocks the keyring later in the session: the next save asks.
Unlock ==
    /\ open /\ ~keyOk
    /\ keyOk' = TRUE
    /\ UNCHANGED <<open, failed, paused, now, used, store, frames, threads>>

Advance ==
    /\ now < MaxTime
    /\ now' = now + 1
    /\ UNCHANGED <<session, used, store, frames, threads>>

---------------------------------------------------------------------------
\* The Schedules panel.

\* Filling in the dialog takes longer than the startup handler's delay.
NewList(l, c) ==
    /\ NoDialog /\ missed = Idle /\ l \notin used
    /\ used' = used \cup {l}
    /\ Save([mem EXCEPT ![l] = [here |-> TRUE, enabled |-> TRUE, conf |-> c, last |-> Never]])
    /\ UNCHANGED <<session, now, frames, threads>>

EditList(l, c) ==
    /\ NoDialog /\ mem[l].here
    /\ Save([mem EXCEPT ![l].conf = c])
    /\ UNCHANGED <<session, now, used, frames, threads>>

\* MUTANT of DeleteList: allowed while a dialog is open.
DeleteListMutant(l) ==
    /\ Waiting /\ mem[l].here
    /\ Save([mem EXCEPT ![l] = Absent])
    /\ UNCHANGED <<session, now, used, frames, threads>>

DeleteList(l) ==
    /\ NoDialog /\ mem[l].here
    /\ Save([mem EXCEPT ![l] = Absent])
    /\ UNCHANGED <<session, now, used, frames, threads>>

ToggleEnabled(l) ==
    /\ NoDialog /\ mem[l].here
    /\ Save([mem EXCEPT ![l].enabled = ~@])
    /\ UNCHANGED <<session, now, used, frames, threads>>

TogglePause ==
    /\ NoDialog /\ ~failed
    /\ paused' = ~paused
    /\ UNCHANGED <<open, failed, keyOk, now, used, store, frames, threads>>

RunNow(l) ==
    /\ NoDialog
    /\ \/ /\ RunOutcome(l, FALSE, FALSE) = "ask"
          /\ user' = l
          /\ UNCHANGED threads
       \/ /\ RunOutcome(l, FALSE, FALSE) = "start"
          /\ StartRunner(l)
          /\ UNCHANGED user
    /\ UNCHANGED <<session, now, used, store, missed, tick>>

\* The confirmation is accepted: what was checked before it opened is not
\* checked again.
RunNowAccept ==
    /\ UserOnTop
    /\ StartRunner(user)
    /\ user' = None
    /\ UNCHANGED <<session, now, used, store, missed, tick>>

RunNowDecline ==
    /\ UserOnTop
    /\ Skip(user)
    /\ user' = None
    /\ UNCHANGED <<session, now, used, missed, tick, threads>>

---------------------------------------------------------------------------
\* The startup handler, 1.5 seconds after the window is built.

MissedFires ==
    /\ Waiting /\ missed.st = "pending"
    /\ missed' = Loop({l \in Lists : WasMissed(l)})
    /\ UNCHANGED <<session, now, used, store, user, tick, threads>>

\* run_schedule called for the list l by a handler with rest still to do:
\* then its frame is as next(...) says.
MissedRun(l, rest) ==
    LET o == RunOutcome(l, TRUE, TRUE)
    IN  \/ o = "start" /\ StartRunner(l) /\ missed' = Loop(rest)
        \/ o = "empty" /\ missed' = Dialog("empty", l, rest) /\ UNCHANGED threads
        \/ o = "refuse" /\ missed' = Loop(rest) /\ UNCHANGED threads

MissedStep ==
    /\ open /\ missed.st = "loop" /\ tick = Idle
    /\ \E l \in missed.rest :
        LET rest == missed.rest \ {l}
        IN  \/ mem[l].conf.missed = "skip" /\ Skip(l) /\ missed' = Loop(rest)
                /\ UNCHANGED threads
            \/ mem[l].conf.missed = "run" /\ MissedRun(l, rest) /\ UNCHANGED store
            \/ mem[l].conf.missed = "warn" /\ missed' = Dialog("ask", l, rest)
                /\ UNCHANGED <<store, threads>>
    /\ UNCHANGED <<session, now, used, user, tick>>

MissedYes ==
    /\ MissedOnTop /\ missed.st = "ask"
    /\ MissedRun(missed.list, missed.rest)
    /\ UNCHANGED <<session, now, used, store, user, tick>>

MissedNo ==
    /\ MissedOnTop /\ missed.st = "ask"
    /\ Skip(missed.list)
    /\ missed' = Loop(missed.rest)
    /\ UNCHANGED <<session, now, used, user, tick, threads>>

MissedDismiss ==
    /\ MissedOnTop /\ missed.st = "empty"
    /\ missed' = Loop(missed.rest)
    /\ UNCHANGED <<session, now, used, store, user, tick, threads>>

---------------------------------------------------------------------------
\* The timer, every minute; started only after a load that did not fail.

\* MUTANT of TickFires: lists with the policy "run" are left to the startup handler.
TickFiresMutant ==
    /\ Waiting /\ ~failed /\ tick = Idle /\ missed.st # "pending"
    /\ tick' = Loop({l \in Lists : Due(l) /\ mem[l].conf.missed # "run"})
    /\ UNCHANGED <<session, now, used, store, user, missed, threads>>

TickFires ==
    /\ Waiting /\ ~failed /\ tick = Idle /\ missed.st # "pending"
    /\ tick' = Loop({l \in Lists : Due(l)})
    /\ UNCHANGED <<session, now, used, store, user, missed, threads>>

TickStep ==
    /\ open /\ tick.st = "loop"
    /\ \E l \in tick.rest :
        LET rest == tick.rest \ {l}
            o    == RunOutcome(l, FALSE, TRUE)
        IN  \/ o = "start" /\ StartRunner(l) /\ tick' = Loop(rest)
            \/ o \in {"ask", "empty"} /\ tick' = Dialog(o, l, rest) /\ UNCHANGED threads
            \/ o = "refuse" /\ tick' = Loop(rest) /\ UNCHANGED threads
    /\ UNCHANGED <<session, now, used, store, user, missed>>

TickAccept ==
    /\ TickOnTop /\ tick.st = "ask"
    /\ StartRunner(tick.list)
    /\ tick' = Loop(tick.rest)
    /\ UNCHANGED <<session, now, used, store, user, missed>>

TickDecline ==
    /\ TickOnTop /\ tick.st = "ask"
    /\ Skip(tick.list)
    /\ tick' = Loop(tick.rest)
    /\ UNCHANGED <<session, now, used, user, missed, threads>>

TickDismiss ==
    /\ TickOnTop /\ tick.st = "empty"
    /\ tick' = Loop(tick.rest)
    /\ UNCHANGED <<session, now, used, store, user, missed, threads>>

---------------------------------------------------------------------------
\* The runner threads.

\* run() returns: list_finished is queued for the UI thread.
RunnerEnds(l, i) ==
    /\ run[l][i].st = "running"
    /\ run' = [run EXCEPT ![l][i] = Emitted(@.at)]
    /\ UNCHANGED <<session, now, used, store, frames, registry, doubled>>

\* MUTANT of ListFinished: a deleted list returns before the runner is popped.
ListFinishedMutant(l, i) ==
    /\ Waiting /\ run[l][i].st = "emitted"
    /\ run' = [run EXCEPT ![l][i] = Free]
    /\ \/ /\ mem[l].here
          /\ registry' = [registry EXCEPT ![l] = None]
          /\ Save([mem EXCEPT ![l].last = run[l][i].at])
       \/ ~mem[l].here /\ UNCHANGED <<store, registry>>
    /\ UNCHANGED <<session, now, used, frames, doubled>>

\* _on_list_finished: whatever is registered for the list is dropped, and
\* the run is recorded unless the list was deleted meanwhile.
ListFinished(l, i) ==
    /\ Waiting /\ run[l][i].st = "emitted"
    /\ registry' = [registry EXCEPT ![l] = None]
    /\ run' = [run EXCEPT ![l][i] = Free]
    /\ \/ mem[l].here /\ Save([mem EXCEPT ![l].last = run[l][i].at])
       \/ ~mem[l].here /\ UNCHANGED store
    /\ UNCHANGED <<session, now, used, frames, doubled>>

---------------------------------------------------------------------------

Session == Open \/ Quit \/ Unlock \/ Advance

Panel ==
    \/ \E l \in Lists : \E c \in Configs[l] : NewList(l, c) \/ EditList(l, c)
    \/ \E l \in Lists : DeleteList(l) \/ ToggleEnabled(l) \/ RunNow(l)
    \/ TogglePause
    \/ RunNowAccept \/ RunNowDecline

Startup == MissedFires \/ MissedStep \/ MissedYes \/ MissedNo \/ MissedDismiss

Timer == TickFires \/ TickStep \/ TickAccept \/ TickDecline \/ TickDismiss

Thread == \E l \in Lists : \E i \in Slots : RunnerEnds(l, i) \/ ListFinished(l, i)

Next == Session \/ Panel \/ Startup \/ Timer \/ Thread

Spec == Init /\ [][Next]_vars

\* A handler that is not waiting for an answer goes on; the timer keeps
\* firing; rsync ends sooner or later.  A queued signal is delivered although
\* the UI thread is busy in between: posted events are served in order.
Fairness ==
    /\ WF_vars(MissedFires) /\ WF_vars(MissedStep)
    /\ WF_vars(TickFires) /\ WF_vars(TickStep)
    /\ \A l \in Lists : \A i \in Slots :
            WF_vars(RunnerEnds(l, i)) /\ SF_vars(ListFinished(l, i))

\* The user answers a dialog that stays open (nothing else makes progress
\* behind it: the timer's handler waits in it).
UserAnswers ==
    /\ WF_vars(TickAccept \/ TickDecline \/ TickDismiss)
    /\ WF_vars(MissedYes \/ MissedNo \/ MissedDismiss)

FairSpec == Spec /\ Fairness /\ UserAnswers

---------------------------------------------------------------------------
\* Properties.

\* A list that was never started over a live runner has at most one runner,
\* and that runner is the one registered: the timer, the startup handler and
\* Run Now never run the same transfers twice at once, whatever order their
\* dialogs are answered in.
OneRunnerPerList ==
    \A l \in Lists \ doubled :
        /\ \A i, j \in Live(l) : i = j
        /\ Live(l) = {} => registry[l] = None
        /\ \A i \in Live(l) : registry[l] = i

\* Only the user's own Run Now confirmation, left open while another handler
\* started the same list, puts a second runner beside a live one.
OnlyRunNowOverlaps ==
    [][\A l \in Lists : l \in doubled' \ doubled => user = l /\ RunNowAccept]_vars

\* Unless a load or a save failed, the file holds what the panel shows: every
\* skip, every finished run and every edit is written when it happens, and
\* one good save repairs the damage of a bad one.
DiskIsCurrent == open /\ ~faulty => disk = mem

\* "Scheduled transfers stay off for that session": nothing runs after a load
\* that failed, by the timer, at startup or by Run Now.
FailedLoadRunsNothing == failed => \A l \in Lists : Live(l) = {}

\* The file is the truth: it holds what the panel shows, and when it could not
\* be verified nothing is run.
DiskIsTheTruth == DiskIsCurrent /\ FailedLoadRunsNothing

\* A handler waiting in a dialog, and the rest of its snapshot, name lists
\* that still exist: what a dialog is about cannot be deleted under it.
DialogsNameLists ==
    /\ user # None => mem[user].here
    /\ \A l \in missed.rest \cup tick.rest : mem[l].here
    /\ missed.st \in {"ask", "empty"} => missed.list \in Present
    /\ tick.st \in {"ask", "empty"} => tick.list \in Present

\* A registered list is always unregistered again: a run that ends never
\* leaves its list refused for good, also when it was deleted while running.
RunEndsAreSeen == \A l \in Lists : registry[l] # None ~> registry[l] = None

\* A due list is not forgotten: while the program stays open, not paused, and
\* dialogs are answered, it is started, or stops being due because it was
\* skipped, edited or ran.  (An empty list stays due for ever.)
DueIsServed ==
    \A l \in Lists :
        Due(l) /\ ~failed ~> \/ ~open \/ paused \/ ~Due(l)
                             \/ registry[l] # None \/ mem[l].conf.empty

\* A list is started when it is due, and can be started again after each run.
ListsAreServed == RunEndsAreSeen /\ DueIsServed

\* The startup handler skips a missed list "so the QTimer doesn't fire it 60s
\* later": while it still has a list to skip, nothing starts that list.
TimerWaitsForSkip ==
    [][\A l \in missed.rest :
        mem[l].conf.missed = "skip" /\ registry[l] = None => registry'[l] = None]_vars

---------------------------------------------------------------------------
\* What makes the properties above inductive.

\* The timer's confirmation is open only for a list that is not registered:
\* nothing that could start it runs beneath that dialog.
AskedListIsFree ==
    tick.st = "ask" /\ tick.list \notin doubled => registry[tick.list] = None

\* No handler is suspended and no runner lives while the program is closed or
\* its schedules did not verify.
QuietUnlessLoaded ==
    ~open \/ failed =>
        /\ user = None /\ missed = Idle /\ tick = Idle
        /\ \A l \in Lists : Live(l) = {}

\* A handler holds a snapshot only while it goes through it.
SnapshotIsHeld == missed.st \in {"idle", "pending"} => missed.rest = {}

IInv ==
    /\ TypeOK
    /\ DialogsNameLists
    /\ SnapshotIsHeld
    /\ OneRunnerPerList
    /\ AskedListIsFree
    /\ QuietUnlessLoaded
=============================================================================
