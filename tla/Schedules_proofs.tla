-------------------------- MODULE Schedules_proofs --------------------------
(***************************************************************************)
(* Theorems about Schedules, for any set of lists, any configurations and  *)
(* any bounds, and about the due-time rules on a clock of any resolution.  *)
(***************************************************************************)
EXTENDS Schedules, ListClock, WellFoundedInduction, TLAPS

Table == [Lists -> Entry \cup {Absent}]

\* What Save writes is what the panel holds or what the file already held.
LEMMA SaveTypes ==
    ASSUME TypeOK, NEW m \in Table, Save(m)
    PROVE  mem' \in Table /\ disk' \in Table /\ faulty' \in BOOLEAN
BY DEF TypeOK, Save, Table

\* last_run of a list becomes an instant of the clock.
LEMMA StampTypes ==
    ASSUME TypeOK, NEW l \in Lists, mem[l].here, NEW t \in Times
    PROVE  [mem EXCEPT ![l].last = t] \in Table
<1>1. mem[l] \in Entry
  BY DEF TypeOK, Absent
<1>2. [mem[l] EXCEPT !.last = t] \in Entry
  BY <1>1 DEF Entry
<1> QED
  BY <1>2 DEF TypeOK, Table

\* The clock shows an instant a last_run can be.
LEMMA NowIsTime == TypeOK => now \in Times
BY DEF TypeOK, Times

\* The frames of a handler that is idle, pending or between two lists.
LEMMA LoopIsFrame ==
    ASSUME NEW rest \in SUBSET Lists
    PROVE  Loop(rest) \in Frame /\ Idle \in Frame /\ Pending \in Frame
BY DEF Loop, Idle, Pending, Frame

\* The frame of a handler that waits in a dialog.
LEMMA DialogIsFrame ==
    ASSUME NEW st \in {"ask", "empty"}, NEW l \in Lists, NEW rest \in SUBSET Lists
    PROVE  Dialog(st, l, rest) \in Frame
BY DEF Dialog, Frame

\* Starting a runner touches only the threads, and keeps their types.
LEMMA StartTypes ==
    ASSUME TypeOK, NEW l \in Lists, StartRunner(l)
    PROVE  /\ run' \in [Lists -> [Slots -> Runner]]
           /\ registry' \in [Lists -> Slots \cup {None}]
           /\ doubled' \in SUBSET Lists
<1>1. Running(now) \in Runner
  BY NowIsTime DEF Runner
<1>2. PICK i \in Slots : /\ run' = [run EXCEPT ![l][i] = Running(now)]
                         /\ registry' = [registry EXCEPT ![l] = i]
  BY DEF StartRunner
<1>3. run' \in [Lists -> [Slots -> Runner]]
  BY <1>1, <1>2 DEF TypeOK
<1>4. registry' \in [Lists -> Slots \cup {None}]
  BY <1>2 DEF TypeOK
<1>5. doubled' \in SUBSET Lists
  BY DEF StartRunner, TypeOK
<1> QED
  BY <1>3, <1>4, <1>5

\* A list run by the startup handler leaves a frame and threads of their types.
LEMMA MissedRunTypes ==
    ASSUME TypeOK, NEW l \in Lists, NEW rest \in SUBSET Lists, MissedRun(l, rest)
    PROVE  /\ missed' \in Frame
           /\ run' \in [Lists -> [Slots -> Runner]]
           /\ registry' \in [Lists -> Slots \cup {None}]
           /\ doubled' \in SUBSET Lists
<1>1. CASE StartRunner(l) /\ missed' = Loop(rest)
  BY <1>1, StartTypes, LoopIsFrame
<1>2. CASE missed' \in {Dialog("empty", l, rest), Loop(rest)} /\ UNCHANGED threads
  BY <1>2, LoopIsFrame, DialogIsFrame DEF TypeOK, threads
<1> QED
  BY <1>1, <1>2 DEF MissedRun

\* A dialog is open on a list, and the snapshot of a handler holds lists.
LEMMA FrameParts ==
    ASSUME TypeOK
    PROVE  /\ missed.rest \in SUBSET Lists /\ tick.rest \in SUBSET Lists
           /\ missed.list \in Lists \cup {None} /\ tick.list \in Lists \cup {None}
BY DEF TypeOK, Frame

---------------------------------------------------------------------------

\* The invariant holds before the program is first opened.
LEMMA InitIInv == Init => IInv
<1> SUFFICES ASSUME Init PROVE IInv
  OBVIOUS
<1> USE DEF Init
<1>1. TypeOK
  <2>1. missed \in Frame /\ tick \in Frame
    BY DEF Idle, Frame
  <2>2. run \in [Lists -> [Slots -> Runner]]
    BY DEF Runner
  <2>3. now \in 0..MaxTime
    BY MaxTimeAssumption
  <2>4. mem \in [Lists -> Entry \cup {Absent}] /\ disk \in [Lists -> Entry \cup {Absent}]
    OBVIOUS
  <2>5. registry \in [Lists -> Slots \cup {None}]
    OBVIOUS
  <2> QED
    BY <2>1, <2>2, <2>3, <2>4, <2>5 DEF TypeOK
<1>2. DialogsNameLists /\ SnapshotIsHeld
  BY DEF DialogsNameLists, SnapshotIsHeld, Idle
<1>3. \A l \in Lists : Live(l) = {}
  BY DEF Live
<1>4. OneRunnerPerList /\ AskedListIsFree /\ QuietUnlessLoaded
  BY <1>3 DEF OneRunnerPerList, AskedListIsFree, QuietUnlessLoaded, Idle
<1> QED
  BY <1>1, <1>2, <1>4 DEF IInv

\* Every step keeps the types.
LEMMA TypeStep ==
    ASSUME IInv, [Next]_vars
    PROVE  TypeOK'
<1> USE FrameParts, NowIsTime, LoopIsFrame, DialogIsFrame DEF IInv
<1>1. CASE Open
  BY <1>1 DEF Open, Load, TypeOK, threads, Table
<1>2. CASE Quit
  BY <1>2 DEF Quit, TypeOK, Runner
<1>3. CASE Unlock
  BY <1>3 DEF Unlock, TypeOK, store, frames, threads
<1>4. CASE Advance
  BY <1>4, MaxTimeAssumption DEF Advance, TypeOK, session, store, frames, threads
<1>5. ASSUME NEW l \in Lists, NEW c \in Configs[l], NewList(l, c)
      PROVE  TypeOK'
  <2>1. [mem EXCEPT ![l] = [here |-> TRUE, enabled |-> TRUE, conf |-> c, last |-> Never]] \in Table
    BY DEF TypeOK, Table, Entry, Times
  <2> QED
    BY <1>5, <2>1, SaveTypes DEF NewList, TypeOK, Table, session, frames, threads
<1>6. ASSUME NEW l \in Lists, NEW c \in Configs[l], EditList(l, c)
      PROVE  TypeOK'
  <2>1. mem[l] \in Entry
    BY <1>6 DEF EditList, TypeOK, Absent
  <2>2. [mem[l] EXCEPT !.conf = c] \in Entry
    BY <2>1 DEF Entry
  <2>3. [mem EXCEPT ![l].conf = c] \in Table
    BY <2>2 DEF TypeOK, Table
  <2> QED
    BY <1>6, <2>3, SaveTypes DEF EditList, TypeOK, Table, session, frames, threads
<1>7. ASSUME NEW l \in Lists, DeleteList(l)
      PROVE  TypeOK'
  <2>1. [mem EXCEPT ![l] = Absent] \in Table
    BY DEF TypeOK, Table
  <2> QED
    BY <1>7, <2>1, SaveTypes DEF DeleteList, TypeOK, Table, session, frames, threads
<1>8. ASSUME NEW l \in Lists, ToggleEnabled(l)
      PROVE  TypeOK'
  <2>1. mem[l] \in Entry
    BY <1>8 DEF ToggleEnabled, TypeOK, Absent
  <2>2. [mem EXCEPT ![l].enabled = ~@] \in Table
    BY <2>1 DEF TypeOK, Table, Entry
  <2> QED
    BY <1>8, <2>2, SaveTypes DEF ToggleEnabled, TypeOK, Table, session, frames, threads
<1>9. CASE TogglePause
  BY <1>9 DEF TogglePause, TypeOK, store, frames, threads
<1>10. ASSUME NEW l \in Lists, RunNow(l)
       PROVE  TypeOK'
  BY <1>10, StartTypes DEF RunNow, TypeOK, session, store, threads
<1>11. CASE RunNowAccept
  BY <1>11, StartTypes DEF RunNowAccept, UserOnTop, TypeOK, session, store
<1>12. CASE RunNowDecline
  BY <1>12, StampTypes, SaveTypes
     DEF RunNowDecline, Skip, UserOnTop, DialogsNameLists, TypeOK, Table, session, threads
<1>13. CASE MissedFires
  BY <1>13 DEF MissedFires, TypeOK, session, store, threads
<1>14. CASE MissedStep
  <2> PICK l \in missed.rest :
        LET rest == missed.rest \ {l}
        IN  \/ mem[l].conf.missed = "skip" /\ Skip(l) /\ missed' = Loop(rest) /\ UNCHANGED threads
            \/ mem[l].conf.missed = "run" /\ MissedRun(l, rest) /\ UNCHANGED store
            \/ mem[l].conf.missed = "warn" /\ missed' = Dialog("ask", l, rest)
                /\ UNCHANGED <<store, threads>>
    BY <1>14, Zenon DEF MissedStep
  <2> DEFINE rest == missed.rest \ {l}
  <2>1. l \in Lists /\ mem[l].here /\ rest \in SUBSET Lists
    BY DEF DialogsNameLists
  <2>2. UNCHANGED <<session, now, used, user, tick>>
    BY <1>14 DEF MissedStep
  <2>3. CASE Skip(l) /\ missed' = Loop(rest) /\ UNCHANGED threads
    BY <2>1, <2>2, <2>3, StampTypes, SaveTypes DEF Skip, TypeOK, Table, session, threads
  <2>4. CASE MissedRun(l, rest) /\ UNCHANGED store
    BY <2>1, <2>2, <2>4, MissedRunTypes DEF TypeOK, session, store
  <2>5. CASE missed' = Dialog("ask", l, rest) /\ UNCHANGED <<store, threads>>
    BY <2>1, <2>2, <2>5 DEF TypeOK, session, store, threads
  <2> QED
    BY <2>3, <2>4, <2>5
<1>15. CASE MissedYes
  <2>1. missed.list \in Lists
    BY <1>15 DEF MissedYes, DialogsNameLists, Present
  <2> QED
    BY <1>15, <2>1, MissedRunTypes DEF MissedYes, TypeOK, session, store
<1>16. CASE MissedNo
  <2>1. missed.list \in Lists /\ mem[missed.list].here
    BY <1>16 DEF MissedNo, DialogsNameLists, Present
  <2> QED
    BY <1>16, <2>1, StampTypes, SaveTypes DEF MissedNo, Skip, TypeOK, Table, session, threads
<1>17. CASE MissedDismiss
  BY <1>17 DEF MissedDismiss, TypeOK, session, store, threads
<1>18. CASE TickFires
  BY <1>18 DEF TickFires, TypeOK, session, store, threads
<1>19. CASE TickStep
  <2> PICK l \in tick.rest :
        LET rest == tick.rest \ {l}
            o    == RunOutcome(l, FALSE, TRUE)
        IN  \/ o = "start" /\ StartRunner(l) /\ tick' = Loop(rest)
            \/ o \in {"ask", "empty"} /\ tick' = Dialog(o, l, rest) /\ UNCHANGED threads
            \/ o = "refuse" /\ tick' = Loop(rest) /\ UNCHANGED threads
    BY <1>19 DEF TickStep
  <2> DEFINE o == RunOutcome(l, FALSE, TRUE)
  <2>1. l \in Lists /\ tick.rest \ {l} \in SUBSET Lists
    OBVIOUS
  <2>2. UNCHANGED <<store, session, now, used, user, missed>>
    BY <1>19 DEF TickStep
  <2>3. CASE StartRunner(l) /\ tick' = Loop(tick.rest \ {l})
    BY <2>1, <2>2, <2>3, StartTypes DEF TypeOK, session, store, threads
  <2>4. CASE o \in {"ask", "empty"} /\ tick' = Dialog(o, l, tick.rest \ {l}) /\ UNCHANGED threads
    <3> HIDE DEF o
    <3>1. Dialog(o, l, tick.rest \ {l}) \in Frame
      BY <2>1, <2>4, DialogIsFrame
    <3> QED BY <2>2, <2>4, <3>1 DEF TypeOK, session, store, threads
  <2>5. CASE tick' = Loop(tick.rest \ {l}) /\ UNCHANGED threads
    BY <2>1, <2>2, <2>5 DEF TypeOK, session, store, threads
  <2> QED
    BY <2>3, <2>4, <2>5
<1>20. CASE TickAccept
  <2>1. tick.list \in Lists
    BY <1>20 DEF TickAccept, DialogsNameLists, Present
  <2> QED
    BY <1>20, <2>1, StartTypes DEF TickAccept, TypeOK, session, store
<1>21. CASE TickDecline
  <2>1. tick.list \in Lists /\ mem[tick.list].here
    BY <1>21 DEF TickDecline, DialogsNameLists, Present
  <2> QED
    BY <1>21, <2>1, StampTypes, SaveTypes DEF TickDecline, Skip, TypeOK, Table, session, threads
<1>22. CASE TickDismiss
  BY <1>22 DEF TickDismiss, TypeOK, session, store, threads
<1>23. ASSUME NEW l \in Lists, NEW i \in Slots, RunnerEnds(l, i)
       PROVE  TypeOK'
  <2>1. run[l][i].at \in Times
    BY DEF TypeOK, Runner, Free, Running, Emitted, Times
  <2>2. Emitted(run[l][i].at) \in Runner
    BY <2>1 DEF Runner
  <2> QED
    BY <1>23, <2>2 DEF RunnerEnds, TypeOK, session, store, frames
<1>24. ASSUME NEW l \in Lists, NEW i \in Slots, ListFinished(l, i)
       PROVE  TypeOK'
  <2>1. run[l][i].at \in Times
    BY DEF TypeOK, Runner, Free, Running, Emitted, Times
  <2>2. mem' \in Table /\ disk' \in Table /\ faulty' \in BOOLEAN
    BY <1>24, <2>1, StampTypes, SaveTypes DEF ListFinished, TypeOK, Table, store
  <2>3. Free \in Runner
    BY DEF Runner
  <2> QED
    BY <1>24, <2>2, <2>3 DEF ListFinished, TypeOK, Table, session, frames
<1>25. CASE UNCHANGED vars
  BY <1>25 DEF TypeOK, vars, session, store, frames, threads
<1> QED
  BY <1>1, <1>2, <1>3, <1>4, <1>5, <1>6, <1>7, <1>8, <1>9, <1>10, <1>11, <1>12, <1>13,
     <1>14, <1>15, <1>16, <1>17, <1>18, <1>19, <1>20, <1>21, <1>22, <1>23, <1>24, <1>25
     DEF Next, Session, Panel, Startup, Timer, Thread

---------------------------------------------------------------------------
\* What dialogs and snapshots name.

\* Every list the panel shows it still shows: a save that changes an entry
\* keeps its list.
LEMMA StampKeeps ==
    ASSUME TypeOK, NEW l \in Lists, mem[l].here, NEW t \in Times,
           Save([mem EXCEPT ![l].last = t])
    PROVE  \A k \in Lists : mem[k].here => mem'[k].here
<1>1. mem[l] \in Entry
  BY DEF TypeOK, Absent
<1> QED
  BY <1>1 DEF Save, TypeOK, Entry

\* The parts of the frames of Loop, Idle and Pending.
LEMMA LoopParts ==
    ASSUME NEW rest
    PROVE  /\ Loop(rest).rest = rest
           /\ Loop(rest).st \in {"idle", "loop"}
           /\ Idle.rest = {} /\ Idle.st = "idle"
           /\ Pending.rest = {} /\ Pending.st = "pending"
BY DEF Loop, Idle, Pending

\* When the panel can be clicked no dialog is open and no snapshot is held.
LEMMA NothingNamed ==
    ASSUME DialogsNameLists, SnapshotIsHeld, NoDialog
    PROVE  /\ user = None /\ tick = Idle /\ missed.rest = {}
           /\ missed.st \notin {"ask", "empty"}
BY DEF NoDialog, SnapshotIsHeld

\* What every step that leaves the handlers alone has to show.
LEMMA NamesKept ==
    ASSUME TypeOK, DialogsNameLists, SnapshotIsHeld, UNCHANGED frames,
           \A k \in Lists : mem[k].here => mem'[k].here
    PROVE  DialogsNameLists' /\ SnapshotIsHeld'
BY FrameParts DEF DialogsNameLists, SnapshotIsHeld, frames, Present, TypeOK

\* A handler's step leaves the other handlers alone and the lists in place.
LEMMA MissedKept ==
    ASSUME TypeOK, DialogsNameLists, UNCHANGED <<user, tick>>,
           \A k \in Lists : mem[k].here => mem'[k].here,
           NEW l \in Lists, mem[l].here,
           NEW rest \in SUBSET missed.rest, NEW st \in {"ask", "empty"},
           missed' \in {Loop(rest), Dialog(st, l, rest)}
    PROVE  DialogsNameLists' /\ SnapshotIsHeld'
<1>1. missed'.rest = rest /\ (missed'.st \in {"ask", "empty"} => missed'.list = l)
      /\ (missed'.st \in {"idle", "pending"} => rest = {})
  <2>1. CASE missed' = Loop(rest) /\ rest = {}
    BY <2>1 DEF Loop, Idle
  <2>2. CASE missed' = Loop(rest) /\ rest # {}
    BY <2>2 DEF Loop
  <2>3. CASE missed' = Dialog(st, l, rest)
    BY <2>3 DEF Dialog
  <2> QED
    BY <2>1, <2>2, <2>3
<1> QED
  BY <1>1, FrameParts DEF DialogsNameLists, SnapshotIsHeld, Present, TypeOK

\* The timer goes on to a smaller snapshot, or opens a dialog about a list that
\* exists: the names stay those of existing lists.
LEMMA TickKept ==
    ASSUME TypeOK, DialogsNameLists, SnapshotIsHeld, UNCHANGED <<user, missed>>,
           \A k \in Lists : mem[k].here => mem'[k].here,
           NEW l \in Lists, mem[l].here,
           NEW rest \in SUBSET tick.rest, NEW st \in {"ask", "empty"},
           tick' \in {Loop(rest), Dialog(st, l, rest)}
    PROVE  DialogsNameLists' /\ SnapshotIsHeld'
<1>1. tick'.rest = rest /\ (tick'.st \in {"ask", "empty"} => tick'.list = l)
  <2>1. CASE tick' = Loop(rest) /\ rest = {}
    BY <2>1 DEF Loop, Idle
  <2>2. CASE tick' = Loop(rest) /\ rest # {}
    BY <2>2 DEF Loop
  <2>3. CASE tick' = Dialog(st, l, rest)
    BY <2>3 DEF Dialog
  <2> QED
    BY <2>1, <2>2, <2>3
<1> QED
  BY <1>1, FrameParts DEF DialogsNameLists, SnapshotIsHeld, Present, TypeOK

\* Every step keeps DialogsNameLists and SnapshotIsHeld.
LEMMA NamesStep ==
    ASSUME IInv, [Next]_vars
    PROVE  DialogsNameLists' /\ SnapshotIsHeld'
<1> USE FrameParts, NowIsTime DEF IInv
<1>1. CASE Open
  BY <1>1, LoopParts DEF Open, Load, QuietUnlessLoaded, DialogsNameLists, SnapshotIsHeld
<1>2. CASE Quit
  BY <1>2, LoopParts DEF Quit, DialogsNameLists, SnapshotIsHeld
<1>3. CASE Unlock \/ Advance \/ TogglePause
  BY <1>3, NamesKept DEF Unlock, Advance, TogglePause, store
<1>4. ASSUME NEW l \in Lists, NEW c \in Configs[l], NewList(l, c) \/ EditList(l, c)
      PROVE  DialogsNameLists' /\ SnapshotIsHeld'
  <2>1. CASE NewList(l, c)
    <3>1. \A k \in Lists : mem[k].here => mem'[k].here
      BY <2>1 DEF NewList, Save, TypeOK
    <3> QED
      BY <2>1, <3>1, NamesKept DEF NewList
  <2>2. CASE EditList(l, c)
    <3>1. mem[l] \in Entry
      BY <2>2 DEF EditList, TypeOK, Absent
    <3>2. \A k \in Lists : mem[k].here => mem'[k].here
      BY <2>2, <3>1 DEF EditList, Save, TypeOK, Entry
    <3> QED
      BY <2>2, <3>2, NamesKept DEF EditList
  <2> QED
    BY <1>4, <2>1, <2>2
<1>5. ASSUME NEW l \in Lists, DeleteList(l)
      PROVE  DialogsNameLists' /\ SnapshotIsHeld'
  BY <1>5, NothingNamed, LoopParts DEF DeleteList, frames, DialogsNameLists, SnapshotIsHeld
<1>6. ASSUME NEW l \in Lists, ToggleEnabled(l)
      PROVE  DialogsNameLists' /\ SnapshotIsHeld'
  <2>1. \A k \in Lists : mem[k].here => mem'[k].here
    BY <1>6 DEF ToggleEnabled, Save, TypeOK, Entry, Absent
  <2> QED
    BY <1>6, <2>1, NamesKept DEF ToggleEnabled
<1>7. ASSUME NEW l \in Lists, RunNow(l)
      PROVE  DialogsNameLists' /\ SnapshotIsHeld'
  <2>1. user' # None => (user' = user \/ (user' = l /\ mem[l].here))
    BY <1>7 DEF RunNow, RunOutcome
  <2> QED
    BY <1>7, <2>1 DEF RunNow, store, DialogsNameLists, SnapshotIsHeld, Present
<1>8. CASE RunNowAccept
  BY <1>8 DEF RunNowAccept, store, DialogsNameLists, SnapshotIsHeld, Present
<1>9. CASE RunNowDecline
  <2>1. \A k \in Lists : mem[k].here => mem'[k].here
    BY <1>9, StampKeeps DEF RunNowDecline, UserOnTop, Skip, DialogsNameLists, TypeOK
  <2> QED
    BY <1>9, <2>1 DEF RunNowDecline, DialogsNameLists, SnapshotIsHeld, Present
<1>10. CASE MissedFires
  <2>1. \A l \in {k \in Lists : WasMissed(k)} : mem[l].here
    BY DEF WasMissed
  <2>2. missed'.rest = {k \in Lists : WasMissed(k)} /\ missed'.st \in {"idle", "loop"}
        /\ (missed'.st = "idle" => missed'.rest = {})
    BY <1>10 DEF MissedFires, Loop, Idle
  <2> QED
    BY <1>10, <2>1, <2>2 DEF MissedFires, store, DialogsNameLists, SnapshotIsHeld, Present
<1>11. CASE MissedStep
  <2> PICK l \in missed.rest :
        LET rest == missed.rest \ {l}
        IN  \/ mem[l].conf.missed = "skip" /\ Skip(l) /\ missed' = Loop(rest) /\ UNCHANGED threads
            \/ mem[l].conf.missed = "run" /\ MissedRun(l, rest) /\ UNCHANGED store
            \/ mem[l].conf.missed = "warn" /\ missed' = Dialog("ask", l, rest)
                /\ UNCHANGED <<store, threads>>
    BY <1>11, Zenon DEF MissedStep
  <2> DEFINE rest == missed.rest \ {l}
  <2>1. l \in Lists /\ mem[l].here /\ rest \in SUBSET missed.rest
    BY DEF DialogsNameLists
  <2>2. UNCHANGED <<user, tick>>
    BY <1>11 DEF MissedStep
  <2>3. \A k \in Lists : mem[k].here => mem'[k].here
    BY <2>1, StampKeeps DEF Skip, store
  <2>4. missed' \in {Loop(rest), Dialog("ask", l, rest)} \/ missed' \in {Loop(rest), Dialog("empty", l, rest)}
    BY DEF MissedRun
  <2> HIDE DEF rest
  <2> QED
    BY <2>1, <2>2, <2>3, <2>4, MissedKept
<1>12. CASE MissedYes \/ MissedNo \/ MissedDismiss
  <2>1. missed.list \in Lists /\ mem[missed.list].here
    BY <1>12 DEF MissedYes, MissedNo, MissedDismiss, MissedOnTop, DialogsNameLists, Present
  <2>2. UNCHANGED <<user, tick>>
    BY <1>12 DEF MissedYes, MissedNo, MissedDismiss
  <2>3. \A k \in Lists : mem[k].here => mem'[k].here
    BY <1>12, <2>1, StampKeeps DEF MissedYes, MissedNo, MissedDismiss, Skip, store
  <2>4. missed' \in {Loop(missed.rest), Dialog("empty", missed.list, missed.rest)}
    BY <1>12 DEF MissedYes, MissedNo, MissedDismiss, MissedRun
  <2> QED
    BY <2>1, <2>2, <2>3, <2>4, MissedKept
<1>13. CASE TickFires
  <2>1. \A l \in {k \in Lists : Due(k)} : mem[l].here
    BY DEF Due
  <2>2. tick'.rest = {k \in Lists : Due(k)} /\ tick'.st \in {"idle", "loop"}
    BY <1>13 DEF TickFires, Loop, Idle
  <2> QED
    BY <1>13, <2>1, <2>2 DEF TickFires, store, DialogsNameLists, SnapshotIsHeld, Present
<1>14. CASE TickStep
  <2> PICK l \in tick.rest :
        LET rest == tick.rest \ {l}
            o    == RunOutcome(l, FALSE, TRUE)
        IN  \/ o = "start" /\ StartRunner(l) /\ tick' = Loop(rest)
            \/ o \in {"ask", "empty"} /\ tick' = Dialog(o, l, rest) /\ UNCHANGED threads
            \/ o = "refuse" /\ tick' = Loop(rest) /\ UNCHANGED threads
    BY <1>14, Zenon DEF TickStep
  <2> DEFINE rest == tick.rest \ {l}
  <2>1. l \in Lists /\ mem[l].here /\ rest \in SUBSET tick.rest
    BY DEF DialogsNameLists
  <2>2. UNCHANGED <<user, missed>> /\ mem' = mem
    BY <1>14 DEF TickStep, store
  <2>3. tick' \in {Loop(rest), Dialog("ask", l, rest)} \/ tick' \in {Loop(rest), Dialog("empty", l, rest)}
    OBVIOUS
  <2> HIDE DEF rest
  <2> QED
    BY <2>1, <2>2, <2>3, TickKept
<1>15. CASE TickAccept \/ TickDecline \/ TickDismiss
  <2>1. tick.list \in Lists /\ mem[tick.list].here
    BY <1>15 DEF TickAccept, TickDecline, TickDismiss, TickOnTop, DialogsNameLists, Present
  <2>2. UNCHANGED <<user, missed>>
    BY <1>15 DEF TickAccept, TickDecline, TickDismiss
  <2>3. \A k \in Lists : mem[k].here => mem'[k].here
    BY <1>15, <2>1, StampKeeps DEF TickAccept, TickDecline, TickDismiss, Skip, store
  <2>4. tick' \in {Loop(tick.rest), Dialog("ask", tick.list, tick.rest)}
    BY <1>15 DEF TickAccept, TickDecline, TickDismiss
  <2> QED
    BY <2>1, <2>2, <2>3, <2>4, TickKept
<1>16. ASSUME NEW l \in Lists, NEW i \in Slots, RunnerEnds(l, i)
       PROVE  DialogsNameLists' /\ SnapshotIsHeld'
  BY <1>16, NamesKept DEF RunnerEnds, store
<1>17. ASSUME NEW l \in Lists, NEW i \in Slots, ListFinished(l, i)
       PROVE  DialogsNameLists' /\ SnapshotIsHeld'
  <2>1. run[l][i].at \in Times
    BY DEF TypeOK, Runner, Free, Running, Emitted, Times
  <2>2. \A k \in Lists : mem[k].here => mem'[k].here
    BY <1>17, <2>1, StampKeeps DEF ListFinished, store
  <2> QED
    BY <1>17, <2>2, NamesKept DEF ListFinished
<1>18. CASE UNCHANGED vars
  BY <1>18, NamesKept DEF vars, store
<1> QED
  BY <1>1, <1>2, <1>3, <1>4, <1>5, <1>6, <1>7, <1>8, <1>9, <1>10, <1>11, <1>12, <1>13,
     <1>14, <1>15, <1>16, <1>17, <1>18
     DEF Next, Session, Panel, Startup, Timer, Thread

---------------------------------------------------------------------------
\* Runners and their registration.

\* A runner started for a list that has none is alone; one started for a list
\* that has one marks the list, and leaves the other lists as they were.
LEMMA StartKeepsOne ==
    ASSUME TypeOK, OneRunnerPerList, NEW l \in Lists, StartRunner(l)
    PROVE  /\ OneRunnerPerList'
           /\ doubled \subseteq doubled'
           /\ \A k \in doubled' \ doubled : k = l /\ Live(l) # {}
           /\ \A k \in Lists \ {l} : registry'[k] = registry[k]
<1> PICK i \in Slots : /\ run[l][i] = Free
                       /\ run' = [run EXCEPT ![l][i] = Running(now)]
                       /\ registry' = [registry EXCEPT ![l] = i]
  BY DEF StartRunner
<1>1. doubled' = IF Live(l) = {} THEN doubled ELSE doubled \cup {l}
  BY DEF StartRunner
<1>2. \A k \in Lists \ {l} : Live(k)' = Live(k) /\ registry'[k] = registry[k]
  BY DEF TypeOK, Live
<1>3. Live(l) = {} => Live(l)' = {i}
  BY DEF TypeOK, Live, Running, Free
<1>4. registry'[l] = i
  BY DEF TypeOK
<1>5. OneRunnerPerList'
  <2> SUFFICES ASSUME NEW k \in Lists, k \notin doubled'
               PROVE  /\ \A a, b \in Live(k)' : a = b
                      /\ Live(k)' = {} => registry'[k] = None
                      /\ \A a \in Live(k)' : registry'[k] = a
    BY DEF OneRunnerPerList
  <2>1. k \notin doubled
    BY <1>1
  <2>2. CASE k # l
    BY <1>2, <2>1, <2>2 DEF OneRunnerPerList
  <2>3. CASE k = l
    BY <1>1, <1>3, <1>4, <2>3
  <2> QED
    BY <2>2, <2>3
<1> QED
  BY <1>1, <1>2, <1>5

\* What RunOutcome starts is not registered; a list that is not registered
\* and was never doubled has no runner.
LEMMA StartedIsFree ==
    ASSUME NEW l \in Lists, NEW s \in BOOLEAN, NEW b \in BOOLEAN,
           RunOutcome(l, s, b) \in {"start", "ask", "empty"}
    PROVE  registry[l] = None /\ mem[l].here /\ ~failed
BY DEF RunOutcome

\* A list that is not registered has no live runner, unless it was overlapped.
LEMMA FreeHasNoRunner ==
    ASSUME OneRunnerPerList, NEW l \in Lists, l \notin doubled, registry[l] = None
    PROVE  Live(l) = {}
BY ListsAssumption DEF OneRunnerPerList, Live

\* Every step keeps OneRunnerPerList.
LEMMA OneRunnerStep ==
    ASSUME IInv, [Next]_vars
    PROVE  OneRunnerPerList'
<1> USE DEF IInv
<1>0. CASE UNCHANGED threads
  BY <1>0 DEF OneRunnerPerList, Live, threads
<1>1. CASE Quit
  <2>1. \A l \in Lists : Live(l)' = {} /\ registry'[l] = None
    BY <1>1 DEF Quit, Live
  <2> QED
    BY <2>1 DEF OneRunnerPerList
<1>2. ASSUME NEW l \in Lists, RunNow(l)
      PROVE  OneRunnerPerList'
  BY <1>0, <1>2, StartKeepsOne DEF RunNow
<1>3. CASE RunNowAccept
  BY <1>3, StartKeepsOne DEF RunNowAccept, UserOnTop, TypeOK
<1>4. CASE MissedStep
  BY <1>0, <1>4, FrameParts, StartKeepsOne DEF MissedStep, MissedRun
<1>5. CASE MissedYes
  BY <1>0, <1>5, StartKeepsOne DEF MissedYes, MissedRun, DialogsNameLists, Present
<1>6. CASE TickStep
  BY <1>0, <1>6, FrameParts, StartKeepsOne DEF TickStep
<1>7. CASE TickAccept
  BY <1>7, StartKeepsOne DEF TickAccept, DialogsNameLists, Present
<1>8. ASSUME NEW l \in Lists, NEW i \in Slots, RunnerEnds(l, i)
      PROVE  OneRunnerPerList'
  <2>1. \A k \in Lists : Live(k)' = Live(k)
    BY <1>8 DEF RunnerEnds, TypeOK, Live, Emitted, Free
  <2> QED
    BY <1>8, <2>1 DEF RunnerEnds, OneRunnerPerList
<1>9. ASSUME NEW l \in Lists, NEW i \in Slots, ListFinished(l, i)
      PROVE  OneRunnerPerList'
  <2>1. /\ i \in Live(l) /\ Live(l)' = Live(l) \ {i} /\ registry'[l] = None
        /\ doubled' = doubled
        /\ \A k \in Lists \ {l} : Live(k)' = Live(k) /\ registry'[k] = registry[k]
    BY <1>9 DEF ListFinished, TypeOK, Live, Free
  <2> QED
    BY <2>1 DEF OneRunnerPerList
<1>10. CASE Open \/ Unlock \/ Advance \/ TogglePause \/ RunNowDecline \/ UNCHANGED vars
  BY <1>0, <1>10 DEF Open, Unlock, Advance, TogglePause, RunNowDecline, vars
<1>11. CASE MissedFires \/ MissedNo \/ MissedDismiss \/ TickFires \/ TickDecline \/ TickDismiss
  BY <1>0, <1>11 DEF MissedFires, MissedNo, MissedDismiss, TickFires, TickDecline, TickDismiss
<1>12. ASSUME NEW l \in Lists, DeleteList(l) \/ ToggleEnabled(l)
       PROVE  OneRunnerPerList'
  BY <1>0, <1>12 DEF DeleteList, ToggleEnabled
<1>13. ASSUME NEW l \in Lists, NEW c \in Configs[l], NewList(l, c) \/ EditList(l, c)
       PROVE  OneRunnerPerList'
  BY <1>0, <1>13 DEF NewList, EditList
<1> QED
  BY <1>1, <1>2, <1>3, <1>4, <1>5, <1>6, <1>7, <1>8, <1>9, <1>10, <1>11, <1>12, <1>13
     DEF Next, Session, Panel, Startup, Timer, Thread

---------------------------------------------------------------------------
\* What the timer's dialog asks about, and what is quiet.

\* Only two steps happen beneath the timer's confirmation: a runner ends, or
\* the program does.  Neither registers a list.
LEMMA AskedStep ==
    ASSUME IInv, [Next]_vars
    PROVE  AskedListIsFree'
<1> USE DEF IInv
<1>0. CASE UNCHANGED <<tick, registry, doubled>>
  BY <1>0 DEF AskedListIsFree
<1>1. CASE tick' = Idle \/ \E rest : tick' = Loop(rest)
  BY <1>1, LoopParts DEF AskedListIsFree
<1>2. CASE Open \/ Unlock \/ Advance \/ TogglePause \/ RunNowDecline \/ UNCHANGED vars
  BY <1>0, <1>2 DEF Open, Unlock, Advance, TogglePause, RunNowDecline, vars, frames, threads
<1>3. CASE Quit \/ TickFires \/ TickAccept \/ TickDecline \/ TickDismiss
  BY <1>1, <1>3 DEF Quit, TickFires, TickAccept, TickDecline, TickDismiss
<1>4. ASSUME NEW l \in Lists, NEW c \in Configs[l], NewList(l, c) \/ EditList(l, c)
      PROVE  AskedListIsFree'
  BY <1>0, <1>4 DEF NewList, EditList, frames, threads
<1>5. ASSUME NEW l \in Lists, DeleteList(l) \/ ToggleEnabled(l)
      PROVE  AskedListIsFree'
  BY <1>0, <1>5 DEF DeleteList, ToggleEnabled, frames, threads
<1>6. ASSUME NEW l \in Lists, RunNow(l)
      PROVE  AskedListIsFree'
  BY <1>1, <1>6 DEF RunNow, NoDialog
<1>7. CASE RunNowAccept
  BY <1>1, <1>7 DEF RunNowAccept, UserOnTop
<1>8. CASE MissedStep \/ MissedYes
  BY <1>1, <1>8 DEF MissedStep, MissedYes, MissedOnTop
<1>9. CASE MissedFires \/ MissedNo \/ MissedDismiss
  BY <1>0, <1>9 DEF MissedFires, MissedNo, MissedDismiss, threads
<1>10. CASE TickStep
  <2> PICK l \in tick.rest :
        LET rest == tick.rest \ {l}
            o    == RunOutcome(l, FALSE, TRUE)
        IN  \/ o = "start" /\ StartRunner(l) /\ tick' = Loop(rest)
            \/ o \in {"ask", "empty"} /\ tick' = Dialog(o, l, rest) /\ UNCHANGED threads
            \/ o = "refuse" /\ tick' = Loop(rest) /\ UNCHANGED threads
    BY <1>10, Zenon DEF TickStep
  <2>1. l \in Lists
    BY FrameParts
  <2>2. CASE tick' = Loop(tick.rest \ {l})
    BY <1>1, <2>2
  <2>3. CASE /\ RunOutcome(l, FALSE, TRUE) \in {"ask", "empty"}
             /\ tick' = Dialog(RunOutcome(l, FALSE, TRUE), l, tick.rest \ {l})
             /\ UNCHANGED threads
    <3>1. tick'.list = l /\ registry[l] = None
      BY <2>1, <2>3, StartedIsFree DEF Dialog
    <3> QED
      BY <2>3, <3>1 DEF AskedListIsFree, threads
  <2> QED
    BY <2>2, <2>3
<1>11. ASSUME NEW l \in Lists, NEW i \in Slots, RunnerEnds(l, i) \/ ListFinished(l, i)
       PROVE  AskedListIsFree'
  <2>1. UNCHANGED <<tick, doubled>> /\ \A k \in Lists : registry'[k] \in {registry[k], None}
    BY <1>11 DEF RunnerEnds, ListFinished, frames, TypeOK
  <2>2. tick.st = "ask" => tick.list \in Lists
    BY DEF DialogsNameLists, Present
  <2> QED
    BY <2>1, <2>2 DEF AskedListIsFree
<1> QED
  BY <1>2, <1>3, <1>4, <1>5, <1>6, <1>7, <1>8, <1>9, <1>10, <1>11
     DEF Next, Session, Panel, Startup, Timer, Thread

\* While the program is closed or its schedules did not verify, nothing that
\* opens a dialog or starts a runner is enabled.
LEMMA QuietStep ==
    ASSUME IInv, [Next]_vars
    PROVE  QuietUnlessLoaded'
<1> USE DEF IInv
<1>0. CASE UNCHANGED <<open, failed, user, missed, tick, run>>
  BY <1>0 DEF QuietUnlessLoaded, Live
<1>1. CASE open' /\ ~failed'
  BY <1>1 DEF QuietUnlessLoaded
<1>2. CASE Open
  BY <1>2 DEF Open, Load, QuietUnlessLoaded, Live, threads
<1>3. CASE Quit
  BY <1>3 DEF Quit, QuietUnlessLoaded, Live
<1>4. CASE Unlock \/ Advance \/ TogglePause \/ UNCHANGED vars
  BY <1>0, <1>4 DEF Unlock, Advance, TogglePause, vars, session, frames, threads
<1>5. ASSUME NEW l \in Lists, NEW c \in Configs[l], NewList(l, c) \/ EditList(l, c)
      PROVE  QuietUnlessLoaded'
  BY <1>0, <1>5 DEF NewList, EditList, session, frames, threads
<1>6. ASSUME NEW l \in Lists, DeleteList(l) \/ ToggleEnabled(l)
      PROVE  QuietUnlessLoaded'
  BY <1>0, <1>6 DEF DeleteList, ToggleEnabled, session, frames, threads
<1>7. ASSUME NEW l \in Lists, RunNow(l)
      PROVE  QuietUnlessLoaded'
  BY <1>1, <1>7, StartedIsFree DEF RunNow, NoDialog, Waiting, session, TypeOK
<1>8. CASE RunNowAccept \/ RunNowDecline
  BY <1>1, <1>8 DEF RunNowAccept, RunNowDecline, UserOnTop, QuietUnlessLoaded, session
<1>9. CASE Startup
  <2>1. missed # Idle /\ open /\ UNCHANGED session
    BY <1>9 DEF Startup, MissedFires, MissedStep, MissedYes, MissedNo, MissedDismiss,
                Waiting, MissedOnTop, Idle
  <2> QED
    BY <1>1, <2>1 DEF QuietUnlessLoaded, session
<1>10. CASE TickFires
  BY <1>1, <1>10 DEF TickFires, Waiting, session, QuietUnlessLoaded
<1>11. CASE TickStep \/ TickAccept \/ TickDecline \/ TickDismiss
  <2>1. tick.st # "idle" /\ open /\ UNCHANGED session
    <3>1. CASE TickStep
      BY <3>1 DEF TickStep
    <3>2. CASE TickAccept \/ TickDecline \/ TickDismiss
      BY <3>2 DEF TickAccept, TickDecline, TickDismiss, TickOnTop
    <3> QED
      BY <1>11, <3>1, <3>2
  <2> QED
    BY <1>1, <2>1, LoopParts DEF QuietUnlessLoaded, session
<1>12. ASSUME NEW l \in Lists, NEW i \in Slots, RunnerEnds(l, i) \/ ListFinished(l, i)
       PROVE  QuietUnlessLoaded'
  <2>1. i \in Live(l) /\ UNCHANGED session
    BY <1>12 DEF RunnerEnds, ListFinished, Live, Free
  <2> QED
    BY <1>1, <2>1 DEF QuietUnlessLoaded, session
<1> QED
  BY <1>2, <1>3, <1>4, <1>5, <1>6, <1>7, <1>8, <1>9, <1>10, <1>11, <1>12
     DEF Next, Session, Panel, Timer, Thread

\* Every step keeps the inductive invariant.
LEMMA IInvStep == IInv /\ [Next]_vars => IInv'
BY TypeStep, NamesStep, OneRunnerStep, AskedStep, QuietStep DEF IInv

\* The inductive invariant holds in every state.
LEMMA Inductive == Spec => []IInv
BY InitIInv, IInvStep, PTL DEF Spec

---------------------------------------------------------------------------
\* The theorems.

\* The variables keep their types: every handler's dialog is about a list,
\* every runner is registered under a list's id, every last_run is an instant.
THEOREM TypeCorrect == Spec => []TypeOK
<1>1. IInv => TypeOK
  BY DEF IInv
<1> QED
  BY <1>1, Inductive, PTL

\* For any number of lists, runners and dialogs: a list that was not started
\* over a live runner has one runner, the registered one (run_schedule,
\* _on_list_finished).
THEOREM OneRunner == Spec => []OneRunnerPerList
<1>1. IInv => OneRunnerPerList
  BY DEF IInv
<1> QED
  BY <1>1, Inductive, PTL

\* A dialog that is open, and the rest of the snapshot behind it, name lists
\* that exist, whatever happened since it opened.
THEOREM NamesExist == Spec => []DialogsNameLists
<1>1. IInv => DialogsNameLists
  BY DEF IInv
<1> QED
  BY <1>1, Inductive, PTL

\* After a load that failed nothing runs (run_schedule's first test, and the
\* timer and the startup handler that are not started).
THEOREM FailedIsQuiet == Spec => []FailedLoadRunsNothing
<1>1. IInv => FailedLoadRunsNothing
  BY DEF IInv, QuietUnlessLoaded, FailedLoadRunsNothing
<1> QED
  BY <1>1, Inductive, PTL

\* A second runner is started beside a live one only by accepting a Run Now
\* confirmation: the startup handler and the timer's confirmation cannot,
\* because what they start was not registered a moment ago, and the timer's
\* dialog lets nothing be started beneath it.
THEOREM OverlapsAreRunNow == Spec => OnlyRunNowOverlaps
<1> DEFINE Fine == \A l \in Lists : l \in doubled' \ doubled => user = l /\ RunNowAccept
<1>1. ASSUME IInv, [Next]_vars
      PROVE  Fine
  <2> USE <1>1 DEF IInv
  <2>0. CASE doubled' \subseteq doubled
    BY <2>0
  <2>1. ASSUME NEW l \in Lists, Live(l) = {}, StartRunner(l)
        PROVE  Fine
    BY <2>1, StartKeepsOne
  <2>2. CASE RunNowAccept
    BY <2>2, StartKeepsOne DEF RunNowAccept, UserOnTop, TypeOK
  <2>3. ASSUME NEW l \in Lists, NEW s \in BOOLEAN, RunOutcome(l, s, TRUE) = "start", StartRunner(l)
        PROVE  Fine
    <3>1. registry[l] = None
      BY <2>3, StartedIsFree
    <3>2. CASE l \in doubled
      BY <2>3, <3>2, StartKeepsOne
    <3>3. CASE l \notin doubled
      BY <2>1, <2>3, <3>1, <3>3, FreeHasNoRunner
    <3> QED
      BY <3>2, <3>3
  <2>4. ASSUME NEW l \in Lists, RunNow(l)
        PROVE  Fine
    <3>1. CASE UNCHANGED threads
      BY <2>0, <3>1 DEF threads
    <3>2. CASE StartRunner(l) /\ registry[l] = None
      BY <2>1, <3>2, StartKeepsOne, FreeHasNoRunner
    <3> QED
      BY <2>4, <3>1, <3>2, StartedIsFree DEF RunNow
  <2>5. CASE MissedStep
    BY <2>0, <2>3, <2>5, FrameParts DEF MissedStep, MissedRun, threads
  <2>6. CASE MissedYes
    BY <2>0, <2>3, <2>6 DEF MissedYes, MissedRun, threads, DialogsNameLists, Present
  <2>7. CASE TickStep
    BY <2>0, <2>3, <2>7, FrameParts DEF TickStep, threads
  <2>8. CASE TickAccept
    <3>1. tick.list \in Lists /\ StartRunner(tick.list) /\ tick.st = "ask"
      BY <2>8 DEF TickAccept, DialogsNameLists, Present
    <3>2. CASE tick.list \in doubled
      BY <3>1, <3>2, StartKeepsOne
    <3>3. CASE tick.list \notin doubled
      BY <2>1, <3>1, <3>3, FreeHasNoRunner DEF AskedListIsFree
    <3> QED
      BY <3>2, <3>3
  <2>9. CASE Open \/ Quit \/ Unlock \/ Advance \/ TogglePause \/ RunNowDecline \/ UNCHANGED vars
    BY <2>0, <2>9 DEF Open, Quit, Unlock, Advance, TogglePause, RunNowDecline, vars, threads
  <2>10. CASE MissedFires \/ MissedNo \/ MissedDismiss \/ TickFires \/ TickDecline \/ TickDismiss
    BY <2>0, <2>10 DEF MissedFires, MissedNo, MissedDismiss, TickFires, TickDecline,
                       TickDismiss, threads
  <2>11. ASSUME NEW l \in Lists, DeleteList(l) \/ ToggleEnabled(l)
         PROVE  Fine
    BY <2>0, <2>11 DEF DeleteList, ToggleEnabled, threads
  <2>12. ASSUME NEW l \in Lists, NEW c \in Configs[l], NewList(l, c) \/ EditList(l, c)
         PROVE  Fine
    BY <2>0, <2>12 DEF NewList, EditList, threads
  <2>13. ASSUME NEW l \in Lists, NEW i \in Slots, RunnerEnds(l, i) \/ ListFinished(l, i)
         PROVE  Fine
    BY <2>0, <2>13 DEF RunnerEnds, ListFinished
  <2> HIDE DEF Fine
  <2> QED
    BY <1>1, <2>2, <2>4, <2>5, <2>6, <2>7, <2>8, <2>9, <2>10, <2>11, <2>12, <2>13
       DEF Next, Session, Panel, Startup, Timer, Thread
<1>2. Fine => [Fine]_vars
  OBVIOUS
<1> QED
  BY <1>1, <1>2, Inductive, PTL DEF Spec, OnlyRunNowOverlaps

\* Whatever order skips, runs and edits happen in, and however often the disk
\* fails, the file holds what the panel shows once a save has gone through.
THEOREM FileFollows == Spec => []DiskIsCurrent
<1>1. Init => DiskIsCurrent
  BY DEF Init, DiskIsCurrent
<1>2. ASSUME DiskIsCurrent, [Next]_vars
      PROVE  DiskIsCurrent'
  <2> USE <1>2 DEF DiskIsCurrent
  <2>1. CASE UNCHANGED store /\ (open' => open)
    BY <2>1 DEF store
  <2>2. ASSUME NEW m, Save(m)
        PROVE  DiskIsCurrent'
    BY <2>2 DEF Save
  <2>3. CASE Open
    BY <2>3 DEF Open, Load
  <2>4. CASE Quit
    BY <2>4 DEF Quit
  <2>5. CASE Unlock \/ Advance \/ TogglePause \/ RunNowAccept \/ UNCHANGED vars
    BY <2>1, <2>5 DEF Unlock, Advance, TogglePause, RunNowAccept, vars, session
  <2>6. CASE RunNowDecline \/ MissedNo \/ TickDecline
    BY <2>2, <2>6 DEF RunNowDecline, MissedNo, TickDecline, Skip
  <2>7. CASE MissedFires \/ MissedYes \/ MissedDismiss
    BY <2>1, <2>7 DEF MissedFires, MissedYes, MissedDismiss, session
  <2>8. CASE MissedStep
    BY <2>1, <2>2, <2>8 DEF MissedStep, Skip, session, store
  <2>9. CASE TickFires \/ TickStep \/ TickAccept \/ TickDismiss
    BY <2>1, <2>9 DEF TickFires, TickStep, TickAccept, TickDismiss, session
  <2>10. ASSUME NEW l \in Lists, DeleteList(l) \/ ToggleEnabled(l) \/ RunNow(l)
         PROVE  DiskIsCurrent'
    BY <2>1, <2>2, <2>10 DEF DeleteList, ToggleEnabled, RunNow, session
  <2>11. ASSUME NEW l \in Lists, NEW c \in Configs[l], NewList(l, c) \/ EditList(l, c)
         PROVE  DiskIsCurrent'
    BY <2>2, <2>11 DEF NewList, EditList
  <2>12. ASSUME NEW l \in Lists, NEW i \in Slots, RunnerEnds(l, i) \/ ListFinished(l, i)
         PROVE  DiskIsCurrent'
    BY <2>1, <2>2, <2>12 DEF RunnerEnds, ListFinished, session
  <2> QED
    BY <1>2, <2>3, <2>4, <2>5, <2>6, <2>7, <2>8, <2>9, <2>10, <2>11, <2>12
       DEF Next, Session, Panel, Startup, Timer, Thread
<1> QED
  BY <1>1, <1>2, PTL DEF Spec

\* schedules.json is the truth, in every session: it holds what the panel
\* shows, and nothing runs when it did not verify.
THEOREM FileIsTheTruth == Spec => []DiskIsTheTruth
<1>1. DiskIsCurrent /\ FailedLoadRunsNothing => DiskIsTheTruth
  BY DEF DiskIsTheTruth
<1> QED
  BY <1>1, FileFollows, FailedIsQuiet, PTL

---------------------------------------------------------------------------
(* Days. *)

\* Every instant is in one day, and a day is DayLen instants.
LEMMA DayIsMonotone ==
    ASSUME NEW p \in Int, NEW q \in Int, p < q
    PROVE  p * DayLen + DayLen <= q * DayLen
  <1>1. DayLen \in Nat /\ DayLen > 0
    BY DayLenAssumption
  <1>2. PICK k \in Nat : q = p + 1 + k
    <2>1. q - p - 1 \in Nat /\ q = p + 1 + (q - p - 1)
      OBVIOUS
    <2> QED BY <2>1
  <1>3. q * DayLen = p * DayLen + DayLen + k * DayLen
    BY <1>1, <1>2
  <1>4. k * DayLen >= 0
    BY <1>1
  <1>5. p * DayLen \in Int /\ k * DayLen \in Int
    BY <1>1
  <1> QED
    BY <1>1, <1>3, <1>4, <1>5

LEMMA Quotient ==
    ASSUME NEW t \in Nat, NEW d \in Nat, d > 0, NEW q \in Nat, NEW r \in Nat, q = t \div d, r = t % d
    PROVE  t = d * q + r
  BY SMTT(30)

LEMMA DayParts ==
    ASSUME NEW t \in Nat, NEW q, NEW r, q = t \div DayLen, r = t % DayLen
    PROVE  q \in Nat /\ r \in 0..(DayLen - 1) /\ t = q * DayLen + r
  <1>1. PICK d : d = DayLen /\ d \in Nat /\ d > 0
    BY DayLenAssumption
  <1>2. r \in 0..(d - 1) /\ q \in Nat
    BY <1>1
  <1>3. t = d * q + r
    BY <1>1, <1>2, Quotient
  <1> QED
    BY <1>1, <1>2, <1>3

LEMMA DayOf ==
    ASSUME NEW q \in Nat, NEW r \in 0..(DayLen - 1)
    PROVE  (q * DayLen + r) \div DayLen = q /\ (q * DayLen + r) % DayLen = r
  <1>1. DayLen \in Nat /\ DayLen > 0 /\ r \in Nat /\ r < DayLen
    BY DayLenAssumption
  <1>2. PICK t : t = q * DayLen + r
    OBVIOUS
  <1>3. q * DayLen \in Nat /\ t \in Nat
    BY <1>1, <1>2
  <1>4. PICK p, s : p = t \div DayLen /\ s = t % DayLen
    OBVIOUS
  <1>5. p \in Nat /\ s \in 0..(DayLen - 1) /\ t = p * DayLen + s
    BY <1>3, <1>4, DayParts
  <1>6. p * DayLen \in Int
    BY <1>1, <1>5
  <1>7. ~(p < q)
    <2> SUFFICES ASSUME p < q PROVE FALSE OBVIOUS
    <2>1. p * DayLen + DayLen <= q * DayLen
      BY <1>5, DayIsMonotone
    <2> QED BY <1>1, <1>2, <1>3, <1>5, <1>6, <2>1
  <1>8. ~(q < p)
    <2> SUFFICES ASSUME q < p PROVE FALSE OBVIOUS
    <2>1. q * DayLen + DayLen <= p * DayLen
      BY <1>5, DayIsMonotone
    <2> QED BY <1>1, <1>2, <1>3, <1>5, <1>6, <2>1
  <1>9. p = q
    BY <1>5, <1>7, <1>8
  <1>10. s = r
    BY <1>1, <1>2, <1>3, <1>5, <1>9
  <1> QED
    BY <1>2, <1>4, <1>9, <1>10

---------------------------------------------------------------------------
(* An instant is in one day, at one time of it. *)

Day(q) == q * DayLen

LEMMA DayFacts ==
    /\ DayLen \in Nat /\ DayLen > 0
    /\ \A q \in Nat : Day(q) \in Nat
    /\ \A p, q \in Nat : p < q => Day(p) + DayLen <= Day(q)
  <1>1. DayLen \in Nat /\ DayLen > 0
    BY DayLenAssumption
  <1>2. \A q \in Nat : Day(q) \in Nat
    BY <1>1 DEF Day
  <1>3. ASSUME NEW p \in Nat, NEW q \in Nat, p < q PROVE Day(p) + DayLen <= Day(q)
    BY <1>3, DayIsMonotone DEF Day
  <1> QED
    BY <1>1, <1>2, <1>3

LEMMA InDay ==
    ASSUME NEW q \in Nat, NEW r \in 0..(DayLen - 1), NEW t, t = Day(q) + r
    PROVE  DayStart(t) = Day(q) /\ Weekday(t) = q % 7 /\ t % DayLen = r
  <1>1. t \div DayLen = q /\ t % DayLen = r
    BY DayOf DEF Day
  <1> QED
    BY <1>1 DEF DayStart, Weekday, Day

LEMMA AtInstant ==
    ASSUME NEW t \in Nat
    PROVE  \E q \in Nat, r \in 0..(DayLen - 1) :
              t = Day(q) + r /\ DayStart(t) = Day(q) /\ Weekday(t) = q % 7 /\ t % DayLen = r
  <1>1. PICK q, r : q = t \div DayLen /\ r = t % DayLen
    OBVIOUS
  <1>2. q \in Nat /\ r \in 0..(DayLen - 1) /\ t = Day(q) + r
    BY <1>1, DayParts DEF Day
  <1> QED
    BY <1>2, InDay

LEMMA LaterDay ==
    ASSUME NEW q \in Nat, NEW r \in 0..(DayLen - 1), NEW t, t = Day(q) + r, NEW o \in Nat, NEW trig
    PROVE  Candidate(trig, t, o) = Day(q + o) + trig.time
  <1>1. DayLen \in Nat /\ r \in Nat
    BY DayLenAssumption
  <1>2. t + o * DayLen = Day(q + o) + r
    BY <1>1 DEF Day
  <1>3. q + o \in Nat
    OBVIOUS
  <1>4. DayStart(t + o * DayLen) = Day(q + o)
    BY <1>2, <1>3, InDay
  <1> QED
    BY <1>4 DEF Candidate

\* Every weekday comes within seven days.
LEMMA WeekdayComes ==
    ASSUME NEW q \in Nat, NEW d \in 0..6
    PROVE  \E o \in 1..7 : (q + o) % 7 = d
  OBVIOUS

IsTime(trig) ==
    /\ trig.type = "scheduled"
    /\ trig.days # {} /\ trig.days \subseteq Weekdays /\ trig.time \in 0..(DayLen - 1)
SlotOf(trig, t) == Weekday(t) \in trig.days /\ t % DayLen = trig.time

LEMMA SlotIs ==
    ASSUME NEW trig, IsTime(trig), NEW t \in Nat
    PROVE  SlotOf(trig, t) <=> \E p \in Nat : p % 7 \in trig.days /\ t = Day(p) + trig.time
  <1>1. ASSUME SlotOf(trig, t) PROVE \E p \in Nat : p % 7 \in trig.days /\ t = Day(p) + trig.time
    BY <1>1, AtInstant DEF SlotOf
  <1>2. ASSUME NEW p \in Nat, p % 7 \in trig.days, t = Day(p) + trig.time PROVE SlotOf(trig, t)
    <2>1. trig.time \in 0..(DayLen - 1)
      BY DEF IsTime
    <2> QED
      BY <1>2, <2>1, InDay DEF SlotOf
  <1> QED
    BY <1>1, <1>2

---------------------------------------------------------------------------
(* The slot that next_due computes is the first one after now. *)

LEMMA LeastOf ==
    ASSUME NEW T \in SUBSET Nat, T # {}
    PROVE  \E x \in T : \A y \in T : x <= y
<1> DEFINE R == {ss \in Nat \X Nat : ss[1] < ss[2]}
<1>1. IsWellFoundedOn(R, Nat)
  BY NatLessThanWellFounded DEF OpToRel
<1>2. PICK x \in T : \A y \in T : ~ (<<y, x>> \in R)
  <2> HIDE DEF R
  <2> QED BY <1>1, WFMin
<1>3. ASSUME NEW y \in T PROVE x <= y
  <2>1. x \in Nat /\ y \in Nat
    OBVIOUS
  <2>2. <<y, x>> \in Nat \X Nat
    BY <2>1
  <2>3. <<y, x>>[1] = y /\ <<y, x>>[2] = x
    OBVIOUS
  <2>4. ~(<<y, x>> \in R)
    BY <1>2
  <2>5. ~(y < x)
    <3> SUFFICES ASSUME y < x PROVE <<y, x>> \in R
      BY <2>4
    <3> QED BY <2>2, <2>3
  <2> QED BY <2>1, <2>5
<1> QED
  BY <1>3

LEMMA LeastIsMin ==
    ASSUME NEW T \in SUBSET Nat, NEW m \in T, \A y \in T : m <= y
    PROVE  Min(T) = m
  <1>1. \A x \in T : (\A y \in T : x <= y) => x = m
    OBVIOUS
  <1> QED
    BY <1>1 DEF Min

LEMMA FirstSlot ==
    ASSUME NEW trig, IsTime(trig), NEW at \in Nat, NEW before
    PROVE  LET next == NextDue(trig, before, at)
           IN  /\ next \in (at + 1)..(at + 8 * DayLen) /\ SlotOf(trig, next)
               /\ \A t \in Nat : t > at /\ SlotOf(trig, t) => next <= t
  <1>1. PICK q \in Nat, r \in 0..(DayLen - 1) : at = Day(q) + r
    BY AtInstant
  <1>2. PICK D, time, days : D = DayLen /\ time = trig.time /\ days = trig.days
    OBVIOUS
  <1>3. /\ D \in Nat /\ D > 0 /\ time \in 0..(D - 1) /\ r \in 0..(D - 1)
        /\ days # {} /\ days \subseteq 0..6 /\ trig.type = "scheduled"
    BY <1>2, DayFacts DEF IsTime, Weekdays
  <1>4. /\ \A p \in Nat : Day(p) \in Nat
        /\ \A p, s \in Nat : p < s => Day(p) + D <= Day(s)
    BY <1>2, DayFacts
  <1> DEFINE At(o) == Candidate(trig, at, o)
             later == {o \in DueOffsets : Weekday(At(o)) \in days /\ At(o) > at}
  <1>5. ASSUME NEW o \in Nat PROVE At(o) = Day(q + o) + time /\ Weekday(At(o)) = (q + o) % 7
    <2>1. At(o) = Day(q + o) + time
      BY <1>1, <1>2, LaterDay
    <2>2. q + o \in Nat
      OBVIOUS
    <2> QED
      BY <1>2, <1>3, <2>1, <2>2, InDay
  <1> HIDE DEF At
  <1>6. \A o \in 0..7 : o \in later <=> (q + o) % 7 \in days /\ Day(q + o) + time > at
    BY <1>5 DEF DueOffsets
  <1>7. later # {}
    <2>1. PICK d \in 0..6 : d \in days
      BY <1>3
    <2>2. PICK o \in 1..7 : (q + o) % 7 = d
      BY WeekdayComes
    <2>3. o \in 0..7 /\ q + o \in Nat /\ q < q + o
      OBVIOUS
    <2>4. Day(q + o) + time > at
      BY <1>1, <1>3, <1>4, <2>3
    <2> QED
      BY <1>6, <2>1, <2>2, <2>3, <2>4
  <1>8. later \subseteq 0..7
    BY DEF DueOffsets
  <1> HIDE DEF later
  <1>9. PICK m \in later : \A y \in later : m <= y
    <2>1. later \in SUBSET Nat
      BY <1>8
    <2> QED BY <1>7, <2>1, LeastOf
  <1>10. Min(later) = m
    <2>1. later \in SUBSET Nat
      BY <1>8
    <2> QED BY <1>9, <2>1, LeastIsMin
  <1>11. NextDue(trig, before, at) = At(m)
    BY <1>2, <1>3, <1>7, <1>10 DEF NextDue, later, At
  <1>12. PICK next : next = NextDue(trig, before, at)
    OBVIOUS
  <1>13. m \in 0..7 /\ q + m \in Nat /\ next = Day(q + m) + time /\ (q + m) % 7 \in days /\ next > at
    BY <1>5, <1>6, <1>8, <1>9, <1>11, <1>12
  <1>14. next \in (at + 1)..(at + 8 * D)
    <2>1. Day(q + m) <= Day(q + 7)
      <3>1. CASE m = 7
        BY <1>4, <3>1
      <3>2. CASE m # 7
        <4>1. q + m < q + 7 /\ q + 7 \in Nat
          BY <1>13, <3>2
        <4> QED BY <1>3, <1>4, <1>13, <4>1
      <3> QED BY <3>1, <3>2
    <2>2. Day(q + 7) = Day(q) + 7 * D
      BY <1>2, <1>3 DEF Day
    <2>3. Day(q) \in Nat /\ Day(q + m) \in Nat
      BY <1>4, <1>13
    <2> QED
      BY <1>1, <1>3, <1>13, <2>1, <2>2, <2>3
  <1>15. SlotOf(trig, next)
    <2>1. next \in Nat
      BY <1>3, <1>4, <1>13
    <2> QED
      BY <1>2, <1>13, <2>1, SlotIs
  <1>16. ASSUME NEW t \in Nat, t > at, SlotOf(trig, t) PROVE next <= t
    <2>1. PICK p \in Nat : p % 7 \in days /\ t = Day(p) + time
      BY <1>2, <1>16, SlotIs
    <2>2. p >= q
      <3> SUFFICES ASSUME p < q PROVE FALSE
        OBVIOUS
      <3>1. Day(p) + D <= Day(q) /\ Day(p) \in Nat /\ Day(q) \in Nat
        BY <1>4
      <3> QED
        BY <1>1, <1>3, <1>16, <2>1, <3>1
    <2>3. p >= q + m
      <3> SUFFICES ASSUME p < q + m PROVE FALSE
        BY <1>13
      <3>1. p - q \in 0..7 /\ p = q + (p - q) /\ ~(m <= p - q)
        BY <1>13, <2>2
      <3>2. p - q \in later
        BY <1>6, <1>16, <2>1, <3>1
      <3> QED
        BY <1>9, <3>1, <3>2
    <2>4. Day(q + m) <= Day(p)
      <3>1. CASE p = q + m
        BY <1>4, <1>13, <3>1
      <3>2. CASE p # q + m
        <4>1. PICK u \in Nat : u = q + m
          BY <1>13
        <4>2. u < p
          BY <2>3, <3>2, <4>1
        <4>3. Day(u) + D <= Day(p) /\ Day(u) \in Nat /\ Day(p) \in Nat
          BY <1>4, <4>2
        <4> QED BY <1>3, <4>1, <4>3
      <3> QED BY <3>1, <3>2
    <2>5. Day(p) \in Nat /\ Day(q + m) \in Nat
      BY <1>4, <1>13
    <2> QED
      BY <1>3, <1>13, <2>1, <2>4, <2>5
  <1> QED
    BY <1>2, <1>12, <1>14, <1>15, <1>16

\* A list is due when a slot of the day has been reached that nothing served.
LEMMA DueAtSlot ==
    ASSUME NEW trig, IsTime(trig), NEW at \in Nat, NEW before \in Nat \cup {Never}, before <= at
    PROVE  IsDue(TRUE, trig, before, at) <=>
              \E s \in DayStart(at)..at : SlotOf(trig, s) /\ ~(before \in s..at)
  <1>1. PICK q \in Nat, r \in 0..(DayLen - 1) : at = Day(q) + r /\ DayStart(at) = Day(q) /\ Weekday(at) = q % 7
    BY AtInstant
  <1>2. PICK D, time, days : D = DayLen /\ time = trig.time /\ days = trig.days
    OBVIOUS
  <1>3. D \in Nat /\ D > 0 /\ time \in 0..(D - 1) /\ r \in 0..(D - 1) /\ trig.type = "scheduled"
    BY <1>2, DayFacts DEF IsTime
  <1>4. /\ \A p \in Nat : Day(p) \in Nat
        /\ \A p, s \in Nat : p < s => Day(p) + D <= Day(s)
    BY <1>2, DayFacts
  <1>5. PICK c : c = Day(q) + time
    OBVIOUS
  <1>6. c = Candidate(trig, at, 0) /\ c \in Nat /\ Day(q) \in Nat /\ Day(q) <= c
    <2>1. Candidate(trig, at, 0) = Day(q + 0) + time
      BY <1>1, <1>2, LaterDay
    <2> QED
      BY <1>3, <1>4, <1>5, <2>1
  <1>7. ServedToday(trig, before, at) <=> before # Never /\ DayStart(before) = Day(q) /\ before >= c
    BY <1>1, <1>6 DEF ServedToday
  <1>8. c <= at => (ServedToday(trig, before, at) <=> before \in c..at)
    <2>1. ASSUME before \in c..at PROVE DayStart(before) = Day(q) /\ before # Never
      <3>1. before \in Nat
        BY <1>6, <2>1
      <3>2. PICK p \in Nat, s \in 0..(DayLen - 1) : before = Day(p) + s /\ DayStart(before) = Day(p)
        BY <3>1, AtInstant
      <3>3. s \in 0..(D - 1) /\ Day(p) \in Nat
        BY <1>2, <1>4, <3>2
      <3>4. ~(p < q)
        <4> SUFFICES ASSUME p < q PROVE FALSE
          OBVIOUS
        <4>1. Day(p) + D <= Day(q)
          BY <1>4
        <4> QED BY <1>3, <1>6, <2>1, <3>2, <3>3, <4>1
      <3>5. ~(q < p)
        <4> SUFFICES ASSUME q < p PROVE FALSE
          OBVIOUS
        <4>1. Day(q) + D <= Day(p)
          BY <1>4
        <4> QED BY <1>1, <1>3, <1>6, <2>1, <3>2, <3>3, <4>1
      <3>6. p = q
        BY <3>4, <3>5
      <3> QED BY <3>1, <3>2, <3>6 DEF Never
    <2> QED
      BY <1>6, <1>7, <2>1 DEF Never
  <1>9. IsDue(TRUE, trig, before, at) <=> q % 7 \in days /\ c <= at /\ ~(before \in c..at)
    BY <1>1, <1>2, <1>3, <1>6, <1>8 DEF IsDue
  <1>10. ASSUME NEW s \in DayStart(at)..at
         PROVE  SlotOf(trig, s) <=> q % 7 \in days /\ s = c
    <2>1. s \in Nat /\ Day(q) <= s /\ s <= at
      BY <1>1, <1>6
    <2>2. ASSUME SlotOf(trig, s) PROVE q % 7 \in days /\ s = c
      <3>1. PICK p \in Nat : p % 7 \in days /\ s = Day(p) + time
        BY <1>2, <2>1, <2>2, SlotIs
      <3>2. Day(p) \in Nat
        BY <1>4
      <3>3. ~(p < q)
        <4> SUFFICES ASSUME p < q PROVE FALSE
          OBVIOUS
        <4>1. Day(p) + D <= Day(q)
          BY <1>4
        <4> QED BY <1>3, <1>6, <2>1, <3>1, <3>2, <4>1
      <3>4. ~(q < p)
        <4> SUFFICES ASSUME q < p PROVE FALSE
          OBVIOUS
        <4>1. Day(q) + D <= Day(p)
          BY <1>4
        <4> QED BY <1>1, <1>3, <1>6, <2>1, <3>1, <3>2, <4>1
      <3>5. p = q
        BY <3>3, <3>4
      <3> QED BY <1>5, <3>1, <3>5
    <2>3. ASSUME q % 7 \in days, s = c PROVE SlotOf(trig, s)
      BY <1>2, <1>5, <2>1, <2>3, SlotIs
    <2> QED BY <2>2, <2>3
  <1>11. c <= at => c \in DayStart(at)..at
    BY <1>1, <1>6
  <1>12. ASSUME q % 7 \in days, c <= at, ~(before \in c..at)
         PROVE  \E s \in DayStart(at)..at : SlotOf(trig, s) /\ ~(before \in s..at)
    <2>1. c \in DayStart(at)..at
      BY <1>11, <1>12
    <2>2. SlotOf(trig, c)
      BY <1>10, <1>12, <2>1
    <2> QED
      BY <1>12, <2>1, <2>2
  <1>13. ASSUME NEW s \in DayStart(at)..at, SlotOf(trig, s), ~(before \in s..at)
         PROVE  q % 7 \in days /\ c <= at /\ ~(before \in c..at)
    <2>1. q % 7 \in days /\ s = c
      BY <1>10, <1>13
    <2>2. s <= at
      BY <1>1, <1>6
    <2> QED
      BY <1>13, <2>1, <2>2
  <1> QED
    BY <1>9, <1>12, <1>13

---------------------------------------------------------------------------
(* A list on the clock. *)

LEMMA SkipOfTimes ==
    ASSUME NEW trig, IsTime(trig), NEW at \in Nat
    PROVE  LET next == NextDue(trig, at, at)
           IN  (\A t \in at..(next - 1) : ~IsDue(TRUE, trig, at, t)) /\ IsDue(TRUE, trig, at, next)
  <1>1. PICK next : next = NextDue(trig, at, at)
    OBVIOUS
  <1>2. /\ next \in (at + 1)..(at + 8 * DayLen) /\ SlotOf(trig, next)
        /\ \A t \in Nat : t > at /\ SlotOf(trig, t) => next <= t
    BY <1>1, FirstSlot
  <1>3. next \in Nat /\ next > at
    BY <1>2, DayFacts
  <1>4. ASSUME NEW t \in at..(next - 1) PROVE ~IsDue(TRUE, trig, at, t)
    <2> SUFFICES ASSUME IsDue(TRUE, trig, at, t) PROVE FALSE
      OBVIOUS
    <2>1. t \in Nat /\ at <= t /\ t < next
      BY <1>3
    <2>2. PICK s \in DayStart(t)..t : SlotOf(trig, s) /\ ~(at \in s..t)
      BY <2>1, DueAtSlot
    <2>3. PICK q \in Nat : DayStart(t) = Day(q) /\ Day(q) \in Nat
      BY <2>1, AtInstant, DayFacts
    <2>4. s \in Nat /\ s > at /\ s <= t
      BY <2>1, <2>2, <2>3
    <2> QED
      BY <1>2, <1>3, <2>1, <2>2, <2>4
  <1>5. IsDue(TRUE, trig, at, next)
    <2>1. PICK q \in Nat, r \in 0..(DayLen - 1) : next = Day(q) + r /\ DayStart(next) = Day(q) /\ Day(q) \in Nat
      BY <1>3, AtInstant, DayFacts
    <2>2. next \in DayStart(next)..next
      BY <1>3, <2>1, DayFacts
    <2>3. ~(at \in next..next)
      BY <1>3
    <2>4. at <= next /\ at \in Nat \cup {Never}
      BY <1>3
    <2> QED
      BY <1>2, <1>3, <2>2, <2>3, <2>4, DueAtSlot
  <1> QED
    BY <1>1, <1>4, <1>5

LEMMA SpanIsNumber ==
    ASSUME NEW trig, ValidTrigger(trig), trig.type = "interval", trig.value \in Int
    PROVE  ToTimedelta(trig) \in Nat
  <1>1. DayLen \in Nat /\ HourLen \in Nat
    BY DayLenAssumption, HourLenAssumption
  <1>2. PICK v \in Nat : v = IF trig.value < 1 THEN 1 ELSE trig.value
    OBVIOUS
  <1>3. v * HourLen \in Nat /\ v * DayLen \in Nat /\ v * 30 * DayLen \in Nat
    BY <1>1
  <1>4. trig.unit \in Units
    BY DEF ValidTrigger
  <1> QED
    BY <1>2, <1>3, <1>4 DEF ToTimedelta, Units

LEMMA SkipOfIntervals ==
    ASSUME NEW trig, trig.type = "interval", ToTimedelta(trig) \in Nat, NEW at \in Nat
    PROVE  LET next == NextDue(trig, at, at)
           IN  (\A t \in at..(next - 1) : ~IsDue(TRUE, trig, at, t)) /\ IsDue(TRUE, trig, at, next)
  <1>1. PICK span \in Nat : span = ToTimedelta(trig)
    OBVIOUS
  <1>2. at # Never
    BY DEF Never
  <1>3. PICK next : next = NextDue(trig, at, at) /\ next = at + span
    BY <1>1, <1>2 DEF NextDue
  <1>4. \A t : IsDue(TRUE, trig, at, t) <=> t >= at + span
    BY <1>1, <1>2 DEF IsDue
  <1>5. ASSUME NEW t \in at..(next - 1) PROVE ~IsDue(TRUE, trig, at, t)
    <2>1. ~(t >= at + span)
      BY <1>3
    <2> QED
      BY <1>4, <2>1
  <1>6. IsDue(TRUE, trig, at, next)
    <2>1. next >= at + span
      BY <1>3
    <2> QED
      BY <1>4, <2>1
  <1> QED
    BY <1>3, <1>5, <1>6

ClockInv ==
    /\ trigger \in ClockTriggers
    /\ instant \in Nat /\ last \in Nat \cup {Never} /\ last <= instant

LEMMA ClockInvHolds == ClockSpec => []ClockInv
  <1>1. ClockInit => ClockInv
    BY DEF ClockInit, ClockInv, Never
  <1>2. ClockInv /\ [ClockNext]_clockVars => ClockInv'
    BY DEF ClockInv, ClockNext, ClockAdvances, Stamp, clockVars, Never
  <1> QED
    BY <1>1, <1>2, PTL DEF ClockSpec

LEMMA TimesAreValid ==
    ASSUME ClockInv, trigger.type = "scheduled"
    PROVE  IsTime(trigger) /\ \A t : IsSlot(t) <=> SlotOf(trigger, t)
  <1>1. ValidTrigger(trigger)
    BY TriggersAreValid DEF ClockInv
  <1> QED
    BY <1>1 DEF ValidTrigger, IsTime, IsSlot, SlotOf

LEMMA ClockInvImplies == ClockInv => FiresAtItsSlots
  <1> SUFFICES ASSUME ClockInv PROVE FiresAtItsSlots
    OBVIOUS
  <1>1. ASSUME trigger.type = "scheduled"
        PROVE  NextDue(trigger, last, instant) = Min({t \in (instant + 1)..(instant + 8 * DayLen) : IsSlot(t)})
    <2>1. IsTime(trigger) /\ \A t : IsSlot(t) <=> SlotOf(trigger, t)
      BY <1>1, TimesAreValid
    <2>2. PICK at, next : at = instant /\ at \in Nat /\ next = NextDue(trigger, last, instant)
      BY DEF ClockInv
    <2>3. /\ next \in (at + 1)..(at + 8 * DayLen) /\ SlotOf(trigger, next)
          /\ \A t \in Nat : t > at /\ SlotOf(trigger, t) => next <= t
      BY <2>1, <2>2, FirstSlot
    <2> DEFINE S == {t \in (at + 1)..(at + 8 * DayLen) : IsSlot(t)}
    <2>4. \A t \in (at + 1)..(at + 8 * DayLen) : t \in Nat /\ t > at
      BY <2>2, DayFacts
    <2>5. S \in SUBSET Nat /\ next \in S /\ \A t \in S : next <= t
      BY <2>1, <2>3, <2>4
    <2> HIDE DEF S
    <2>6. Min(S) = next
      BY <2>5, LeastIsMin
    <2> QED
      BY <2>2, <2>6 DEF S
  <1>2. NextDueIsFirstSlot
    BY <1>1 DEF NextDueIsFirstSlot
  <1>3. DueIsUnservedSlot
    <2> SUFFICES ASSUME trigger.type = "scheduled"
                 PROVE  IsDue(TRUE, trigger, last, instant) <=>
                           \E s \in DayStart(instant)..instant : IsSlot(s) /\ ~(last \in s..instant)
      BY DEF DueIsUnservedSlot
    <2>1. IsTime(trigger) /\ \A t : IsSlot(t) <=> SlotOf(trigger, t)
      BY TimesAreValid
    <2>2. instant \in Nat /\ last \in Nat \cup {Never} /\ last <= instant
      BY DEF ClockInv
    <2> QED
      BY <2>1, <2>2, DueAtSlot
  <1>4. SkipSilences
    <2> SUFFICES ASSUME trigger.type # "manual"
                 PROVE  LET next == NextDue(trigger, instant, instant)
                        IN  /\ \A t \in instant..(next - 1) : ~IsDue(TRUE, trigger, instant, t)
                            /\ IsDue(TRUE, trigger, instant, next)
      BY DEF SkipSilences
    <2>1. ValidTrigger(trigger) /\ (trigger.type = "interval" => trigger.value \in Int) /\ instant \in Nat
      BY TriggersAreValid DEF ClockInv
    <2>2. CASE trigger.type = "interval"
      BY <2>1, <2>2, SpanIsNumber, SkipOfIntervals
    <2>3. CASE trigger.type = "scheduled"
      BY <2>1, <2>3, TimesAreValid, SkipOfTimes
    <2> QED
      BY <2>1, <2>2, <2>3 DEF ValidTrigger
  <1> QED
    BY <1>2, <1>3, <1>4 DEF FiresAtItsSlots

\* For a day of any number of instants, every trigger that validates and every
\* moment of the last run: next_due is the first slot after now, a list is due
\* exactly while a slot of today is unserved, and a skip is quiet until the next
\* slot and fires there (core/schedules.py, next_due, is_due, skip).
THEOREM ListsFireAtTheirSlots == ClockSpec => []FiresAtItsSlots
  BY ClockInvHolds, ClockInvImplies, PTL
=============================================================================
