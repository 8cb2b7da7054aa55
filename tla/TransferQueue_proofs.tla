------------------------ MODULE TransferQueue_proofs ------------------------
(***************************************************************************)
(* Proofs about the transfer queue, for any ids and any number of workers: *)
(* every reachable state is well typed, a row that says its transfer is    *)
(* going on has a worker or a finished signal on its way, active_workers   *)
(* is the workers that are, for every row that was not restarted early,    *)
(* and the history tells the settled rows.                                 *)
(***************************************************************************)
EXTENDS TransferQueue, TLAPS

Thread  == [at : Places, of : Tids, hit : BOOLEAN]
Message == [kind : {"progress"}, of : Tids, text : {"Transferring", "Dry Run"}]
           \cup [kind : {"finished"}, of : Tids, text : Ends]

-----------------------------------------------------------------------------
(* What the operators keep. *)

\* Loading the history gives rows, saving the rows gives a history.
LEMMA FilesAreTyped ==
    ASSUME TypeOK
    PROVE  /\ Loaded(saved) \in [Tids -> {"absent"} \cup Settled]
           /\ \A rows \in [Tids -> Shown \cup {"absent", "gone"}] :
                 Contents(rows) \in [Tids -> Shown \cup {"absent"}]
  BY DEF TypeOK, Loaded, Contents, Shown, Settled, Kept

\* Forgetting ended threads changes no thread that is at work.
LEMMA DroppedKeeps ==
    ASSUME NEW ws \in [Workers -> Thread \cup {Idle}], NEW holders
    PROVE  /\ Dropped(ws, holders) \in [Workers -> Thread \cup {Idle}]
           /\ \A w \in Workers :
                 \/ Dropped(ws, holders)[w] = ws[w]
                 \/ /\ ws[w].at = "ended" /\ Dropped(ws, holders)[w] = Idle
                    /\ \A t \in Tids : holders[t] # w
  BY DEF Dropped

\* A thread that works is one, and its row is a row.
LEMMA BusyIsThread ==
    ASSUME TypeOK, NEW w \in Workers, Busy(w)
    PROVE  worker[w] \in Thread /\ worker[w].of \in Tids
  <1>1. worker[w] \in Thread \cup {Idle}
    BY DEF TypeOK, Thread
  <1>2. worker[w] # Idle
    BY DEF Busy, Idle, At
  <1> QED
    BY <1>1, <1>2 DEF Thread

\* Starting a worker leaves threads behind, and one more at work.
LEMMA StartIsTyped ==
    ASSUME TypeOK, NEW t \in Tids, StartsWorker(t)
    PROVE  /\ held' \in [Tids -> Workers \cup {None}]
           /\ worker' \in [Workers -> Thread \cup {Idle}]
           /\ shared' \in {shared, shared \cup {t}}
           /\ BusyOf(t) # {} \/ Settling(t) => t \in shared'
           /\ \E w \in Workers :
                 /\ worker[w] = Idle /\ held' = [held EXCEPT ![t] = w]
                 /\ worker'[w] = At("pinning", t, FALSE)
                 /\ \A x \in Workers \ {w} :
                       \/ worker'[x] = worker[x]
                       \/ /\ worker[x].at = "ended" /\ worker'[x] = Idle
                          /\ \A u \in Tids : held'[u] # x
  <1>1. PICK w \in Workers :
            /\ worker[w] = Idle
            /\ held' = [held EXCEPT ![t] = w]
            /\ worker' = Dropped([worker EXCEPT ![w] = At("pinning", t, FALSE)], held')
            /\ shared' = IF BusyOf(t) = {} /\ ~Settling(t) THEN shared ELSE shared \cup {t}
    BY DEF StartsWorker
  <1> DEFINE new == At("pinning", t, FALSE)
             ws  == [worker EXCEPT ![w] = new]
  <1>2. new \in Thread
    BY DEF Thread, Places, At
  <1>3. new.at # "ended"
    BY DEF At
  <1> HIDE DEF new
  <1>4. ws \in [Workers -> Thread \cup {Idle}] /\ ws[w] = new
    BY <1>2 DEF TypeOK, Thread
  <1>5. \A x \in Workers \ {w} : ws[x] = worker[x]
    BY DEF TypeOK
  <1> HIDE DEF ws
  <1>6. worker' = Dropped(ws, held')
    BY <1>1 DEF ws, new
  <1>7. /\ worker' \in [Workers -> Thread \cup {Idle}]
        /\ \A x \in Workers :
              \/ worker'[x] = ws[x]
              \/ /\ ws[x].at = "ended" /\ worker'[x] = Idle
                 /\ \A u \in Tids : held'[u] # x
    BY <1>4, <1>6, DroppedKeeps
  <1>8. worker'[w] = new
    BY <1>3, <1>4, <1>7
  <1>9. held' \in [Tids -> Workers \cup {None}]
    BY <1>1 DEF TypeOK
  <1>10. /\ shared' \in {shared, shared \cup {t}}
         /\ BusyOf(t) # {} \/ Settling(t) => t \in shared'
    BY <1>1
  <1>11. \A x \in Workers \ {w} :
            \/ worker'[x] = worker[x]
            \/ /\ worker[x].at = "ended" /\ worker'[x] = Idle
               /\ \A u \in Tids : held'[u] # x
    BY <1>5, <1>7
  <1>12. worker'[w] = At("pinning", t, FALSE)
    BY <1>8 DEF new
  <1> QED
    BY <1>1, <1>7, <1>9, <1>10, <1>11, <1>12

\* The threads, when one of them moves on.
LEMMA MoveIsTyped ==
    ASSUME TypeOK, NEW w \in Workers, worker[w] \in Thread, NEW p \in Places
    PROVE  /\ Moved(w, p) \in [Workers -> Thread \cup {Idle}]
           /\ Moved(w, p)[w].at = p /\ Moved(w, p)[w].of = worker[w].of
           /\ \A x \in Workers \ {w} : Moved(w, p)[x] = worker[x]
  <1> DEFINE r == At(p, worker[w].of, worker[w].hit)
  <1>1. worker \in [Workers -> Thread \cup {Idle}]
    BY DEF TypeOK, Thread
  <1>3. Moved(w, p) = [worker EXCEPT ![w] = r]
    BY DEF Moved
  <1>4. r \in Thread /\ r.at = p /\ r.of = worker[w].of
    BY DEF Thread, At
  <1> HIDE DEF r
  <1> QED
    BY <1>1, <1>3, <1>4

\* The threads, when one of them is told to stop.
LEMMA StopIsTyped ==
    ASSUME TypeOK, NEW w \in Workers
    PROVE  /\ Stopped(w) \in [Workers -> Thread \cup {Idle}]
           /\ Stopped(w)[w].at = worker[w].at /\ Stopped(w)[w].of = worker[w].of
           /\ \A x \in Workers \ {w} : Stopped(w)[x] = worker[x]
  <1> DEFINE h == worker[w].hit \/ worker[w].at = "rsync"
             r == At(worker[w].at, worker[w].of, h)
  <1>1. worker \in [Workers -> Thread \cup {Idle}]
    BY DEF TypeOK, Thread
  <1>3. Stopped(w) = [worker EXCEPT ![w] = r]
    BY DEF Stopped
  <1>4. h \in BOOLEAN
    OBVIOUS
  <1>5. r.at = worker[w].at /\ r.of = worker[w].of
    BY DEF At
  <1>6. CASE worker[w] \in Thread
    <2> HIDE DEF h
    <2>1. r \in Thread
      BY <1>4, <1>6 DEF Thread, At
    <2> HIDE DEF r
    <2> QED
      BY <1>1, <1>3, <1>5, <2>1
  <1>7. CASE worker[w] = Idle
    <2>1. worker[w].at = "idle" /\ worker[w].of = None /\ worker[w].hit = FALSE
      BY <1>7 DEF Idle, At
    <2>2. h = FALSE
      BY <2>1
    <2> HIDE DEF h
    <2>3. r = Idle
      BY <2>1, <2>2 DEF Idle
    <2> HIDE DEF r
    <2> QED
      BY <1>1, <1>3, <1>5, <2>3
  <1> QED
    BY <1>1, <1>6, <1>7

\* However a worker ends, it is one of the four ways.
LEMMA OutcomesAreEnds ==
    ASSUME NEW w \in Workers, Busy(w)
    PROVE  Outcomes(w) \subseteq Ends
  <1>1. CASE worker[w].at \in {"pinning", "launching"}
    <2>1. Outcomes(w) = {"Failed: ..."}
      BY <1>1 DEF Outcomes
    <2> QED
      BY <2>1 DEF Ends
  <1>2. CASE worker[w].at = "rsync"
    <2>1. Outcomes(w) = IF worker[w].hit THEN Ends ELSE Ends \ {"Cancelled"}
      BY <1>2 DEF Outcomes
    <2> QED
      BY <2>1
  <1> QED
    BY <1>1, <1>2 DEF Busy

\* What a worker sends is a message.
LEMMA SignalsAreTyped ==
    ASSUME TypeOK, NEW t \in Tids
    PROVE  Progress(t) \in Message /\ \A s \in Ends : Finished(t, s) \in Message
  BY DEF Progress, Label, Finished, Message

\* The steps that start, stop or move a thread keep the type.
LEMMA UserKeepsType ==
    ASSUME TypeOK, UserStep
    PROVE  TypeOK'
  <1> USE DEF Thread
  <1>1. ASSUME NEW t \in Tids, ProcessNew(t)
        PROVE  TypeOK'
    <2>1. row' \in [Tids -> Shown \cup {"absent", "gone"}] /\ dry' \subseteq Tids
      BY <1>1 DEF ProcessNew, TypeOK, Shown, Going
    <2>2. saved' \in [Tids -> Shown \cup {"absent"}]
      BY <1>1, <2>1, FilesAreTyped DEF ProcessNew
    <2>3. /\ held' \in [Tids -> Workers \cup {None}]
          /\ worker' \in [Workers -> Thread \cup {Idle}]
          /\ shared' \subseteq Tids
      <3>1. StartsWorker(t)
        BY <1>1 DEF ProcessNew
      <3>2. shared' \in {shared, shared \cup {t}} /\ shared \subseteq Tids
        BY <3>1, StartIsTyped DEF TypeOK
      <3> QED
        BY <3>1, <3>2, StartIsTyped
    <2> QED
      BY <1>1, <2>1, <2>2, <2>3 DEF ProcessNew, TypeOK
  <1>2. ASSUME NEW t \in Tids, ShowContextMenu(t)
        PROVE  TypeOK'
    BY <1>2 DEF ShowContextMenu, Present, TypeOK
  <1>3. ASSUME NEW t \in Tids, Cancel(t)
        PROVE  TypeOK'
    <2>1. held[t] \in Workers
      BY <1>3 DEF Cancel, TypeOK
    <2>2. worker' \in [Workers -> Thread \cup {Idle}]
      BY <1>3, <2>1, StopIsTyped DEF Cancel
    <2>3. row' \in [Tids -> Shown \cup {"absent", "gone"}] /\ menu' = Closed
      BY <1>3 DEF Cancel, TypeOK, Shown, Going
    <2> QED
      BY <1>3, <2>2, <2>3 DEF Cancel, TypeOK
  <1>4. ASSUME NEW t \in Tids, Restart(t)
        PROVE  TypeOK'
    <2>1. row' \in [Tids -> Shown \cup {"absent", "gone"}] /\ menu' = Closed
      BY <1>4 DEF Restart, TypeOK, Shown, Going
    <2>2. /\ held' \in [Tids -> Workers \cup {None}]
          /\ worker' \in [Workers -> Thread \cup {Idle}]
          /\ shared' \subseteq Tids
      <3>1. StartsWorker(t)
        BY <1>4 DEF Restart
      <3>2. shared' \in {shared, shared \cup {t}} /\ shared \subseteq Tids
        BY <3>1, StartIsTyped DEF TypeOK
      <3> QED
        BY <3>1, <3>2, StartIsTyped
    <2> QED
      BY <1>4, <2>1, <2>2 DEF Restart, TypeOK
  <1>5. ASSUME NEW t \in Tids, DeleteRow(t)
        PROVE  TypeOK'
    <2>1. row' \in [Tids -> Shown \cup {"absent", "gone"}]
      BY <1>5 DEF DeleteRow, TypeOK
    <2> QED
      BY <1>5, <2>1, FilesAreTyped DEF DeleteRow, TypeOK
  <1>6. CASE CloseMenu
    BY <1>6 DEF CloseMenu, TypeOK
  <1>7. CASE ClearFinished
    <2>1. row' \in [Tids -> Shown \cup {"absent", "gone"}]
      BY <1>7 DEF ClearFinished, TypeOK
    <2> QED
      BY <1>7, <2>1, FilesAreTyped DEF ClearFinished, TypeOK
  <1>8. CASE Reopen
    <2>1. row' \in [Tids -> Shown \cup {"absent", "gone"}]
      BY <1>8, FilesAreTyped DEF Reopen, Shown
    <2>2. worker' \in [Workers -> Thread \cup {Idle}] /\ held' \in [Tids -> Workers \cup {None}]
      BY <1>8 DEF Reopen
    <2>3. inbox' \in Seq(Message) /\ menu' = Closed /\ waits' = None /\ shared' = {}
      BY <1>8 DEF Reopen
    <2> QED
      BY <1>8, <2>1, <2>2, <2>3 DEF Reopen, TypeOK, Message
  <1> QED
    BY <1>1, <1>2, <1>3, <1>4, <1>5, <1>6, <1>7, <1>8 DEF UserStep

\* What a worker does keeps the type.
LEMMA WorkerKeepsType ==
    ASSUME TypeOK, NEW w \in Workers, WorkerStep(w)
    PROVE  TypeOK'
  <1> USE DEF Thread
  <1>1. Busy(w) /\ worker[w] \in Thread /\ worker[w].of \in Tids
    <2>1. Busy(w)
      BY DEF WorkerStep, Checked, Launch, Report, End, Busy
    <2> QED
      BY <2>1, BusyIsThread
  <1>2. inbox \in Seq(Message)
    BY DEF TypeOK, Message
  <1>3. CASE Checked(w)
    <2>1. worker' \in [Workers -> Thread \cup {Idle}]
      BY <1>1, <1>3, MoveIsTyped DEF Checked, Places
    <2>2. inbox' \in Seq(Message)
      BY <1>1, <1>2, <1>3, SignalsAreTyped DEF Checked
    <2> QED
      BY <1>3, <2>1, <2>2 DEF Checked, TypeOK, Message
  <1>4. CASE Launch(w)
    <2>1. worker' \in [Workers -> Thread \cup {Idle}]
      BY <1>1, <1>4, MoveIsTyped DEF Launch, Places
    <2> QED
      BY <1>4, <2>1 DEF Launch, TypeOK
  <1>5. CASE Report(w)
    <2>1. inbox' \in Seq(Message)
      BY <1>1, <1>2, <1>5, SignalsAreTyped DEF Report
    <2> QED
      BY <1>5, <2>1 DEF Report, TypeOK, Message
  <1>6. CASE End(w)
    <2>1. Moved(w, "ended") \in [Workers -> Thread \cup {Idle}]
      BY <1>1, MoveIsTyped DEF Places
    <2>2. worker' \in [Workers -> Thread \cup {Idle}]
      BY <1>6, <2>1, DroppedKeeps DEF End
    <2>3. PICK s \in Ends : inbox' = Append(inbox, Finished(worker[w].of, s))
      <3>1. Outcomes(w) \subseteq Ends
        BY <1>1, OutcomesAreEnds
      <3> QED
        BY <1>6, <3>1 DEF End
    <2>4. inbox' \in Seq(Message)
      BY <1>1, <1>2, <2>3, SignalsAreTyped
    <2> QED
      BY <1>6, <2>2, <2>4 DEF End, TypeOK, Message
  <1> QED
    BY <1>3, <1>4, <1>5, <1>6 DEF WorkerStep

\* Handling a signal keeps the type.
LEMMA SignalKeepsType ==
    ASSUME TypeOK, Signal
    PROVE  TypeOK'
  <1> USE DEF Thread
  <1>1. inbox \in Seq(Message)
    BY DEF TypeOK, Message
  <1>2. inbox # <<>> => Tail(inbox) \in Seq(Message) /\ Head(inbox) \in Message
    BY <1>1
  <1>3. CASE OnProgress
    <2>1. Head(inbox).of \in Tids /\ Head(inbox).text \in Shown
      BY <1>2, <1>3 DEF OnProgress, Message, Shown, Going
    <2>2. row' \in [Tids -> Shown \cup {"absent", "gone"}]
      BY <1>3, <2>1 DEF OnProgress, TypeOK
    <2> QED
      BY <1>2, <1>3, <2>2 DEF OnProgress, TypeOK, Message
  <1>4. CASE OnFinished
    <2>1. Head(inbox).of \in Tids /\ Head(inbox).text \in Ends
      BY <1>2, <1>4 DEF OnFinished, Message
    <2>2. Verdict(Head(inbox).of, Head(inbox).text) \in Shown
      BY <2>1 DEF Verdict, Ends, Shown, Settled
    <2>3. row' \in [Tids -> Shown \cup {"absent", "gone"}]
      BY <1>4, <2>1, <2>2 DEF OnFinished, TypeOK
    <2>4. saved' \in [Tids -> Shown \cup {"absent"}] /\ waits' \in Workers \cup {None}
      <3>1. Contents(row') \in [Tids -> Shown \cup {"absent"}]
        BY <2>3, FilesAreTyped
      <3>2. saved' \in {saved, Contents(row')}
        BY <1>4 DEF OnFinished
      <3>3. waits' \in {None, held[Head(inbox).of]}
        BY <1>4 DEF OnFinished
      <3> QED
        BY <2>1, <3>1, <3>2, <3>3 DEF TypeOK
    <2>5. held' \in [Tids -> Workers \cup {None}]
      BY <1>4, <2>1 DEF OnFinished, TypeOK
    <2>6. worker' \in [Workers -> Thread \cup {Idle}]
      BY <1>4, DroppedKeeps DEF OnFinished, TypeOK
    <2> QED
      BY <1>2, <1>4, <2>3, <2>4, <2>5, <2>6 DEF OnFinished, TypeOK, Message
  <1>5. CASE WaitOver
    BY <1>5, FilesAreTyped DEF WaitOver, TypeOK
  <1> QED
    BY <1>3, <1>4, <1>5 DEF Signal

\* The variables of the queue keep their types.  (transfer_tab.py)
THEOREM TypeCorrect == Spec => []TypeOK
  <1>1. Init => TypeOK
    BY DEF Init, TypeOK, Thread, Shown
  <1>2. TypeOK /\ [Next]_vars => TypeOK'
    <2> SUFFICES ASSUME TypeOK, [Next]_vars PROVE TypeOK'
      OBVIOUS
    <2>1. CASE UNCHANGED vars
      BY <2>1 DEF vars, TypeOK
    <2> QED
      BY <2>1, UserKeepsType, WorkerKeepsType, SignalKeepsType DEF Next
  <1> QED
    BY <1>1, <1>2, PTL DEF Spec

-----------------------------------------------------------------------------
(* A row that says its transfer is going on is worked on. *)

\* A worker in active_workers is of its row: it works, or it ended and its
\* finished signal, or an earlier one of the row, is on its way.
HeldIsOfRow ==
    \A t \in Tids, w \in Workers : held[t] = w =>
        /\ worker[w].of = t
        /\ Busy(w) \/ (worker[w].at = "ended" /\ Settling(t))

IsFinished(m, t) == m.kind = "finished" /\ m.of = t

\* A progress signal is followed: by a worker of its row, or a finished signal.
ProgressIsFollowed ==
    \A t \in Tids : \A i \in 1..Len(inbox) :
        inbox[i].kind = "progress" /\ inbox[i].of = t =>
            \/ BusyOf(t) # {}
            \/ \E j \in (i + 1)..Len(inbox) : IsFinished(inbox[j], t)

Worked == HeldIsOfRow /\ ProgressIsFollowed /\ GoingIsWorked

\* A signal is added at the end.
LEMMA SignalAdded ==
    ASSUME TypeOK, NEW m \in Message, inbox' = Append(inbox, m)
    PROVE  /\ Len(inbox) \in Nat /\ Len(inbox') = Len(inbox) + 1 /\ inbox'[Len(inbox) + 1] = m
           /\ \A i \in 1..Len(inbox) : inbox'[i] = inbox[i]
           /\ \A i \in 1..Len(inbox') : i \in 1..Len(inbox) \/ i = Len(inbox) + 1
           /\ \A t : Settling(t)' <=> Settling(t) \/ IsFinished(m, t)
  <1>1. inbox \in Seq(Message)
    BY DEF TypeOK, Message
  <1>2. /\ Len(inbox) \in Nat /\ Len(inbox') = Len(inbox) + 1 /\ inbox'[Len(inbox) + 1] = m
        /\ \A i \in 1..Len(inbox) : inbox'[i] = inbox[i]
    BY <1>1
  <1>3. \A i \in 1..Len(inbox') : i \in 1..Len(inbox) \/ i = Len(inbox) + 1
    BY <1>2
  <1> QED
    BY <1>2, <1>3 DEF Settling, IsFinished

\* A signal is taken from the front.
LEMMA SignalTaken ==
    ASSUME TypeOK, inbox # <<>>, inbox' = Tail(inbox)
    PROVE  /\ Len(inbox) \in Nat \ {0} /\ Len(inbox') = Len(inbox) - 1
           /\ Head(inbox) = inbox[1] /\ inbox[1] \in Message
           /\ \A i \in 1..Len(inbox') : inbox'[i] = inbox[i + 1]
           /\ \A t : Settling(t)' => Settling(t)
           /\ \A t : Settling(t) => Settling(t)' \/ IsFinished(inbox[1], t)
  <1>1. inbox \in Seq(Message)
    BY DEF TypeOK, Message
  <1>2. /\ Len(inbox) \in Nat \ {0} /\ Len(inbox') = Len(inbox) - 1
        /\ Head(inbox) = inbox[1] /\ inbox[1] \in Message
        /\ \A i \in 1..Len(inbox') : inbox'[i] = inbox[i + 1]
    BY <1>1
  <1>3. ASSUME NEW t, Settling(t)'
        PROVE  Settling(t)
    <2>1. PICK i \in 1..Len(inbox') : IsFinished(inbox'[i], t)
      BY <1>3 DEF Settling, IsFinished
    <2>2. i + 1 \in 1..Len(inbox) /\ IsFinished(inbox[i + 1], t)
      BY <1>2, <2>1
    <2> QED
      BY <2>2 DEF Settling, IsFinished
  <1>4. ASSUME NEW t, Settling(t), ~IsFinished(inbox[1], t)
        PROVE  Settling(t)'
    <2>1. PICK i \in 1..Len(inbox) : IsFinished(inbox[i], t)
      BY <1>4 DEF Settling, IsFinished
    <2>2. i # 1
      BY <1>4, <2>1
    <2>3. i - 1 \in 1..Len(inbox') /\ IsFinished(inbox'[i - 1], t)
      BY <1>2, <2>1, <2>2
    <2> QED
      BY <2>3 DEF Settling, IsFinished
  <1> QED
    BY <1>2, <1>3, <1>4

\* Progress stays followed while signals are added and no worker ends.
LEMMA FollowedWhenAdded ==
    ASSUME TypeOK, ProgressIsFollowed, NEW m \in Message, inbox' = Append(inbox, m),
           \A t \in Tids : BusyOf(t) # {} => BusyOf(t)' # {} \/ IsFinished(m, t),
           \A t \in Tids : m.kind = "progress" /\ m.of = t => BusyOf(t)' # {}
    PROVE  ProgressIsFollowed'
  <1> SUFFICES ASSUME NEW t \in Tids, NEW i \in 1..Len(inbox'),
                      inbox'[i].kind = "progress", inbox'[i].of = t
               PROVE  \/ BusyOf(t)' # {}
                      \/ \E j \in (i + 1)..Len(inbox') : IsFinished(inbox'[j], t)
    BY DEF ProgressIsFollowed, IsFinished
  <1>1. CASE i = Len(inbox) + 1
    BY <1>1, SignalAdded
  <1>2. CASE i \in 1..Len(inbox)
    <2>1. inbox'[i] = inbox[i]
      BY <1>2, SignalAdded
    <2>2. CASE BusyOf(t) # {}
      <3>1. CASE IsFinished(m, t)
        <4>1. Len(inbox) + 1 \in (i + 1)..Len(inbox')
          BY <1>2, SignalAdded
        <4> QED
          BY <3>1, <4>1, SignalAdded
      <3> QED
        BY <2>2, <3>1
    <2>3. CASE \E j \in (i + 1)..Len(inbox) : IsFinished(inbox[j], t)
      <3>1. PICK j \in (i + 1)..Len(inbox) : IsFinished(inbox[j], t)
        BY <2>3
      <3>2. j \in (i + 1)..Len(inbox') /\ inbox'[j] = inbox[j]
        BY <1>2, SignalAdded
      <3> QED
        BY <3>1, <3>2
    <2> QED
      BY <1>2, <2>1, <2>2, <2>3 DEF ProgressIsFollowed
  <1> QED
    BY <1>1, <1>2, SignalAdded

\* Progress stays followed while a signal is taken and no worker ends.
LEMMA FollowedWhenTaken ==
    ASSUME TypeOK, ProgressIsFollowed, inbox # <<>>, inbox' = Tail(inbox),
           \A t \in Tids : BusyOf(t)' = BusyOf(t)
    PROVE  ProgressIsFollowed'
  <1> SUFFICES ASSUME NEW t \in Tids, NEW i \in 1..Len(inbox'),
                      inbox'[i].kind = "progress", inbox'[i].of = t
               PROVE  \/ BusyOf(t)' # {}
                      \/ \E j \in (i + 1)..Len(inbox') : IsFinished(inbox'[j], t)
    BY DEF ProgressIsFollowed, IsFinished
  <1>1. i + 1 \in 1..Len(inbox) /\ inbox'[i] = inbox[i + 1]
    BY SignalTaken
  <1>2. CASE BusyOf(t) # {}
    BY <1>2
  <1>3. CASE \E j \in (i + 2)..Len(inbox) : IsFinished(inbox[j], t)
    <2>1. PICK j \in (i + 2)..Len(inbox) : IsFinished(inbox[j], t)
      BY <1>3
    <2>2. j - 1 \in (i + 1)..Len(inbox') /\ j - 1 \in 1..Len(inbox') /\ j - 1 + 1 = j
      BY SignalTaken
    <2>3. inbox'[j - 1] = inbox[j]
      BY <2>2, SignalTaken
    <2> QED
      BY <2>1, <2>2, <2>3
  <1>4. i + 1 + 1 = i + 2
    OBVIOUS
  <1> QED
    BY <1>1, <1>2, <1>3, <1>4 DEF ProgressIsFollowed

\* Work goes on where threads are at work as before, for the same rows.
LEMMA SameWork ==
    ASSUME \A w \in Workers : Busy(w)' <=> Busy(w),
           \A w \in Workers : Busy(w) => worker'[w].of = worker[w].of
    PROVE  \A t \in Tids : BusyOf(t)' = BusyOf(t)
  BY DEF BusyOf

\* A step that leaves the threads and the signals alone leaves the work alone.
LEMMA SameThreads ==
    ASSUME worker' = worker
    PROVE  /\ \A w \in Workers : Busy(w)' <=> Busy(w)
           /\ \A t \in Tids : BusyOf(t)' = BusyOf(t)
  BY DEF BusyOf, Busy

\* A step that leaves the signals alone.
LEMMA SameSignals ==
    ASSUME inbox' = inbox
    PROVE  \A t : Settling(t)' <=> Settling(t)
  BY DEF Settling

\* Forgetting ended threads leaves the work alone.
LEMMA DroppedWork ==
    ASSUME TypeOK, NEW holders, worker' = Dropped(worker, holders)
    PROVE  /\ \A w \in Workers : Busy(w)' <=> Busy(w)
           /\ \A t \in Tids : BusyOf(t)' = BusyOf(t)
           /\ \A w \in Workers : (\E t \in Tids : holders[t] = w) => worker'[w] = worker[w]
  <1>1. \A w \in Workers :
            \/ worker'[w] = worker[w]
            \/ /\ worker[w].at = "ended" /\ worker'[w] = Idle
               /\ \A t \in Tids : holders[t] # w
    <2>1. worker \in [Workers -> Thread \cup {Idle}]
      BY DEF TypeOK, Thread
    <2> QED
      BY <2>1, DroppedKeeps
  <1>2. \A w \in Workers : Busy(w)' <=> Busy(w)
    BY <1>1 DEF Busy, Idle, At
  <1>3. \A w \in Workers : Busy(w) => worker'[w].of = worker[w].of
    BY <1>1 DEF Busy
  <1> QED
    BY <1>1, <1>2, <1>3, SameWork

\* A worker that moves on, without ending, leaves the work alone; so does one
\* that is told to stop.
LEMMA MovedWork ==
    ASSUME TypeOK, NEW w \in Workers,
           \/ Busy(w) /\ worker' = Moved(w, "launching")
           \/ Busy(w) /\ worker' = Moved(w, "rsync")
           \/ worker' = Stopped(w)
    PROVE  /\ \A x \in Workers : Busy(x)' <=> Busy(x)
           /\ \A t \in Tids : BusyOf(t)' = BusyOf(t)
           /\ \A x \in Workers : worker'[x].of = worker[x].of
           /\ \A x \in Workers : ~Busy(x) => worker'[x].at = worker[x].at
  <1>1. CASE Busy(w) /\ \E p \in {"launching", "rsync"} : worker' = Moved(w, p)
    <2>1. PICK p \in {"launching", "rsync"} : worker' = Moved(w, p)
      BY <1>1
    <2>2. worker[w] \in Thread /\ p \in Places
      BY <1>1, BusyIsThread DEF Places
    <2>3. worker'[w].at = p /\ worker'[w].of = worker[w].of
      BY <2>1, <2>2, MoveIsTyped
    <2>4. \A x \in Workers \ {w} : worker'[x] = worker[x]
      BY <2>1, <2>2, MoveIsTyped
    <2>5. /\ \A x \in Workers : Busy(x)' <=> Busy(x)
          /\ \A x \in Workers : worker'[x].of = worker[x].of
          /\ \A x \in Workers : ~Busy(x) => worker'[x].at = worker[x].at
      BY <1>1, <2>3, <2>4 DEF Busy
    <2> QED
      BY <2>5, SameWork
  <1>2. CASE worker' = Stopped(w)
    <2>1. \A x \in Workers : worker'[x].at = worker[x].at /\ worker'[x].of = worker[x].of
      BY <1>2, StopIsTyped
    <2>2. \A x \in Workers : Busy(x)' <=> Busy(x)
      BY <2>1 DEF Busy
    <2> QED
      BY <2>1, <2>2, SameWork
  <1> QED
    BY <1>1, <1>2

\* A worker that ends is out of work; active_workers may still have it.
LEMMA EndedWork ==
    ASSUME TypeOK, NEW w \in Workers, End(w)
    PROVE  /\ \A x \in Workers : Busy(x)' <=> Busy(x) /\ x # w
           /\ \A t \in Tids : BusyOf(t)' = BusyOf(t) \ {w}
           /\ \A t \in Tids, x \in Workers : held[t] = x =>
                 /\ worker'[x].of = worker[x].of
                 /\ worker'[x].at = IF x = w THEN "ended" ELSE worker[x].at
  <1>1. Busy(w) /\ worker[w] \in Thread
    BY BusyIsThread DEF End
  <1> DEFINE ws == Moved(w, "ended")
  <1>2. /\ ws \in [Workers -> Thread \cup {Idle}] /\ ws[w].at = "ended" /\ ws[w].of = worker[w].of
        /\ \A x \in Workers \ {w} : ws[x] = worker[x]
    BY <1>1, MoveIsTyped DEF Places
  <1> HIDE DEF ws
  <1>3. worker' = Dropped(ws, held)
    BY DEF End, ws
  <1>4. \A x \in Workers :
            \/ worker'[x] = ws[x]
            \/ /\ ws[x].at = "ended" /\ worker'[x] = Idle
               /\ \A t \in Tids : held[t] # x
    BY <1>2, <1>3, DroppedKeeps
  <1>5. \A x \in Workers : Busy(x)' <=> Busy(x) /\ x # w
    BY <1>2, <1>4 DEF Busy, Idle, At
  <1>6. \A x \in Workers : x # w /\ Busy(x) => worker'[x].of = worker[x].of
    BY <1>2, <1>4 DEF Busy
  <1>7. \A t \in Tids : BusyOf(t)' = BusyOf(t) \ {w}
    BY <1>5, <1>6 DEF BusyOf
  <1> QED
    BY <1>2, <1>4, <1>5, <1>7

\* A worker that starts is at work for its row, which active_workers has for
\* it; the other rows keep theirs.
LEMMA StartedWork ==
    ASSUME TypeOK, HeldIsOfRow, NEW t \in Tids, StartsWorker(t)
    PROVE  /\ \E w \in Workers :
                 /\ held' = [held EXCEPT ![t] = w] /\ worker'[w].of = t /\ Busy(w)'
                 /\ BusyOf(t)' = BusyOf(t) \cup {w}
           /\ \A u \in Tids : BusyOf(u) \subseteq BusyOf(u)'
           /\ \A u \in Tids \ {t} : BusyOf(u)' = BusyOf(u)
           /\ \A u \in Tids \ {t}, x \in Workers : held[u] = x => held'[u] = x /\ worker'[x] = worker[x]
  <1>1. PICK w \in Workers :
            /\ worker[w] = Idle /\ held' = [held EXCEPT ![t] = w]
            /\ worker'[w] = At("pinning", t, FALSE)
            /\ \A x \in Workers \ {w} :
                  \/ worker'[x] = worker[x]
                  \/ /\ worker[x].at = "ended" /\ worker'[x] = Idle
                     /\ \A u \in Tids : held'[u] # x
    BY StartIsTyped
  <1>2. ~Busy(w) /\ Busy(w)' /\ worker'[w].of = t /\ worker[w].at = "idle"
    BY <1>1 DEF Busy, Idle, At
  <1>3. \A x \in Workers \ {w} : (Busy(x)' <=> Busy(x)) /\ (Busy(x) => worker'[x] = worker[x])
    BY <1>1 DEF Busy, Idle, At
  <1>4. BusyOf(t)' = BusyOf(t) \cup {w} /\ \A u \in Tids \ {t} : BusyOf(u)' = BusyOf(u)
    BY <1>2, <1>3 DEF BusyOf
  <1>5. ASSUME NEW u \in Tids \ {t}, NEW x \in Workers, held[u] = x
        PROVE  held'[u] = x /\ worker'[x] = worker[x]
    <2>1. held'[u] = x
      BY <1>1, <1>5 DEF TypeOK
    <2>2. x # w
      BY <1>2, <1>5 DEF HeldIsOfRow, Busy
    <2> QED
      BY <1>1, <2>1, <2>2
  <1>6. \A u \in Tids : BusyOf(u) \subseteq BusyOf(u)'
    BY <1>4
  <1>7. \E x \in Workers :
            /\ held' = [held EXCEPT ![t] = x] /\ worker'[x].of = t /\ Busy(x)'
            /\ BusyOf(t)' = BusyOf(t) \cup {x}
    <2>1. WITNESS w \in Workers
    <2> QED
      BY <1>1, <1>2, <1>4
  <1> QED
    BY <1>4, <1>5, <1>6, <1>7

\* Where neither the work nor the signals nor active_workers change, a row may
\* take any text that is not one of a transfer going on.
LEMMA WorkedWhenSettling ==
    ASSUME TypeOK, Worked, inbox' = inbox, held' = held, worker' = worker,
           \A t \in Tids : row'[t] \in Going => row[t] \in Going
    PROVE  Worked'
  <1>1. HeldIsOfRow'
    BY SameThreads, SameSignals DEF Worked, HeldIsOfRow
  <1>2. ProgressIsFollowed'
    BY SameThreads DEF Worked, ProgressIsFollowed, IsFinished
  <1>3. GoingIsWorked'
    BY SameThreads, SameSignals DEF Worked, GoingIsWorked
  <1> QED
    BY <1>1, <1>2, <1>3 DEF Worked

\* A worker that starts is a reason for its row to say so.
LEMMA WorkedWhenStarting ==
    ASSUME TypeOK, Worked, NEW t \in Tids, StartsWorker(t), inbox' = inbox,
           NEW text, row' = [row EXCEPT ![t] = text]
    PROVE  Worked'
  <1>1. HeldIsOfRow
    BY DEF Worked
  <1>2. PICK w \in Workers :
            /\ held' = [held EXCEPT ![t] = w] /\ worker'[w].of = t /\ Busy(w)'
            /\ BusyOf(t)' = BusyOf(t) \cup {w}
    BY <1>1, StartedWork
  <1>3. \A u \in Tids : BusyOf(u) # {} => BusyOf(u)' # {}
    BY <1>1, StartedWork
  <1>4. HeldIsOfRow'
    <2> SUFFICES ASSUME NEW u \in Tids, NEW x \in Workers, held'[u] = x
                 PROVE  /\ worker'[x].of = u
                        /\ Busy(x)' \/ (worker'[x].at = "ended" /\ Settling(u)')
      BY DEF HeldIsOfRow
    <2>1. CASE u = t
      BY <1>2, <2>1 DEF TypeOK
    <2>2. CASE u # t
      <3>1. held[u] = x
        BY <1>2, <2>2 DEF TypeOK
      <3>2. worker'[x] = worker[x]
        BY <1>1, <2>2, <3>1, StartedWork
      <3> QED
        BY <1>1, <3>1, <3>2, SameSignals DEF HeldIsOfRow, Busy
    <2> QED
      BY <2>1, <2>2
  <1>5. ProgressIsFollowed'
    BY <1>3 DEF Worked, ProgressIsFollowed, IsFinished
  <1>6. GoingIsWorked'
    <2>1. BusyOf(t)' # {}
      BY <1>2
    <2>2. \A u \in Tids \ {t} : row'[u] = row[u]
      BY DEF TypeOK
    <2> QED
      BY <1>3, <2>1, <2>2, SameSignals DEF Worked, GoingIsWorked
  <1> QED
    BY <1>4, <1>5, <1>6 DEF Worked

\* What the user does keeps it.
LEMMA UserKeepsWorked ==
    ASSUME TypeOK, Worked, UserStep
    PROVE  Worked'
  <1>1. ASSUME NEW t \in Tids, ProcessNew(t)
        PROVE  Worked'
    <2>1. StartsWorker(t) /\ inbox' = inbox
      BY <1>1 DEF ProcessNew
    <2>2. PICK text \in {"Queued", "Dry Run - Queued"} : row' = [row EXCEPT ![t] = text]
      BY <1>1 DEF ProcessNew
    <2> QED
      BY <2>1, <2>2, WorkedWhenStarting
  <1>2. ASSUME NEW t \in Tids, Restart(t)
        PROVE  Worked'
    BY <1>2, WorkedWhenStarting DEF Restart
  <1>3. ASSUME NEW t \in Tids, Cancel(t)
        PROVE  Worked'
    <2>1. held[t] \in Workers /\ worker' = Stopped(held[t]) /\ inbox' = inbox /\ held' = held
      BY <1>3 DEF Cancel, TypeOK
    <2>2. /\ \A x \in Workers : Busy(x)' <=> Busy(x)
          /\ \A u \in Tids : BusyOf(u)' = BusyOf(u)
          /\ \A x \in Workers : worker'[x].of = worker[x].of
          /\ \A x \in Workers : ~Busy(x) => worker'[x].at = worker[x].at
      BY <2>1, MovedWork
    <2>3. HeldIsOfRow'
      BY <2>1, <2>2, SameSignals DEF Worked, HeldIsOfRow
    <2>4. ProgressIsFollowed'
      BY <2>1, <2>2 DEF Worked, ProgressIsFollowed, IsFinished
    <2>5. BusyOf(t) # {} \/ Settling(t)
      BY <2>1 DEF Worked, HeldIsOfRow, BusyOf
    <2>6. \A u \in Tids \ {t} : row'[u] = row[u]
      BY <1>3 DEF Cancel, TypeOK
    <2>7. GoingIsWorked'
      BY <2>1, <2>2, <2>5, <2>6, SameSignals DEF Worked, GoingIsWorked
    <2> QED
      BY <2>3, <2>4, <2>7 DEF Worked
  <1>4. ASSUME NEW t \in Tids, ShowContextMenu(t)
        PROVE  Worked'
    BY <1>4, WorkedWhenSettling DEF ShowContextMenu
  <1>5. ASSUME NEW t \in Tids, DeleteRow(t)
        PROVE  Worked'
    <2>1. \A u \in Tids : row'[u] \in Going => row[u] \in Going
      BY <1>5 DEF DeleteRow, TypeOK, Going
    <2> QED
      BY <1>5, <2>1, WorkedWhenSettling DEF DeleteRow
  <1>6. CASE CloseMenu
    BY <1>6, WorkedWhenSettling DEF CloseMenu
  <1>7. CASE ClearFinished
    <2>1. \A u \in Tids : row'[u] \in Going => row[u] \in Going
      BY <1>7 DEF ClearFinished, Going
    <2> QED
      BY <1>7, <2>1, WorkedWhenSettling DEF ClearFinished
  <1>8. CASE Reopen
    <2>1. held' = [t \in Tids |-> None] /\ inbox' = <<>>
      BY <1>8 DEF Reopen
    <2>2. \A t \in Tids : row'[t] \notin Going
      <3>1. row' \in [Tids -> {"absent"} \cup Settled]
        BY <1>8, FilesAreTyped DEF Reopen
      <3> QED
        BY <3>1 DEF Settled, Going
    <2>3. HeldIsOfRow'
      BY <2>1, NoneAssumption DEF HeldIsOfRow
    <2>4. ProgressIsFollowed' /\ GoingIsWorked'
      BY <2>1, <2>2 DEF ProgressIsFollowed, GoingIsWorked
    <2> QED
      BY <2>3, <2>4 DEF Worked
  <1> QED
    BY <1>1, <1>2, <1>3, <1>4, <1>5, <1>6, <1>7, <1>8 DEF UserStep

\* What a worker does keeps it.
LEMMA WorkerKeepsWorked ==
    ASSUME TypeOK, Worked, NEW w \in Workers, WorkerStep(w)
    PROVE  Worked'
  <1>1. Busy(w) /\ worker[w].of \in Tids /\ row' = row /\ held' = held
    <2>1. Busy(w)
      BY DEF WorkerStep, Checked, Launch, Report, End, Busy
    <2> QED
      BY <2>1, BusyIsThread DEF WorkerStep, Checked, Launch, Report, End
  <1>0. PICK t \in Tids : t = worker[w].of
    BY <1>1
  <1>2. w \in BusyOf(t)
    BY <1>0, <1>1 DEF BusyOf
  <1>3. Progress(t) \in Message /\ Progress(t).kind = "progress" /\ Progress(t).of = t
    BY SignalsAreTyped DEF Progress
  <1>4. CASE Checked(w) \/ Report(w) \/ Launch(w)
    <2>1. /\ \A x \in Workers : Busy(x)' <=> Busy(x)
          /\ \A u \in Tids : BusyOf(u)' = BusyOf(u)
          /\ \A x \in Workers : worker'[x].of = worker[x].of
          /\ \A x \in Workers : ~Busy(x) => worker'[x].at = worker[x].at
      <3>1. CASE worker' = worker
        BY <3>1, SameThreads
      <3>2. CASE worker' = Moved(w, "launching") \/ worker' = Moved(w, "rsync")
        BY <1>1, <3>2, MovedWork
      <3> QED
        BY <1>4, <3>1, <3>2 DEF Checked, Report, Launch
    <2>2. CASE inbox' = Append(inbox, Progress(t))
      <3>1. \A u : Settling(u) => Settling(u)'
        BY <1>3, <2>2, SignalAdded
      <3>2. \A u \in Tids : Progress(t).of = u => BusyOf(u)' # {}
        BY <1>2, <1>3, <2>1
      <3>3. ProgressIsFollowed'
        BY <1>3, <2>1, <2>2, <3>2, FollowedWhenAdded DEF Worked
      <3>4. HeldIsOfRow'
        BY <1>1, <2>1, <3>1 DEF Worked, HeldIsOfRow
      <3>5. GoingIsWorked'
        BY <1>1, <2>1, <3>1 DEF Worked, GoingIsWorked
      <3> QED
        BY <3>3, <3>4, <3>5 DEF Worked
    <2>3. CASE inbox' = inbox
      <3>1. HeldIsOfRow'
        BY <1>1, <2>1, <2>3, SameSignals DEF Worked, HeldIsOfRow
      <3>2. ProgressIsFollowed'
        BY <2>1, <2>3 DEF Worked, ProgressIsFollowed, IsFinished
      <3>3. GoingIsWorked'
        BY <1>1, <2>1, <2>3, SameSignals DEF Worked, GoingIsWorked
      <3> QED
        BY <3>1, <3>2, <3>3 DEF Worked
    <2> QED
      BY <1>0, <1>4, <2>2, <2>3 DEF Checked, Report, Launch
  <1>5. CASE End(w)
    <2>1. PICK s \in Ends : inbox' = Append(inbox, Finished(t, s))
      BY <1>0, <1>1, <1>5, OutcomesAreEnds DEF End
    <2> DEFINE m == Finished(t, s)
    <2>2. m \in Message /\ IsFinished(m, t) /\ m.kind # "progress"
      BY SignalsAreTyped DEF IsFinished, Finished
    <2>3. inbox' = Append(inbox, m)
      BY <2>1
    <2>4. \A u \in Tids : u # t => w \notin BusyOf(u)
      BY <1>0 DEF BusyOf
    <2> HIDE DEF m
    <2>5. Settling(t)' /\ \A u : Settling(u) => Settling(u)'
      BY <2>2, <2>3, SignalAdded
    <2>6. \A u \in Tids : BusyOf(u) # {} => BusyOf(u)' # {} \/ IsFinished(m, u)
      BY <1>5, <2>2, <2>4, EndedWork
    <2>7. ProgressIsFollowed'
      BY <2>2, <2>3, <2>6, FollowedWhenAdded DEF Worked
    <2>8. HeldIsOfRow'
      <3> SUFFICES ASSUME NEW u \in Tids, NEW x \in Workers, held[u] = x
                   PROVE  /\ worker'[x].of = u
                          /\ Busy(x)' \/ (worker'[x].at = "ended" /\ Settling(u)')
        BY <1>1 DEF HeldIsOfRow
      <3>1. /\ worker[x].of = u /\ worker'[x].of = u
            /\ worker'[x].at = IF x = w THEN "ended" ELSE worker[x].at
            /\ Busy(x)' <=> Busy(x) /\ x # w
            /\ Busy(x) \/ (worker[x].at = "ended" /\ Settling(u))
        BY <1>5, EndedWork DEF Worked, HeldIsOfRow
      <3>2. x = w => u = t
        BY <1>0, <3>1
      <3> QED
        BY <2>5, <3>1, <3>2
    <2>9. GoingIsWorked'
      BY <1>1, <2>2, <2>5, <2>6 DEF Worked, GoingIsWorked, IsFinished
    <2> QED
      BY <2>7, <2>8, <2>9 DEF Worked
  <1> QED
    BY <1>4, <1>5 DEF WorkerStep

\* Handling a signal keeps it.
LEMMA SignalKeepsWorked ==
    ASSUME TypeOK, Worked, Signal
    PROVE  Worked'
  <1>1. CASE OnProgress
    <2> DEFINE t == inbox[1].of
    <2>1. /\ inbox # <<>> /\ inbox' = Tail(inbox) /\ held' = held /\ worker' = worker
          /\ inbox[1] \in Message /\ inbox[1].kind = "progress" /\ Head(inbox) = inbox[1]
      BY <1>1, SignalTaken DEF OnProgress
    <2>2. t \in Tids
      BY <2>1 DEF Message
    <2>3. \A u : Settling(u)' <=> Settling(u)
      BY <2>1, SignalTaken DEF IsFinished
    <2>4. ProgressIsFollowed' /\ \A u \in Tids : BusyOf(u)' = BusyOf(u)
      BY <2>1, SameThreads, FollowedWhenTaken DEF Worked
    <2>5. HeldIsOfRow'
      BY <2>1, <2>3, SameThreads DEF Worked, HeldIsOfRow
    <2>6. BusyOf(t) # {} \/ Settling(t)
      <3>1. 1 \in 1..Len(inbox)
        BY <2>1, SignalTaken
      <3>2. \/ BusyOf(t) # {}
            \/ \E j \in 2..Len(inbox) : IsFinished(inbox[j], t)
        BY <2>1, <2>2, <3>1 DEF Worked, ProgressIsFollowed
      <3> QED
        BY <3>1, <3>2, SignalTaken DEF Settling, IsFinished
    <2>7. \A u \in Tids \ {t} : row'[u] = row[u]
      BY <1>1, <2>1, <2>2 DEF OnProgress, TypeOK
    <2> HIDE DEF t
    <2>8. GoingIsWorked'
      BY <2>2, <2>3, <2>4, <2>6, <2>7 DEF Worked, GoingIsWorked
    <2> QED
      BY <2>4, <2>5, <2>8 DEF Worked
  <1>2. CASE OnFinished
    <2> DEFINE t == inbox[1].of
    <2>1. /\ inbox # <<>> /\ inbox' = Tail(inbox)
          /\ inbox[1] \in Message /\ inbox[1].kind = "finished" /\ Head(inbox) = inbox[1]
      BY <1>2, SignalTaken DEF OnFinished
    <2>2. t \in Tids /\ inbox[1].text \in Ends
      BY <2>1 DEF Message
    <2>3. /\ held' = [held EXCEPT ![t] = None] /\ worker' = Dropped(worker, held')
          /\ row' = IF Present(t) THEN [row EXCEPT ![t] = Verdict(t, inbox[1].text)] ELSE row
      BY <1>2, <2>1 DEF OnFinished
    <2>4. IsFinished(inbox[1], t) /\ \A u : u # t => ~IsFinished(inbox[1], u)
      BY <2>1 DEF IsFinished
    <2> HIDE DEF t
    <2>5. \A u : u # t => (Settling(u)' <=> Settling(u))
      BY <2>1, <2>4, SignalTaken
    <2>6. /\ \A w \in Workers : Busy(w)' <=> Busy(w)
          /\ \A u \in Tids : BusyOf(u)' = BusyOf(u)
          /\ \A w \in Workers : (\E u \in Tids : held'[u] = w) => worker'[w] = worker[w]
      BY <2>3, DroppedWork
    <2>7. ProgressIsFollowed'
      BY <2>1, <2>6, FollowedWhenTaken DEF Worked
    <2>8. held'[t] = None /\ \A u \in Tids \ {t} : held'[u] = held[u]
      BY <2>2, <2>3 DEF TypeOK
    <2>9. HeldIsOfRow'
      <3> SUFFICES ASSUME NEW u \in Tids, NEW x \in Workers, held'[u] = x
                   PROVE  /\ worker'[x].of = u
                          /\ Busy(x)' \/ (worker'[x].at = "ended" /\ Settling(u)')
        BY DEF HeldIsOfRow
      <3>1. u # t /\ held[u] = x /\ worker'[x] = worker[x]
        BY <2>6, <2>8, NoneAssumption
      <3> QED
        BY <2>5, <2>6, <3>1 DEF Worked, HeldIsOfRow
    <2>10. \A u \in Tids \ {t} : row'[u] = row[u]
      BY <2>2, <2>3 DEF TypeOK
    <2>11. row'[t] \notin Going
      <3>1. Verdict(t, inbox[1].text) \notin Going
        BY <2>2 DEF Verdict, Ends, Going
      <3> QED
        BY <2>2, <2>3, <3>1 DEF TypeOK, Present, Shown
    <2>12. GoingIsWorked'
      BY <2>5, <2>6, <2>10, <2>11 DEF Worked, GoingIsWorked
    <2> QED
      BY <2>7, <2>9, <2>12 DEF Worked
  <1>3. CASE WaitOver
    BY <1>3, WorkedWhenSettling DEF WaitOver
  <1> QED
    BY <1>1, <1>2, <1>3 DEF Signal

\* Signals and workers account for each other and for the rows, in every
\* reachable state.  (transfer_tab.py, workers/rsync.py)
THEOREM WorkedAlways == Spec => []Worked
  <1>1. Init => Worked
    <2> SUFFICES ASSUME Init PROVE Worked
      OBVIOUS
    <2>1. HeldIsOfRow
      BY NoneAssumption DEF Init, HeldIsOfRow
    <2> QED
      BY <2>1 DEF Init, Worked, ProgressIsFollowed, GoingIsWorked, Going
  <1>2. TypeOK /\ Worked /\ [Next]_vars => Worked'
    <2> SUFFICES ASSUME TypeOK, Worked, [Next]_vars PROVE Worked'
      OBVIOUS
    <2>1. CASE UNCHANGED vars
      BY <2>1, WorkedWhenSettling DEF vars
    <2> QED
      BY <2>1, UserKeepsWorked, WorkerKeepsWorked, SignalKeepsWorked DEF Next
  <1> QED
    BY <1>1, <1>2, TypeCorrect, PTL DEF Spec

\* A row that says its transfer is going on has a worker at work, or its
\* finished signal is on the way.  (transfer_tab.py, workers/rsync.py)
THEOREM GoingRowsAreWorked == Spec => []GoingIsWorked
  <1>1. Worked => GoingIsWorked
    BY DEF Worked
  <1> QED
    BY <1>1, WorkedAlways, PTL

-----------------------------------------------------------------------------
(* active_workers is the workers at work. *)

Quiet(t) == BusyOf(t) = {} /\ ~Settling(t)

OneFinished ==
    \A t \in Tids \ shared : \A i, j \in 1..Len(inbox) :
        IsFinished(inbox[i], t) /\ IsFinished(inbox[j], t) => i = j

\* The row, and the menu opened on it, say so while a worker is not done with.
RowSaysSo  == \A t \in Tids \ shared : ~Quiet(t) => row[t] \in Going \cup {"gone"}
MenuSaysSo == \A t \in Tids \ shared : ~Quiet(t) /\ menu.of = t => menu.text \in Going

DryText == {"Dry Run", "Dry Run - Queued"}

\* Only dry runs say that they are.
DryIsDry ==
    \A t \in Tids \ dry :
        /\ row[t] \notin DryText
        /\ menu.of = t => menu.text \notin DryText
        /\ \A i \in 1..Len(inbox) : inbox[i].of = t => inbox[i].text # "Dry Run"

\* An id that was not handed out is not in use.
AbsentIsUnused ==
    \A t \in Tids : row[t] = "absent" =>
        Quiet(t) /\ menu.of # t /\ \A i \in 1..Len(inbox) : inbox[i].of # t

Singly ==
    /\ HeldAreRunning /\ OneFinished
    /\ RowSaysSo /\ MenuSaysSo /\ DryIsDry /\ AbsentIsUnused
    /\ RowOutlivesWorker

\* What a row may turn to when no worker starts or ends.
Turns(t, text) ==
    \/ text = row[t]
    \/ text \in Going \ DryText /\ row[t] # "absent"
    \/ text = "gone" /\ (BusyOf(t) # {} => t \in dry \cup shared)

\* A step that leaves workers and signals alone keeps the rest.
LEMMA SinglyWhenStill ==
    ASSUME TypeOK, Singly, \A t \in Tids : BusyOf(t)' = BusyOf(t),
           inbox' = inbox, held' = held, shared' = shared, dry' = dry,
           \A t \in Tids : Turns(t, row'[t]),
           \/ menu' \in {menu, Closed}
           \/ \E t \in Tids : menu' = [of |-> t, text |-> row[t]] /\ row[t] \in Shown
    PROVE  Singly'
  <1>0. ASSUME NEW t \in Tids, menu'.of = t
        PROVE  \/ menu.of = t /\ menu'.text = menu.text
               \/ menu'.text = row[t] /\ row[t] \in Shown
    <2>1. CASE menu' = menu
      BY <1>0, <2>1
    <2>2. CASE menu' = Closed
      BY <1>0, <2>2, NoneAssumption DEF Closed
    <2>3. CASE \E u \in Tids : menu' = [of |-> u, text |-> row[u]] /\ row[u] \in Shown
      <3>1. PICK u \in Tids : menu' = [of |-> u, text |-> row[u]] /\ row[u] \in Shown
        BY <2>3
      <3>2. menu'.of = u /\ menu'.text = row[u]
        BY <3>1
      <3> QED
        BY <1>0, <3>1, <3>2
    <2> QED
      BY <2>1, <2>2, <2>3
  <1>1. \A t \in Tids : Quiet(t)' <=> Quiet(t)
    BY SameSignals DEF Quiet
  <1>2. HeldAreRunning'
    BY SameSignals DEF Singly, HeldAreRunning
  <1>3. OneFinished'
    BY DEF Singly, OneFinished, IsFinished
  <1>4. RowSaysSo'
    BY <1>1 DEF Singly, RowSaysSo, Turns
  <1>5. AbsentIsUnused'
    <2> SUFFICES ASSUME NEW t \in Tids, row'[t] = "absent"
                 PROVE  Quiet(t)' /\ menu'.of # t /\ \A i \in 1..Len(inbox') : inbox'[i].of # t
      BY DEF AbsentIsUnused
    <2>1. row[t] = "absent"
      BY DEF Turns, Going
    <2>2. menu'.of # t
      BY <1>0, <2>1 DEF Singly, AbsentIsUnused, Shown, Going, Settled
    <2> QED
      BY <1>1, <2>1, <2>2 DEF Singly, AbsentIsUnused
  <1>6. MenuSaysSo'
    <2> SUFFICES ASSUME NEW t \in Tids \ shared, ~Quiet(t), menu'.of = t
                 PROVE  menu'.text \in Going
      BY <1>1 DEF MenuSaysSo
    <2>1. CASE menu.of = t /\ menu'.text = menu.text
      BY <2>1 DEF Singly, MenuSaysSo
    <2>2. CASE menu'.text = row[t] /\ row[t] \in Shown
      <3>1. row[t] \in Going \cup {"gone"} /\ row[t] # "gone"
        BY <2>2 DEF Singly, RowSaysSo, Shown, Going, Settled
      <3> QED
        BY <2>2, <3>1
    <2> QED
      BY <1>0, <2>1, <2>2
  <1>7. DryIsDry'
    <2> SUFFICES ASSUME NEW t \in Tids \ dry
                 PROVE  /\ row'[t] \notin DryText
                        /\ menu'.of = t => menu'.text \notin DryText
                        /\ \A i \in 1..Len(inbox) : inbox[i].of = t => inbox[i].text # "Dry Run"
      BY DEF DryIsDry
    <2>1. row'[t] \notin DryText
      BY DEF Singly, DryIsDry, Turns, DryText
    <2>2. menu'.of = t => menu'.text \notin DryText
      BY <1>0 DEF Singly, DryIsDry
    <2> QED
      BY <2>1, <2>2 DEF Singly, DryIsDry
  <1>8. RowOutlivesWorker'
    BY DEF Singly, RowOutlivesWorker, Turns, Going
  <1> QED
    BY <1>2, <1>3, <1>4, <1>5, <1>6, <1>7, <1>8 DEF Singly

\* A worker starts: on a row that is quiet, or the row is shared from then on.
LEMMA SinglyWhenStarting ==
    ASSUME TypeOK, Worked, Singly, NEW t \in Tids, StartsWorker(t), inbox' = inbox,
           NEW text \in Going, row' = [row EXCEPT ![t] = text], menu' = Closed,
           dry' \in {dry, dry \cup {t}} \/ (row[t] = "absent" /\ dry' = dry \ {t}),
           text \in DryText => t \in dry'
    PROVE  Singly'
  <1>1. PICK w \in Workers :
            /\ held' = [held EXCEPT ![t] = w] /\ worker'[w].of = t /\ Busy(w)'
            /\ BusyOf(t)' = BusyOf(t) \cup {w}
    BY StartedWork DEF Worked
  <1>2. \A u \in Tids \ {t} : BusyOf(u)' = BusyOf(u) /\ held'[u] = held[u] /\ row'[u] = row[u]
    <2>1. \A u \in Tids \ {t} : BusyOf(u)' = BusyOf(u)
      BY StartedWork DEF Worked
    <2>2. \A u \in Tids \ {t} : held'[u] = held[u] /\ row'[u] = row[u]
      BY <1>1 DEF TypeOK
    <2> QED
      BY <2>1, <2>2
  <1>3. /\ shared' \in {shared, shared \cup {t}}
        /\ t \notin shared' => BusyOf(t) = {} /\ ~Settling(t)
    BY StartIsTyped
  <1>4. held'[t] = w /\ row'[t] = text
    BY <1>1 DEF TypeOK
  <1>5. \A u : Settling(u)' <=> Settling(u)
    BY SameSignals
  <1>6. \A u \in Tids \ {t} : Quiet(u)' <=> Quiet(u)
    BY <1>2, <1>5 DEF Quiet
  <1>7. HeldAreRunning'
    <2> SUFFICES ASSUME NEW u \in Tids \ shared'
                 PROVE  /\ \A x \in BusyOf(u)' : held'[u] = x
                        /\ held'[u] # None => (BusyOf(u)' # {} <=> ~Settling(u)')
                        /\ Settling(u)' => held'[u] # None
      BY DEF HeldAreRunning
    <2>1. CASE u = t
      BY <1>1, <1>3, <1>4, <1>5, <2>1
    <2>2. CASE u # t
      BY <1>2, <1>3, <1>5, <2>2 DEF Singly, HeldAreRunning
    <2> QED
      BY <2>1, <2>2
  <1>8. OneFinished'
    BY <1>3 DEF Singly, OneFinished, IsFinished
  <1>9. RowSaysSo'
    BY <1>2, <1>3, <1>4, <1>6 DEF Singly, RowSaysSo
  <1>10. MenuSaysSo'
    BY NoneAssumption DEF MenuSaysSo, Closed
  <1>11. DryIsDry'
    <2> SUFFICES ASSUME NEW u \in Tids \ dry'
                 PROVE  /\ row'[u] \notin DryText /\ menu'.of # u
                        /\ \A i \in 1..Len(inbox) : inbox[i].of = u => inbox[i].text # "Dry Run"
      BY DEF DryIsDry
    <2>1. menu'.of # u
      BY NoneAssumption DEF Closed
    <2>2. CASE u # t
      BY <1>2, <2>1, <2>2 DEF Singly, DryIsDry
    <2>3. CASE u = t
      BY <1>4, <2>1, <2>3 DEF Singly, DryIsDry, AbsentIsUnused
    <2> QED
      BY <2>2, <2>3
  <1>12. AbsentIsUnused'
    <2> SUFFICES ASSUME NEW u \in Tids, row'[u] = "absent"
                 PROVE  Quiet(u)' /\ menu'.of # u /\ \A i \in 1..Len(inbox') : inbox'[i].of # u
      BY DEF AbsentIsUnused
    <2>1. u # t
      BY <1>4 DEF Going
    <2> QED
      BY <1>2, <1>6, <2>1, NoneAssumption DEF Singly, AbsentIsUnused, Closed
  <1>13. RowOutlivesWorker'
    BY <1>2, <1>3, <1>4 DEF Singly, RowOutlivesWorker, Going
  <1> QED
    BY <1>7, <1>8, <1>9, <1>10, <1>11, <1>12, <1>13 DEF Singly

\* A signal that is added says "Dry Run" only of a dry run, and only of a row
\* that was queued.
LEMMA AddedKeepsDry ==
    ASSUME TypeOK, DryIsDry, NEW m \in Message, inbox' = Append(inbox, m),
           m.text = "Dry Run" => m.of \in dry, UNCHANGED <<row, dry, menu>>
    PROVE  DryIsDry'
  <1> SUFFICES ASSUME NEW t \in Tids \ dry
               PROVE  /\ row[t] \notin DryText
                      /\ menu.of = t => menu.text \notin DryText
                      /\ \A i \in 1..Len(inbox') : inbox'[i].of = t => inbox'[i].text # "Dry Run"
    BY DEF DryIsDry
  <1>1. /\ Len(inbox) \in Nat /\ Len(inbox') = Len(inbox) + 1 /\ inbox'[Len(inbox) + 1] = m
        /\ \A i \in 1..Len(inbox) : inbox'[i] = inbox[i]
        /\ \A i \in 1..Len(inbox') : i \in 1..Len(inbox) \/ i = Len(inbox) + 1
    BY SignalAdded
  <1>2. /\ row[t] \notin DryText
        /\ menu.of = t => menu.text \notin DryText
        /\ \A i \in 1..Len(inbox) : inbox[i].of = t => inbox[i].text # "Dry Run"
    BY DEF DryIsDry
  <1>3. ASSUME NEW i \in 1..Len(inbox'), inbox'[i].of = t
        PROVE  inbox'[i].text # "Dry Run"
    <2>1. CASE i \in 1..Len(inbox)
      BY <1>1, <1>2, <1>3, <2>1
    <2>2. CASE i = Len(inbox) + 1
      BY <1>1, <1>3, <2>2
    <2> QED
      BY <1>1, <2>1, <2>2
  <1> QED
    BY <1>2, <1>3

LEMMA AddedKeepsAbsent ==
    ASSUME TypeOK, AbsentIsUnused, NEW m \in Message, inbox' = Append(inbox, m),
           row[m.of] # "absent", UNCHANGED <<row, menu>>,
           \A t \in Tids : t # m.of /\ Quiet(t) => Quiet(t)'
    PROVE  AbsentIsUnused'
  <1> SUFFICES ASSUME NEW t \in Tids, row[t] = "absent"
               PROVE  Quiet(t)' /\ menu.of # t /\ \A i \in 1..Len(inbox') : inbox'[i].of # t
    BY DEF AbsentIsUnused
  <1>1. /\ Len(inbox) \in Nat /\ Len(inbox') = Len(inbox) + 1 /\ inbox'[Len(inbox) + 1] = m
        /\ \A i \in 1..Len(inbox) : inbox'[i] = inbox[i]
    BY SignalAdded
  <1>2. Quiet(t) /\ menu.of # t /\ \A i \in 1..Len(inbox) : inbox[i].of # t
    BY DEF AbsentIsUnused
  <1>3. t # m.of
    OBVIOUS
  <1>4. ASSUME NEW i \in 1..Len(inbox')
        PROVE  inbox'[i].of # t
    <2>1. CASE i \in 1..Len(inbox)
      BY <1>1, <1>2, <2>1
    <2>2. CASE i = Len(inbox) + 1
      BY <1>1, <1>3, <2>2
    <2> QED
      BY <1>1, <2>1, <2>2
  <1> QED
    BY <1>2, <1>3, <1>4

\* What the user does keeps it.
LEMMA UserKeepsSingly ==
    ASSUME TypeOK, Worked, Singly, UserStep
    PROVE  Singly'
  <1>1. ASSUME NEW t \in Tids, ProcessNew(t)
        PROVE  Singly'
    <2>1. StartsWorker(t) /\ inbox' = inbox /\ menu' = Closed /\ row[t] = "absent"
      BY <1>1 DEF ProcessNew, UiFree
    <2>2. CASE dry' = dry \ {t} /\ row' = [row EXCEPT ![t] = "Queued"]
      BY <2>1, <2>2, SinglyWhenStarting DEF Going, DryText
    <2>3. CASE dry' = dry \cup {t} /\ row' = [row EXCEPT ![t] = "Dry Run - Queued"]
      BY <2>1, <2>3, SinglyWhenStarting DEF Going
    <2> QED
      BY <1>1, <2>2, <2>3 DEF ProcessNew
  <1>2. ASSUME NEW t \in Tids, Restart(t)
        PROVE  Singly'
    BY <1>2, SinglyWhenStarting DEF Restart, Going, DryText
  <1>3. ASSUME NEW t \in Tids, Cancel(t)
        PROVE  Singly'
    <2>1. \A u \in Tids : BusyOf(u)' = BusyOf(u)
      <3>1. held[t] \in Workers /\ worker' = Stopped(held[t])
        BY <1>3 DEF Cancel, TypeOK
      <3> QED
        BY <3>1, MovedWork
    <2>2. row[t] # "absent"
      BY <1>3 DEF Cancel, Singly, AbsentIsUnused
    <2>3. \A u \in Tids : Turns(u, row'[u])
      BY <1>3, <2>2 DEF Cancel, TypeOK, Turns, Going, DryText
    <2> QED
      BY <1>3, <2>1, <2>3, SinglyWhenStill DEF Cancel
  <1>4. ASSUME NEW t \in Tids, ShowContextMenu(t)
        PROVE  Singly'
    <2>1. \A u \in Tids : BusyOf(u)' = BusyOf(u) /\ Turns(u, row'[u])
      BY <1>4, SameThreads DEF ShowContextMenu, Turns
    <2> QED
      BY <1>4, <2>1, SinglyWhenStill DEF ShowContextMenu, Present
  <1>5. ASSUME NEW t \in Tids, DeleteRow(t)
        PROVE  Singly'
    <2>1. \A u \in Tids : BusyOf(u)' = BusyOf(u)
      BY <1>5, SameThreads DEF DeleteRow
    <2>2. BusyOf(t) # {} => t \in shared
      BY <1>5, NoneAssumption DEF DeleteRow, Singly, HeldAreRunning, BusyOf
    <2>3. \A u \in Tids : Turns(u, row'[u])
      BY <1>5, <2>2 DEF DeleteRow, TypeOK, Turns
    <2> QED
      BY <1>5, <2>1, <2>3, SinglyWhenStill DEF DeleteRow
  <1>6. CASE CloseMenu
    <2>1. \A u \in Tids : BusyOf(u)' = BusyOf(u) /\ Turns(u, row'[u])
      BY <1>6, SameThreads DEF CloseMenu, Turns
    <2> QED
      BY <1>6, <2>1, SinglyWhenStill DEF CloseMenu
  <1>7. CASE ClearFinished
    <2>1. \A u \in Tids : BusyOf(u)' = BusyOf(u)
      BY <1>7, SameThreads DEF ClearFinished
    <2>2. \A u \in Tids : row[u] \in Clearable /\ BusyOf(u) # {} => u \in dry \cup shared
      BY DEF Singly, RowSaysSo, DryIsDry, DryText, Quiet, Clearable, Settled, Going
    <2>3. \A u \in Tids : Turns(u, row'[u])
      BY <1>7, <2>2 DEF ClearFinished, Turns
    <2> QED
      BY <1>7, <2>1, <2>3, SinglyWhenStill DEF ClearFinished
  <1>8. CASE Reopen
    <2>1. worker' = [w \in Workers |-> Idle] /\ inbox' = <<>> /\ menu' = Closed
      BY <1>8 DEF Reopen
    <2>2. \A t \in Tids : BusyOf(t)' = {} /\ ~Settling(t)' /\ menu'.of # t
      BY <2>1, NoneAssumption DEF BusyOf, Busy, Idle, At, Settling, Closed
    <2>3. \A t \in Tids : held'[t] = None /\ row'[t] \in {"absent"} \cup Settled
      BY <1>8, FilesAreTyped DEF Reopen
    <2>4. HeldAreRunning' /\ OneFinished'
      BY <2>1, <2>2, <2>3 DEF HeldAreRunning, OneFinished
    <2>5. RowSaysSo' /\ MenuSaysSo' /\ AbsentIsUnused'
      BY <2>1, <2>2 DEF RowSaysSo, MenuSaysSo, AbsentIsUnused, Quiet
    <2>6. DryIsDry'
      <3>1. \A t \in Tids : row'[t] \notin DryText
        BY <2>3 DEF DryText, Settled
      <3>2. 1..Len(inbox') = {}
        BY <2>1
      <3> QED
        BY <2>2, <3>1, <3>2 DEF DryIsDry
    <2>7. RowOutlivesWorker'
      BY <2>2 DEF RowOutlivesWorker
    <2> QED
      BY <2>4, <2>5, <2>6, <2>7 DEF Singly
  <1> QED
    BY <1>1, <1>2, <1>3, <1>4, <1>5, <1>6, <1>7, <1>8 DEF UserStep

\* A progress signal is sent by a worker that is at work.
LEMMA SinglyWhenReporting ==
    ASSUME TypeOK, Singly, \A t \in Tids : BusyOf(t)' = BusyOf(t),
           NEW u \in Tids, BusyOf(u) # {}, inbox' = Append(inbox, Progress(u)),
           UNCHANGED <<row, dry, held, menu, shared>>
    PROVE  Singly'
  <1> DEFINE m == Progress(u)
  <1>1. m \in Message /\ m.kind = "progress" /\ m.of = u /\ (m.text = "Dry Run" => u \in dry)
    BY SignalsAreTyped DEF Progress, Label
  <1> HIDE DEF m
  <1>2. inbox' = Append(inbox, m)
    BY DEF m
  <1>3. /\ Len(inbox) \in Nat /\ Len(inbox') = Len(inbox) + 1 /\ inbox'[Len(inbox) + 1] = m
        /\ \A i \in 1..Len(inbox) : inbox'[i] = inbox[i]
        /\ \A t : Settling(t)' <=> Settling(t)
    BY <1>1, <1>2, SignalAdded DEF IsFinished
  <1>4. \A t \in Tids : Quiet(t)' <=> Quiet(t)
    BY <1>3 DEF Quiet
  <1>5. HeldAreRunning'
    BY <1>3 DEF Singly, HeldAreRunning
  <1>6. OneFinished'
    <2> SUFFICES ASSUME NEW t \in Tids \ shared, NEW i \in 1..Len(inbox'), NEW j \in 1..Len(inbox'),
                        IsFinished(inbox'[i], t), IsFinished(inbox'[j], t)
                 PROVE  i = j
      BY DEF OneFinished, IsFinished
    <2>1. ~IsFinished(m, t)
      BY <1>1 DEF IsFinished
    <2>2. i \in 1..Len(inbox) /\ j \in 1..Len(inbox)
      BY <1>3, <2>1
    <2> QED
      BY <1>3, <2>2 DEF Singly, OneFinished
  <1>7. RowSaysSo' /\ MenuSaysSo'
    BY <1>4 DEF Singly, RowSaysSo, MenuSaysSo
  <1>8. DryIsDry'
    BY <1>1, <1>2, AddedKeepsDry DEF Singly
  <1>9. AbsentIsUnused'
    <2>1. row[u] # "absent"
      BY DEF Singly, AbsentIsUnused, Quiet
    <2> QED
      BY <1>1, <1>2, <1>4, <2>1, AddedKeepsAbsent DEF Singly
  <1>10. RowOutlivesWorker'
    BY DEF Singly, RowOutlivesWorker
  <1> QED
    BY <1>5, <1>6, <1>7, <1>8, <1>9, <1>10 DEF Singly

\* What a worker does keeps it.
LEMMA WorkerKeepsSingly ==
    ASSUME TypeOK, Singly, NEW w \in Workers, WorkerStep(w)
    PROVE  Singly'
  <1>1. Busy(w) /\ worker[w].of \in Tids /\ UNCHANGED <<row, dry, held, menu, shared>>
    <2>1. Busy(w)
      BY DEF WorkerStep, Checked, Launch, Report, End, Busy
    <2> QED
      BY <2>1, BusyIsThread DEF WorkerStep, Checked, Launch, Report, End
  <1>2. PICK t \in Tids : t = worker[w].of
    BY <1>1
  <1>3. w \in BusyOf(t) /\ \A u \in Tids : u # t => w \notin BusyOf(u)
    BY <1>1, <1>2 DEF BusyOf
  <1>4. CASE Checked(w) \/ Report(w)
    <2>1. \A u \in Tids : BusyOf(u)' = BusyOf(u)
      BY <1>1, <1>4, MovedWork, SameThreads DEF Checked, Report
    <2>2. inbox' = Append(inbox, Progress(t))
      BY <1>2, <1>4 DEF Checked, Report
    <2> QED
      BY <1>1, <1>3, <2>1, <2>2, SinglyWhenReporting
  <1>5. CASE Launch(w)
    <2>1. \A u \in Tids : BusyOf(u)' = BusyOf(u) /\ Turns(u, row'[u])
      BY <1>1, <1>5, MovedWork DEF Launch, Turns
    <2> QED
      BY <1>1, <1>5, <2>1, SinglyWhenStill DEF Launch
  <1>6. CASE End(w)
    <2>1. PICK s \in Ends : inbox' = Append(inbox, Finished(t, s))
      BY <1>1, <1>2, <1>6, OutcomesAreEnds DEF End
    <2> DEFINE m == Finished(t, s)
    <2>2. m \in Message /\ IsFinished(m, t) /\ m.of = t /\ m.text # "Dry Run"
      BY SignalsAreTyped DEF IsFinished, Finished, Ends
    <2>3. inbox' = Append(inbox, m)
      BY <2>1
    <2> HIDE DEF m
    <2>4. /\ Len(inbox) \in Nat /\ Len(inbox') = Len(inbox) + 1 /\ inbox'[Len(inbox) + 1] = m
          /\ \A i \in 1..Len(inbox) : inbox'[i] = inbox[i]
          /\ \A u : Settling(u)' <=> Settling(u) \/ u = t
      BY <2>2, <2>3, SignalAdded DEF IsFinished
    <2>5. /\ BusyOf(t)' = BusyOf(t) \ {w}
          /\ \A u \in Tids : u # t => BusyOf(u)' = BusyOf(u)
      <3>1. \A u \in Tids : BusyOf(u)' = BusyOf(u) \ {w}
        BY <1>6, EndedWork
      <3> QED
        BY <1>3, <3>1
    <2>6. t \notin shared => held[t] = w /\ BusyOf(t)' = {} /\ ~Settling(t)
      BY <1>3, <2>5, NoneAssumption DEF Singly, HeldAreRunning
    <2>7. \A u \in Tids : u # t => (Quiet(u)' <=> Quiet(u))
      BY <2>4, <2>5 DEF Quiet
    <2>8. ~Quiet(t)
      BY <1>3 DEF Quiet
    <2>9. HeldAreRunning'
      <3> SUFFICES ASSUME NEW u \in Tids \ shared
                   PROVE  /\ \A x \in BusyOf(u)' : held[u] = x
                          /\ held[u] # None => (BusyOf(u)' # {} <=> ~Settling(u)')
                          /\ Settling(u)' => held[u] # None
        BY <1>1 DEF HeldAreRunning
      <3>1. CASE u = t
        BY <2>4, <2>6, <3>1, NoneAssumption
      <3>2. CASE u # t
        BY <2>4, <2>5, <3>2 DEF Singly, HeldAreRunning
      <3> QED
        BY <3>1, <3>2
    <2>10. OneFinished'
      <3> SUFFICES ASSUME NEW u \in Tids \ shared, NEW i \in 1..Len(inbox'), NEW j \in 1..Len(inbox'),
                          IsFinished(inbox'[i], u), IsFinished(inbox'[j], u)
                   PROVE  i = j
        BY <1>1 DEF OneFinished, IsFinished
      <3>1. CASE u = t
        <4>1. \A k \in 1..Len(inbox) : ~IsFinished(inbox'[k], u)
          BY <2>4, <2>6, <3>1 DEF Settling, IsFinished
        <4> QED
          BY <2>4, <4>1
      <3>2. CASE u # t
        <4>1. ~IsFinished(m, u)
          BY <2>2, <3>2 DEF IsFinished
        <4>2. i \in 1..Len(inbox) /\ j \in 1..Len(inbox)
          BY <2>4, <4>1
        <4> QED
          BY <2>4, <4>2 DEF Singly, OneFinished
      <3> QED
        BY <3>1, <3>2
    <2>11. RowSaysSo' /\ MenuSaysSo'
      BY <1>1, <2>7, <2>8 DEF Singly, RowSaysSo, MenuSaysSo
    <2>12. DryIsDry'
      BY <1>1, <2>2, <2>3, AddedKeepsDry DEF Singly
    <2>13. AbsentIsUnused'
      <3>1. row[t] # "absent"
        BY <2>8 DEF Singly, AbsentIsUnused
      <3> QED
        BY <1>1, <2>2, <2>3, <2>7, <3>1, AddedKeepsAbsent DEF Singly
    <2>14. RowOutlivesWorker'
      BY <1>1, <2>5 DEF Singly, RowOutlivesWorker
    <2> QED
      BY <2>9, <2>10, <2>11, <2>12, <2>13, <2>14 DEF Singly
  <1> QED
    BY <1>4, <1>5, <1>6 DEF WorkerStep

\* A signal that is taken from the front leaves the others as they were.
LEMMA TakenKeepsSignals ==
    ASSUME TypeOK, Singly, inbox # <<>>, inbox' = Tail(inbox),
           \A t \in Tids : BusyOf(t)' = BusyOf(t), UNCHANGED <<dry, menu, shared>>,
           \A t \in Tids :
               /\ row'[t] \in DryText => row[t] \in DryText \/ t \in dry
               /\ row'[t] \in {"absent", "gone"} => row'[t] = row[t]
    PROVE  OneFinished' /\ DryIsDry' /\ AbsentIsUnused' /\ RowOutlivesWorker'
  <1>1. /\ Len(inbox) \in Nat \ {0} /\ Len(inbox') = Len(inbox) - 1
        /\ \A i \in 1..Len(inbox') : inbox'[i] = inbox[i + 1]
        /\ \A t : Settling(t)' => Settling(t)
    BY SignalTaken
  <1>2. \A i \in 1..Len(inbox') : i + 1 \in 1..Len(inbox)
    BY <1>1
  <1>3. OneFinished'
    <2> SUFFICES ASSUME NEW t \in Tids \ shared, NEW i \in 1..Len(inbox'), NEW j \in 1..Len(inbox'),
                        IsFinished(inbox'[i], t), IsFinished(inbox'[j], t)
                 PROVE  i = j
      BY DEF OneFinished, IsFinished
    <2>1. IsFinished(inbox[i + 1], t) /\ IsFinished(inbox[j + 1], t)
      BY <1>1
    <2>2. i + 1 = j + 1
      BY <1>2, <2>1 DEF Singly, OneFinished
    <2> QED
      BY <2>2
  <1>4. DryIsDry'
    <2> SUFFICES ASSUME NEW t \in Tids \ dry
                 PROVE  /\ row'[t] \notin DryText
                        /\ menu.of = t => menu.text \notin DryText
                        /\ \A i \in 1..Len(inbox') : inbox'[i].of = t => inbox'[i].text # "Dry Run"
      BY DEF DryIsDry
    <2>1. /\ row[t] \notin DryText
          /\ menu.of = t => menu.text \notin DryText
          /\ \A i \in 1..Len(inbox) : inbox[i].of = t => inbox[i].text # "Dry Run"
      BY DEF Singly, DryIsDry
    <2>2. ASSUME NEW i \in 1..Len(inbox'), inbox'[i].of = t
          PROVE  inbox'[i].text # "Dry Run"
      <3>1. inbox'[i] = inbox[i + 1] /\ i + 1 \in 1..Len(inbox)
        BY <1>1, <1>2
      <3> QED
        BY <2>1, <2>2, <3>1
    <2> QED
      BY <2>1, <2>2
  <1>5. AbsentIsUnused'
    <2> SUFFICES ASSUME NEW t \in Tids, row'[t] = "absent"
                 PROVE  Quiet(t)' /\ menu.of # t /\ \A i \in 1..Len(inbox') : inbox'[i].of # t
      BY DEF AbsentIsUnused
    <2>1. Quiet(t) /\ menu.of # t /\ \A i \in 1..Len(inbox) : inbox[i].of # t
      BY DEF Singly, AbsentIsUnused
    <2>2. Quiet(t)'
      BY <1>1, <2>1 DEF Quiet
    <2>3. \A i \in 1..Len(inbox') : inbox'[i].of # t
      BY <1>1, <1>2, <2>1
    <2> QED
      BY <2>1, <2>2, <2>3
  <1>6. RowOutlivesWorker'
    BY DEF Singly, RowOutlivesWorker
  <1> QED
    BY <1>3, <1>4, <1>5, <1>6

\* Handling a signal keeps it: the one finished signal of a row finds, under
\* the row's id, the worker that sent it.
LEMMA SignalKeepsSingly ==
    ASSUME TypeOK, Singly, Signal
    PROVE  Singly'
  <1>1. CASE OnProgress
    <2>1. /\ inbox # <<>> /\ inbox' = Tail(inbox)
          /\ inbox[1] \in Message /\ inbox[1].kind = "progress" /\ Head(inbox) = inbox[1]
      BY <1>1, SignalTaken DEF OnProgress
    <2>2. PICK t \in Tids : t = inbox[1].of
      BY <2>1 DEF Message
    <2>3. /\ inbox[1].text \in {"Transferring", "Dry Run"}
          /\ inbox[1].text = "Dry Run" => t \in dry
      <3>1. 1 \in 1..Len(inbox)
        BY <2>1, SignalTaken
      <3>2. inbox[1].text \in {"Transferring", "Dry Run"}
        BY <2>1 DEF Message
      <3> QED
        BY <2>2, <3>1, <3>2 DEF Singly, DryIsDry
    <2>4. /\ UNCHANGED <<dry, held, menu, shared>>
          /\ row' = IF Present(t) THEN [row EXCEPT ![t] = inbox[1].text] ELSE row
      BY <1>1, <2>1, <2>2 DEF OnProgress
    <2>5. \A u : Settling(u)' <=> Settling(u)
      BY <2>1, SignalTaken DEF IsFinished
    <2>6. \A u \in Tids : BusyOf(u)' = BusyOf(u)
      BY <1>1, SameThreads DEF OnProgress
    <2>7. \A u \in Tids : Quiet(u)' <=> Quiet(u)
      BY <2>5, <2>6 DEF Quiet
    <2>8. \A u \in Tids : row'[u] = row[u] \/ (u = t /\ row'[u] = inbox[1].text)
      BY <2>4 DEF TypeOK
    <2>9. HeldAreRunning'
      BY <2>4, <2>5, <2>6 DEF Singly, HeldAreRunning
    <2>10. RowSaysSo' /\ MenuSaysSo'
      BY <2>3, <2>4, <2>7, <2>8 DEF Singly, RowSaysSo, MenuSaysSo, Going
    <2>11. \A u \in Tids :
              /\ row'[u] \in DryText => row[u] \in DryText \/ u \in dry
              /\ row'[u] \in {"absent", "gone"} => row'[u] = row[u]
      BY <2>3, <2>8 DEF DryText
    <2>12. OneFinished' /\ DryIsDry' /\ AbsentIsUnused' /\ RowOutlivesWorker'
      BY <2>1, <2>4, <2>6, <2>11, TakenKeepsSignals
    <2> QED
      BY <2>9, <2>10, <2>12 DEF Singly
  <1>2. CASE OnFinished
    <2>1. /\ inbox # <<>> /\ inbox' = Tail(inbox)
          /\ inbox[1] \in Message /\ inbox[1].kind = "finished" /\ Head(inbox) = inbox[1]
      BY <1>2, SignalTaken DEF OnFinished
    <2>2. PICK t \in Tids : t = inbox[1].of
      BY <2>1 DEF Message
    <2>3. /\ held' = [held EXCEPT ![t] = None] /\ worker' = Dropped(worker, held')
          /\ row' = IF Present(t) THEN [row EXCEPT ![t] = Verdict(t, inbox[1].text)] ELSE row
          /\ UNCHANGED <<dry, menu, shared>>
      BY <1>2, <2>1, <2>2 DEF OnFinished
    <2>4. /\ 1 \in 1..Len(inbox) /\ IsFinished(inbox[1], t)
          /\ \A u : u # t => ~IsFinished(inbox[1], u)
      BY <2>1, <2>2, SignalTaken DEF IsFinished
    <2>5. \A u : u # t => (Settling(u)' <=> Settling(u))
      BY <2>1, <2>4, SignalTaken
    <2>6. Settling(t)
      BY <2>4 DEF Settling, IsFinished
    <2>7. \A u \in Tids : BusyOf(u)' = BusyOf(u)
      BY <2>3, DroppedWork
    <2>8. held'[t] = None /\ \A u \in Tids \ {t} : held'[u] = held[u]
      BY <2>3 DEF TypeOK
    <2>9. t \notin shared => BusyOf(t)' = {} /\ ~Settling(t)'
      <3> SUFFICES ASSUME t \notin shared, BusyOf(t)' # {} \/ Settling(t)' PROVE FALSE
        OBVIOUS
      <3>1. BusyOf(t)' = {}
        BY <2>6, <2>7 DEF Singly, HeldAreRunning
      <3>2. PICK i \in 1..Len(inbox') : IsFinished(inbox'[i], t)
        BY <3>1 DEF Settling, IsFinished
      <3>3. i + 1 \in 1..Len(inbox) /\ IsFinished(inbox[i + 1], t) /\ i + 1 # 1
        BY <2>1, <3>2, SignalTaken
      <3> QED
        BY <2>4, <3>3 DEF Singly, OneFinished
    <2>10. \A u \in Tids : u # t => (Quiet(u)' <=> Quiet(u))
      BY <2>5, <2>7 DEF Quiet
    <2>11. t \notin shared => Quiet(t)'
      BY <2>9 DEF Quiet
    <2>12. Verdict(t, inbox[1].text) \notin DryText \cup {"absent", "gone"}
      <3>1. inbox[1].text \in Ends
        BY <2>1 DEF Message
      <3> QED
        BY <3>1 DEF Verdict, Ends, DryText
    <2>13. \A u \in Tids : row'[u] = row[u] \/ (u = t /\ row'[u] = Verdict(t, inbox[1].text))
      BY <2>3 DEF TypeOK
    <2>14. HeldAreRunning'
      <3> SUFFICES ASSUME NEW u \in Tids \ shared
                   PROVE  /\ \A x \in BusyOf(u)' : held'[u] = x
                          /\ held'[u] # None => (BusyOf(u)' # {} <=> ~Settling(u)')
                          /\ Settling(u)' => held'[u] # None
        BY <2>3 DEF HeldAreRunning
      <3>1. CASE u = t
        BY <2>8, <2>9, <3>1
      <3>2. CASE u # t
        BY <2>5, <2>7, <2>8, <3>2 DEF Singly, HeldAreRunning
      <3> QED
        BY <3>1, <3>2
    <2>15. RowSaysSo' /\ MenuSaysSo'
      BY <2>3, <2>10, <2>11, <2>13 DEF Singly, RowSaysSo, MenuSaysSo
    <2>16. OneFinished' /\ DryIsDry' /\ AbsentIsUnused' /\ RowOutlivesWorker'
      <3>1. \A u \in Tids :
                /\ row'[u] \in DryText => row[u] \in DryText \/ u \in dry
                /\ row'[u] \in {"absent", "gone"} => row'[u] = row[u]
        BY <2>12, <2>13
      <3> QED
        BY <2>1, <2>3, <2>7, <3>1, TakenKeepsSignals
    <2> QED
      BY <2>14, <2>15, <2>16 DEF Singly
  <1>3. CASE WaitOver
    <2>1. \A u \in Tids : BusyOf(u)' = BusyOf(u) /\ Turns(u, row'[u])
      BY <1>3, SameThreads DEF WaitOver, Turns
    <2> QED
      BY <1>3, <2>1, SinglyWhenStill DEF WaitOver
  <1> QED
    BY <1>1, <1>2, <1>3 DEF Signal

\* The registry, the rows and the menu agree on who is at work, in every
\* reachable state.  (transfer_tab.py)
THEOREM SinglyAlways == Spec => []Singly
  <1>1. Init => Singly
    <2> SUFFICES ASSUME Init PROVE Singly
      OBVIOUS
    <2>0. 1..Len(inbox) = {} /\ menu.of = None /\ row = [t \in Tids |-> "absent"]
      BY DEF Init, Closed
    <2>1. \A t \in Tids : BusyOf(t) = {} /\ ~Settling(t) /\ menu.of # t /\ row[t] = "absent"
      <3>1. \A t \in Tids : BusyOf(t) = {}
        BY DEF Init, BusyOf, Busy, Idle, At
      <3>2. \A t : ~Settling(t)
        BY <2>0 DEF Settling
      <3> QED
        BY <2>0, <3>1, <3>2, NoneAssumption
    <2>2. 1..Len(inbox) = {} /\ held = [t \in Tids |-> None]
      BY DEF Init
    <2> QED
      BY <2>1, <2>2 DEF Singly, HeldAreRunning, OneFinished, RowSaysSo, MenuSaysSo, DryIsDry,
                        DryText, AbsentIsUnused, RowOutlivesWorker, Quiet
  <1>2. TypeOK /\ Worked /\ Singly /\ [Next]_vars => Singly'
    <2> SUFFICES ASSUME TypeOK, Worked, Singly, [Next]_vars PROVE Singly'
      OBVIOUS
    <2>1. CASE UNCHANGED vars
      <3>1. \A t \in Tids : BusyOf(t)' = BusyOf(t) /\ Turns(t, row'[t])
        BY <2>1, SameThreads DEF vars, Turns
      <3> QED
        BY <2>1, <3>1, SinglyWhenStill DEF vars
    <2> QED
      BY <2>1, UserKeepsSingly, WorkerKeepsSingly, SignalKeepsSingly DEF Next
  <1> QED
    BY <1>1, <1>2, TypeCorrect, WorkedAlways, PTL DEF Spec

\* active_workers is the workers whose finished signal was not handled yet, for
\* every row that was not restarted early.  (_cancel, _delete_row, _on_finished)
THEOREM ActiveWorkersAreRunning == Spec => []HeldAreRunning
  <1>1. Singly => HeldAreRunning
    BY DEF Singly
  <1> QED
    BY <1>1, SinglyAlways, PTL

\* Only a dry run, or a row restarted early, can lose its row to the menu or to
\* "Clear Finished" while its worker runs.  (_delete_row, _clear_finished)
THEOREM RowsOutliveWorkers == Spec => []RowOutlivesWorker
  <1>1. Singly => RowOutlivesWorker
    BY DEF Singly
  <1> QED
    BY <1>1, SinglyAlways, PTL

\* No worker is lost sight of, but for rows restarted early and dry runs.
\* (_on_finished, _delete_row, _clear_finished)
THEOREM WorkersStayHeld == Spec => []WorkersAreHeld
  <1>1. HeldAreRunning /\ RowOutlivesWorker => WorkersAreHeld
    BY DEF WorkersAreHeld
  <1> QED
    BY <1>1, ActiveWorkersAreRunning, RowsOutliveWorkers, PTL

\* A row is restarted early only from a menu that was opened on "Cancelling",
\* or on "Dry Run" for a dry run.  (_show_context_menu, _restart)
THEOREM EarlyRestarts == Spec => SharedByRestart
  <1>1. TypeOK /\ Singly /\ [Next]_vars =>
            [\A t \in shared' \ shared :
                menu.of = t /\ (menu.text = "Cancelling" \/ (menu.text = "Dry Run" /\ t \in dry))]_vars
    <2> SUFFICES ASSUME TypeOK, Singly, Next, NEW t \in shared' \ shared
                 PROVE  menu.of = t /\ (menu.text = "Cancelling" \/ (menu.text = "Dry Run" /\ t \in dry))
      OBVIOUS
    <2>1. CASE \E u \in Tids : ProcessNew(u)
      <3>1. PICK u \in Tids : ProcessNew(u)
        BY <2>1
      <3>2. row[u] = "absent" /\ StartsWorker(u)
        BY <3>1 DEF ProcessNew
      <3>3. BusyOf(u) = {} /\ ~Settling(u)
        BY <3>2 DEF Singly, AbsentIsUnused, Quiet
      <3>4. shared' = shared
        BY <3>2, <3>3 DEF StartsWorker
      <3> QED
        BY <3>4
    <2>2. CASE \E u \in Tids : Restart(u)
      <3>1. PICK u \in Tids : Restart(u)
        BY <2>2
      <3>2. menu.of = u /\ menu.text \notin Active /\ StartsWorker(u)
        BY <3>1 DEF Restart
      <3>3. u = t /\ ~(BusyOf(u) = {} /\ ~Settling(u))
        BY <3>2 DEF StartsWorker
      <3>4. menu.text \in Going
        BY <3>2, <3>3 DEF Singly, MenuSaysSo, Quiet
      <3>5. menu.text \in {"Cancelling", "Dry Run"}
        BY <3>2, <3>4 DEF Going, Active
      <3>6. menu.text = "Dry Run" => u \in dry
        BY <3>2 DEF Singly, DryIsDry, DryText
      <3> QED
        BY <3>2, <3>3, <3>5, <3>6
    <2>3. CASE \/ \E u \in Tids : ShowContextMenu(u) \/ Cancel(u) \/ DeleteRow(u)
               \/ CloseMenu \/ ClearFinished \/ Reopen
      BY <2>3 DEF ShowContextMenu, Cancel, DeleteRow, CloseMenu, ClearFinished, Reopen
    <2>4. CASE \E w \in Workers : WorkerStep(w)
      BY <2>4 DEF WorkerStep, Checked, Launch, Report, End
    <2>5. CASE Signal
      BY <2>5 DEF Signal, OnProgress, OnFinished, WaitOver
    <2> QED
      BY <2>1, <2>2, <2>3, <2>4, <2>5 DEF Next, UserStep
  <1> QED
    BY <1>1, TypeCorrect, SinglyAlways, PTL DEF Spec, SharedByRestart

-----------------------------------------------------------------------------
(* The history. *)

\* A row's settled text is the history's, or what loading it reads.
Told(t) == row[t] \in Settled => row[t] \in {saved[t], Loaded(saved)[t]}

\* Saving makes every settled text the history's.
LEMMA SavedIsTold ==
    ASSUME TypeOK, saved' = Contents(row')
    PROVE  \A t \in Tids : Told(t)'
  BY DEF Told, Contents, Settled

\* A step that saves nothing keeps what is told, if no row becomes settled.
LEMMA UnsavedIsTold ==
    ASSUME HistoryTells, waits = None, UNCHANGED saved,
           \A t \in Tids : row'[t] = row[t] \/ row'[t] \notin Settled
    PROVE  \A t \in Tids : Told(t)'
  BY DEF HistoryTells, Told, Loaded

\* When no thread is being waited for, the history tells every settled row but
\* for the texts that loading reads as "Interrupted": every way a row settles
\* is followed by a save before anything else is handled.  (_save_history,
\* _load_history, _on_finished)
THEOREM HistoryIsTold == Spec => []HistoryTells
  <1>1. Init => HistoryTells
    BY DEF Init, HistoryTells, Settled
  <1>2. TypeOK /\ HistoryTells /\ [Next]_vars => HistoryTells'
    <2> SUFFICES ASSUME TypeOK, HistoryTells, [Next]_vars, waits' = None, NEW t \in Tids
                 PROVE  Told(t)'
      BY DEF HistoryTells, Told
    <2>1. CASE \E u \in Tids : ProcessNew(u) \/ DeleteRow(u)
      BY <2>1, SavedIsTold DEF ProcessNew, DeleteRow
    <2>2. CASE ClearFinished \/ WaitOver
      <3>1. saved' = Contents(row')
        BY <2>2 DEF ClearFinished, WaitOver
      <3> QED
        BY <3>1, SavedIsTold
    <2>3. CASE \E u \in Tids : Cancel(u) \/ Restart(u)
      <3>1. PICK u \in Tids : Cancel(u) \/ Restart(u)
        BY <2>3
      <3>2. waits = None /\ saved' = saved
            /\ (row' = [row EXCEPT ![u] = "Cancelling"] \/ row' = [row EXCEPT ![u] = "Queued"])
        BY <3>1 DEF Cancel, Restart
      <3>3. \A x \in Tids : row'[x] = row[x] \/ row'[x] \notin Settled
        BY <3>2 DEF TypeOK, Settled
      <3> QED
        BY <3>2, <3>3, UnsavedIsTold
    <2>4. CASE OnProgress
      <3>1. inbox \in Seq(Message) /\ inbox # <<>>
        BY <2>4 DEF OnProgress, TypeOK, Message
      <3>2. Head(inbox) \in Message /\ Head(inbox).kind = "progress"
        BY <2>4, <3>1 DEF OnProgress
      <3>3. Head(inbox).text \notin Settled
        BY <3>2 DEF Message, Settled
      <3>4. \A x \in Tids : row'[x] = row[x] \/ row'[x] \notin Settled
        BY <2>4, <3>3 DEF OnProgress, TypeOK
      <3> QED
        BY <2>4, <3>4, UnsavedIsTold DEF OnProgress
    <2>5. CASE OnFinished
      <3>1. inbox \in Seq(Message) /\ inbox # <<>>
        BY <2>5 DEF OnFinished, TypeOK, Message
      <3>2. Head(inbox).of \in Tids
        <4>1. Head(inbox) \in Message
          BY <3>1
        <4> QED
          BY <4>1 DEF Message
      <3>3. saved' = Contents(row')
        BY <2>5, <3>2, NoneAssumption DEF OnFinished, TypeOK
      <3> QED
        BY <3>3, SavedIsTold
    <2>6. CASE Reopen
      <3>1. row'[t] = Loaded(saved)[t] /\ saved' = saved
        BY <2>6 DEF Reopen
      <3> QED
        BY <3>1 DEF Told, Loaded
    <2>7. CASE \/ CloseMenu \/ UNCHANGED vars
               \/ \E u \in Tids : ShowContextMenu(u)
               \/ \E w \in Workers : WorkerStep(w)
      <3>1. waits = None /\ row' = row /\ saved' = saved
        BY <2>7 DEF CloseMenu, vars, ShowContextMenu, WorkerStep, Checked, Launch, Report, End
      <3> QED
        BY <3>1, UnsavedIsTold
    <2> QED
      BY <2>1, <2>2, <2>3, <2>4, <2>5, <2>6, <2>7 DEF Next, UserStep, Signal
  <1> QED
    BY <1>1, <1>2, TypeCorrect, PTL DEF Spec

=============================================================================
