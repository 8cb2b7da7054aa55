------------------------- MODULE ScheduleRun_proofs -------------------------
(***************************************************************************)
(* The threaded run of a list implements ListRun, for any transfers, any   *)
(* length of list and any MAX_RUN_LOG, and the rows the panel shows follow *)
(* it.                                                                     *)
(***************************************************************************)
EXTENDS ScheduleRun, SequenceTheorems, TLAPS

promised == <<here, list, policy, RunAsPromised, log>>

\* A signal sent goes behind those that are waiting.
LEMMA SendKeepsOrder ==
    ASSUME NEW q \in Seq(Signal), NEW m \in Signal
    PROVE  /\ Append(q, m) \in Seq(Signal)
           /\ Len(Append(q, m)) = Len(q) + 1
           /\ \A i \in 1..Len(q) : Append(q, m)[i] = q[i]
           /\ Append(q, m)[Len(q) + 1] = m
BY AppendProperties

\* A signal received is the oldest; the others keep their order.
LEMMA ReceiveKeepsOrder ==
    ASSUME NEW q \in Seq(Signal), q # <<>>
    PROVE  /\ Head(q) = q[1] /\ Head(q) \in Signal /\ Len(q) \in Nat \ {0}
           /\ Tail(q) \in Seq(Signal) /\ Len(Tail(q)) = Len(q) - 1
           /\ \A i \in 1..Len(Tail(q)) : Tail(q)[i] = q[i + 1]
BY HeadTailProperties, EmptySeq

\* What recording one more result does to the runner's results and status.
LEMMA Recording ==
    ASSUME WorkTypes, NEW s \in Statuses, Len(work.done) < Len(work.todo)
    PROVE  /\ Recorded(s).done = Append(work.done, [of |-> work.todo[idx], st |-> s])
           /\ Recorded(s).done \in Seq(Result)
           /\ Len(Recorded(s).done) = idx /\ idx <= Len(work.todo)
           /\ \A i \in 1..Len(work.done) : Recorded(s).done[i] = work.done[i]
           /\ Recorded(s).done[idx].st = s
           /\ Recorded(s).overall = IF s = "Completed" THEN work.overall ELSE "partial"
           /\ Recorded(s).todo = work.todo /\ Recorded(s).policy = work.policy
           /\ Recorded(s).at = work.at
<1>1. work.todo[idx] \in Transfers /\ Len(work.done) \in Nat /\ Len(work.todo) \in Nat
  BY ElementOfSeq, LenProperties DEF WorkTypes, idx
<1>2. [of |-> work.todo[idx], st |-> s] \in Result
  BY <1>1 DEF Result
<1>3. Recorded(s).done = Append(work.done, [of |-> work.todo[idx], st |-> s])
  BY DEF Recorded, WorkTypes, idx
<1>4. work.done \in Seq(Result)
  BY DEF WorkTypes
<1>5. /\ Recorded(s).done \in Seq(Result)
      /\ Len(Recorded(s).done) = idx
      /\ \A i \in 1..Len(work.done) : Recorded(s).done[i] = work.done[i]
      /\ Recorded(s).done[idx] = [of |-> work.todo[idx], st |-> s]
  BY <1>2, <1>3, <1>4, AppendProperties DEF idx
<1> QED
  BY <1>1, <1>3, <1>5 DEF Recorded, WorkTypes, idx

\* One more result: all succeed still, or not any more.
LEMMA StillAllCompleted ==
    ASSUME WorkTypes, NEW s \in Statuses, Len(work.done) < Len(work.todo)
    PROVE  Promise!AllCompleted(Recorded(s).done)
              <=> Promise!AllCompleted(work.done) /\ s = "Completed"
<1> DEFINE d == Recorded(s).done
           n == Len(work.done)
<1>1. n \in Nat
  BY LenProperties DEF WorkTypes
<1>2. Len(d) = n + 1 /\ (\A i \in 1..n : d[i] = work.done[i]) /\ d[n + 1].st = s
  BY Recording DEF idx
<1> HIDE DEF d
<1>3. 1..(n + 1) = 1..n \cup {n + 1}
  BY <1>1
<1>4. (\A i \in 1..Len(d) : d[i].st = "Completed")
         <=> (\A i \in 1..n : work.done[i].st = "Completed") /\ s = "Completed"
  <2> HIDE DEF n
  <2> QED
    BY <1>2, <1>3
<1> QED
  BY <1>4 DEF Promise!AllCompleted, d

---------------------------------------------------------------------------
\* The queue of signals.

NoOver(q) == \A i \in 1..Len(q) : q[i].kind # "over"

\* While the runner works, no list_finished is queued.
LEMMA NoOverYet == RunInv /\ work.at # "over" => inbox \in Seq(Signal) /\ NoOver(inbox)
BY DEF RunInv, WorkTypes, OverIsLast, NoOver

\* Each kind of signal is one, and only list_finished says the run is over.
LEMMA SignalTypes ==
    /\ \A i \in Nat : Started(i) \in Signal /\ Started(i).kind # "over"
    /\ \A i \in Nat, s \in Statuses : Finished(i, s) \in Signal /\ Finished(i, s).kind # "over"
    /\ \A o \in Overalls, d \in Seq(Result) :
            /\ Over(o, d) \in Signal
            /\ Over(o, d).status = o /\ Over(o, d).done = d
BY DEF Started, Finished, Over, Signal

\* Queueing a transfer's signal keeps the queue free of list_finished.
LEMMA Telling ==
    ASSUME NEW q \in Seq(Signal), NoOver(q), NEW m \in Signal, m.kind # "over"
    PROVE  Append(q, m) \in Seq(Signal) /\ NoOver(Append(q, m))
<1>1. Len(q) \in Nat
  BY LenProperties
<1>2. 1..(Len(q) + 1) = 1..Len(q) \cup {Len(q) + 1}
  BY <1>1
<1> QED
  BY <1>2, SendKeepsOrder DEF NoOver

\* Queueing list_finished as the runner leaves its loop makes it the last signal,
\* and it tells what the runner recorded.
LEMMA TellingOver ==
    ASSUME NEW q \in Seq(Signal), NoOver(q), NEW o \in Overalls, NEW d \in Seq(Result),
           inbox' = Append(q, Over(o, d)),
           work'.at = "over", work'.overall = o, work'.done = d
    PROVE  inbox' \in Seq(Signal) /\ OverIsLast'
<1>1. Len(q) \in Nat
  BY LenProperties
<1>2. 1..(Len(q) + 1) = 1..Len(q) \cup {Len(q) + 1}
  BY <1>1
<1>3. Over(o, d) \in Signal /\ Over(o, d).status = o /\ Over(o, d).done = d
  BY SignalTypes
<1> DEFINE m == Over(o, d)
<1> HIDE DEF m
<1>4. /\ inbox' \in Seq(Signal) /\ Len(inbox') = Len(q) + 1
      /\ \A i \in 1..Len(q) : inbox'[i] = q[i]
      /\ inbox'[Len(q) + 1] = m
  BY <1>3, SendKeepsOrder DEF m
<1>5. m.status = o /\ m.done = d
  BY <1>3 DEF m
<1> QED
  BY <1>2, <1>4, <1>5 DEF NoOver, OverIsLast

\* Receiving one keeps list_finished the last.
LEMMA Receiving ==
    ASSUME RunInv, inbox # <<>>, inbox' = Tail(inbox), UNCHANGED work
    PROVE  inbox' \in Seq(Signal) /\ OverIsLast'
<1>1. inbox \in Seq(Signal) /\ OverIsLast
  BY DEF RunInv, WorkTypes
<1> DEFINE q == Tail(inbox)
           n == Len(inbox)
<1>2. /\ n \in Nat \ {0} /\ q \in Seq(Signal) /\ Len(q) = n - 1
      /\ \A i \in 1..Len(q) : q[i] = inbox[i + 1]
  BY <1>1, ReceiveKeepsOrder
<1>3. \A i \in 1..n : inbox[i].kind = "over" =>
        /\ i = n /\ work.at = "over"
        /\ inbox[i].status = work.overall /\ inbox[i].done = work.done
  BY <1>1 DEF OverIsLast
<1>4. inbox' = q /\ work' = work
  OBVIOUS
<1> HIDE DEF q, n
<1>5. \A i \in 1..Len(q) : q[i].kind = "over" =>
        /\ i = Len(q) /\ work.at = "over"
        /\ q[i].status = work.overall /\ q[i].done = work.done
  <2> SUFFICES ASSUME NEW i \in 1..(n - 1), q[i].kind = "over"
               PROVE  /\ i = n - 1 /\ work.at = "over"
                      /\ q[i].status = work.overall /\ q[i].done = work.done
    BY <1>2
  <2>1. i + 1 \in 1..n /\ q[i] = inbox[i + 1]
    BY <1>2
  <2> QED
    BY <1>2, <1>3, <2>1
<1> QED
  BY <1>2, <1>4, <1>5 DEF OverIsLast

---------------------------------------------------------------------------
\* The loop.

\* After a result that is not aborted on, the loop's facts hold again.
LEMMA AfterResult ==
    ASSUME RunInv, work.at \in {"top", "rsync"}, Len(work.done) < Len(work.todo),
           NEW s \in Statuses
    PROVE  LET w == Recorded(s)
           IN  /\ w.overall = IF Promise!AllCompleted(w.done) THEN "completed" ELSE "partial"
               /\ s = "Completed" \/ work.policy # "abort" => ~Promise!Aborts(w)
               /\ s # "Completed" /\ work.policy = "abort" => Promise!Aborts(w)
               /\ Len(w.done) <= Len(w.todo)
               /\ w.todo = work.todo /\ w.policy = work.policy /\ w.done \in Seq(Result)
<1> DEFINE w == Recorded(s)
<1>1. WorkTypes /\ work.overall = IF Promise!AllCompleted(work.done) THEN "completed" ELSE "partial"
  BY DEF RunInv, LoopStatus
<1>2. /\ Promise!AllCompleted(w.done) <=> Promise!AllCompleted(work.done) /\ s = "Completed"
      /\ w.overall = IF s = "Completed" THEN work.overall ELSE "partial"
  BY <1>1, StillAllCompleted, Recording
<1>3. /\ w.todo = work.todo /\ w.policy = work.policy /\ w.done \in Seq(Result)
      /\ Len(w.done) = idx /\ idx <= Len(w.todo) /\ w.done[idx].st = s
  BY <1>1, Recording
<1>4. idx \in Nat \ {0}
  BY <1>1, LenProperties DEF WorkTypes, idx
<1> HIDE DEF w
<1>5. w.done # <<>>
  BY <1>3, <1>4, EmptySeq
<1>6. Promise!Aborts(w) <=> work.policy = "abort" /\ s # "Completed"
  BY <1>3, <1>5 DEF Promise!Aborts
<1> QED
  BY <1>1, <1>2, <1>3, <1>6 DEF w

---------------------------------------------------------------------------
\* The user's edits keep the list a list.

\* The bounded lists of the runs are sequences of transfers.
LEMMA ListsAreSeqs == \A l \in Lists : l \in Seq(Transfers)
<1>1. \A l \in Lists : \E n \in Nat : l \in [1..n -> Transfers]
  BY MaxLenAssumption DEF Lists, BoundedSeq, SeqOf
<1> QED
  BY <1>1, SeqDef

\* Removing a transfer leaves a sequence of transfers.
LEMMA RemoveKeepsSeq ==
    ASSUME NEW l \in Seq(Transfers), NEW i \in 1..Len(l)
    PROVE  RemoveAt(l, i) \in Seq(Transfers)
<1>1. Len(l) \in Nat /\ \A k \in 1..Len(l) : l[k] \in Transfers
  BY LenProperties, ElementOfSeq
<1>2. SubSeq(l, 1, i - 1) \in Seq(Transfers)
  <2>1. 1 \in Int /\ i - 1 \in Int /\ \A k \in 1..(i - 1) : l[k] \in Transfers
    BY <1>1
  <2> QED
    BY <2>1, SubSeqProperties
<1>3. SubSeq(l, i + 1, Len(l)) \in Seq(Transfers)
  <2>1. i + 1 \in Int /\ Len(l) \in Int /\ \A k \in (i + 1)..Len(l) : l[k] \in Transfers
    BY <1>1
  <2> QED
    BY <2>1, SubSeqProperties
<1> QED
  BY <1>2, <1>3, ConcatProperties DEF RemoveAt

\* What the user, and the signals but the last, leave alone.
LEMMA InvKept ==
    ASSUME RunInv, list' \in Seq(Transfers), policy' \in {"continue", "abort"},
           UNCHANGED <<registered, work, stop, inbox>>
    PROVE  RunInv'
<1>1. UNCHANGED RunAsPromised
  BY DEF RunAsPromised, Asked
<1>2. WorkTypes' /\ GoneWhenUnregistered' /\ OverIsLast' /\ LoopStatus'
  BY DEF RunInv, WorkTypes, GoneWhenUnregistered, OverIsLast, LoopStatus
<1>3. OverStatus'
  BY <1>1 DEF RunInv, OverStatus
<1> QED
  BY <1>2, <1>3 DEF RunInv

\* A runner that leaves the loop registered, with a status its results allow.
LEMMA ConcludeKept ==
    ASSUME RunInv, work.at \in {"top", "rsync"}, registered, UNCHANGED <<list, policy, registered, stop>>,
           NEW q \in Seq(Signal), NoOver(q), NEW w, NEW o \in Overalls,
           w.done \in Seq(Result), w.todo = work.todo, w.policy = work.policy,
           work' = [at |-> "over", todo |-> w.todo, policy |-> w.policy, done |-> w.done, overall |-> o],
           inbox' = Append(q, Over(o, w.done)),
           o \in Promise!Verdicts([st |-> "running", all |-> w.todo, done |-> w.done,
                                   policy |-> w.policy, stop |-> Asked])
    PROVE  RunInv'
<1>1. inbox' \in Seq(Signal) /\ OverIsLast'
  BY TellingOver
<1>2. WorkTypes' /\ GoneWhenUnregistered' /\ LoopStatus'
  BY <1>1 DEF RunInv, WorkTypes, GoneWhenUnregistered, LoopStatus
<1>3. OverStatus'
  BY DEF OverStatus, RunAsPromised, Asked
<1> QED
  BY <1>1, <1>2, <1>3 DEF RunInv

\* A runner that stays in the loop.
LEMMA LoopKept ==
    ASSUME RunInv, work.at \in {"top", "rsync"}, UNCHANGED <<list, policy, registered, stop>>,
           NEW w, work' = w, w.at \in {"top", "rsync"},
           w \in [at : {"none", "top", "rsync", "over"}, todo : Seq(Transfers),
                  policy : {"continue", "abort"}, done : Seq(Result), overall : Overalls],
           inbox' \in Seq(Signal), NoOver(inbox'), registered,
           w.overall = IF Promise!AllCompleted(w.done) THEN "completed" ELSE "partial",
           ~Promise!Aborts(w), Len(w.done) <= Len(w.todo),
           w.at = "rsync" => Len(w.done) < Len(w.todo)
    PROVE  RunInv'
<1>1. WorkTypes'
  BY DEF RunInv, WorkTypes
<1>2. GoneWhenUnregistered' /\ OverIsLast' /\ LoopStatus' /\ OverStatus'
  BY DEF GoneWhenUnregistered, OverIsLast, LoopStatus, OverStatus, NoOver
<1> QED
  BY <1>1, <1>2 DEF RunInv

---------------------------------------------------------------------------
\* The invariant.

\* The invariant holds when the program opens.
LEMMA InitRunInv == Init => RunInv
<1> SUFFICES ASSUME Init PROVE RunInv
  OBVIOUS
<1>1. \A S : <<>> \in Seq(S) /\ Len(<<>>) = 0
  BY EmptySeq
<1>2. work = [at |-> "none", todo |-> <<>>, policy |-> "continue", done |-> <<>>,
              overall |-> "completed"]
  BY DEF Init, Parked
<1>3. WorkTypes
  <2>1. inbox \in Seq(Signal) /\ list \in Seq(Transfers)
    BY <1>1 DEF Init
  <2>2. work \in [at : {"none", "top", "rsync", "over"}, todo : Seq(Transfers),
                  policy : {"continue", "abort"}, done : Seq(Result), overall : Overalls]
    BY <1>1, <1>2 DEF Overalls
  <2> QED
    BY <2>1, <2>2 DEF Init, WorkTypes
<1>4. GoneWhenUnregistered
  BY DEF Init, GoneWhenUnregistered
<1>5. OverIsLast
  BY <1>1 DEF Init, OverIsLast
<1>6. LoopStatus /\ OverStatus
  BY <1>2 DEF LoopStatus, OverStatus
<1> QED
  BY <1>3, <1>4, <1>5, <1>6 DEF RunInv

\* What a runner in its loop can rely on.
LEMMA InLoop ==
    ASSUME RunInv, work.at \in {"top", "rsync"}
    PROVE  /\ registered /\ WorkTypes
           /\ work \in [at : {"none", "top", "rsync", "over"}, todo : Seq(Transfers),
                        policy : {"continue", "abort"}, done : Seq(Result), overall : Overalls]
           /\ Len(work.done) \in Nat /\ Len(work.todo) \in Nat /\ idx \in Nat
           /\ work.overall = IF Promise!AllCompleted(work.done) THEN "completed" ELSE "partial"
           /\ ~Promise!Aborts(work) /\ Len(work.done) <= Len(work.todo)
           /\ inbox \in Seq(Signal) /\ NoOver(inbox)
<1>1. registered
  BY DEF RunInv, GoneWhenUnregistered, Parked
<1> QED
  BY <1>1, NoOverYet, LenProperties DEF RunInv, WorkTypes, LoopStatus, idx

\* Leaving the loop at its top keeps the invariant.
LEMMA LeaveLoopStep == RunInv /\ LeaveLoop => RunInv'
<1> SUFFICES ASSUME RunInv, LeaveLoop PROVE RunInv'
  OBVIOUS
<1>1. work.at \in {"top", "rsync"} /\ UNCHANGED <<list, policy, registered, stop>>
  BY DEF LeaveLoop, panel
<1>2. PICK o \in Overalls :
        /\ Conclude(work, o)
        /\ o \in Promise!Verdicts([st |-> "running", all |-> work.todo, done |-> work.done,
                                   policy |-> work.policy, stop |-> Asked])
  <2>1. CASE idx > Len(work.todo) /\ Conclude(work, work.overall)
    <3>1. Len(work.done) = Len(work.todo)
      BY <1>1, <2>1, InLoop DEF idx
    <3> QED
      BY <1>1, <2>1, <3>1, InLoop DEF Overalls, Promise!Verdicts, Asked, Promise!Finished, Promise!Aborts
  <2>2. CASE stop /\ Conclude(work, "aborted")
    BY <2>2 DEF Overalls, Promise!Verdicts, Asked
  <2> QED
    BY <2>1, <2>2 DEF LeaveLoop
<1>3. work' = [at |-> "over", todo |-> work.todo, policy |-> work.policy, done |-> work.done, overall |-> o]
      /\ inbox' = Append(inbox, Over(o, work.done))
  BY <1>1, <1>2, InLoop DEF Conclude
<1> QED
  BY <1>1, <1>2, <1>3, InLoop, ConcludeKept

\* Starting a transfer keeps the invariant.
LEMMA StartTransferStep == RunInv /\ StartTransfer => RunInv'
<1> SUFFICES ASSUME RunInv, StartTransfer PROVE RunInv'
  OBVIOUS
<1>1. work.at \in {"top", "rsync"} /\ UNCHANGED <<list, policy, registered, stop>>
  BY DEF StartTransfer, panel
<1>2. inbox' \in Seq(Signal) /\ NoOver(inbox')
  BY <1>1, InLoop, SignalTypes, Telling DEF StartTransfer
<1> DEFINE w == [work EXCEPT !.at = "rsync"]
<1>3. /\ work' = w /\ w.at = "rsync" /\ w.done = work.done /\ w.todo = work.todo
      /\ w.policy = work.policy /\ w.overall = work.overall
      /\ w \in [at : {"none", "top", "rsync", "over"}, todo : Seq(Transfers),
                policy : {"continue", "abort"}, done : Seq(Result), overall : Overalls]
  BY <1>1, InLoop DEF StartTransfer
<1>4. Len(work.done) < Len(work.todo)
  BY <1>1, InLoop DEF StartTransfer, idx
<1> HIDE DEF w
<1>5. ~Promise!Aborts(w)
  BY <1>1, <1>3, InLoop DEF Promise!Aborts
<1> QED
  BY <1>1, <1>2, <1>3, <1>4, <1>5, InLoop, LoopKept

\* A stop keeps the invariant.
LEMMA StopStep == RunInv /\ Stop => RunInv'
<1> SUFFICES ASSUME RunInv, Stop PROVE RunInv'
  OBVIOUS
<1> QED
  BY DEF Stop, RunInv, WorkTypes, GoneWhenUnregistered, OverIsLast, LoopStatus, OverStatus, panel

\* A result that ends the run, and one that does not.
LEMMA ResultStep ==
    ASSUME RunInv, work.at \in {"top", "rsync"}, Len(work.done) < Len(work.todo),
           UNCHANGED <<list, policy, registered, stop>>,
           NEW s \in Statuses, NEW q \in Seq(Signal), NoOver(q)
    PROVE  /\ /\ work' = [Recorded(s) EXCEPT !.at = "over", !.overall = "aborted"]
              /\ inbox' = Append(q, Over("aborted", Recorded(s).done))
              /\ stop \/ (s # "Completed" /\ work.policy = "abort")
              => RunInv'
           /\ /\ work' = [Recorded(s) EXCEPT !.at = "top"] /\ inbox' = q
              /\ s = "Completed" \/ work.policy # "abort"
              => RunInv'
<1> DEFINE w == Recorded(s)
<1>1. registered
  BY InLoop
<1>2. /\ w \in [at : {"none", "top", "rsync", "over"}, todo : Seq(Transfers),
                policy : {"continue", "abort"}, done : Seq(Result), overall : Overalls]
  BY InLoop, Recording DEF Recorded, Overalls
<1>3. /\ w.overall = IF Promise!AllCompleted(w.done) THEN "completed" ELSE "partial"
      /\ s = "Completed" \/ work.policy # "abort" => ~Promise!Aborts(w)
      /\ s # "Completed" /\ work.policy = "abort" => Promise!Aborts(w)
      /\ Len(w.done) <= Len(w.todo)
      /\ w.todo = work.todo /\ w.policy = work.policy /\ w.done \in Seq(Result)
  BY AfterResult
<1> HIDE DEF w
<1>4. ASSUME work' = [w EXCEPT !.at = "over", !.overall = "aborted"],
             inbox' = Append(q, Over("aborted", w.done)),
             stop \/ (s # "Completed" /\ work.policy = "abort")
      PROVE  RunInv'
  <2>1. "aborted" \in Promise!Verdicts([st |-> "running", all |-> w.todo, done |-> w.done,
                                        policy |-> w.policy, stop |-> Asked])
    BY <1>3, <1>4 DEF Promise!Verdicts, Asked, Promise!Aborts
  <2>2. work' = [at |-> "over", todo |-> w.todo, policy |-> w.policy, done |-> w.done,
                 overall |-> "aborted"]
    BY <1>2, <1>4
  <2>3. "aborted" \in Overalls
    BY DEF Overalls
  <2> QED
    BY <1>1, <1>3, <1>4, <2>1, <2>2, <2>3, ConcludeKept
<1>5. ASSUME work' = [w EXCEPT !.at = "top"], inbox' = q, s = "Completed" \/ work.policy # "abort"
      PROVE  RunInv'
  <2> DEFINE v == [w EXCEPT !.at = "top"]
  <2>1. /\ v.at = "top" /\ v.done = w.done /\ v.todo = w.todo /\ v.policy = w.policy
        /\ v.overall = w.overall /\ work' = v
        /\ v \in [at : {"none", "top", "rsync", "over"}, todo : Seq(Transfers),
                  policy : {"continue", "abort"}, done : Seq(Result), overall : Overalls]
    BY <1>2, <1>5
  <2> HIDE DEF v
  <2>2. ~Promise!Aborts(v)
    BY <1>3, <1>5, <2>1 DEF Promise!Aborts
  <2> QED
    BY <1>1, <1>3, <1>5, <2>1, <2>2, LoopKept
<1> QED
  BY <1>4, <1>5 DEF w

\* Recording a transfer that does not validate keeps the invariant.
LEMMA RejectStep == RunInv /\ Reject => RunInv'
<1> SUFFICES ASSUME RunInv, Reject PROVE RunInv'
  OBVIOUS
<1>1. /\ work.at \in {"top", "rsync"} /\ UNCHANGED <<list, policy, registered, stop>>
      /\ "rejected" \in Statuses
  BY DEF Reject, panel, Statuses
<1>2. Len(work.done) < Len(work.todo) /\ inbox \in Seq(Signal) /\ NoOver(inbox)
  BY <1>1, InLoop DEF Reject, idx
<1>3. CASE work.policy = "abort"
  <2>1. /\ work' = [Recorded("rejected") EXCEPT !.at = "over", !.overall = "aborted"]
        /\ inbox' = Append(inbox, Over("aborted", Recorded("rejected").done))
    BY <1>3 DEF Reject, Conclude
  <2> QED
    BY <1>1, <1>2, <1>3, <2>1, ResultStep
<1>4. CASE work.policy # "abort"
  <2>1. work' = [Recorded("rejected") EXCEPT !.at = "top"]
    <3>1. work.at = "top" /\ work' = Recorded("rejected")
      BY <1>4 DEF Reject
    <3> QED
      BY <3>1, <1>1, InLoop DEF Recorded
  <2> QED
    BY <1>1, <1>2, <1>4, <2>1, ResultStep DEF Reject
<1> QED
  BY <1>3, <1>4

\* The end of a transfer keeps the invariant, whether the loop goes on or not.
LEMMA TransferEndsStep ==
    ASSUME RunInv, NEW s \in Reports, TransferEnds(s)
    PROVE  RunInv'
<1>1. /\ work.at \in {"top", "rsync"} /\ UNCHANGED <<list, policy, registered, stop>>
      /\ s \in Statuses
      /\ IsFailure(s) <=> s # "Completed"
  BY ReportsAssumption DEF TransferEnds, panel, Statuses, IsFailure
<1>2. Len(work.done) < Len(work.todo)
  BY DEF TransferEnds, RunInv, LoopStatus
<1> DEFINE told == Append(inbox, Finished(idx, s))
<1>3. told \in Seq(Signal) /\ NoOver(told)
  BY <1>1, InLoop, SignalTypes, Telling
<1>4. CASE stop \/ (IsFailure(s) /\ work.policy = "abort")
  <2>1. /\ work' = [Recorded(s) EXCEPT !.at = "over", !.overall = "aborted"]
        /\ inbox' = Append(told, Over("aborted", Recorded(s).done))
    <3> DEFINE w == [Recorded(s) EXCEPT !.at = "top"]
    <3>1. /\ work' = [w EXCEPT !.at = "over", !.overall = "aborted"]
          /\ inbox' = Append(told, Over("aborted", w.done))
      BY <1>4, Zenon DEF TransferEnds
    <3> DEFINE r == Recorded(s)
    <3>2. r \in [at : {"none", "top", "rsync", "over"}, todo : Seq(Transfers),
                 policy : {"continue", "abort"}, done : Seq(Result), overall : Overalls]
      BY <1>1, <1>2, InLoop, Recording DEF Recorded, Overalls
    <3> HIDE DEF r
    <3>3. w.done = r.done /\ [w EXCEPT !.at = "over", !.overall = "aborted"]
                              = [r EXCEPT !.at = "over", !.overall = "aborted"]
      BY <3>2 DEF r
    <3> QED
      BY <3>1, <3>3 DEF r
  <2> HIDE DEF told
  <2> QED
    BY <1>1, <1>2, <1>3, <1>4, <2>1, ResultStep
<1>5. CASE ~(stop \/ (IsFailure(s) /\ work.policy = "abort"))
  <2>1. work' = [Recorded(s) EXCEPT !.at = "top"] /\ inbox' = told
    BY <1>5 DEF TransferEnds
  <2> HIDE DEF told
  <2> QED
    BY <1>1, <1>2, <1>3, <1>5, <2>1, ResultStep
<1> QED
  BY <1>4, <1>5

\* Showing a transfer's signal keeps the invariant.
LEMMA SignalStep == RunInv /\ (TransferStarted \/ TransferFinished) => RunInv'
<1> SUFFICES ASSUME RunInv, TransferStarted \/ TransferFinished PROVE RunInv'
  OBVIOUS
<1>1. inbox # <<>> /\ inbox' = Tail(inbox) /\ UNCHANGED <<list, policy, registered, work, stop>>
  BY DEF TransferStarted, TransferFinished, panel
<1>2. inbox' \in Seq(Signal) /\ OverIsLast'
  BY <1>1, Receiving
<1>3. registered
  BY <1>1 DEF RunInv, GoneWhenUnregistered
<1>4. UNCHANGED RunAsPromised
  BY <1>1 DEF RunAsPromised, Asked
<1>5. WorkTypes' /\ GoneWhenUnregistered' /\ LoopStatus'
  BY <1>1, <1>2, <1>3 DEF RunInv, WorkTypes, GoneWhenUnregistered, LoopStatus
<1>6. OverStatus'
  BY <1>1, <1>4 DEF RunInv, OverStatus
<1> QED
  BY <1>2, <1>5, <1>6 DEF RunInv

\* list_finished, when it is received, is the last signal there is.
LEMMA LastSignal ==
    ASSUME RunInv, ListFinished
    PROVE  /\ registered /\ work.at = "over" /\ Tail(inbox) = <<>>
           /\ Head(inbox).status = work.overall /\ Head(inbox).done = work.done
<1>1. inbox # <<>> /\ Head(inbox).kind = "over" /\ inbox \in Seq(Signal)
  BY DEF ListFinished, RunInv, WorkTypes
<1>2. registered
  BY <1>1 DEF RunInv, GoneWhenUnregistered
<1>3. /\ Head(inbox) = inbox[1] /\ Len(inbox) \in Nat \ {0}
      /\ Tail(inbox) \in Seq(Signal) /\ Len(Tail(inbox)) = Len(inbox) - 1
  BY <1>1, ReceiveKeepsOrder
<1>4. /\ 1 = Len(inbox) /\ work.at = "over"
      /\ inbox[1].status = work.overall /\ inbox[1].done = work.done
  <2>1. 1 \in 1..Len(inbox) /\ inbox[1].kind = "over"
    <3>1. Len(inbox) \in Nat \ {0} /\ inbox[1].kind = "over"
      BY <1>1, <1>3
    <3> QED
      BY <3>1
  <2> QED
    BY <2>1 DEF RunInv, OverIsLast
<1>5. Tail(inbox) = <<>>
  <2> DEFINE q == Tail(inbox)
             n == Len(inbox)
  <2>1. q \in Seq(Signal) /\ Len(q) = n - 1
    BY <1>3
  <2>2. n = 1
    BY <1>4
  <2> HIDE DEF q, n
  <2>3. Len(q) = 0
    BY <2>1, <2>2
  <2>4. q = <<>>
    BY <2>1, <2>3, EmptySeq
  <2> QED
    BY <2>4 DEF q
<1> QED
  BY <1>2, <1>3, <1>4, <1>5

\* Recording the run and dropping its runner keeps the invariant.
LEMMA ListFinishedStep == RunInv /\ ListFinished => RunInv'
<1> SUFFICES ASSUME RunInv, ListFinished PROVE RunInv'
  OBVIOUS
<1>1. /\ ~registered' /\ registered' \in BOOLEAN /\ ~stop' /\ stop' \in BOOLEAN
      /\ UNCHANGED <<list, policy>> /\ work' = Parked /\ inbox' = <<>>
  BY LastSignal DEF ListFinished
<1>2. \A S : <<>> \in Seq(S) /\ Len(<<>>) = 0
  BY EmptySeq
<1>3. Parked \in [at : {"none", "top", "rsync", "over"}, todo : Seq(Transfers),
                  policy : {"continue", "abort"}, done : Seq(Result), overall : Overalls]
      /\ Parked.at = "none"
  BY <1>2 DEF Parked, Overalls
<1>4. WorkTypes'
  <2>1. inbox' \in Seq(Signal) /\ list' \in Seq(Transfers) /\ policy' \in {"continue", "abort"}
    BY <1>1, <1>2 DEF WorkTypes, RunInv
  <2>2. work' \in [at : {"none", "top", "rsync", "over"}, todo : Seq(Transfers),
                   policy : {"continue", "abort"}, done : Seq(Result), overall : Overalls]
    BY <1>1, <1>3
  <2> QED
    BY <1>1, <2>1, <2>2 DEF WorkTypes
<1>5. GoneWhenUnregistered'
  BY <1>1 DEF GoneWhenUnregistered
<1>6. OverIsLast'
  BY <1>1, <1>2 DEF OverIsLast
<1>7. LoopStatus' /\ OverStatus'
  <2>1. work'.at = "none"
    BY <1>1, <1>3
  <2> QED
    BY <2>1 DEF LoopStatus, OverStatus
<1> QED
  BY <1>4, <1>5, <1>6, <1>7 DEF RunInv

\* Starting a run keeps the invariant.
LEMMA BeginStep == RunInv /\ Begin => RunInv'
<1> SUFFICES ASSUME RunInv, Begin PROVE RunInv'
  OBVIOUS
<1>1. \A S : <<>> \in Seq(S) /\ Len(<<>>) = 0
  BY EmptySeq
<1>2. /\ registered' = TRUE /\ stop' = FALSE /\ UNCHANGED <<list, policy>> /\ inbox' = <<>>
      /\ work' = [at |-> "top", todo |-> list, policy |-> policy, done |-> <<>>,
                  overall |-> "completed"]
  BY DEF Begin, panel, Parked, RunInv, GoneWhenUnregistered
<1>3. Len(list) \in Nat /\ list \in Seq(Transfers) /\ policy \in {"continue", "abort"}
  BY LenProperties DEF RunInv, WorkTypes
<1>4. WorkTypes'
  <2>1. inbox' \in Seq(Signal) /\ list' \in Seq(Transfers)
    BY <1>1, <1>2, <1>3
  <2>2. work' \in [at : {"none", "top", "rsync", "over"}, todo : Seq(Transfers),
                   policy : {"continue", "abort"}, done : Seq(Result), overall : Overalls]
    BY <1>1, <1>2, <1>3 DEF Overalls
  <2> QED
    BY <1>2, <1>3, <2>1, <2>2 DEF WorkTypes
<1>5. GoneWhenUnregistered' /\ OverIsLast' /\ OverStatus'
  BY <1>1, <1>2 DEF GoneWhenUnregistered, OverIsLast, OverStatus
<1>6. LoopStatus'
  BY <1>1, <1>2, <1>3 DEF LoopStatus, Promise!AllCompleted, Promise!Aborts
<1> QED
  BY <1>4, <1>5, <1>6 DEF RunInv

\* Every step keeps the invariant.
LEMMA RunInvStep == RunInv /\ [Next]_vars => RunInv'
<1> SUFFICES ASSUME RunInv, [Next]_vars PROVE RunInv'
  OBVIOUS
<1>1. list \in Seq(Transfers) /\ policy \in {"continue", "abort"} /\ <<>> \in Seq(Transfers)
  BY EmptySeq DEF RunInv, WorkTypes
<1>2. CASE Delete \/ OpenDetail \/ CloseDetail \/ UNCHANGED vars
  BY <1>1, <1>2, InvKept DEF Delete, OpenDetail, CloseDetail, vars, panel
<1>3. ASSUME NEW l \in Lists, NEW p \in {"continue", "abort"}, Edit(l, p)
      PROVE  RunInv'
  BY <1>3, ListsAreSeqs, InvKept DEF Edit
<1>4. ASSUME NEW t \in Transfers, AddTransfer(t)
      PROVE  RunInv'
  BY <1>1, <1>4, ListsAreSeqs, InvKept DEF AddTransfer
<1>5. ASSUME NEW i \in 1..MaxLen, RemoveTransfer(i)
      PROVE  RunInv'
  <2>1. i \in 1..Len(list)
    BY <1>1, <1>5, LenProperties DEF RemoveTransfer
  <2> QED
    BY <1>1, <1>5, <2>1, RemoveKeepsSeq, InvKept DEF RemoveTransfer
<1> QED
  BY <1>2, <1>3, <1>4, <1>5, BeginStep, LeaveLoopStep, RejectStep, StartTransferStep, StopStep,
     TransferEndsStep, SignalStep, ListFinishedStep
     DEF Next, User, Runner, Signals

\* The invariant holds in every state.
LEMMA RunInvHolds == Spec => []RunInv
BY InitRunInv, RunInvStep, PTL DEF Spec

---------------------------------------------------------------------------
\* The refinement: what each step is to ListRun.

\* Starting a runner is ListRun's Begin.
LEMMA BeginIsBegin == RunInv /\ Begin => Promise!Begin
BY DEF Begin, Promise!Begin, Promise!NoRun, RunAsPromised, Asked, Parked, panel

\* The fields of a run's record, and what changing one of them gives.
LEMMA RunFields ==
    ASSUME NEW a, NEW d, NEW p, NEW t, NEW r,
           r = [st |-> "running", all |-> a, done |-> d, policy |-> p, stop |-> t]
    PROVE  /\ r.st = "running" /\ r.all = a /\ r.done = d /\ r.policy = p /\ r.stop = t
           /\ \A x : [r EXCEPT !.done = x]
                        = [st |-> "running", all |-> a, done |-> x, policy |-> p, stop |-> t]
           /\ [r EXCEPT !.stop = "asked"]
                        = [st |-> "running", all |-> a, done |-> d, policy |-> p, stop |-> "asked"]
OBVIOUS

\* Recording one more result inside the loop is ListRun's Do.
LEMMA ResultIsDo ==
    ASSUME RunInv, work.at \in {"top", "rsync"}, Len(work.done) < Len(work.todo),
           UNCHANGED <<here, list, policy, log, registered, stop>>, NEW s \in Statuses,
           work'.todo = work.todo, work'.policy = work.policy,
           work'.done = Recorded(s).done
    PROVE  Promise!Do(s)
<1>1. registered
  BY InLoop
<1>2. work'.done = Append(work.done, [of |-> work.todo[Len(work.done) + 1], st |-> s])
  BY InLoop, Recording DEF idx
<1>3. RunAsPromised = [st |-> "running", all |-> work.todo, done |-> work.done,
                       policy |-> work.policy, stop |-> Asked]
  BY <1>1 DEF RunAsPromised, Asked
<1>4. RunAsPromised' = [st |-> "running", all |-> work'.todo, done |-> work'.done,
                        policy |-> work'.policy, stop |-> Asked']
  BY <1>1 DEF RunAsPromised, Asked
<1>5. RunAsPromised' = [RunAsPromised EXCEPT
                !.done = Append(@, [of |-> RunAsPromised.all[Len(@) + 1], st |-> s])]
  <2> DEFINE e == [of |-> work.todo[Len(work.done) + 1], st |-> s]
             d == Append(work.done, e)
  <2>1. work'.done = d
    BY <1>2
  <2>2. RunAsPromised.done = work.done /\ RunAsPromised.all = work.todo
    BY <1>3
  <2>3. [RunAsPromised EXCEPT !.done = Append(@, [of |-> RunAsPromised.all[Len(@) + 1], st |-> s])]
          = [RunAsPromised EXCEPT !.done = d]
    BY <2>2
  <2> HIDE DEF d
  <2>4. RunAsPromised' = [st |-> "running", all |-> work.todo, done |-> d,
                          policy |-> work.policy, stop |-> Asked]
    <3>1. Asked' = Asked
      BY DEF Asked
    <3> QED
      BY <1>4, <2>1, <3>1
  <2>5. [RunAsPromised EXCEPT !.done = d]
          = [st |-> "running", all |-> work.todo, done |-> d,
             policy |-> work.policy, stop |-> Asked]
    BY <1>3, RunFields
  <2> QED
    BY <2>3, <2>4, <2>5
<1>6. RunAsPromised # Promise!NoRun /\ ~Promise!Finished(RunAsPromised)
  <2>1. Len(work.done) # Len(work.todo)
    BY InLoop
  <2> QED
    BY <1>3, <2>1 DEF Promise!NoRun, Promise!Finished
<1>7. ~Promise!Aborts(RunAsPromised)
  BY <1>3, InLoop DEF Promise!Aborts
<1> QED
  BY <1>5, <1>6, <1>7 DEF Promise!Do

\* A rejected transfer is done with the result "rejected".
LEMMA RejectIsDo == RunInv /\ Reject => Promise!Do("rejected")
<1> SUFFICES ASSUME RunInv, Reject PROVE Promise!Do("rejected")
  OBVIOUS
<1>1. /\ work.at \in {"top", "rsync"} /\ "rejected" \in Statuses
      /\ UNCHANGED <<here, list, policy, log, registered, stop>>
  BY DEF Reject, panel, Statuses
<1>2. Len(work.done) < Len(work.todo)
  BY <1>1, InLoop DEF Reject, idx
<1>3. /\ work'.todo = work.todo /\ work'.policy = work.policy
      /\ work'.done = Recorded("rejected").done
  BY <1>1, InLoop DEF Reject, Conclude, Recorded
<1> QED
  BY <1>1, <1>2, <1>3, ResultIsDo

\* A transfer that ends is done with the status rsync gave it.
LEMMA TransferEndsIsDo ==
    ASSUME RunInv, NEW s \in Reports, TransferEnds(s)
    PROVE  Promise!Do(s)
<1>1. /\ work.at \in {"top", "rsync"} /\ s \in Statuses
      /\ UNCHANGED <<here, list, policy, log, registered, stop>>
  BY ReportsAssumption DEF TransferEnds, panel, Statuses
<1>2. Len(work.done) < Len(work.todo)
  BY DEF TransferEnds, RunInv, LoopStatus
<1>3. /\ work'.todo = work.todo /\ work'.policy = work.policy
      /\ work'.done = Recorded(s).done
  BY <1>1, InLoop DEF TransferEnds, Recorded
<1> QED
  BY <1>1, <1>2, <1>3, ResultIsDo

\* ScheduledRunner.stop() is ListRun's AskToStop.
LEMMA StopIsAsk == RunInv /\ Stop => Promise!AskToStop
<1> SUFFICES ASSUME RunInv, Stop PROVE Promise!AskToStop
  OBVIOUS
<1>1. registered /\ registered'
  BY InLoop DEF Stop
<1>2. stop' /\ UNCHANGED <<here, list, policy, log, work>>
  BY DEF Stop, panel
<1>3. /\ RunAsPromised = [st |-> "running", all |-> work.todo, done |-> work.done,
                          policy |-> work.policy, stop |-> Asked]
      /\ RunAsPromised' = [st |-> "running", all |-> work.todo, done |-> work.done,
                           policy |-> work.policy, stop |-> "asked"]
  BY <1>1, <1>2 DEF RunAsPromised, Asked, Stop
<1>4. RunAsPromised # Promise!NoRun
  BY <1>3 DEF Promise!NoRun
<1>5. RunAsPromised' = [RunAsPromised EXCEPT !.stop = "asked"]
  BY <1>3, RunFields
<1> QED
  BY <1>2, <1>4, <1>5 DEF Promise!AskToStop

\* _on_list_finished is ListRun's End: the status it records is a verdict.
LEMMA FinishedIsEnd == RunInv /\ ListFinished => Promise!End
<1> SUFFICES ASSUME RunInv, ListFinished PROVE Promise!End
  OBVIOUS
<1>1. /\ registered /\ work.at = "over"
      /\ Head(inbox).status = work.overall /\ Head(inbox).done = work.done
  BY LastSignal
<1>2. work.overall \in Promise!Verdicts(RunAsPromised)
  BY <1>1 DEF RunInv, OverStatus
<1>3. RunAsPromised # Promise!NoRun /\ RunAsPromised' = Promise!NoRun /\ RunAsPromised.done = work.done
  BY <1>1 DEF ListFinished, RunAsPromised, Asked, Promise!NoRun
<1>4. log' = IF here THEN Promise!Newest(<<[status |-> work.overall, done |-> work.done]>> \o log)
             ELSE log
  BY <1>1 DEF ListFinished, AddRun, Promise!Newest
<1>5. UNCHANGED <<here, list, policy>>
  BY DEF ListFinished
<1> QED
  BY <1>2, <1>3, <1>4, <1>5 DEF Promise!End

\* What touches only the list, its policy or its existence is a Change.
LEMMA EditsAreChanges ==
    ASSUME UNCHANGED <<registered, work, stop, log>>, here' => here
    PROVE  Promise!Change
BY DEF Promise!Change, RunAsPromised, Asked

\* Every step is a step of ListRun or leaves its variables alone.
LEMMA PromiseStep == RunInv /\ [Next]_vars => [Promise!Next]_promised
<1> SUFFICES ASSUME RunInv, [Next]_vars PROVE [Promise!Next]_promised
  OBVIOUS
<1>1. CASE Begin
  BY <1>1, BeginIsBegin DEF Promise!Next
<1>2. CASE Delete
  BY <1>2, EditsAreChanges DEF Delete, Promise!Next
<1>3. ASSUME NEW l \in Lists, NEW p \in {"continue", "abort"}, Edit(l, p)
      PROVE  Promise!Next
  BY <1>3, EditsAreChanges DEF Edit, Promise!Next
<1>4. ASSUME NEW t \in Transfers, AddTransfer(t)
      PROVE  Promise!Next
  BY <1>4, EditsAreChanges DEF AddTransfer, Promise!Next
<1>5. ASSUME NEW i \in 1..MaxLen, RemoveTransfer(i)
      PROVE  Promise!Next
  BY <1>5, EditsAreChanges DEF RemoveTransfer, Promise!Next
<1>6. CASE OpenDetail \/ CloseDetail \/ TransferStarted \/ TransferFinished \/ UNCHANGED vars
  <2>1. UNCHANGED <<here, list, policy, log, registered, work, stop>>
    BY <1>6 DEF OpenDetail, CloseDetail, TransferStarted, TransferFinished, vars, panel
  <2>2. UNCHANGED RunAsPromised
    BY <2>1 DEF RunAsPromised, Asked
  <2> QED
    BY <2>1, <2>2 DEF promised
<1>7. CASE LeaveLoop
  <2>1. work'.todo = work.todo /\ work'.done = work.done /\ work'.policy = work.policy
    BY <1>7, InLoop DEF LeaveLoop, Conclude
  <2> QED
    BY <1>7, <2>1 DEF LeaveLoop, panel, promised, RunAsPromised, Asked
<1>8. CASE StartTransfer
  <2>1. work'.todo = work.todo /\ work'.done = work.done /\ work'.policy = work.policy
    BY <1>8, InLoop DEF StartTransfer
  <2> QED
    BY <1>8, <2>1 DEF StartTransfer, panel, promised, RunAsPromised, Asked
<1>9. CASE Reject
  BY <1>9, RejectIsDo DEF Promise!Next, Promise!Statuses
<1>10. ASSUME NEW s \in Reports, TransferEnds(s)
       PROVE  Promise!Next
  BY <1>10, TransferEndsIsDo, ReportsAssumption DEF Promise!Next, Promise!Statuses
<1>11. CASE Stop
  BY <1>11, StopIsAsk DEF Promise!Next
<1>12. CASE ListFinished
  BY <1>12, FinishedIsEnd DEF Promise!Next
<1> QED
  BY <1>1, <1>2, <1>3, <1>4, <1>5, <1>6, <1>7, <1>8, <1>9, <1>10, <1>11, <1>12
     DEF Next, User, Runner, Signals

\* A run of a list, on its thread and with its signals, is a run as ListRun
\* promises it: one pass in order over the list as it was at the start, one
\* result each, and the status those results deserve in the run log.
THEOREM RunImplementsPromise == Spec => RunKeepsPromise
<1>1. Init => Promise!Init
  BY DEF Init, Promise!Init, RunAsPromised, Asked, Promise!NoRun
<1>2. RunInv /\ [Next]_vars => [Promise!Next]_promised
  BY PromiseStep
<1>3. Spec => [][Promise!Next]_promised
  BY <1>2, RunInvHolds, PTL DEF Spec
<1> QED
  BY <1>1, <1>3, PTL DEF Spec, RunKeepsPromise, Promise!Spec, promised

---------------------------------------------------------------------------
\* The rows of the last run: what the panel may show of a run, and why the
\* signals it has not received yet are true of the run.

Entry == [status : Overalls, done : Seq(Result)]

\* A signal tells what the runner w has done, or is doing.
Truthful(m, w) ==
    /\ m.kind = "started" =>
          m.at \in 1..Len(w.done) \/ (w.at = "rsync" /\ m.at = Len(w.done) + 1)
    /\ m.kind = "finished" => m.at \in 1..Len(w.done) /\ m.st = w.done[m.at].st

AllTruthful(q, w) == \A i \in 1..Len(q) : Truthful(q[i], w)

\* The status st of row i is no more than the runner w has done.
ShowsTruly(i, st, w) ==
    \/ st = "Not started"
    \/ st = "Running" /\ (i \in 1..Len(w.done) \/ (w.at = "rsync" /\ i = Len(w.done) + 1))
    \/ i \in 1..Len(w.done) /\ st = w.done[i].st

\* The runner w goes on as v: what it did stays done, and a transfer it was at
\* is still the one it is at, or done.
GoesOn(w, v) ==
    /\ Len(w.done) \in Nat /\ Len(v.done) \in Nat /\ Len(w.done) <= Len(v.done)
    /\ \A i \in 1..Len(w.done) : v.done[i] = w.done[i]
    /\ w.at = "rsync" =>
          (v.at = "rsync" /\ Len(v.done) = Len(w.done)) \/ Len(w.done) < Len(v.done)

RowsShow ==
    here /\ whole =>
        /\ rows \in Seq(Row)
        /\ \A i \in 1..Len(rows) :
              IF registered THEN ShowsTruly(i, rows[i].st, work)
              ELSE rows[i].st = IF i \in DOMAIN log[1].done THEN log[1].done[i].st
                                ELSE "Not started"

RowsInv == log \in Seq(Entry) /\ AllTruthful(inbox, work) /\ RowsShow

\* What is true of a run stays true as it goes on.
LEMMA TruthStays ==
    ASSUME NEW w, NEW v, GoesOn(w, v)
    PROVE  /\ \A m : Truthful(m, w) => Truthful(m, v)
           /\ \A i, st : ShowsTruly(i, st, w) => ShowsTruly(i, st, v)
<1>1. /\ 1..Len(w.done) \subseteq 1..Len(v.done)
      /\ w.at = "rsync" => (v.at = "rsync" /\ Len(v.done) = Len(w.done))
                              \/ Len(w.done) + 1 \in 1..Len(v.done)
      /\ \A i \in 1..Len(w.done) : v.done[i] = w.done[i]
  BY DEF GoesOn
<1>2. \A m : Truthful(m, w) => Truthful(m, v)
  BY <1>1 DEF Truthful
<1>3. \A i, st : ShowsTruly(i, st, w) => ShowsTruly(i, st, v)
  BY <1>1 DEF ShowsTruly
<1> QED
  BY <1>2, <1>3

\* A true signal sent behind true ones.
LEMMA SendTruth ==
    ASSUME NEW q \in Seq(Signal), NEW w, AllTruthful(q, w),
           NEW m \in Signal, Truthful(m, w)
    PROVE  AllTruthful(Append(q, m), w)
<1>1. Len(q) \in Nat
  BY LenProperties
<1>2. 1..(Len(q) + 1) = 1..Len(q) \cup {Len(q) + 1}
  BY <1>1
<1> QED
  BY <1>2, SendKeepsOrder DEF AllTruthful

\* The rows can be read when they are whole.
LEMMA RowsRead ==
    ASSUME NEW r \in Seq(Row)
    PROVE  /\ DOMAIN r = 1..Len(r) /\ Len(r) \in Nat
           /\ \A i \in 1..Len(r) : r[i] \in [of : Transfers, st : Shown]
BY LenProperties, ElementOfSeq DEF Row

\* A function on 1..n is a sequence of n rows.
LEMMA RowsOf ==
    ASSUME NEW n \in Nat, NEW f \in [1..n -> Row]
    PROVE  f \in Seq(Row) /\ Len(f) = n
<1>1. f \in Seq(Row)
  BY SeqDef
<1>2. DOMAIN f = 1..Len(f) /\ Len(f) \in Nat /\ DOMAIN f = 1..n
  BY <1>1, LenProperties
<1>3. ASSUME NEW k \in Nat, 1..k = 1..n PROVE k = n
  <2>1. k = 0 \/ k \in 1..k
    OBVIOUS
  <2>2. n = 0 \/ n \in 1..n
    OBVIOUS
  <2> QED
    BY <1>3, <2>1, <2>2
<1> QED
  BY <1>1, <1>2, <1>3

\* RowsShow says of the rows what the property says.
LEMMA RowsInvIsEnough == RunInv /\ RowsInv => RowsFollowTheRun
<1> SUFFICES ASSUME RunInv, RowsInv, here /\ whole PROVE RowsFollowTheRun
  BY DEF RowsFollowTheRun
<1>1. DOMAIN rows = 1..Len(rows)
  BY RowsRead DEF RowsInv, RowsShow
<1>2. DOMAIN work.done = 1..Len(work.done)
  BY LenProperties DEF RunInv, WorkTypes
<1> QED
  BY <1>1, <1>2 DEF RowsInv, RowsShow, RowsFollowTheRun, ShowsTruly, idx

\* What leaves the run and the record alone, and the whole rows too.
LEMMA RowsKept ==
    ASSUME RowsInv, UNCHANGED <<log, registered, work, inbox>>,
           here' /\ whole' => here /\ whole /\ UNCHANGED rows
    PROVE  RowsInv'
<1>1. log' \in Seq(Entry) /\ AllTruthful(inbox, work)'
  BY DEF RowsInv, AllTruthful, Truthful
<1>2. RowsShow'
  BY DEF RowsInv, RowsShow, ShowsTruly
<1> QED
  BY <1>1, <1>2 DEF RowsInv

\* A step of the runner, whose signals are true of it.
LEMMA RunnerKeepsRows ==
    ASSUME RunInv, RowsInv, registered, GoesOn(work, work'),
           AllTruthful(inbox', work'), UNCHANGED <<panel, registered, rows, whole>>
    PROVE  RowsInv'
<1>1. \A i, st : ShowsTruly(i, st, work) => ShowsTruly(i, st, work')
  BY TruthStays
<1>2. here' = here /\ log' = log /\ registered' /\ rows' = rows /\ whole' = whole
  BY DEF panel
<1>3. log' \in Seq(Entry)
  BY <1>2 DEF RowsInv
<1>4. AllTruthful(inbox, work)'
  BY DEF AllTruthful, Truthful
<1>5. RowsShow'
  <2> SUFFICES ASSUME here', whole'
               PROVE  /\ rows' \in Seq(Row)
                      /\ \A i \in 1..Len(rows') : ShowsTruly(i, rows'[i].st, work')
    BY <1>2 DEF RowsShow, ShowsTruly
  <2> QED
    BY <1>1, <1>2 DEF RowsInv, RowsShow
<1> QED
  BY <1>3, <1>4, <1>5 DEF RowsInv

\* Leaving the loop says nothing of a single transfer.
LEMMA OverIsTruthful == \A o, d, w : Truthful(Over(o, d), w)
BY DEF Truthful, Over

\* The results of the runner stay as they are, with one more, or no more.
LEMMA ResultGoesOn ==
    ASSUME RunInv, work.at \in {"top", "rsync"}, Len(work.done) < Len(work.todo),
           NEW s \in Statuses, NEW v, v.done = Recorded(s).done
    PROVE  /\ GoesOn(work, v)
           /\ \A m : m.kind = "finished" /\ m.at = idx /\ m.st = s => Truthful(m, v)
<1>1. WorkTypes /\ Len(work.done) \in Nat /\ idx = Len(work.done) + 1
  BY InLoop DEF idx
<1>2. /\ Len(v.done) = Len(work.done) + 1
      /\ \A i \in 1..Len(work.done) : v.done[i] = work.done[i]
      /\ v.done[idx].st = s
  <2> DEFINE d == Recorded(s).done
  <2>1. /\ Len(d) = idx /\ d[idx].st = s
        /\ \A i \in 1..Len(work.done) : d[i] = work.done[i]
    BY <1>1, Recording
  <2>2. v.done = d
    OBVIOUS
  <2> HIDE DEF d
  <2> QED
    BY <1>1, <2>1, <2>2
<1>3. GoesOn(work, v)
  BY <1>1, <1>2 DEF GoesOn
<1>4. idx \in 1..Len(v.done)
  BY <1>1, <1>2
<1> QED
  BY <1>2, <1>3, <1>4 DEF Truthful

\* Nothing is true of it before it has begun: the rows of a run that starts.
LEMMA BeginRows == RunInv /\ RowsInv /\ Begin => RowsInv'
<1> SUFFICES ASSUME RunInv, RowsInv, Begin PROVE RowsInv'
  OBVIOUS
<1>1. list \in Seq(Transfers) /\ inbox = <<>> /\ log' = log /\ registered' = TRUE /\ inbox' = inbox
  BY DEF RunInv, WorkTypes, GoneWhenUnregistered, Begin, panel
<1>2. DOMAIN list = 1..Len(list) /\ Len(list) \in Nat /\ \A i \in 1..Len(list) : list[i] \in Transfers
  BY <1>1, LenProperties, ElementOfSeq
<1> DEFINE r == [i \in DOMAIN list |-> [of |-> list[i], st |-> "Not started"]]
<1>3. r \in Seq(Row) /\ Len(r) = Len(list) /\ \A i \in 1..Len(r) : r[i].st = "Not started"
  <2>1. \A i \in 1..Len(list) : [of |-> list[i], st |-> "Not started"] \in Row
    BY <1>2 DEF Row, Shown
  <2>2. r \in [1..Len(list) -> Row]
    BY <1>2, <2>1
  <2>3. \A i \in 1..Len(list) : r[i].st = "Not started"
    BY <1>2
  <2> HIDE DEF r
  <2>4. r \in Seq(Row) /\ Len(r) = Len(list)
    BY <1>2, <2>2, RowsOf
  <2> QED
    BY <2>3, <2>4
<1>4. rows' = r
  BY DEF Begin
<1> HIDE DEF r
<1>5. RowsShow'
  BY <1>1, <1>3, <1>4 DEF RowsShow, ShowsTruly
<1>6. AllTruthful(inbox, work)'
  <2>1. Len(inbox') = 0
    BY <1>1, EmptySeq
  <2> QED
    BY <2>1 DEF AllTruthful
<1> QED
  BY <1>1, <1>5, <1>6 DEF RowsInv

\* The loop left at its top.
LEMMA LeaveLoopRows == RunInv /\ RowsInv /\ LeaveLoop => RowsInv'
<1> SUFFICES ASSUME RunInv, RowsInv, LeaveLoop PROVE RowsInv'
  OBVIOUS
<1>1. work.at \in {"top", "rsync"} /\ UNCHANGED <<panel, registered, rows, whole>>
  BY DEF LeaveLoop
<1>2. PICK o \in Overalls : Conclude(work, o)
  BY <1>1, InLoop DEF LeaveLoop, Overalls
<1>3. work'.done = work.done /\ work'.at = "over" /\ inbox' = Append(inbox, Over(o, work.done))
  BY <1>1, <1>2, InLoop DEF Conclude
<1>4. GoesOn(work, work')
  BY <1>1, <1>3, InLoop DEF GoesOn, LeaveLoop
<1>5. AllTruthful(inbox', work')
  <2>1. AllTruthful(inbox, work')
    BY <1>4, TruthStays DEF RowsInv, AllTruthful
  <2>2. inbox \in Seq(Signal) /\ work.done \in Seq(Result)
    BY DEF RunInv, WorkTypes
  <2> QED
    BY <1>3, <2>1, <2>2, SendTruth, SignalTypes, OverIsTruthful
<1> QED
  BY <1>1, <1>4, <1>5, InLoop, RunnerKeepsRows

\* A transfer that starts is the one the runner is at.
LEMMA StartRows == RunInv /\ RowsInv /\ StartTransfer => RowsInv'
<1> SUFFICES ASSUME RunInv, RowsInv, StartTransfer PROVE RowsInv'
  OBVIOUS
<1>1. work.at = "top" /\ UNCHANGED <<panel, registered, rows, whole>>
  BY DEF StartTransfer
<1>2. work'.done = work.done /\ work'.at = "rsync" /\ inbox' = Append(inbox, Started(idx))
  BY <1>1, InLoop DEF StartTransfer
<1>3. GoesOn(work, work')
  BY <1>1, <1>2, InLoop DEF GoesOn
<1>4. AllTruthful(inbox', work')
  <2>1. AllTruthful(inbox, work')
    BY <1>3, TruthStays DEF RowsInv, AllTruthful
  <2>2. inbox \in Seq(Signal) /\ idx \in Nat
    BY <1>1, InLoop
  <2>3. Truthful(Started(idx), work')
    BY <1>2 DEF Truthful, Started, idx
  <2> QED
    BY <1>2, <2>1, <2>2, <2>3, SendTruth, SignalTypes
<1> QED
  BY <1>1, <1>3, <1>4, InLoop, RunnerKeepsRows

\* A transfer that does not validate is recorded and not announced.
LEMMA RejectRows == RunInv /\ RowsInv /\ Reject => RowsInv'
<1> SUFFICES ASSUME RunInv, RowsInv, Reject PROVE RowsInv'
  OBVIOUS
<1>1. /\ work.at \in {"top", "rsync"} /\ UNCHANGED <<panel, registered, rows, whole>>
      /\ "rejected" \in Statuses
  BY DEF Reject, Statuses
<1>2. Len(work.done) < Len(work.todo)
  BY <1>1, InLoop DEF Reject, idx
<1>3. work'.done = Recorded("rejected").done
  BY <1>1, InLoop DEF Reject, Conclude, Recorded
<1>4. GoesOn(work, work')
  BY <1>1, <1>2, <1>3, ResultGoesOn
<1>5. AllTruthful(inbox, work') /\ inbox \in Seq(Signal)
  BY <1>4, TruthStays DEF RowsInv, AllTruthful, RunInv, WorkTypes
<1>6. Recorded("rejected").done \in Seq(Result)
  BY <1>1, <1>2, InLoop, Recording
<1>7. inbox' = inbox \/ inbox' = Append(inbox, Over("aborted", Recorded("rejected").done))
  BY DEF Reject, Conclude
<1>8. AllTruthful(inbox', work')
  <2> DEFINE d == Recorded("rejected").done
  <2>1. Over("aborted", d) \in Signal /\ Truthful(Over("aborted", d), work')
    BY <1>6, SignalTypes, OverIsTruthful DEF Overalls
  <2> QED
    BY <1>5, <1>7, <2>1, SendTruth
<1> QED
  BY <1>1, <1>4, <1>8, InLoop, RunnerKeepsRows

\* A transfer that ends is announced with the status it is recorded with.
LEMMA EndsRows ==
    ASSUME RunInv, RowsInv, NEW s \in Reports, TransferEnds(s)
    PROVE  RowsInv'
<1>1. /\ work.at \in {"top", "rsync"} /\ UNCHANGED <<panel, registered, rows, whole>>
      /\ s \in Statuses
  BY ReportsAssumption DEF TransferEnds, Statuses
<1>2. Len(work.done) < Len(work.todo)
  BY DEF TransferEnds, RunInv, LoopStatus
<1> DEFINE d == Recorded(s).done
           m == Finished(idx, s)
           told == Append(inbox, m)
<1>3. /\ work'.done = d
      /\ inbox' = told \/ inbox' = Append(told, Over("aborted", d))
  <2>1. [Recorded(s) EXCEPT !.at = "top"].done = d
    BY <1>1, InLoop DEF Recorded
  <2>2. [[Recorded(s) EXCEPT !.at = "top"] EXCEPT !.at = "over", !.overall = "aborted"].done = d
    BY <1>1, InLoop DEF Recorded
  <2>3. \/ work' = [Recorded(s) EXCEPT !.at = "top"] /\ inbox' = told
        \/ /\ work' = [[Recorded(s) EXCEPT !.at = "top"] EXCEPT !.at = "over", !.overall = "aborted"]
           /\ inbox' = Append(told, Over("aborted", [Recorded(s) EXCEPT !.at = "top"].done))
    BY Zenon DEF TransferEnds
  <2> QED
    BY <2>1, <2>2, <2>3
<1>4. d \in Seq(Result) /\ idx \in Nat
  BY <1>1, <1>2, InLoop, Recording
<1>5. m.kind = "finished" /\ m.at = idx /\ m.st = s /\ m \in Signal /\ Over("aborted", d) \in Signal
  BY <1>1, <1>4, SignalTypes DEF Finished, Overalls
<1>6. GoesOn(work, work') /\ Truthful(m, work')
  BY <1>1, <1>2, <1>3, <1>5, ResultGoesOn
<1>7. AllTruthful(inbox, work') /\ inbox \in Seq(Signal)
  BY <1>6, TruthStays DEF RowsInv, AllTruthful, RunInv, WorkTypes
<1> HIDE DEF d, m
<1>8. AllTruthful(told, work') /\ told \in Seq(Signal)
  BY <1>5, <1>6, <1>7, SendTruth, SendKeepsOrder
<1>9. AllTruthful(inbox', work')
  BY <1>3, <1>5, <1>8, SendTruth, OverIsTruthful
<1> QED
  BY <1>1, <1>6, <1>9, InLoop, RunnerKeepsRows

\* A signal about a transfer sets the row it tells of, truly.
LEMMA ShowRows == RunInv /\ RowsInv /\ (TransferStarted \/ TransferFinished) => RowsInv'
<1> SUFFICES ASSUME RunInv, RowsInv, TransferStarted \/ TransferFinished PROVE RowsInv'
  OBVIOUS
<1> DEFINE m == Head(inbox)
           st == IF m.kind = "started" THEN "Running" ELSE m.st
<1>1. /\ inbox # <<>> /\ inbox' = Tail(inbox) /\ m.kind \in {"started", "finished"}
      /\ rows' = ShowAt(m.at, st)
      /\ UNCHANGED <<panel, registered, work, whole>>
  BY DEF TransferStarted, TransferFinished
<1>2. inbox \in Seq(Signal) /\ registered
  BY <1>1 DEF RunInv, WorkTypes, GoneWhenUnregistered
<1>3. /\ m = inbox[1] /\ m \in Signal /\ Len(inbox) \in Nat \ {0}
      /\ Len(Tail(inbox)) = Len(inbox) - 1
      /\ \A i \in 1..Len(Tail(inbox)) : Tail(inbox)[i] = inbox[i + 1]
  BY <1>1, <1>2, ReceiveKeepsOrder
<1>4. Truthful(m, work)
  <2>1. 1 \in 1..Len(inbox)
    BY <1>3
  <2> QED
    BY <1>3, <2>1 DEF RowsInv, AllTruthful
<1>5. AllTruthful(inbox, work)'
  <2> DEFINE q == Tail(inbox)
  <2>1. inbox' = q /\ work' = work
    BY <1>1
  <2>2. Len(q) = Len(inbox) - 1 /\ \A i \in 1..Len(q) : q[i] = inbox[i + 1]
    BY <1>3
  <2> HIDE DEF q
  <2>3. \A i \in 1..Len(q) : Truthful(q[i], work)
    <3> SUFFICES ASSUME NEW i \in 1..Len(q) PROVE Truthful(q[i], work)
      OBVIOUS
    <3>1. i + 1 \in 1..Len(inbox) /\ q[i] = inbox[i + 1]
      BY <1>3, <2>2
    <3> QED
      BY <3>1 DEF RowsInv, AllTruthful
  <2>4. AllTruthful(q, work)
    BY <2>3 DEF AllTruthful
  <2> QED
    BY <2>1, <2>4 DEF AllTruthful, Truthful
<1>6. st \in Shown /\ ShowsTruly(m.at, st, work)
  <2>1. m.kind = "finished" => m.st \in Statuses
    BY <1>3 DEF Signal
  <2> QED
    BY <1>1, <1>4, <2>1 DEF Truthful, ShowsTruly, Shown
<1> HIDE DEF m, st
<1>7. RowsShow'
  <2> SUFFICES ASSUME here, whole
               PROVE  /\ rows' \in Seq(Row)
                      /\ \A i \in 1..Len(rows') : ShowsTruly(i, rows'[i].st, work)
    BY <1>1, <1>2 DEF RowsShow, ShowsTruly, panel
  <2>1. /\ rows \in Seq(Row)
        /\ \A i \in 1..Len(rows) : ShowsTruly(i, rows[i].st, work)
    BY <1>2 DEF RowsInv, RowsShow
  <2>2. /\ DOMAIN rows = 1..Len(rows) /\ Len(rows) \in Nat
        /\ \A i \in 1..Len(rows) : rows[i] \in [of : Transfers, st : Shown]
    BY <2>1, RowsRead
  <2>3. CASE m.at \in DOMAIN rows
    <3>1. rows' = [rows EXCEPT ![m.at].st = st]
      BY <1>1, <2>3 DEF ShowAt
    <3>2. \A i \in 1..Len(rows) :
            /\ rows'[i] \in Row
            /\ rows'[i].st = IF i = m.at THEN st ELSE rows[i].st
      BY <1>6, <2>2, <3>1 DEF Row
    <3>3. rows' \in [1..Len(rows) -> Row]
      BY <2>2, <3>1, <3>2
    <3>4. rows' \in Seq(Row) /\ Len(rows') = Len(rows)
      BY <2>2, <3>3, RowsOf
    <3> QED
      BY <1>6, <2>1, <3>2, <3>4
  <2>4. CASE m.at \notin DOMAIN rows
    BY <1>1, <2>1, <2>4 DEF ShowAt
  <2> QED
    BY <2>3, <2>4
<1>8. log' \in Seq(Entry)
  BY <1>1 DEF RowsInv, panel
<1> QED
  BY <1>5, <1>7, <1>8 DEF RowsInv

\* The newest entry of the run log is the one just added.
LEMMA NewestFirst ==
    ASSUME NEW e \in Entry, log \in Seq(Entry)
    PROVE  AddRun(e) \in Seq(Entry) /\ AddRun(e)[1] = e
<1> DEFINE longer == <<e>> \o log
           k == IF Len(longer) > MaxRunLog THEN MaxRunLog ELSE Len(longer)
<1>1. <<e>> \in Seq(Entry) /\ Len(<<e>>) = 1 /\ <<e>>[1] = e /\ Len(log) \in Nat
  BY LenProperties
<1>2. longer \in Seq(Entry) /\ Len(longer) = 1 + Len(log) /\ longer[1] = e
  BY <1>1, ConcatProperties
<1> HIDE DEF longer
<1>3. k \in Nat /\ k >= 1 /\ k <= Len(longer)
  BY <1>1, <1>2, MaxRunLogAssumption
<1>4. \A i \in 1..k : longer[i] \in Entry
  BY <1>2, <1>3, ElementOfSeq
<1> HIDE DEF k
<1>5. SubSeq(longer, 1, k) \in Seq(Entry) /\ SubSeq(longer, 1, k)[1] = longer[1]
  <2>1. 1 \in Int /\ k \in Int /\ 1 \in 1..(k - 1 + 1)
    BY <1>3
  <2> QED
    BY <1>4, <2>1, SubSeqProperties
<1> QED
  BY <1>2, <1>5 DEF AddRun, longer, k

\* The rows are settled by the results that are recorded.
LEMMA FinishedRows == RunInv /\ RowsInv /\ ListFinished => RowsInv'
<1> SUFFICES ASSUME RunInv, RowsInv, ListFinished PROVE RowsInv'
  OBVIOUS
<1> DEFINE e == [status |-> work.overall, done |-> work.done]
<1>1. /\ registered /\ work.at = "over" /\ inbox' = <<>>
      /\ Head(inbox).status = work.overall /\ Head(inbox).done = work.done
  BY LastSignal DEF ListFinished
<1>2. ~registered' /\ here' = here /\ whole' = whole
  BY DEF ListFinished
<1>3. /\ here => log' = AddRun(e)
                 /\ rows' = [i \in DOMAIN rows |->
                                IF i \in DOMAIN work.done THEN [rows[i] EXCEPT !.st = work.done[i].st]
                                ELSE rows[i]]
      /\ ~here => log' = log
  BY <1>1 DEF ListFinished
<1>4. e \in Entry /\ work.done \in Seq(Result)
  BY DEF RunInv, WorkTypes, Entry
<1>5. e.done = work.done
  OBVIOUS
<1>6. AddRun(e) \in Seq(Entry) /\ AddRun(e)[1] = e
  BY <1>4, NewestFirst DEF RowsInv
<1> HIDE DEF e
<1>7. log' \in Seq(Entry)
  BY <1>3, <1>6 DEF RowsInv
<1>8. AllTruthful(inbox, work)'
  BY <1>1, EmptySeq DEF AllTruthful
<1>9. RowsShow'
  <2> SUFFICES ASSUME here, whole
               PROVE  /\ rows' \in Seq(Row)
                      /\ \A i \in 1..Len(rows') :
                            rows'[i].st = IF i \in DOMAIN work.done THEN work.done[i].st
                                          ELSE "Not started"
    BY <1>2, <1>3, <1>5, <1>6 DEF RowsShow
  <2>1. /\ rows \in Seq(Row)
        /\ \A i \in 1..Len(rows) : ShowsTruly(i, rows[i].st, work)
    BY <1>1 DEF RowsInv, RowsShow
  <2>2. /\ DOMAIN rows = 1..Len(rows) /\ Len(rows) \in Nat
        /\ \A i \in 1..Len(rows) : rows[i] \in [of : Transfers, st : Shown]
    BY <2>1, RowsRead
  <2>3. /\ DOMAIN work.done = 1..Len(work.done) /\ Len(work.done) \in Nat
        /\ \A i \in 1..Len(work.done) : work.done[i].st \in Shown
    <3> DEFINE d == work.done
    <3>1. d \in Seq(Result)
      BY <1>4
    <3> HIDE DEF d
    <3>2. DOMAIN d = 1..Len(d) /\ Len(d) \in Nat /\ \A i \in 1..Len(d) : d[i] \in Result
      BY <3>1, LenProperties, ElementOfSeq
    <3>3. \A i \in 1..Len(d) : d[i].st \in Shown
      BY <3>2 DEF Result, Shown
    <3> QED
      BY <3>2, <3>3 DEF d
  <2>4. \A i \in 1..Len(rows) : i \notin DOMAIN work.done => rows[i].st = "Not started"
    BY <1>1, <2>1, <2>3 DEF ShowsTruly
  <2>5. \A i \in 1..Len(rows) :
            /\ rows'[i] \in Row
            /\ rows'[i].st = IF i \in DOMAIN work.done THEN work.done[i].st ELSE rows[i].st
    <3> SUFFICES ASSUME NEW i \in 1..Len(rows)
                 PROVE  /\ rows'[i] \in Row
                        /\ rows'[i].st = IF i \in DOMAIN work.done THEN work.done[i].st ELSE rows[i].st
      OBVIOUS
    <3>1. rows'[i] = IF i \in DOMAIN work.done THEN [rows[i] EXCEPT !.st = work.done[i].st] ELSE rows[i]
      BY <1>3, <2>2
    <3> QED
      BY <2>2, <2>3, <3>1 DEF Row
  <2>6. rows' \in [1..Len(rows) -> Row]
    BY <1>3, <2>2, <2>5
  <2>7. rows' \in Seq(Row) /\ Len(rows') = Len(rows)
    BY <2>2, <2>6, RowsOf
  <2> QED
    BY <2>4, <2>5, <2>7
<1> QED
  BY <1>7, <1>8, <1>9 DEF RowsInv

\* Every step keeps the rows true.
LEMMA RowsStep == RunInv /\ RowsInv /\ [Next]_vars => RowsInv'
<1> SUFFICES ASSUME RunInv, RowsInv, [Next]_vars PROVE RowsInv'
  OBVIOUS
<1>1. CASE OpenDetail \/ CloseDetail \/ Delete \/ Stop \/ UNCHANGED vars
  <2>1. UNCHANGED <<log, registered, rows, work, inbox, whole>> /\ (here' => here)
    BY <1>1 DEF OpenDetail, CloseDetail, Delete, Stop, vars, panel
  <2> QED
    BY <2>1, RowsKept
<1>2. ASSUME NEW l \in Lists, NEW p \in {"continue", "abort"}, Edit(l, p)
      PROVE  RowsInv'
  BY <1>2, RowsKept DEF Edit
<1>3. ASSUME NEW t \in Transfers, AddTransfer(t)
      PROVE  RowsInv'
  BY <1>3, RowsKept DEF AddTransfer
<1>4. ASSUME NEW i \in 1..MaxLen, RemoveTransfer(i)
      PROVE  RowsInv'
  BY <1>4, RowsKept DEF RemoveTransfer
<1> QED
  BY <1>1, <1>2, <1>3, <1>4, BeginRows, LeaveLoopRows, RejectRows, StartRows, EndsRows, ShowRows,
     FinishedRows DEF Next, User, Runner, Signals

\* Until a row is removed, no row shows more than the run has done, and once
\* the run is recorded the rows are what was recorded: whatever the delay of
\* the runner's signals, and for lists of any length.
THEOREM RowsTellTheRun == Spec => []RowsFollowTheRun
<1>1. Init => RowsInv
  <2> SUFFICES ASSUME Init PROVE RowsInv
    OBVIOUS
  <2>1. /\ log = <<>> /\ rows = <<>> /\ inbox = <<>>
        /\ \A S : <<>> \in Seq(S) /\ Len(<<>>) = 0
    BY EmptySeq DEF Init
  <2> QED
    BY <2>1 DEF RowsInv, RowsShow, AllTruthful
<1>2. Spec => []RowsInv
  BY <1>1, RowsStep, RunInvHolds, PTL DEF Spec
<1> QED
  BY <1>2, RunInvHolds, RowsInvIsEnough, PTL

=============================================================================
