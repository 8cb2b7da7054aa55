------------------------------ MODULE ListRun ------------------------------
(***************************************************************************)
(* What running a list promises (the header of core/schedule_runner.py):   *)
(* a run takes the list as it is when it starts, works through it once, in *)
(* order, gives every transfer it reaches one result, and is recorded with *)
(* a status that tells what the results were.  Threads, signals and the    *)
(* table that shows a run are not here.                                    *)
(***************************************************************************)
EXTENDS Naturals, Sequences

CONSTANTS
    Transfers,  \* the transfers lists are made of
    MaxRunLog   \* MAX_RUN_LOG: the runs a list remembers

VARIABLES
    here,    \* the list exists
    list,    \* the transfers of the list
    policy,  \* on_transfer_failure
    run,     \* the run in progress: the list it took, the results so far
    log      \* run_log, the newest run first

Statuses == {"Completed", "Failed", "Cancelled", "rejected"}
NoRun == [st |-> "none"]

\* Every transfer succeeded / something failed or was rejected.
AllCompleted(done) == \A i \in 1..Len(done) : done[i].st = "Completed"

\* A failure under the policy "abort" is the last thing a run does.
Aborts(r) == r.policy = "abort" /\ r.done # <<>> /\ r.done[Len(r.done)].st # "Completed"

Finished(r) == Len(r.done) = Len(r.all)

\* The statuses a run may end with, given its results; none: it goes on.
Verdicts(r) ==
    {s \in {"completed", "partial", "aborted"} :
        \/ s = "completed" /\ Finished(r) /\ AllCompleted(r.done)
        \/ s = "partial" /\ Finished(r) /\ ~AllCompleted(r.done) /\ ~Aborts(r)
        \/ s = "aborted" /\ (r.stop = "asked" \/ Aborts(r))}

Newest(entries) == SubSeq(entries, 1, IF Len(entries) > MaxRunLog THEN MaxRunLog ELSE Len(entries))

Init == here = TRUE /\ list = <<>> /\ policy = "continue" /\ run = NoRun /\ log = <<>>

\* The user changes or deletes the list, whether it runs or not.
Change == (here' => here) /\ UNCHANGED <<run, log>>

Begin ==
    /\ here /\ run = NoRun
    /\ run' = [st |-> "running", all |-> list, done |-> <<>>, policy |-> policy, stop |-> "no"]
    /\ UNCHANGED <<here, list, policy, log>>

Do(s) ==
    /\ run # NoRun /\ ~Finished(run) /\ ~Aborts(run)
    /\ run' = [run EXCEPT !.done = Append(@, [of |-> run.all[Len(@) + 1], st |-> s])]
    /\ UNCHANGED <<here, list, policy, log>>

AskToStop ==
    /\ run # NoRun
    /\ run' = [run EXCEPT !.stop = "asked"]
    /\ UNCHANGED <<here, list, policy, log>>

\* The run is recorded, unless its list was deleted while it ran.
End ==
    /\ run # NoRun
    /\ \E s \in Verdicts(run) :
        log' = IF here THEN Newest(<<[status |-> s, done |-> run.done]>> \o log) ELSE log
    /\ run' = NoRun
    /\ UNCHANGED <<here, list, policy>>

Next == Change \/ Begin \/ (\E s \in Statuses : Do(s)) \/ AskToStop \/ End

Spec == Init /\ [][Next]_<<here, list, policy, run, log>>
=============================================================================
