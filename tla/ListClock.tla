----------------------------- MODULE ListClock ------------------------------
(***************************************************************************)
(* One list on a clock: the user skips it or it runs at chosen instants,   *)
(* and in every state the due-time rules of ScheduleDue are compared with  *)
(* definitions that look at every instant instead of computing one.        *)
(***************************************************************************)
EXTENDS ScheduleDue

CONSTANTS
    ClockTriggers,  \* what the list may be set to
    Horizon         \* bound: the last instant of the clock

ASSUME TriggersAreValid ==
    \A t \in ClockTriggers : ValidTrigger(t) /\ (t.type = "interval" => t.value \in Int)

VARIABLES trigger, last, instant

clockVars == <<trigger, last, instant>>

ClockInit ==
    /\ trigger \in ClockTriggers
    /\ last = Never
    /\ instant = 0

ClockAdvances ==
    /\ instant < Horizon
    /\ instant' = instant + 1
    /\ UNCHANGED <<trigger, last>>

\* Schedule.skip and the run entry of add_run both set last_run to an
\* instant; a run stamps the one it started at.
Stamp ==
    /\ last' = instant
    /\ UNCHANGED <<trigger, instant>>

ClockNext == ClockAdvances \/ Stamp

ClockSpec == ClockInit /\ [][ClockNext]_clockVars

---------------------------------------------------------------------------

IsSlot(t) == Weekday(t) \in trigger.days /\ t % DayLen = trigger.time

\* next_due of a fixed-time list is the first of its slots after now, for
\* every weekday now falls on and whichever side of today's time it is.
NextDueIsFirstSlot ==
    trigger.type = "scheduled" =>
        NextDue(trigger, last, instant) =
            Min({t \in (instant + 1)..(instant + 8 * DayLen) : IsSlot(t)})

\* A fixed-time list is due exactly when one of its slots of today has been
\* reached and nothing ran or was skipped since that slot: a run earlier on
\* the same day does not silence it.
DueIsUnservedSlot ==
    trigger.type = "scheduled" =>
        (IsDue(TRUE, trigger, last, instant) <=>
            \E s \in DayStart(instant)..instant : IsSlot(s) /\ ~(last \in s..instant))

\* Skipping a due list keeps it quiet until the next time it should fire, and
\* it does fire then ("preventing the QTimer from re-asking every minute").
SkipSilences ==
    trigger.type # "manual" /\ IsDue(TRUE, trigger, last, instant) =>
        LET next == NextDue(trigger, instant, instant)
        IN  /\ \A t \in instant..(next - 1) : ~IsDue(TRUE, trigger, instant, t)
            /\ IsDue(TRUE, trigger, instant, next)

\* A list fires once for every time it should.
FiresAtItsSlots == NextDueIsFirstSlot /\ DueIsUnservedSlot /\ SkipSilences
=============================================================================
