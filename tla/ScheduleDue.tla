---------------------------- MODULE ScheduleDue ----------------------------
(***************************************************************************)
(* The due-time rules of a schedule list (core/schedules.py): when a list  *)
(* should fire next, whether it should fire now, and what was missed while *)
(* the program was closed.                                                 *)
(*                                                                         *)
(* An instant is a natural number of clock steps since midnight of a       *)
(* Monday; a day has DayLen of them.  The program works in seconds; a      *)
(* coarser clock keeps every comparison the rules make.  An empty last_run *)
(* is Never.                                                               *)
(***************************************************************************)
EXTENDS Integers, FiniteSetsExt

CONSTANTS
    DayLen,     \* clock steps in a day
    HourLen     \* clock steps in an hour

ASSUME DayLenAssumption == DayLen \in Nat \ {0}
ASSUME HourLenAssumption == HourLen \in Nat \ {0}

Never == -1

\* Python's weekday(): Monday is 0.
Weekdays == 0..6

Units == {"minutes", "hours", "days", "months"}

\* A trigger as Trigger.validate accepts it.
Manual            == [type |-> "manual"]
Interval(v, u)    == [type |-> "interval", value |-> v, unit |-> u]
Scheduled(ds, at) == [type |-> "scheduled", days |-> ds, time |-> at]

ValidTrigger(trig) ==
    \/ trig.type = "manual"
    \/ trig.type = "interval" /\ trig.value >= 1 /\ trig.unit \in Units
    \/ /\ trig.type = "scheduled"
       /\ trig.days # {} /\ trig.days \subseteq Weekdays
       /\ trig.time \in 0..(DayLen - 1)

---------------------------------------------------------------------------

DayStart(t) == (t \div DayLen) * DayLen
Weekday(t)  == (t \div DayLen) % 7

\* A month is 30 days; a value below one counts as one.
ToTimedelta(trig) ==
    LET v == IF trig.value < 1 THEN 1 ELSE trig.value
    IN  CASE trig.unit = "minutes" -> v
          [] trig.unit = "hours"   -> v * HourLen
          [] trig.unit = "days"    -> v * DayLen
          [] trig.unit = "months"  -> v * 30 * DayLen

\* MUTANT of DueOffsets: range(0, 7) never reaches the same weekday next week.
DueOffsetsMutant == 0..6

\* Today and the seven days after it: a one-day list whose time has passed
\* today needs the same weekday of next week.
DueOffsets == 0..7

Candidate(trig, now, offset) == DayStart(now + offset * DayLen) + trig.time

NextDue(trig, last, now) ==
    CASE trig.type = "manual" -> Never
      [] trig.type = "interval" ->
            IF last = Never THEN now ELSE last + ToTimedelta(trig)
      [] trig.type = "scheduled" ->
            LET later == {o \in DueOffsets :
                            /\ Weekday(Candidate(trig, now, o)) \in trig.days
                            /\ Candidate(trig, now, o) > now}
            IN  IF later = {} THEN Never ELSE Candidate(trig, now, Min(later))

\* MUTANT of ServedToday: any run of the day silences its slot.
ServedTodayMutant(trig, last, now) ==
    last # Never /\ DayStart(last) = DayStart(now)

\* MUTANT of ServedToday: a skip at the slot's own instant does not count.
ServedTodayStrictMutant(trig, last, now) ==
    /\ last # Never
    /\ DayStart(last) = DayStart(now)
    /\ last > Candidate(trig, now, 0)

\* last_run silences a fixed-time list only when it is of today and not
\* before today's time.
ServedToday(trig, last, now) ==
    /\ last # Never
    /\ DayStart(last) = DayStart(now)
    /\ last >= Candidate(trig, now, 0)

IsDue(enabled, trig, last, now) ==
    /\ enabled
    /\ \/ trig.type = "interval" /\ (last = Never \/ now >= last + ToTimedelta(trig))
       \/ /\ trig.type = "scheduled"
          /\ Weekday(now) \in trig.days
          /\ now >= Candidate(trig, now, 0)
          /\ ~ServedToday(trig, last, now)

\* One list's part of missed_since_last_open.
Missed(enabled, trig, last, now) ==
    /\ enabled
    /\ trig.type # "manual"
    /\ NextDue(trig, last, now) # Never
    /\ IsDue(enabled, trig, last, now)
=============================================================================
