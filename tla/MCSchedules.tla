---------------------------- MODULE MCSchedules ----------------------------
(* Two lists, a day of four instants, a clock that covers one day. *)
EXTENDS Schedules

CONSTANTS a, b

Config(t, c, m, e) == [trigger |-> t, confirm |-> c, missed |-> m, empty |-> e]

\* A list that asks, by an interval; one that does not, at a fixed time or,
\* emptied in the dialog, by an interval.
MCConfigs ==
    [l \in Lists |->
        IF l = a THEN { Config(Interval(1, "minutes"), TRUE, "warn", FALSE) }
        ELSE { Config(Scheduled({0}, 1), FALSE, "skip", FALSE),
               Config(Interval(2, "minutes"), FALSE, "run", TRUE) }]

\* For liveness: the list that asks, and one the startup handler just runs.
LiveConfigs ==
    [l \in Lists |->
        IF l = a THEN { Config(Interval(1, "minutes"), TRUE, "warn", FALSE) }
        ELSE { Config(Interval(1, "minutes"), FALSE, "run", FALSE) }]
=============================================================================
