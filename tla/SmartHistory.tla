---------------------------- MODULE SmartHistory ----------------------------
(***************************************************************************)
(* The SMART log of one host and the row of the Disk Health tab that feeds *)
(* it (core/smart_history.py, ui/tabs/smart_tab.py): one disk, read again  *)
(* and again while it wears, in ways that know more or less of it.  The    *)
(* clock counts seconds and does not go back.                              *)
(***************************************************************************)
EXTENDS SmartReading

CONSTANTS
    Serial, Dev,        \* the disk's serial number and device name
    WrittenSteps,       \* what the drive has written, step by step, in MB
    MaxBad, MaxNow,     \* bounds: bad sectors, seconds
    MaxEntries,         \* bound: the entries of one history
    Cut                 \* a log file whose write was cut short

ASSUME SmartAssumption ==
    /\ WrittenSteps \in Seq(Nat \ {0}) /\ WrittenSteps # <<>>
    /\ {MaxBad, MaxNow, MaxEntries} \subseteq Nat /\ Serial \notin {Dev, Unknown}

VARIABLES
    drive,      \* the drive itself
    clock,
    logFile,    \* the file: for every key its history, or Cut
    cache,      \* the last result of the session, and the drive it was of
    row,        \* the host has a row
    alerted     \* history: the entries a notification was sent for

historyVars == <<drive, clock, logFile, cache, row, alerted>>

LogKeys == {Serial, Dev}
EmptyLog == [k \in LogKeys |-> <<>>]

HistoryInit ==
    /\ drive = [serial |-> Serial, written |-> WrittenSteps[1], bad |-> 0]
    /\ clock = 0 /\ logFile = EmptyLog /\ cache = Unknown
    /\ row = TRUE /\ alerted = {}

\* SmartLogger: a file that does not parse counts as empty.
Loaded == IF logFile = Cut THEN EmptyLog ELSE logFile

ChangeKeys == {"realloc", "uncorrect", "written"}
AlertKeys == ChangeKeys \ {"written"}

Same(e, r) == \A k \in ChangeKeys : e[k] = r[k]
Worsened(e, r) == {k \in AlertKeys : Unknown \notin {e[k], r[k]} /\ r[k] > e[k]}

\* A period in which the readings were the same, and the drive they began with.
Entry(first, last, of, realloc, uncorrect, written) ==
    [first |-> first, last |-> last, of |-> of,
     realloc |-> realloc, uncorrect |-> uncorrect, written |-> written]
NewEntry(c) == Entry(clock, clock, c.of, c.reading.realloc, c.reading.uncorrect, c.reading.written)
StillSo(e)  == Entry(e.first, clock, e.of, e.realloc, e.uncorrect, e.written)

RecordedMutant(h, c) ==
    IF h # <<>> /\ Same(Last(h), c.reading)
    THEN [h EXCEPT ![Len(h)] = StillSo(@)]
    ELSE Append(IF h = <<>> THEN h ELSE Front(h), NewEntry(c))

\* _record_disk(): the last entry's period is drawn out, or another begins.
Recorded(h, c) ==
    IF h # <<>> /\ Same(Last(h), c.reading)
    THEN [h EXCEPT ![Len(h)] = StillSo(@)]
    ELSE Append(h, NewEntry(c))

Notified(key, h, c) ==
    IF h # <<>> /\ ~Same(Last(h), c.reading) /\ Worsened(Last(h), c.reading) # {}
    THEN {<<key, Len(h) + 1>>} ELSE {}

\* record(): the log is read, brought up to date and written.
Record(c) ==
    LET key == SmartLogKey(Dev, c.reading)
        h   == Loaded[key]
    IN  /\ Len(h) < MaxEntries
        /\ logFile' = [Loaded EXCEPT ![key] = Recorded(h, c)]
        /\ alerted' = {a \in alerted : a[2] <= Len(Loaded[a[1]])} \cup Notified(key, h, c)

\* SmartTab._on_result(): a host without a row only has its result kept.
OnResult(c, shown) ==
    /\ cache' = c
    /\ IF shown THEN Record(c) ELSE UNCHANGED <<logFile, alerted>>

Probe(way) ==
    /\ OnResult([reading |-> ParseOneDisk(drive, way), of |-> drive], row)
    /\ UNCHANGED <<drive, clock, row>>

\* _populate(): the profile lost its username, or has one (again).
HideRow == row /\ row' = FALSE /\ UNCHANGED <<drive, clock, logFile, cache, alerted>>
ShowRow ==
    /\ ~row /\ row' = TRUE
    /\ IF cache = Unknown THEN UNCHANGED <<logFile, cache, alerted>> ELSE OnResult(cache, TRUE)
    /\ UNCHANGED <<drive, clock>>

\* The program ends, and is started again; it may end while the log is written.
RestartTab ==
    /\ cache' = Unknown /\ row' = TRUE
    /\ logFile' \in {logFile} \cup (IF row THEN {Cut} ELSE {})
    /\ UNCHANGED <<drive, clock, alerted>>

Wear ==
    /\ \/ drive.bad < MaxBad /\ drive' = [drive EXCEPT !.bad = @ + 1]
       \/ \E i \in 1..(Len(WrittenSteps) - 1) :
             drive.written = WrittenSteps[i] /\ drive' = [drive EXCEPT !.written = WrittenSteps[i + 1]]
    /\ UNCHANGED <<clock, logFile, cache, row, alerted>>

Second ==
    /\ clock < MaxNow /\ clock' = clock + 1
    /\ UNCHANGED <<drive, logFile, cache, row, alerted>>

HistoryNext ==
    \/ \E way \in Ways : Probe(way)
    \/ HideRow \/ ShowRow \/ RestartTab \/ Wear \/ Second

HistorySpec == HistoryInit /\ [][HistoryNext]_historyVars

---------------------------------------------------------------------------
\* Between these bounds both formats round what was written alike.
FormatsMeet(d) == d.written >= TB /\ d.written < PB

(* Every history is one: its periods follow each other, an increase of a    *)
(* damage counter over the entry before was notified, and between 1 TB and  *)
(* 1 PB a new entry means that the drive itself changed, however it is read.*)
(* The report on a host leaves no notified disk out, and tells of one that  *)
(* has a reading that it got worse (smart_history.py, drive_report.py).     *)
Periods(h) ==
    /\ \A i \in 1..Len(h) : h[i].first <= h[i].last /\ h[i].last <= clock
    /\ \A i \in 1..(Len(h) - 1) : h[i].last <= h[i + 1].first
RisesNotified(key, h) ==
    \A i \in 1..(Len(h) - 1), k \in {"realloc", "uncorrect"} :
        Unknown \notin {h[i][k], h[i + 1][k]} /\ h[i + 1][k] > h[i][k] => <<key, i + 1>> \in alerted
OnlyChanges(h) ==
    \A i \in 1..(Len(h) - 1) : h[i].of = h[i + 1].of => ~FormatsMeet(h[i].of)
Reported ==
    LET r == cache.reading
        disks == DisksForHost(<<r>>, <<SmartLogKey(Dev, r)>>, Loaded)
    IN  \A a \in alerted : Loaded[a[1]] # <<>> =>
          \E d \in disks : /\ d.key = a[1]
                           /\ d.reading = Unknown \/ RuleView(r, d.history) \in {"worse", "unavailable"}
HistoryIsSound ==
    /\ \A key \in LogKeys : Periods(Loaded[key]) /\ RisesNotified(key, Loaded[key])
    /\ OnlyChanges(Loaded[Serial])
    /\ cache # Unknown => Reported

(* What the log of a disk says is never taken back: the periods before the  *)
(* last stay as they are and the last only grows, unless the file was cut.  *)
HistoryIsKept ==
    \/ logFile = Cut \/ logFile' = Cut
    \/ \A key \in LogKeys :
         LET old == logFile[key]
             new == logFile'[key]
         IN  /\ Len(new) >= Len(old)
             /\ old # <<>> =>
                  /\ SubSeq(new, 1, Len(old) - 1) = Front(old)
                  /\ [new[Len(old)] EXCEPT !.last = Last(old).last] = Last(old)
                  /\ new[Len(old)].last >= Last(old).last

\* The history tells what was read, and goes on telling it.
HistoryHolds == HistoryIsSound /\ [][HistoryIsSound' /\ HistoryIsKept]_historyVars

HistoryTypeOK ==
    /\ clock \in 0..MaxNow /\ row \in BOOLEAN
    /\ logFile = Cut \/ DOMAIN logFile = LogKeys
=============================================================================
