---------------------------- MODULE SmartReading ----------------------------
(***************************************************************************)
(* What one probe makes of one disk (core/smart.py, core/formatting.py),   *)
(* the key its history is kept under (core/smart_history.py) and the view  *)
(* a report takes of it (core/drive_report.py).  A drive is what it has    *)
(* written, in MB, and its count of bad sectors; a probe reads it through  *)
(* smartctl's JSON, smartctl's text, the udisks dump, or not at all.       *)
(***************************************************************************)
EXTENDS Integers, Sequences, FiniteSets, SequencesExt

CONSTANT Unknown          \* Python's None
ASSUME UnknownIsNoNumber == Unknown \notin Nat

Ways == {"json", "text", "udisks", "none"}

MB == 1
GB == 1000
TB == 1000000
PB == 1000000000

\* w to the nearest multiple of p, halves up.
Rounded(w, p) == p * ((2 * w + p) \div (2 * p))

\* To three significant digits.
Sig3(w) ==
    LET p == CHOOSE p \in {10 ^ k : k \in 0..6} : w < 1000 * p /\ (p = 1 \/ w >= 100 * p)
    IN  Rounded(w, p)

\* Terabytes written, in MB.  smartctl's text shows three digits in the unit
\* that fits; it is read with a factor for GB, TB and PB, and for any other
\* unit as terabytes, then rounded to hundredths of a terabyte.
TextWritten(w) ==
    CASE w < GB -> w * TB
      [] w \in GB..(TB - 1) -> Rounded(Sig3(w), TB \div 100)
      [] OTHER -> Sig3(w)

\* _three_significant(): never coarser than a terabyte is fine.
JsonWrittenMutant(w) == IF w < PB THEN w ELSE Rounded(w, TB)
JsonWritten(w) == IF w < PB THEN Sig3(w) ELSE Rounded(w, TB)

\* What each way tells; the fields of an ATA and of an NVMe drive in one.  The
\* udisks dump knows no serial number, and of the counters only what it calls
\* bad sectors.
Reading(available, ok, serial, realloc, uncorrect, written) ==
    [available |-> available, ok |-> ok, serial |-> serial,
     realloc |-> realloc, uncorrect |-> uncorrect, written |-> written]

FromJson(d)   == Reading(TRUE, d.bad < 2, d.serial, d.bad, d.bad, JsonWritten(d.written))
FromText(d)   == Reading(TRUE, d.bad < 2, d.serial, d.bad, d.bad, TextWritten(d.written))
FromUdisks(d) == Reading(TRUE, d.bad < 2, Unknown, Unknown, d.bad, Unknown)
NoSmart       == Reading(FALSE, Unknown, Unknown, Unknown, Unknown, Unknown)

ParseOneDisk(d, way) ==
    CASE way = "json"   -> FromJson(d)
      [] way = "text"   -> FromText(d)
      [] way = "udisks" -> FromUdisks(d)
      [] way = "none"   -> NoSmart

\* smart_log_key(): the serial number, or the device name.
SmartLogKey(dev, r) == IF r.serial # Unknown THEN r.serial ELSE dev

\* rule_view(): the counters that are not zero, and whether one still rises.
Bad(r) == {k \in {"realloc", "uncorrect"} : r[k] \notin {0, Unknown}}

\* trends(): a counter rises from an entry that knows it to the next one that
\* does.
Rises(history, k) ==
    \E i, j \in 1..Len(history) :
        /\ i < j /\ Unknown \notin {history[i][k], history[j][k]} /\ history[j][k] > history[i][k]
        /\ \A between \in (i + 1)..(j - 1) : history[between][k] = Unknown

RuleView(r, history) ==
    IF ~r.available THEN "unavailable"
    ELSE IF r.ok = FALSE \/ (Bad(r) # {} /\ \E k \in {"realloc", "uncorrect"} : Rises(history, k))
         THEN "worse"
    ELSE IF Bad(r) # {} THEN "bad" ELSE "fine"

\* disks_for_host(): the readings, and the disks only the log knows.
DisksForHost(readings, keys, logged) ==
    {[key |-> keys[i], reading |-> readings[i], history |-> IF keys[i] \in DOMAIN logged THEN logged[keys[i]] ELSE <<>>] :
        i \in DOMAIN readings}
    \cup {[key |-> k, reading |-> Unknown, history |-> logged[k]] :
            k \in {k \in DOMAIN logged : logged[k] # <<>>} \ Range(keys)}
=============================================================================
