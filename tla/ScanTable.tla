------------------------------ MODULE ScanTable ------------------------------
(***************************************************************************)
(* The table of the scanner tab (ui/tabs/scanner_tab.py): a row for every  *)
(* saved profile and every host of the last scan.  New results come when   *)
(* they come: the old rows fade out, the table is built anew, fades in,    *)
(* and every row is pinged.  The dialogs of a row, and the pings, know     *)
(* their row by its number, while the table goes on changing.              *)
(***************************************************************************)
EXTENDS Integers, SequencesExt

CONSTANTS
    TabMacs, TabIps,    \* the MACs and (as numbers) the addresses of the hosts
    Dash,               \* the MAC cell of a host whose MAC is unknown
    Founds,             \* what a scan may find: sets of [mac, ip]
    MaxSaved, MaxPings  \* bounds: profiles; pings under way

ASSUME ScanTableAssumption ==
    /\ TabIps \subseteq Nat \ {0} /\ Dash \notin TabMacs \cup TabIps /\ TabMacs \cap TabIps = {}
    /\ Founds \subseteq SUBSET [mac : TabMacs \cup {Dash}, ip : TabIps]
    /\ IsFiniteSet(TabMacs) /\ \A found \in Founds : IsFiniteSet(found)

VARIABLES
    saved,      \* the profiles: a last address for every key
    rows,       \* the rows: address, MAC cell, and what the ping cell says
    results,    \* the results of the last scan
    shown,      \* history: the results the table was built from
    fadingOut, fadingIn,
    pings,      \* a bag of the pings under way: row number and address
    pending,    \* pending_pings
    box,        \* the dialog that is open: a row's number, and its cells
    strayed     \* history: the table changed under a ping

tableVars == <<saved, rows, results, shown, fadingOut, fadingIn, pings, pending, box, strayed>>

NoBox == [row |-> 0, ip |-> 0, mac |-> Dash]

TableInit ==
    /\ saved \in UNION {[S -> TabIps] : S \in {S \in SUBSET TabMacs : Cardinality(S) <= MaxSaved}}
    /\ rows = <<>> /\ results = {} /\ shown = {}
    /\ fadingOut = FALSE /\ fadingIn = FALSE
    /\ pings = EmptyBag /\ pending = 0 /\ box = NoBox /\ strayed = FALSE

---------------------------------------------------------------------------
\* _populate_results().  A profile is found for a host by its MAC or, without
\* one, by the last address; of profiles with the same last address, by the
\* last one in the file.
Owners == {f \in [TabIps -> DOMAIN saved \cup {Dash}] :
             \A ip \in TabIps : IF \E k \in DOMAIN saved : saved[k] = ip
                                THEN f[ip] \in DOMAIN saved /\ saved[f[ip]] = ip
                                ELSE f[ip] = Dash}
Owned(owner, ip) == \E k \in DOMAIN saved : saved[k] = ip

HostKeyMutant(h, owner) ==
    IF Owned(owner, h.ip) THEN owner[h.ip] ELSE IF h.mac # Dash THEN h.mac ELSE h.ip
HostKey(h, owner) ==
    IF h.mac # Dash THEN h.mac ELSE IF Owned(owner, h.ip) THEN owner[h.ip] ELSE h.ip

\* The last host of a key is the one that stays; then the profiles not found.
Master(owner) ==
    LET Key(h) == HostKey(h, owner)
        online == {h \in results' : \A g \in results' : Key(g) = Key(h) => g.ip <= h.ip}
        absent == DOMAIN saved \ {Key(h) : h \in results'}
        Mac(k) == IF k \in TabMacs THEN k ELSE Dash
    IN  {[key |-> Key(h), ip |-> h.ip, off |-> 0, mac |-> IF h.mac # Dash THEN h.mac ELSE Mac(Key(h))] : h \in online}
        \cup {[key |-> k, ip |-> saved[k], off |-> 1, mac |-> Mac(k)] : k \in absent}

Above(a, b) == a.off < b.off \/ (a.off = b.off /\ a.ip < b.ip)
NoTime == 0     \* no time shown: not pinged yet, or it does not answer
Row(ip, mac) == [ip |-> ip, mac |-> mac, ping |-> NoTime]

PopulateResults ==
    /\ \E owner \in Owners :
         LET sorted == SetToSortSeq(Master(owner), Above)
         IN  rows' = [i \in 1..Cardinality(Master(owner)) |-> Row(sorted[i].ip, sorted[i].mac)]
    /\ shown' = results'
    /\ fadingIn' = (rows' # <<>>)
    /\ strayed' = (pings # EmptyBag)

\* on_results(): results go to an empty table at once, or they wait for the
\* old rows to fade.
ShowResults(found) ==
    /\ rows = <<>> /\ results' = found
    /\ PopulateResults
    /\ UNCHANGED <<saved, fadingOut, pings, pending, box>>

KeepResultsMutant(found) ==
    /\ rows # <<>>
    /\ results' = found /\ fadingOut' = ~fadingIn
    /\ UNCHANGED <<saved, rows, shown, fadingIn, pings, pending, box, strayed>>
KeepResults(found) ==
    /\ rows # <<>>
    /\ results' = found /\ fadingOut' = TRUE
    /\ UNCHANGED <<saved, rows, shown, fadingIn, pings, pending, box, strayed>>

FadedOut ==
    /\ fadingOut /\ fadingOut' = FALSE
    /\ UNCHANGED results /\ PopulateResults
    /\ UNCHANGED <<saved, pings, pending, box>>

---------------------------------------------------------------------------
\* Pings: all rows when they have faded in, and a host added by hand.

PingsOf(R) == SetToBag({<<i, R[i].ip>> : i \in DOMAIN R})

FadedIn ==
    /\ fadingIn /\ fadingIn' = FALSE
    /\ BagCardinality(pings) + Len(rows) <= MaxPings
    /\ pings' = pings (+) PingsOf(rows) /\ pending' = Len(rows)
    /\ UNCHANGED <<saved, rows, results, shown, fadingOut, box, strayed>>

\* update_ping_cell(): the cell of whatever row has the number now; a number
\* past the end shows nowhere, and counts.
PingCell(p, ms) ==
    /\ rows' = IF p[1] \in DOMAIN rows THEN [rows EXCEPT ![p[1]].ping = IF ms THEN p[2] ELSE NoTime] ELSE rows
    /\ pending' = pending - 1

PingAnswered(p) ==
    /\ BagIn(p, pings) /\ pings' = pings (-) SetToBag({p})
    /\ \E ms \in BOOLEAN : PingCell(p, ms)
    /\ UNCHANGED <<saved, results, shown, fadingOut, fadingIn, box, strayed>>

---------------------------------------------------------------------------
\* The user.

Save(key, ip) == [k \in DOMAIN saved \cup {key} |-> IF k = key THEN ip ELSE saved[k]]
Without(f, key) == [k \in DOMAIN f \ {key} |-> f[k]]

\* _add_host_manually(): kept by address, in a row of its own.
NewRowMutant == Len(rows)
NewRow == Len(rows) + 1

AddHost(ip) ==
    /\ box = NoBox /\ BagCardinality(pings) < MaxPings
    /\ saved' = Save(ip, ip) /\ Cardinality(DOMAIN saved') <= MaxSaved /\ Len(rows) < MaxPings
    /\ rows' = Append(rows, Row(ip, Dash))
    /\ pings' = pings (+) SetToBag({<<NewRow, ip>>}) /\ pending' = pending + 1
    /\ UNCHANGED <<results, shown, fadingOut, fadingIn, box, strayed>>

\* A dialog about a row, whichever it is, reads the row's cells before it opens.
OpenBox(i) ==
    /\ box = NoBox
    /\ box' = [row |-> i, ip |-> rows[i].ip, mac |-> rows[i].mac]
    /\ UNCHANGED <<saved, rows, results, shown, fadingOut, fadingIn, pings, pending, strayed>>

Dismiss ==
    /\ box # NoBox /\ box' = NoBox
    /\ UNCHANGED <<saved, rows, results, shown, fadingOut, fadingIn, pings, pending, strayed>>

\* edit_profile(): under the MAC cell, the dash included.
EditProfile ==
    /\ box # NoBox /\ box' = NoBox
    /\ saved' = Save(box.mac, box.ip) /\ Cardinality(DOMAIN saved') <= MaxSaved
    /\ UNCHANGED <<rows, results, shown, fadingOut, fadingIn, pings, pending, strayed>>

\* delete_profile(): a dash counts as no MAC; the row with the number goes, if
\* its ping cell shows no time.
DeleteKey == IF box.mac \in TabMacs THEN box.mac ELSE box.ip

DeleteProfile ==
    /\ box # NoBox /\ box' = NoBox
    /\ saved' = Without(saved, DeleteKey)
    /\ IF box.row \in DOMAIN rows /\ rows[box.row].ping \notin TabIps
       THEN rows' = RemoveAt(rows, box.row) /\ strayed' = (strayed \/ pings # EmptyBag)
       ELSE UNCHANGED <<rows, strayed>>
    /\ UNCHANGED <<results, shown, fadingOut, fadingIn, pings, pending>>

\* _do_connect(): a profile kept by address moves to the MAC learnt, and the
\* row with the number shows it; the table went on during the dialog.
Connected(mac) ==
    /\ box # NoBox /\ box' = NoBox
    /\ box.row \in DOMAIN rows /\ rows[box.row].mac = Dash
    /\ \E k \in DOMAIN saved :
         /\ saved[k] = box.ip /\ k \notin TabMacs /\ mac \notin DOMAIN saved
         /\ saved' = [x \in (DOMAIN saved \ {k}) \cup {mac} |-> IF x = mac THEN saved[k] ELSE saved[x]]
    /\ rows' = [rows EXCEPT ![box.row].mac = mac]
    /\ UNCHANGED <<results, shown, fadingOut, fadingIn, pings, pending, strayed>>

\* clear_history()
ClearHistory ==
    /\ box = NoBox /\ saved # <<>>
    /\ saved' = [k \in {} |-> 0] /\ rows' = <<>> /\ strayed' = (pings # EmptyBag)
    /\ UNCHANGED <<results, shown, fadingOut, fadingIn, pings, pending, box>>

\* The steps that tell the other tabs of new hosts (hosts_changed), and those
\* that do not.
HostsChange ==
    \/ \E ip \in TabIps : AddHost(ip)
    \/ \E found \in Founds : ShowResults(found)
    \/ FadedOut \/ ClearHistory

HostsStay ==
    \/ \E found \in Founds : KeepResults(found)
    \/ FadedIn
    \/ \E p \in BagToSet(pings) : PingAnswered(p)
    \/ \E i \in DOMAIN rows : OpenBox(i)
    \/ Dismiss \/ EditProfile \/ DeleteProfile
    \/ \E mac \in TabMacs : Connected(mac)

---------------------------------------------------------------------------
\* A table built anew has a row of its own, with its address and, when it is
\* known, its MAC, for every saved profile and for every host of the last scan
\* (_populate_results), but for a host whose key one of a higher address has
\* too: one of the same MAC; or, of the two, one is found by its MAC elsewhere
\* than its profile says, and the other without a MAC where the profile says.
SameKey(g, h) ==
    \/ g.mac = h.mac /\ g.mac # Dash
    \/ h.mac = Dash /\ g.mac \in DOMAIN saved /\ saved[g.mac] = h.ip
    \/ g.mac = Dash /\ h.mac \in DOMAIN saved /\ saved[h.mac] = g.ip
BuiltAnew == (fadingOut /\ ~fadingOut') \/ (rows = <<>> /\ rows' # <<>> /\ pings' = pings)
EveryHostHasARow ==
    BuiltAnew =>
        /\ \A h \in results' : (\A g \in results' : SameKey(g, h) => g.ip <= h.ip) =>
             \E i \in DOMAIN rows' : rows'[i].ip = h.ip /\ (h.mac # Dash => rows'[i].mac = h.mac)
        /\ \A k \in DOMAIN saved : \E i \in DOMAIN rows' :
             IF k \in TabMacs THEN rows'[i].mac = k ELSE rows'[i].ip = saved[k]

\* However results, fading, additions and pings follow each other: with no
\* rows fading out the table is that of the last scan; a time shown in a row
\* is that of its host, unless the table changed while pings were under way;
\* and pings are under way as long as the status waits for some ("All pings
\* verified").
TableIsCurrent ==
    /\ ~fadingOut => shown = results
    /\ ~strayed => \A i \in DOMAIN rows : rows[i].ping \in {NoTime, rows[i].ip}
    /\ pending <= BagCardinality(pings)

\* The table is current in every state and complete whenever it is built.
TableHolds == TableIsCurrent /\ [][TableIsCurrent' /\ EveryHostHasARow]_tableVars
=============================================================================
