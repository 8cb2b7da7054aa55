------------------------------ MODULE Devices ------------------------------
(***************************************************************************)
(* The register of every device seen on the network (core/devices.py) and  *)
(* what a dialog about a changed host key reads in it.  A device is kept   *)
(* under its MAC address, or under its IP address while a scan could not   *)
(* see the MAC.  The register is loaded by the first scan of a session;    *)
(* from then on memory and file change together.                           *)
(***************************************************************************)
EXTENDS Integers, FiniteSets, Sequences

CONSTANTS
    DevMacs, DevIps,
    NoMac,          \* a scan without privileges
    ScanLists,      \* what a scan may find: sequences of hosts, one per address
    ProfileSets     \* the MACs and IPs the profiles may vouch for

Found == [mac : DevMacs \cup {NoMac}, ip : DevIps]
ASSUME DevicesAssumption ==
    /\ NoMac \notin DevMacs /\ DevMacs \cap DevIps = {}
    /\ ScanLists \subseteq Seq(Found)
    /\ \A scan \in ScanLists : \A i, j \in DOMAIN scan : scan[i].ip = scan[j].ip => i = j
    /\ ProfileSets \subseteq SUBSET (DevMacs \cup DevIps)

VARIABLES
    devices, baseline,  \* the register: in memory once loaded, else in the file
    loaded,             \* the session has loaded it
    tampered,           \* the file does not verify
    vouched,            \* history: what the user, a profile or the baseline accepted
    sighted,            \* history: the MACs seen at each IP, as pairs
    forgotten           \* history: an empty register was saved over the file

devicesVars == <<devices, baseline, loaded, tampered, vouched, sighted, forgotten>>

NoDevices == [k \in {} |-> NoMac]

DevicesInit ==
    /\ devices = NoDevices /\ baseline = FALSE /\ loaded = FALSE /\ tampered = FALSE
    /\ vouched = {} /\ sighted = {} /\ forgotten = FALSE

\* What is kept of a device, and a register in which more of them are accepted.
Device(ip, ips, known) == [ip |-> ip, ips |-> ips, known |-> known]
WithKnown(D, keys) == [k \in DOMAIN D |-> Device(D[k].ip, D[k].ips, D[k].known \/ k \in keys)]

---------------------------------------------------------------------------
\* observe(), one host after the other.

\* A host without a MAC is the device that has its address, the oldest of them
\* (here: any).
DeviceKeys(D, h) ==
    LET at == {k \in DOMAIN D : D[k].ip = h.ip} IN
    IF h.mac # NoMac THEN {h.mac} ELSE IF h.ip \in DOMAIN D \/ at = {} THEN {h.ip} ELSE at

\* The entry that a device continues: its own, or the one of its address from
\* scans that did not see its MAC.
New(h) == Device(h.ip, {}, FALSE)
EarlierMutant(D, k, h) == IF k \in DOMAIN D THEN D[k] ELSE New(h)
Earlier(D, k, h) == IF k \in DOMAIN D THEN D[k] ELSE IF h.ip \in DOMAIN D THEN D[h.ip] ELSE New(h)

Keep(D, k, h) == DOMAIN D \ (IF k \in DOMAIN D THEN {} ELSE {h.ip})

SightMutant(D, k, h, known) ==
    LET e == Earlier(D, k, h) IN
    [x \in Keep(D, k, h) \cup {k} |->
        IF x # k THEN D[x]
        ELSE Device(h.ip, {h.ip}, e.known \/ k \in known \/ h.ip \in known)]
Sight(D, k, h, known) ==
    LET e == Earlier(D, k, h) IN
    [x \in Keep(D, k, h) \cup {k} |->
        IF x # k THEN D[x]
        ELSE Device(h.ip, e.ips \cup {h.ip}, e.known \/ k \in known \/ h.ip \in known)]

\* A scan's hosts in their order: what may be registered and seen then.
SoFar(D, seen) == [devices |-> D, seen |-> seen]
WithHost(Rs, h, known) ==
    UNION {{SoFar(Sight(r.devices, k, h, known), r.seen \cup {k}) : k \in DeviceKeys(r.devices, h)} : r \in Rs}
Observed(scan, known) ==
    LET after[i \in 0..Len(scan)] ==
          IF i = 0 THEN {SoFar(devices, {})} ELSE WithHost(after[i - 1], scan[i], known)
    IN  after[Len(scan)]

\* The first scan accepts what it saw.
AcceptMutant(r) == WithKnown(r.devices, r.seen)
Accept(r) == WithKnown(r.devices, IF baseline THEN {} ELSE r.seen)

Observe(scan, known) ==
    /\ loaded \/ ~tampered
    /\ \E r \in Observed(scan, known) : devices' = Accept(r)
    /\ baseline' = TRUE /\ loaded' = TRUE /\ tampered' = FALSE
    /\ vouched' = vouched \cup known
                  \cup (IF baseline THEN {} ELSE UNION {{scan[i].ip, scan[i].mac} : i \in DOMAIN scan})
    /\ sighted' = sighted \cup {<<scan[i].mac, scan[i].ip>> : i \in {j \in DOMAIN scan : scan[j].mac # NoMac}}
    /\ UNCHANGED forgotten

---------------------------------------------------------------------------
\* Accepting devices, from a row's menu and for all of them.

Flagged == {k \in DOMAIN devices : ~devices[k].known}

Acknowledge(keys) ==
    /\ devices' = WithKnown(devices, keys)
    /\ tampered' = FALSE /\ vouched' = vouched \cup keys
    /\ UNCHANGED <<baseline, loaded, sighted, forgotten>>

\* flagged_ips() keeps one device of an address.
AcknowledgeDevice == loaded /\ \E k \in Flagged : Acknowledge({k})

\* Before the first scan of a session the register in memory is empty, and is
\* saved so.
AcknowledgeAll ==
    \/ loaded /\ Acknowledge(Flagged)
    \/ /\ ~loaded
       /\ devices' = NoDevices /\ baseline' = FALSE /\ tampered' = FALSE
       /\ forgotten' = (forgotten \/ devices # NoDevices)
       /\ UNCHANGED <<loaded, vouched, sighted>>

\* The file is changed by another program, found out by the next load; the user
\* may trust it; the program ends and starts again.
TamperDevices  == tampered' = TRUE /\ UNCHANGED <<devices, baseline, loaded, vouched, sighted, forgotten>>
TrustDevices   == tampered /\ tampered' = FALSE
                  /\ UNCHANGED <<devices, baseline, loaded, vouched, sighted, forgotten>>
RestartDevices == loaded /\ loaded' = FALSE
                  /\ UNCHANGED <<devices, baseline, tampered, vouched, sighted, forgotten>>

DevicesNext ==
    \/ \E scan \in ScanLists, known \in ProfileSets : Observe(scan, known)
    \/ AcknowledgeDevice \/ AcknowledgeAll \/ TamperDevices \/ TrustDevices \/ RestartDevices

DevicesSpec == DevicesInit /\ [][DevicesNext]_devicesVars

---------------------------------------------------------------------------
\* key_change_context(): what is said of an address whose host key changed.
IpOwners(ip) == {k \in DOMAIN devices \cap DevMacs : devices[k].ip = ip \/ ip \in devices[k].ips}
KeyChange(ip) ==
    IF Cardinality(IpOwners(ip)) > 1 THEN "moved" ELSE IF IpOwners(ip) = {} THEN "unknown" ELSE "same"

\* A device accepted once is accepted in every later scan and session, also
\* when it was first seen without its MAC and is moved to it, or changes its
\* address (observe); only saving a register that was not loaded forgets it.
KnownStaysKnown ==
    loaded' => \A k \in DOMAIN devices : devices[k].known =>
        \E x \in DOMAIN devices' : devices'[x].known /\ (x = k \/ (k \in DevIps /\ k \in devices'[x].ips))

\* The register tells the truth about the scans, however those with and without
\* MACs followed each other.  Nothing is accepted by itself: a device counts as
\* known because the user, a profile or the first scan vouched for it, or for an
\* address it has had (observe).  And "the same device has always had this
\* address" is told of an address exactly when scans saw one MAC there, "moved"
\* when they saw more (key_change_context).
KnownIsVouched ==
    \A k \in DOMAIN devices : devices[k].known =>
        k \in vouched \/ devices[k].ips \cap vouched # {}
ContextIsHistory ==
    ~forgotten => \A ip \in DevIps :
        LET n == Cardinality({p \in sighted : p[2] = ip}) IN
        KeyChange(ip) = CASE n = 0 -> "unknown" [] n = 1 -> "same" [] OTHER -> "moved"
RegisterIsVouched == KnownIsVouched /\ ContextIsHistory

\* The register holds what was vouched for, and keeps it.
RegisterHolds == RegisterIsVouched /\ [][RegisterIsVouched' /\ KnownStaysKnown]_devicesVars
=============================================================================
