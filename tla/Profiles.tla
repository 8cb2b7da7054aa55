------------------------------ MODULE Profiles ------------------------------
(***************************************************************************)
(* The saved hosts (core/profiles.py): hosts.json maps a MAC address, or   *)
(* an IP address while the MAC is unknown, to the users of a host.  The UI *)
(* thread edits it: each edit re-reads and verifies the file, changes the  *)
(* profiles in memory and saves them.  Every connecting thread verifies    *)
(* the file too (Vault.ensure_trusted), and replaces the profiles in       *)
(* memory by what it read, without a lock.                                 *)
(***************************************************************************)
EXTENDS SignedFile, FiniteSetsExt, Functions

CONSTANTS
    Macs, Ips, Users,
    Dash,           \* the MAC cell of a row whose MAC is unknown: "-"
    Edited,         \* a user written to the file by another program
    Connectors,     \* threads that connect
    MaxUsers        \* bound on the users of all the profiles together

ASSUME ProfilesAssumption ==
    /\ None \notin Macs \cup Ips \cup Users /\ Edited \notin Users
    /\ Dash \notin Macs \cup Ips /\ Macs \cap Ips = {}

\* No file is told from a file with profiles.
ProfileRecords == [user : Users \cup {Edited}, extras : SUBSET (Users \cup {Edited}), ip : Ips]
ASSUME NoneIsNoMap == \A D \in SUBSET (Macs \cup Ips \cup {Dash}) : None \notin [D -> ProfileRecords]

VARIABLES
    hosts,      \* hosts.json and its signature
    profiles,   \* the profiles in memory
    edit,       \* the UI thread: idle, or the edit it makes and how far it is
    seen,       \* what each connecting thread read, and whether it verified it
    approved,   \* history: the user chose "Trust current file"
    replaced    \* history: the profiles were replaced under the edit

profilesVars == <<hosts, profiles, edit, seen, approved, replaced>>

NoHosts == [k \in {} |-> None]
Parsed(data) == IF data = None THEN NoHosts ELSE data

NoEdit  == [at |-> "idle", op |-> None, data |-> None]
NoRead  == [at |-> "idle", data |-> None]

ProfilesInit ==
    /\ hosts = NoFile /\ profiles = NoHosts /\ edit = NoEdit
    /\ seen = [t \in Connectors |-> NoRead]
    /\ approved = FALSE /\ replaced = FALSE

---------------------------------------------------------------------------
\* The edits, as functions of the profiles.  A new profile is kept under the
\* MAC it is given, the dash included; the other edits take a dash for no MAC.
KeyFor(mac, ip)      == IF mac = None THEN ip ELSE mac
ExistingKey(mac, ip) == IF mac \in Macs THEN mac ELSE ip

Set(P, k, e) == [x \in DOMAIN P \cup {k} |-> IF x = k THEN e ELSE P[x]]
Extras(P, k) == IF k \in DOMAIN P THEN P[k].extras ELSE {}

Put(P, o) == Set(P, KeyFor(o.mac, o.ip),
                 [user |-> o.user, extras |-> Extras(P, KeyFor(o.mac, o.ip)), ip |-> o.ip])

Delete(P, o) == Restrict(P, DOMAIN P \ {ExistingKey(o.mac, o.ip)})

AddUser(P, o) ==
    LET k == ExistingKey(o.mac, o.ip) IN
    IF k \in DOMAIN P /\ o.user # P[k].user THEN [P EXCEPT ![k].extras = @ \cup {o.user}] ELSE P

RemoveUser(P, o) ==
    LET k == ExistingKey(o.mac, o.ip) IN
    IF k \in DOMAIN P THEN [P EXCEPT ![k].extras = @ \ {o.user}] ELSE P

\* The user before becomes one of the others.
SetPrimaryMutant(P, o) ==
    LET k == ExistingKey(o.mac, o.ip) IN
    IF k \in DOMAIN P /\ o.user \in Extras(P, k)
    THEN [P EXCEPT ![k] = [user |-> o.user, ip |-> P[k].ip, extras |-> P[k].extras \ {o.user}]]
    ELSE P
SetPrimary(P, o) ==
    LET k == ExistingKey(o.mac, o.ip) IN
    IF k \in DOMAIN P /\ o.user \in Extras(P, k)
    THEN [P EXCEPT ![k] = [user |-> o.user, ip |-> P[k].ip,
                           extras |-> (P[k].extras \ {o.user}) \cup {P[k].user}]]
    ELSE P

\* The first profile of the address that has no MAC moves to the MAC learnt,
\* unless that one has a profile.
WithoutMac(P, ip) == {k \in DOMAIN P : P[k].ip = ip /\ k \notin Macs}
Rekey(P, o, k) ==
    IF o.mac \in DOMAIN P THEN P
    ELSE Restrict(Set(P, o.mac, P[k]), (DOMAIN P \cup {o.mac}) \ {k})

Edits == [op : {"put"}, mac : Macs \cup {Dash, None}, ip : Ips, user : Users]
         \cup [op : {"delete"}, mac : Macs \cup {Dash}, ip : Ips, user : {None}]
         \cup [op : {"add", "remove", "promote"}, mac : Macs \cup {Dash}, ip : Ips, user : Users]
         \cup [op : {"rekey"}, mac : Macs, ip : Ips, user : {None}]

\* What an edit may make of the profiles.
Edit(P, o) ==
    CASE o.op = "put"     -> {Put(P, o)}
      [] o.op = "delete"  -> {Delete(P, o)}
      [] o.op = "add"     -> {AddUser(P, o)}
      [] o.op = "remove"  -> {RemoveUser(P, o)}
      [] o.op = "promote" -> {SetPrimary(P, o)}
      [] o.op = "rekey"   -> {Rekey(P, o, k) : k \in WithoutMac(P, o.ip)}

Size(P) == MapThenSumSet(LAMBDA k : 1 + Cardinality(P[k].extras), DOMAIN P)

---------------------------------------------------------------------------
\* The UI thread.

\* require_verified() before an edit: the file as it is now, or TamperedError.
RereadMutant == {profiles}
Reread == IF Readable(hosts) THEN {Parsed(hosts.data)} ELSE {}

\* An edit that changes nothing returns without saving.
Begin(o) ==
    /\ edit.at = "idle"
    /\ \E P \in Reread : \E Q \in Edit(P, o) :
         /\ Size(Q) <= MaxUsers
         /\ profiles' = Q
         /\ edit' = IF Q = P /\ o.op # "put" THEN NoEdit ELSE [at |-> "edited", op |-> o, data |-> None]
    /\ replaced' = FALSE
    /\ UNCHANGED <<hosts, seen, approved>>

\* save(): the profiles in memory, whoever put them there.
WriteHosts ==
    /\ edit.at = "edited"
    /\ hosts' = WithData(hosts, profiles)
    /\ edit' = [edit EXCEPT !.at = "written", !.data = profiles]
    /\ UNCHANGED <<profiles, seen, approved, replaced>>

SignHosts ==
    /\ edit.at = "written"
    /\ hosts' = WithSig(hosts, edit.data)
    /\ edit' = NoEdit /\ replaced' = FALSE
    /\ UNCHANGED <<profiles, seen, approved>>

ClearHosts ==
    /\ edit.at = "idle"
    /\ hosts' = NoFile /\ profiles' = NoHosts
    /\ UNCHANGED <<edit, seen, approved, replaced>>

\* "Trust current file": signed as it is; the profiles are not read again.
TrustHosts ==
    /\ edit.at = "idle" /\ ~Readable(hosts)
    /\ hosts' = WithSig(hosts, hosts.data) /\ approved' = TRUE
    /\ UNCHANGED <<profiles, edit, seen, replaced>>

---------------------------------------------------------------------------
\* A connecting thread: contents, then signature, then the assignment.

ReadHosts(t) ==
    /\ seen[t].at = "idle"
    /\ seen' = [seen EXCEPT ![t] = [at |-> "read", data |-> hosts.data]]
    /\ UNCHANGED <<hosts, profiles, edit, approved, replaced>>

CheckHosts(t) ==
    /\ seen[t].at = "read"
    /\ seen' = [seen EXCEPT ![t] =
                  IF Readable([data |-> @.data, sig |-> hosts.sig])
                  THEN [@ EXCEPT !.at = "verified"] ELSE NoRead]
    /\ UNCHANGED <<hosts, profiles, edit, approved, replaced>>

ReplaceProfiles(t) ==
    /\ seen[t].at = "verified"
    /\ profiles' = Parsed(seen[t].data)
    /\ seen' = [seen EXCEPT ![t] = NoRead]
    /\ replaced' = (replaced \/ edit.at = "edited")
    /\ UNCHANGED <<hosts, edit, approved>>

---------------------------------------------------------------------------
\* Another program changes a user, or removes the signature; LanScanMan ends,
\* between any two steps, and shows the file as it is on the next start.
OutsideHosts ==
    /\ hosts.data # None
    /\ \/ \E k \in DOMAIN hosts.data \cap Macs : hosts' = WithData(hosts, [hosts.data EXCEPT ![k].user = Edited])
       \/ hosts' = WithSig(hosts, None)
    /\ UNCHANGED <<profiles, edit, seen, approved, replaced>>

RestartHosts ==
    /\ profiles' = Parsed(hosts.data) /\ edit' = NoEdit
    /\ seen' = [t \in Connectors |-> NoRead] /\ replaced' = FALSE
    /\ UNCHANGED <<hosts, approved>>

ProfilesNext ==
    \/ \E o \in Edits : Begin(o)
    \/ WriteHosts \/ SignHosts \/ ClearHosts \/ TrustHosts \/ OutsideHosts \/ RestartHosts
    \/ \E t \in Connectors : ReadHosts(t) \/ CheckHosts(t) \/ ReplaceProfiles(t)

ProfilesSpec == ProfilesInit /\ [][ProfilesNext]_profilesVars

---------------------------------------------------------------------------
\* What an edit writes to hosts.json is that edit made to what the file held,
\* never the profiles of another moment, and only deleting, removing and saving
\* over a profile lose a user, never promoting one, adding one or moving a
\* profile to its MAC; if a connecting thread replaced the profiles under the
\* edit, the file may also be written as it was, the edit lost
\* (ProfileStore.save after require_verified).
UsersOf(P) == UNION {{P[k].user} \cup P[k].extras : k \in DOMAIN P}
SavesAreEdits ==
    [][edit.at = "edited" /\ edit'.at = "written" /\ ~replaced /\ hosts.sig = hosts.data
         => /\ hosts'.data \in Edit(Parsed(hosts.data), edit.op)
            /\ edit.op.op \in {"add", "promote", "rekey"}
                 => UsersOf(Parsed(hosts.data)) \subseteq UsersOf(hosts'.data)]_profilesVars

\* A change made by another program is not signed by an edit of the user: a
\* file that verifies holds it only if the user chose to trust the file
\* (every edit starts with require_verified).
OutsideIsNotSigned ==
    ~approved /\ hosts.data # None /\ hosts.sig = hosts.data => Edited \notin UsersOf(hosts.data)
=============================================================================
