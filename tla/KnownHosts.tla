----------------------------- MODULE KnownHosts -----------------------------
(***************************************************************************)
(* The signed known_hosts that the probe and transfer threads and the UI   *)
(* thread share (services/ssh.py, ui/trust.py): every connection verifies  *)
(* the file, compares the key the host presents with the one pinned for    *)
(* it, pins it on first contact, and asks the user about a key that does   *)
(* not match.                                                              *)
(*                                                                         *)
(* _lock is held by who rewrites the file; readers take it for a moment    *)
(* only, to get at the SignedFile object, and "Trust current file" does    *)
(* not take it at all.                                                     *)
(***************************************************************************)
EXTENDS SignedFile

CONSTANTS
    Workers,    \* threads that connect: probes, rsync transfers
    UI,         \* the UI thread, which connects too, and asks the user
    Hosts,
    Keys,
    Presents,   \* the keys a host may present: its own, one it got when it
                \* was reinstalled, another machine's
    System      \* the user's own ~/.ssh/known_hosts: a key or None per host

Actors == Workers \cup {UI}

ASSUME ActorsAssumption == UI \notin Workers /\ None \notin Actors
ASSUME HostsAssumption == None \notin Hosts /\ Hosts # {}
ASSUME KeysAssumption == None \notin Keys /\ Presents \in [Hosts -> SUBSET Keys]
ASSUME SystemAssumption == System \in [Hosts -> Keys \cup {None}]

VARIABLES
    file,       \* known_hosts: the key pinned for each host, and the signature
    lock,       \* who holds ssh._lock
    th,         \* what each thread is doing
    strict,     \* confirm_first_contact()
    accepted,   \* history: the keys the user chose to trust
    cut,        \* history: the program ended between the two writes
    mixed       \* history: "Trust current file" ran while a thread held the lock

vars == <<file, lock, th, strict, accepted, cut, mixed>>

Contents == [Hosts -> Keys \cup {None}]
ASSUME NoneAssumption == None \notin Contents

Empty    == [h \in Hosts |-> None]
Content(data) == IF data = None THEN Empty ELSE data

\* The program counters: reading the file without the lock, twice, and meeting
\* the host; rewriting the file with the lock; the dialogs, and a signal of a
\* worker that waits for one; trusting the file as it is.
Reading   == {"check", "checkSig", "wait", "load", "loadSig", "meet"}
Locked    == {"verify", "write", "sign"}
Asking    == {"ask", "alarm"}
Resigning == {"rewrite", "resign"}

\* A thread has no host, key or contents it does not need.
Idle == [at |-> "idle", host |-> None, key |-> None, op |-> "add", seen |-> None]

Thread == [at   : {"idle", "acquire", "changed"} \cup Reading \cup Locked
                      \cup Asking \cup Resigning,
           host : Hosts \cup {None}, key : Keys \cup {None},
           op   : {"add", "remove"}, seen : Contents \cup {None}]

\* A connection and a question are about a host; nobody is about to write a
\* line without a key in it.
Complete(r) ==
    /\ r.at \notin {"idle", "alarm"} \cup Resigning => r.host # None
    /\ r.at \in {"acquire"} \cup Locked /\ r.op = "add" => r.key # None

\* Every variable has its type, and a thread knows what its work is about.
TypeOK ==
    /\ file \in [data : Contents \cup {None}, sig : Contents \cup {None}]
    /\ lock \in Actors \cup {None}
    /\ th \in [Actors -> Thread]
    /\ \A x \in Actors : Complete(th[x])
    /\ strict \in BOOLEAN
    /\ accepted \subseteq (Hosts \X Keys)
    /\ cut \in BOOLEAN /\ mixed \in BOOLEAN

Init ==
    /\ file = NoFile /\ lock = None
    /\ th = [x \in Actors |-> Idle]
    /\ strict \in BOOLEAN
    /\ accepted = {} /\ cut = FALSE /\ mixed = FALSE

Goto(x, r) == th' = [th EXCEPT ![x] = r]

\* TamperedError: a worker reports a failed probe, the UI thread shows the
\* dialog that offers to trust the file as it is.
Tampered(x) == Goto(x, [Idle EXCEPT !.at = IF x = UI THEN "alarm" ELSE "idle"])

---------------------------------------------------------------------------
\* A connection: make_ssh_client and connect, or prepare_cli_ssh.

Connect(x, h) ==
    /\ th[x].at = "idle"
    /\ Goto(x, [Idle EXCEPT !.at = "check", !.host = h])
    /\ UNCHANGED <<file, lock, strict, accepted, cut, mixed>>

\* SignedFile.read(), its first half, without the lock: in ensure_trusted
\* ("check"), then in trusted_host_keys ("load").  A file that is not there is
\* read without its signature.
ReadData(x) ==
    /\ th[x].at \in {"check", "load"}
    /\ Goto(x, [th[x] EXCEPT
                  !.seen = file.data,
                  !.at   = CASE file.data # None -> IF @ = "check" THEN "checkSig" ELSE "loadSig"
                             [] OTHER            -> IF @ = "check" THEN "wait" ELSE "meet"])
    /\ UNCHANGED <<file, lock, strict, accepted, cut, mixed>>

ReadSig(x) ==
    /\ th[x].at \in {"checkSig", "loadSig"}
    /\ IF ~Verifies(th[x].seen, file.sig) THEN Tampered(x)
       ELSE IF th[x].at = "checkSig" THEN Goto(x, [th[x] EXCEPT !.at = "wait", !.seen = None])
       ELSE Goto(x, [th[x] EXCEPT !.at = "meet"])
    /\ UNCHANGED <<file, lock, strict, accepted, cut, mixed>>

\* known_hosts_file(): the lock is taken and given back.
Wait(x) ==
    /\ th[x].at = "wait" /\ lock = None
    /\ Goto(x, [th[x] EXCEPT !.at = "load"])
    /\ UNCHANGED <<file, lock, strict, accepted, cut, mixed>>

\* MUTANT of FirstContactPasses: strict mode is not looked at.
FirstContactPassesMutant(h, k) == System[h] \in {None, k}

\* check_first_contact: the user's own known_hosts decides, and where it says
\* nothing, whether strict mode is on.
FirstContactPasses(h, k) == System[h] = k \/ (System[h] = None /\ ~strict)

\* The key exchange.  A worker that meets another key signals it, and its
\* record is the signal until the UI thread takes it; the slots of some tabs
\* drop the error object of the signal, so the dialog may not know the new key.
Meet(x) ==
    /\ th[x].at = "meet"
    /\ LET h      == th[x].host
           pinned == Content(th[x].seen)[h]
       IN \E k \in Presents[h] :
           \/ pinned = k /\ Goto(x, Idle)
           \/ /\ pinned = None /\ FirstContactPasses(h, k)
              /\ Goto(x, [Idle EXCEPT !.at = "acquire", !.host = h, !.key = k])
           \/ /\ IF pinned = None THEN ~FirstContactPasses(h, k) ELSE pinned # k
              /\ \E new \in IF x = UI THEN {k} ELSE {k, None} :
                    Goto(x, [Idle EXCEPT !.at = IF x = UI THEN "ask" ELSE "changed",
                                         !.host = h, !.key = new])
    /\ UNCHANGED <<file, lock, strict, accepted, cut, mixed>>

\* The host cannot be reached, or the login fails before its key is looked at.
Unreachable(x) ==
    /\ th[x].at = "meet"
    /\ Goto(x, Idle)
    /\ UNCHANGED <<file, lock, strict, accepted, cut, mixed>>

---------------------------------------------------------------------------
\* add_host_key and remove_host_from_known_hosts: a read and a write of the
\* whole file under the lock.

\* MUTANT of Acquire: the lock is not waited for.
AcquireMutant(x) ==
    /\ th[x].at = "acquire"
    /\ lock' = x
    /\ Goto(x, [th[x] EXCEPT !.seen = file.data,
                             !.at = IF file.data = None THEN "write" ELSE "verify"])
    /\ mixed' = (mixed \/ th[UI].at \in Resigning)
    /\ UNCHANGED <<file, strict, accepted, cut>>

Acquire(x) ==
    /\ th[x].at = "acquire" /\ lock = None
    /\ lock' = x
    /\ Goto(x, [th[x] EXCEPT !.seen = file.data,
                             !.at = IF file.data = None THEN "write" ELSE "verify"])
    /\ mixed' = (mixed \/ th[UI].at \in Resigning)
    /\ UNCHANGED <<file, strict, accepted, cut>>

\* MUTANT of Verify: an exception leaves the lock held.
VerifyMutant(x) ==
    /\ th[x].at = "verify"
    /\ IF Verifies(th[x].seen, file.sig)
       THEN Goto(x, [th[x] EXCEPT !.at = "write"])
       ELSE Tampered(x)
    /\ UNCHANGED <<file, lock, strict, accepted, cut, mixed>>

Verify(x) ==
    /\ th[x].at = "verify"
    /\ IF Verifies(th[x].seen, file.sig)
       THEN Goto(x, [th[x] EXCEPT !.at = "write"]) /\ UNCHANGED lock
       ELSE Tampered(x) /\ lock' = None
    /\ UNCHANGED <<file, strict, accepted, cut, mixed>>

\* Removing is the first half of accept_new_key; the new key follows, if the
\* dialog knew it.
Release(x) ==
    /\ lock' = None
    /\ Goto(x, IF th[x].op = "remove" /\ th[x].key # None
               THEN [th[x] EXCEPT !.at = "acquire", !.op = "add", !.seen = None]
               ELSE Idle)

NewContent(x) ==
    [Content(th[x].seen) EXCEPT ![th[x].host] = IF th[x].op = "add" THEN th[x].key ELSE None]

\* Nothing is written when the host to remove has no line.
Write(x) ==
    /\ th[x].at = "write"
    /\ IF th[x].op = "remove" /\ Content(th[x].seen)[th[x].host] = None
       THEN Release(x) /\ UNCHANGED file
       ELSE /\ file' = WithData(file, NewContent(x))
            /\ Goto(x, [th[x] EXCEPT !.at = "sign", !.seen = NewContent(x)])
            /\ UNCHANGED lock
    /\ UNCHANGED <<strict, accepted, cut, mixed>>

Sign(x) ==
    /\ th[x].at = "sign"
    /\ file' = WithSig(file, th[x].seen)
    /\ Release(x)
    /\ UNCHANGED <<strict, accepted, cut, mixed>>

---------------------------------------------------------------------------
\* The dialogs of ui/trust.py.

Ask(x) ==
    /\ th[UI].at = "idle" /\ x # UI /\ th[x].at = "changed"
    /\ th' = [th EXCEPT ![x] = Idle, ![UI] = [th[x] EXCEPT !.at = "ask"]]
    /\ UNCHANGED <<file, lock, strict, accepted, cut, mixed>>

\* "Trust the new key": accept_new_key.
Accept ==
    /\ th[UI].at = "ask"
    /\ Goto(UI, [th[UI] EXCEPT !.at = "acquire", !.op = "remove"])
    /\ accepted' = accepted \cup ({<<th[UI].host, th[UI].key>>} \ {<<th[UI].host, None>>})
    /\ UNCHANGED <<file, lock, strict, cut, mixed>>

KeepBlocked ==
    /\ th[UI].at \in Asking
    /\ Goto(UI, Idle)
    /\ UNCHANGED <<file, lock, strict, accepted, cut, mixed>>

\* "Trust current file": SignedFile.resign reads the file, rewrites it and
\* signs it, without the lock.
TrustFile ==
    /\ th[UI].at = "alarm"
    /\ Goto(UI, [th[UI] EXCEPT !.at = "rewrite", !.seen = file.data])
    /\ mixed' = (mixed \/ lock # None)
    /\ UNCHANGED <<file, lock, strict, accepted, cut>>

Rewrite ==
    /\ th[UI].at = "rewrite"
    /\ file' = WithData(file, th[UI].seen)
    /\ Goto(UI, [th[UI] EXCEPT !.at = "resign"])
    /\ UNCHANGED <<lock, strict, accepted, cut, mixed>>

\* MUTANT of Resign: the signature is not written.
ResignMutant ==
    /\ th[UI].at = "resign"
    /\ Goto(UI, Idle)
    /\ cut' = FALSE
    /\ UNCHANGED <<file, lock, strict, accepted, mixed>>

Resign ==
    /\ th[UI].at = "resign"
    /\ file' = WithSig(file, th[UI].seen)
    /\ Goto(UI, Idle)
    /\ cut' = FALSE
    /\ UNCHANGED <<lock, strict, accepted, mixed>>

---------------------------------------------------------------------------

\* The program ends, at any point, and is started again.
Restart ==
    /\ th' = [x \in Actors |-> Idle]
    /\ lock' = None
    /\ cut' = (cut \/ ~Readable(file))
    /\ UNCHANGED <<file, strict, accepted, mixed>>

---------------------------------------------------------------------------

Goes(x) == ReadData(x) \/ ReadSig(x) \/ Meet(x) \/ Unreachable(x) \/ Verify(x) \/ Write(x) \/ Sign(x)

Dialogs == Accept \/ KeepBlocked \/ TrustFile

Trusts == Rewrite \/ Resign

Next ==
    \/ \E x \in Actors :
        \/ \E h \in Hosts : Connect(x, h)
        \/ Goes(x) \/ Wait(x) \/ Acquire(x) \/ Ask(x)
    \/ Dialogs \/ Trusts
    \/ Restart

Spec == Init /\ [][Next]_vars

\* Threads run, whoever waits for the lock gets it some time, and the user
\* answers.
FairSpec ==
    /\ Spec
    /\ \A x \in Actors : WF_vars(Goes(x)) /\ SF_vars(Wait(x)) /\ SF_vars(Acquire(x))
    /\ \A x \in Workers : SF_vars(Ask(x))
    /\ WF_vars(Dialogs) /\ WF_vars(Trusts)

---------------------------------------------------------------------------
\* Properties.

\* A thread between the two writes of the file.
MidWrite == \E x \in Actors : th[x].at \in {"sign", "resign"}

\* known_hosts verifies whenever nobody is writing it: no order of first
\* contacts, accepted keys and restarts leaves it blocked, unless the program
\* ended between the two writes or the file was trusted during a write.
SignatureFollows == ~MidWrite /\ ~cut /\ ~mixed => Readable(file)

\* No pin is lost: a write changes the key of the host it is about, and
\* leaves what other threads pinned meanwhile.
OneHostPerWrite ==
    [][~mixed' =>
        \E h \in Hosts : \A g \in Hosts \ {h} :
            Content(file'.data)[g] = Content(file.data)[g]]_vars

\* A pinned key was chosen by the user, or is the one the user's own ssh
\* knows, or was seen first while strict mode is off and ssh knows no other.
PinsAreJustified ==
    \A h \in Hosts :
        LET k == Content(file.data)[h]
        IN  k # None => \/ <<h, k>> \in accepted
                        \/ System[h] = k
                        \/ System[h] = None /\ ~strict

\* No thread waits for the lock for ever, and the UI thread never stops
\* answering: every connection ends.
ConnectionsEnd == \A x \in Actors : th[x].at # "idle" ~> th[x].at = "idle"

\* "changed by something other than LanScanMan" is said of a signed known_hosts
\* only when the program was cut short between its two writes, or trusted the
\* file during one.  (Nothing else writes the file in this model.)
AlarmMeansOutside ==
    [][th[UI].at # "alarm" /\ th'[UI].at = "alarm" /\ file.sig # None
        => cut \/ mixed]_vars
=============================================================================
