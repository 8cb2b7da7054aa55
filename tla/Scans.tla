------------------------------- MODULE Scans -------------------------------
(***************************************************************************)
(* Scans with nmap, and the permission they need (workers/scanner.py,      *)
(* services/privilege.py, core/privilege.py, ui/privilege.py).  The        *)
(* scanner tab and the host inspector start threads that share what sudo   *)
(* remembers, the password held in the insecure session mode, and the note *)
(* that sudo is to be made to forget when the program ends.  The inspector *)
(* waits for its thread; the scanner's shortcuts start another beside one  *)
(* that runs, and only the newest can be cancelled.                        *)
(***************************************************************************)
EXTENDS SequencesExt

CONSTANTS
    Scanner, Inspector, \* the two tabs that scan
    MaxScans,           \* bound: threads at a time
    Installed           \* the programs a machine may have: sets of names

Programs == {"nmap", "pkexec", "tty", "sudo", "askpass"}
ScanModes == {"polkit", "sudo", "sudo_session"}
ScanTabs == {Scanner, Inspector}
ScanThreads == 1..MaxScans
NoScanThread == 0
ASSUME ScansAssumption == Installed \subseteq SUBSET Programs /\ MaxScans \in Nat \ {0}

VARIABLES
    caps,       \* what is installed
    scanMode,   \* the setting: how to ask for permission
    held,       \* the session password: none, right or wrong
    cached,     \* sudo remembers the authentication
    used,       \* sudo ran a scan, and is to forget it at the end
    scan,       \* the threads
    newest,     \* the thread each tab holds, while it runs
    ended,      \* the program has ended
    astray,     \* a cancelled scan's sudo, which cannot be killed, still asks
    refused,    \* history: sudo refused the held password, and whether the
                \* program read that
    left        \* history: sudo let in a scan that did not succeed while none
                \* was noted, or was asked in vain to forget

scansVars == <<caps, scanMode, held, cached, used, scan, newest, ended, astray, refused, left>>

Methods == {"pkexec", "pkexec_tty", "askpass", "password", "sudo_cached"}
Password == {"none", "right", "wrong"}
NoScan == [at |-> "idle", order |-> <<>>, password |-> "none", cancel |-> FALSE]

ScansTypeOK ==
    /\ caps \in Installed /\ scanMode \in ScanModes
    /\ held \in Password /\ cached \in BOOLEAN /\ used \in BOOLEAN
    /\ scan \in [ScanThreads -> [at : {"idle", "direct", "exec", "answer"}, order : Seq(Methods),
                                 password : Password, cancel : BOOLEAN]]
    /\ newest \in [ScanTabs -> ScanThreads \cup {NoScanThread}]
    /\ ended \in BOOLEAN /\ astray \in BOOLEAN /\ refused \in {"no", "denied", "unread"} /\ left \in BOOLEAN

ScansInit ==
    /\ caps \in Installed /\ scanMode \in ScanModes
    /\ held = "none" /\ cached = FALSE /\ used = FALSE
    /\ scan = [k \in ScanThreads |-> NoScan] /\ newest = [t \in ScanTabs |-> NoScanThread]
    /\ ended = FALSE /\ astray = FALSE /\ refused = "no" /\ left = FALSE

\* methods(): what can be tried without the password box, in this order.
MethodsOf(m) ==
    LET Has(S, x) == IF S \subseteq caps THEN <<x>> ELSE <<>> IN
    CASE m = "polkit" -> Has({"nmap", "pkexec"}, "pkexec")
                         \o Has({"nmap", "pkexec", "tty"}, "pkexec_tty")
                         \o Has({"nmap", "sudo", "askpass"}, "askpass")
      [] m = "sudo"   -> Has({"nmap", "sudo"}, "sudo_cached") \o Has({"nmap", "sudo", "askpass"}, "askpass")
      [] OTHER        -> Has({"nmap", "sudo"}, "sudo_cached")

\* sudo -n true
Remembers == "sudo" \in caps /\ cached

---------------------------------------------------------------------------
\* Starting a scan, in the first thread k that does not run.

\* The scanner's shortcuts look at nothing; the inspector returns while its
\* thread runs, which after the signal with the answer it may still do or not.
Offers(t) == t = Inspector /\ newest[t] # NoScanThread => scan[newest[t]].at = "answer"

Start(t, k, thread) ==
    /\ Offers(t) /\ scan[k].at = "idle" /\ \A j \in 1..(k - 1) : scan[j].at # "idle"
    /\ scan' = [scan EXCEPT ![k] = thread]
    /\ newest' = [newest EXCEPT ![t] = k]

\* The thread is given the box's password, the held one, or none.  It checks
\* nmap's arguments first, and answers at once when it refuses them.
Launch(t, k, order, password) ==
    \/ Start(t, k, [NoScan EXCEPT !.at = "exec", !.order = order, !.password = password])
    \/ Start(t, k, [NoScan EXCEPT !.at = "answer"])

ScanPlain(t, k) ==
    /\ Start(t, k, [NoScan EXCEPT !.at = "direct"])
    /\ UNCHANGED <<caps, scanMode, held, cached, used, ended, astray, refused, left>>

\* prepare_privileged_scan(), the box dismissed or not: without nmap, or a
\* method, it tells so and there is no scan.
ScanWithPassword(t, k) ==
    /\ {"nmap", "sudo"} \subseteq caps
    /\ \/ scanMode = "sudo" /\ ~Remembers /\ "askpass" \notin caps /\ UNCHANGED held
       \/ scanMode = "sudo_session" /\ held = "none" /\ held' \in {"right", "wrong"}
    /\ \E p \in {"right", "wrong"} :
         /\ scanMode = "sudo_session" => p = held'
         /\ Launch(t, k, <<"password">>, p)
    /\ refused' = IF scanMode = "sudo_session" THEN "no" ELSE refused
    /\ UNCHANGED <<caps, scanMode, cached, used, ended, astray, left>>

ScanWithHeld(t, k) ==
    /\ {"nmap", "sudo"} \subseteq caps
    /\ scanMode = "sudo_session" /\ held # "none" /\ ~Remembers
    /\ Launch(t, k, <<"password">>, held)
    /\ UNCHANGED <<caps, scanMode, held, cached, used, ended, astray, refused, left>>

ScanWithMethods(t, k) ==
    /\ "nmap" \in caps
    /\ \/ scanMode = "polkit" /\ MethodsOf("polkit") # <<>>
       \/ scanMode = "sudo" /\ "sudo" \in caps /\ (Remembers \/ "askpass" \in caps)
       \/ scanMode = "sudo_session" /\ "sudo" \in caps /\ held # "none" /\ Remembers
    /\ Launch(t, k, MethodsOf(scanMode), "none")
    /\ UNCHANGED <<caps, scanMode, held, cached, used, ended, astray, refused, left>>

---------------------------------------------------------------------------
\* The thread.  An answer is the results or an error.

Answer(k) == scan' = [scan EXCEPT ![k] = [NoScan EXCEPT !.at = "answer"]]

\* Without privileges nmap's exit status decides.
Direct(k) ==
    /\ scan[k].at = "direct" /\ Answer(k)
    /\ UNCHANGED <<caps, scanMode, held, cached, used, newest, ended, astray, refused, left>>

\* What sudo or polkit may make of a method, as classify() reads it.  An
\* authentication made for sudo is remembered, however nmap ends.  To a password
\* it refuses sudo asks for another, and says last that none was provided.
Method(k) == Head(scan[k].order)
Refuses(k) == scan[k].password = "wrong" /\ ~cached
Outcomes(k) ==
    CASE Method(k) = "pkexec"      -> {"ok", "cancelled", "no_agent", "denied", "failed"}
      [] Method(k) = "pkexec_tty"  -> {"ok", "cancelled", "no_agent", "denied", "failed"}
      [] Method(k) = "askpass"     -> {"ok", "cancelled", "denied", "failed"}
      [] Method(k) = "password"    -> IF Refuses(k) THEN {"denied", "cancelled"} ELSE {"ok", "failed"}
      [] Method(k) = "sudo_cached" -> IF cached THEN {"ok", "failed"} ELSE {"needs_password"}
ViaSudo(k) == Method(k) \in {"askpass", "password", "sudo_cached"}

\* The methods are gone through until one has an outcome of its own.
NextMethod(k) ==
    IF Len(scan[k].order) = 1 THEN Answer(k) ELSE scan' = [scan EXCEPT ![k].order = Tail(@)]

\* A password that sudo is seen to refuse is dropped.
AfterDenialMutant(k) == held
AfterDenial(k) == IF Method(k) = "password" THEN "none" ELSE held

NotedMutant(k) == Method(k) \in {"sudo_cached", "password"}
Noted(k) == ViaSudo(k)

\* Let in by sudo, and not noted.
LetIn == cached' = TRUE /\ left' = (left \/ ~used)

HeldIsRefused(k) == Method(k) = "password" /\ Refuses(k) /\ held = scan[k].password

Exec(k) ==
    /\ scan[k].at = "exec"
    /\ \E out \in Outcomes(k) :
         /\ IF out \in {"no_agent", "needs_password"} THEN NextMethod(k) ELSE Answer(k)
         /\ CASE out = "ok" /\ ViaSudo(k) -> cached' = TRUE /\ left' = FALSE
              [] out = "failed" /\ ViaSudo(k) -> LetIn
              [] OTHER -> UNCHANGED <<cached, left>>
         /\ used'   = (used \/ (out = "ok" /\ Noted(k)))
         /\ held'   = IF out = "denied" THEN AfterDenial(k) ELSE held
         /\ refused' = IF ~HeldIsRefused(k) THEN refused ELSE IF out = "denied" THEN "denied" ELSE "unread"
    /\ UNCHANGED <<caps, scanMode, newest, ended, astray>>

\* The user cancels the thread the tab holds: looked at every quarter of a
\* second while nmap, or the question for the password, is on.
Cancel(t) ==
    /\ newest[t] # NoScanThread /\ scan[newest[t]].at # "answer" /\ ~scan[newest[t]].cancel
    /\ scan' = [scan EXCEPT ![newest[t]].cancel = TRUE]
    /\ UNCHANGED <<caps, scanMode, held, cached, used, newest, ended, astray, refused, left>>

Authenticates(k) ==
    scan[k].at = "exec" /\ Method(k) \in {"askpass", "password"} /\ "ok" \in Outcomes(k)

\* A sudo that runs as root goes on, what comes of it unread.
Interrupted(k) ==
    /\ scan[k].at \in {"exec", "direct"} /\ scan[k].cancel
    /\ Answer(k)
    /\ astray' \in {astray, astray \/ Authenticates(k)}
    /\ refused' = IF scan[k].at = "exec" /\ HeldIsRefused(k) THEN "unread" ELSE refused
    /\ UNCHANGED <<caps, scanMode, held, cached, used, newest, ended, left>>

LetInLate ==
    /\ astray /\ astray' \in BOOLEAN /\ LetIn
    /\ UNCHANGED <<caps, scanMode, held, used, scan, newest, ended, refused>>

\* The tab shows the results, or the error; the thread is done.
Shown(k) ==
    /\ scan[k].at = "answer"
    /\ scan' = [scan EXCEPT ![k] = NoScan] /\ newest' = [t \in ScanTabs |-> IF newest[t] = k THEN NoScanThread ELSE newest[t]]
    /\ UNCHANGED <<caps, scanMode, held, cached, used, ended, astray, refused, left>>

---------------------------------------------------------------------------
\* Forgetting.

\* forget(): the held password always; `sudo -k` may fail, or not run at all.
Forgotten ==
    /\ held' = "none"
    /\ \/ "sudo" \in caps /\ used' = FALSE /\ cached' \in {FALSE, cached}
       \/ UNCHANGED <<cached, used>>
    /\ left' = cached'

ForgetPermission == Forgotten /\ UNCHANGED <<caps, scanMode, scan, newest, ended, astray, refused>>

\* Another way of asking is chosen in the menu, also while a scan runs.
LeavesSessionMutant(m) == m = "polkit"
LeavesSession(m) == m = "polkit" \/ scanMode = "sudo_session"

SetPrivilegeMethod(m) ==
    /\ scanMode' = m
    /\ IF LeavesSession(m) THEN Forgotten ELSE UNCHANGED <<held, cached, used, left>>
    /\ UNCHANGED <<caps, scan, newest, ended, astray, refused>>

\* About a quarter of an hour after the last use.
SudoExpires ==
    /\ cached /\ cached' = FALSE /\ left' = FALSE
    /\ UNCHANGED <<caps, scanMode, held, used, scan, newest, ended, astray, refused>>

\* forget_if_used(), when the program ends; sudo may let a scan in after that.
EndProgram ==
    /\ ended' = TRUE
    /\ \/ IF used THEN Forgotten ELSE held' = "none" /\ UNCHANGED <<cached, used, left>>
       \/ /\ astray \/ \E k \in ScanThreads : Authenticates(k)
          /\ held' = "none" /\ cached' = TRUE /\ left' = TRUE /\ used' \in {FALSE, used}
    /\ scan' = [k \in ScanThreads |-> NoScan] /\ newest' = [t \in ScanTabs |-> NoScanThread]
    /\ UNCHANGED <<caps, scanMode, astray, refused>>

Worker(k) == Direct(k) \/ Exec(k) \/ Interrupted(k) \/ Shown(k)

ScansNext ==
    /\ ~ended
    /\ \/ \E t \in ScanTabs :
            \/ Cancel(t)
            \/ \E k \in ScanThreads :
                 ScanPlain(t, k) \/ ScanWithPassword(t, k) \/ ScanWithHeld(t, k) \/ ScanWithMethods(t, k)
       \/ \E k \in ScanThreads : Worker(k)
       \/ \E m \in ScanModes : SetPrivilegeMethod(m)
       \/ ForgetPermission \/ SudoExpires \/ LetInLate \/ EndProgram

ScansSpec == ScansInit /\ [][ScansNext]_scansVars

---------------------------------------------------------------------------
\* What was permitted is given up again, whatever the other threads do
\* meanwhile.  The password of the insecure mode is held only while that mode is
\* on and the program runs, and not once a thread has read that sudo refused it
\* (core/privilege.py, "dropped on Forget, mode change, rejection and exit").  A
\* refusal goes unread when the scan is cancelled, or when sudo's last word is
\* that no password was provided, which classify() takes for a cancelled
\* question: then it is held on.
HeldWhileGood == held # "none" => scanMode = "sudo_session" /\ ~ended /\ refused # "denied"

\* When the program has ended, sudo remembers nothing of its scans (services/
\* privilege.py, forget_if_used): that is so only of scans that succeeded.  What
\* stays is an authentication for a scan that failed or was cancelled while none
\* that succeeded was to be forgotten, and one that `sudo -k` failed to forget.
NothingLeftBehind == ended /\ cached => left
PermissionIsDropped == HeldWhileGood /\ NothingLeftBehind
=============================================================================
