----------------------------- MODULE Tabs_proofs ----------------------------
(***************************************************************************)
(* Proofs about what lies on and behind the tabs, one part at a time.      *)
(*                                                                         *)
(* Scans and their permission, for any number of threads at a time and     *)
(* whatever is installed: the held password and what sudo remembers are    *)
(* given up again.                                                         *)
(*                                                                         *)
(* The tabs of probes, for any hosts and any number of open questions: a   *)
(* thread that runs is the one its tab holds, as long as no signal of a    *)
(* replaced worker came late.                                              *)
(*                                                                         *)
(* The AI tab beside the table, what a scan is given, the servers of       *)
(* a chat, and what becomes of a transfer: each with the lemmas about      *)
(* the operators it is built from, then its inductive invariant.           *)
(***************************************************************************)
EXTENDS Scans, AITab, ProbeTab, Targets, TransferPlan, ChatServer,
        FiniteSetTheorems, SequenceTheorems, WellFoundedInduction, TLAPS

---------------------------------------------------------------------------
(* Scans and their permission. *)

---------------------------------------------------------------------------
(* The inductive invariant. *)

FlagsTyped ==
    /\ held \in Password /\ scanMode \in ScanModes
    /\ cached \in BOOLEAN /\ used \in BOOLEAN /\ ended \in BOOLEAN /\ left \in BOOLEAN

\* What sudo remembers is noted for the end, or known to be left.
RememberedIsNoted == cached => used \/ left

ScansInv == FlagsTyped /\ RememberedIsNoted /\ PermissionIsDropped

LEMMA ScansInitHolds == ScansInit => ScansInv
  BY DEF ScansInit, ScansInv, FlagsTyped, RememberedIsNoted, PermissionIsDropped, HeldWhileGood,
         NothingLeftBehind, Password

---------------------------------------------------------------------------
(* Every step keeps the invariant. *)

\* A step that changes no permission.
LEMMA PlainStep ==
    ASSUME ScansInv, UNCHANGED <<scanMode, held, cached, used, ended, refused, left>>
    PROVE  ScansInv'
  BY DEF ScansInv, FlagsTyped, RememberedIsNoted, PermissionIsDropped, HeldWhileGood, NothingLeftBehind

\* A password is held only in the mode that holds it, and is not refused yet.
LEMMA PasswordKeeps ==
    ASSUME ScansInv, ~ended, NEW t \in ScanTabs, NEW k \in ScanThreads, ScanWithPassword(t, k)
    PROVE  ScansInv'
  <1>1. UNCHANGED <<scanMode, cached, used, ended, left>>
    BY DEF ScanWithPassword
  <1>2. CASE scanMode = "sudo" /\ UNCHANGED <<held, refused>>
    BY <1>1, <1>2, PlainStep
  <1>3. CASE scanMode = "sudo_session" /\ held' \in {"right", "wrong"} /\ refused' = "no"
    BY <1>1, <1>3 DEF ScansInv, FlagsTyped, RememberedIsNoted, PermissionIsDropped, HeldWhileGood,
                      NothingLeftBehind, Password
  <1> QED
    BY <1>2, <1>3 DEF ScanWithPassword

\* A scan that sudo lets in is noted, or left; a password that it refuses is
\* dropped.
LEMMA ExecKeeps ==
    ASSUME ScansInv, ~ended, NEW k \in ScanThreads, Exec(k)
    PROVE  ScansInv'
  <1>1. PICK out \in Outcomes(k) :
          /\ CASE out = "ok" /\ ViaSudo(k) -> cached' = TRUE /\ left' = FALSE
               [] out = "failed" /\ ViaSudo(k) -> LetIn
               [] OTHER -> UNCHANGED <<cached, left>>
          /\ used'   = (used \/ (out = "ok" /\ Noted(k)))
          /\ held'   = IF out = "denied" THEN AfterDenial(k) ELSE held
          /\ refused' = IF ~HeldIsRefused(k) THEN refused ELSE IF out = "denied" THEN "denied" ELSE "unread"
    BY DEF Exec
  <1>2. UNCHANGED <<scanMode, ended>>
    BY DEF Exec
  <1>3. held' \in {held, "none"} /\ (refused' = "denied" => refused = "denied" \/ held' = "none")
    BY <1>1 DEF AfterDenial, HeldIsRefused
  <1>4. CASE out = "ok" /\ ViaSudo(k)
    <2>1. cached' = TRUE /\ left' = FALSE /\ used' = TRUE
      BY <1>1, <1>4 DEF Noted
    <2> QED
      BY <1>2, <1>3, <2>1 DEF ScansInv, FlagsTyped, RememberedIsNoted, PermissionIsDropped, HeldWhileGood,
                              NothingLeftBehind, Password
  <1>5. CASE out = "failed" /\ ViaSudo(k)
    <2>1. cached' = TRUE /\ left' = (left \/ ~used)
      BY <1>1, <1>5 DEF LetIn
    <2>2. used' = used
      BY <1>1, <1>5 DEF ScansInv, FlagsTyped
    <2> QED
      BY <1>2, <1>3, <2>1, <2>2 DEF ScansInv, FlagsTyped, RememberedIsNoted, PermissionIsDropped,
                                    HeldWhileGood, NothingLeftBehind, Password
  <1>6. CASE ~(out = "ok" /\ ViaSudo(k)) /\ ~(out = "failed" /\ ViaSudo(k))
    <2>1. cached' = cached /\ left' = left
      BY <1>1, <1>6
    <2>2. used' = used
      BY <1>1, <1>6 DEF Noted, ScansInv, FlagsTyped
    <2> QED
      BY <1>2, <1>3, <2>1, <2>2 DEF ScansInv, FlagsTyped, RememberedIsNoted, PermissionIsDropped,
                                    HeldWhileGood, NothingLeftBehind, Password
  <1> QED
    BY <1>4, <1>5, <1>6

\* Of a cancelled scan a refusal is not read.
LEMMA InterruptedKeeps ==
    ASSUME ScansInv, NEW k \in ScanThreads, Interrupted(k)
    PROVE  ScansInv'
  <1>1. UNCHANGED <<scanMode, held, cached, used, ended, left>> /\ refused' \in {refused, "unread"}
    BY DEF Interrupted
  <1> QED
    BY <1>1 DEF ScansInv, FlagsTyped, RememberedIsNoted, PermissionIsDropped, HeldWhileGood, NothingLeftBehind

\* Its sudo may let it in afterwards.
LEMMA LateKeeps ==
    ASSUME ScansInv, ~ended, LetInLate PROVE ScansInv'
  BY DEF LetInLate, LetIn, ScansInv, FlagsTyped, RememberedIsNoted, PermissionIsDropped, HeldWhileGood,
         NothingLeftBehind

\* Forgetting leaves nothing held, and knows what it leaves.
LEMMA ForgottenKeeps ==
    ASSUME ScansInv, Forgotten
    PROVE  /\ held' = "none" /\ left' = cached' /\ cached' \in BOOLEAN /\ used' \in BOOLEAN
  BY DEF Forgotten, ScansInv, FlagsTyped

LEMMA ForgetKeeps ==
    ASSUME ScansInv, ForgetPermission PROVE ScansInv'
  BY ForgottenKeeps DEF ForgetPermission, ScansInv, FlagsTyped, RememberedIsNoted, PermissionIsDropped,
                        HeldWhileGood, NothingLeftBehind, Password

LEMMA MethodKeeps ==
    ASSUME ScansInv, NEW m \in ScanModes, SetPrivilegeMethod(m) PROVE ScansInv'
  <1>1. scanMode' = m /\ UNCHANGED <<ended, refused>>
    BY DEF SetPrivilegeMethod
  <1>2. CASE Forgotten
    BY <1>1, <1>2, ForgottenKeeps DEF ScansInv, FlagsTyped, RememberedIsNoted, PermissionIsDropped,
                                      HeldWhileGood, NothingLeftBehind, Password
  <1>3. CASE ~LeavesSession(m) /\ UNCHANGED <<held, cached, used, left>>
    <2>1. held = "none"
      BY <1>3 DEF LeavesSession, ScansInv, PermissionIsDropped, HeldWhileGood
    <2> QED
      BY <1>1, <1>3, <2>1 DEF ScansInv, FlagsTyped, RememberedIsNoted, PermissionIsDropped, HeldWhileGood,
                              NothingLeftBehind
  <1> QED
    BY <1>2, <1>3 DEF SetPrivilegeMethod

LEMMA ExpiryKeeps ==
    ASSUME ScansInv, SudoExpires PROVE ScansInv'
  BY DEF SudoExpires, ScansInv, FlagsTyped, RememberedIsNoted, PermissionIsDropped, HeldWhileGood,
         NothingLeftBehind

LEMMA EndKeeps ==
    ASSUME ScansInv, EndProgram PROVE ScansInv'
  <1>1. ended' = TRUE /\ UNCHANGED <<scanMode, refused>>
    BY DEF EndProgram
  <1>2. CASE used /\ Forgotten
    BY <1>1, <1>2, ForgottenKeeps DEF ScansInv, FlagsTyped, RememberedIsNoted, PermissionIsDropped,
                                      HeldWhileGood, NothingLeftBehind, Password
  <1>3. CASE ~used /\ held' = "none" /\ UNCHANGED <<cached, used, left>>
    BY <1>1, <1>3 DEF ScansInv, FlagsTyped, RememberedIsNoted, PermissionIsDropped, HeldWhileGood,
                      NothingLeftBehind, Password
  <1>4. CASE held' = "none" /\ cached' = TRUE /\ left' = TRUE /\ used' \in {FALSE, used}
    BY <1>1, <1>4 DEF ScansInv, FlagsTyped, RememberedIsNoted, PermissionIsDropped, HeldWhileGood,
                      NothingLeftBehind, Password
  <1> QED
    BY <1>2, <1>3, <1>4 DEF EndProgram

LEMMA ScansStepKeeps == ScansInv /\ [ScansNext]_scansVars => ScansInv'
  <1> SUFFICES ASSUME ScansInv, [ScansNext]_scansVars PROVE ScansInv'
    OBVIOUS
  <1>1. CASE UNCHANGED scansVars
    BY <1>1, PlainStep DEF scansVars
  <1>2. ASSUME NEW t \in ScanTabs, NEW k \in ScanThreads,
               ScanPlain(t, k) \/ ScanWithHeld(t, k) \/ ScanWithMethods(t, k)
        PROVE  ScansInv'
    BY <1>2, PlainStep DEF ScanPlain, ScanWithHeld, ScanWithMethods
  <1>3. ASSUME ~ended, NEW t \in ScanTabs, NEW k \in ScanThreads, ScanWithPassword(t, k) PROVE ScansInv'
    BY <1>3, PasswordKeeps
  <1>4. ASSUME NEW m \in ScanModes, SetPrivilegeMethod(m) PROVE ScansInv'
    BY <1>4, MethodKeeps
  <1>5. CASE ~ended /\ (ForgetPermission \/ SudoExpires \/ LetInLate \/ EndProgram)
    BY <1>5, ForgetKeeps, ExpiryKeeps, LateKeeps, EndKeeps
  <1>6. ASSUME NEW t \in ScanTabs, Cancel(t) PROVE ScansInv'
    BY <1>6, PlainStep DEF Cancel
  <1>7. ASSUME ~ended, NEW k \in ScanThreads, Direct(k) \/ Exec(k) \/ Interrupted(k) \/ Shown(k) PROVE ScansInv'
    BY <1>7, PlainStep, ExecKeeps, InterruptedKeeps DEF Direct, Shown
  <1> QED
    BY <1>1, <1>2, <1>3, <1>4, <1>5, <1>6, <1>7 DEF ScansNext, Worker

---------------------------------------------------------------------------
\* However many scans run, and in whatever order they are refused, cancelled or
\* fail, modes change and the program ends: no password is held outside its
\* mode, after a refusal that was read as one, or after the end, and sudo
\* remembers only what is known to be left (services/privilege.py).
THEOREM PermissionsEnd == ScansSpec => []PermissionIsDropped
  <1>1. ScansInv => PermissionIsDropped
    BY DEF ScansInv
  <1> QED
    BY <1>1, ScansInitHolds, ScansStepKeeps, PTL DEF ScansSpec

---------------------------------------------------------------------------
(* Tabs of probes. *)

---------------------------------------------------------------------------
(* The inductive invariant: a row that is not known to be overtaken starts  *)
(* a thread only when it holds none that runs, so none runs at all.         *)

Places  == {"none", "running", "cleanup", "done"}
Said    == {"none", "result", "error", "key"}
Threading == [at : Places, said : Said]

\* The part of the type invariant that the threads are about.
ThreadsTyped ==
    /\ worker \in [ProbeIps -> {0} \cup Threads]
    /\ thread \in [ProbeIps -> [Threads -> Threading]]
    /\ asking \in Seq(ProbeIps)

ProbeInv == ThreadsTyped /\ RunningIsHeld

LEMMA ProbeInitHolds == ProbeInit => ProbeInv
  BY DEF ProbeInit, ProbeInv, ThreadsTyped, RunningIsHeld, Threads, NoThread, Threading, Places, Said

---------------------------------------------------------------------------
(* Every step keeps it. *)

\* Refreshing some rows: their new threads are held, and no other runs.
LEMMA StartKeeps ==
    ASSUME ProbeInv, NEW ips \in SUBSET ProbeIps, ProbeRows(ips), overtaken' = overtaken,
           asking' \in Seq(ProbeIps)
    PROVE  ProbeInv'
  <1> DEFINE Begun == {ip \in ips : status[ip] # "absent" /\ ~IsRunning(ip)}
  <1>1. PICK new \in [Begun -> Threads] :
          /\ worker' = [ip \in ProbeIps |-> IF ip \in Begun THEN new[ip] ELSE worker[ip]]
          /\ thread' = [ip \in ProbeIps |->
               IF ip \in Begun THEN [thread[ip] EXCEPT ![new[ip]] = [at |-> "running", said |-> "none"]]
               ELSE thread[ip]]
    BY DEF ProbeRows
  <1>2. \A ip \in Begun : ip \in ProbeIps /\ ~IsRunning(ip)
    OBVIOUS
  <1> HIDE DEF Begun
  <1>3. worker' \in [ProbeIps -> {0} \cup Threads] /\ thread' \in [ProbeIps -> [Threads -> Threading]]
    BY <1>1 DEF ProbeInv, ThreadsTyped, Threading, Places, Said
  <1>4. ASSUME NEW ip \in ProbeIps \ overtaken, NEW t \in Threads,
               thread'[ip][t].at \in {"running", "cleanup"}
        PROVE  worker'[ip] = t
    <2>1. CASE ip \notin Begun
      BY <1>1, <1>4, <2>1 DEF ProbeInv, RunningIsHeld
    <2>2. CASE ip \in Begun
      <3>1. \A s \in Threads : thread[ip][s].at \notin {"running", "cleanup"}
        BY <1>2, <2>2 DEF ProbeInv, RunningIsHeld, IsRunning, Threads
      <3>2. thread'[ip] = [thread[ip] EXCEPT ![new[ip]] = [at |-> "running", said |-> "none"]]
            /\ worker'[ip] = new[ip]
        BY <1>1, <2>2
      <3> QED
        BY <1>4, <3>1, <3>2 DEF ProbeInv, ThreadsTyped
    <2> QED
      BY <2>1, <2>2
  <1> QED
    BY <1>3, <1>4 DEF ProbeInv, ThreadsTyped, RunningIsHeld

\* An answer, and its delivery, leave the thread where the tab holds it.
LEMMA SignalKeeps ==
    ASSUME ProbeInv, NEW ip \in ProbeIps, NEW t \in Threads,
           Reports(ip, t) \/ Returns(ip, t) \/ Deliver(ip, t)
    PROVE  ProbeInv'
  <1>1. worker' = worker /\ overtaken' = overtaken
    BY DEF Reports, Returns, Deliver
  <1>2. asking' \in Seq(ProbeIps)
    <2>1. asking' \in {asking, Append(asking, ip)}
      BY DEF Reports, Returns, Deliver
    <2>2. asking \in Seq(ProbeIps) /\ Append(asking, ip) \in Seq(ProbeIps)
      BY DEF ProbeInv, ThreadsTyped
    <2> QED
      BY <2>1, <2>2
  <1>3. /\ thread' \in [ProbeIps -> [Threads -> Threading]]
        /\ \A jp \in ProbeIps : \A s \in Threads :
             thread'[jp][s].at \in {"running", "cleanup"} => thread[jp][s].at \in {"running", "cleanup"}
    <2>1. CASE Reports(ip, t)
      BY <2>1 DEF Reports, ProbeInv, ThreadsTyped, Threading, Places, Said
    <2>2. CASE Returns(ip, t)
      <3> DEFINE R == [thread[ip][t] EXCEPT !.at = "done"]
      <3>1. thread[ip] \in [Threads -> Threading] /\ thread[ip][t] \in Threading
        BY DEF ProbeInv, ThreadsTyped
      <3>2. R \in Threading /\ R.at = "done"
        BY <3>1 DEF Threading, Places
      <3>3. thread' = [thread EXCEPT ![ip] = [thread[ip] EXCEPT ![t] = R]]
        BY <2>2 DEF Returns
      <3> HIDE DEF R
      <3> QED
        BY <3>1, <3>2, <3>3 DEF ProbeInv, ThreadsTyped
    <2>3. CASE Deliver(ip, t)
      BY <2>3 DEF Deliver, ProbeInv, ThreadsTyped, Threading, Places, Said
    <2> QED
      BY <2>1, <2>2, <2>3
  <1> QED
    BY <1>1, <1>2, <1>3 DEF ProbeInv, ThreadsTyped, RunningIsHeld

\* The end of a thread takes another one from its tab only by overtaking it.
LEMMA FinishedKeeps ==
    ASSUME ProbeInv, NEW ip \in ProbeIps, NEW t \in Threads, Finished(ip, t)
    PROVE  ProbeInv'
  <1>1. /\ thread[ip][t].at = "done" /\ thread' = [thread EXCEPT ![ip][t] = NoThread]
        /\ asking' = asking
    BY DEF Finished
  <1>2. /\ thread' \in [ProbeIps -> [Threads -> Threading]]
        /\ \A jp \in ProbeIps : \A s \in Threads :
             thread'[jp][s].at \in {"running", "cleanup"} =>
                 thread[jp][s].at \in {"running", "cleanup"} /\ ~(jp = ip /\ s = t)
    BY <1>1 DEF ProbeInv, ThreadsTyped, NoThread, Threading, Places, Said
  <1>3. CASE worker' = [worker EXCEPT ![ip] = 0]
             /\ overtaken' = IF worker[ip] \in {0, t} THEN overtaken ELSE overtaken \cup {ip}
    BY <1>1, <1>2, <1>3 DEF ProbeInv, ThreadsTyped, RunningIsHeld, Threads
  <1>4. CASE worker[ip] # t /\ UNCHANGED <<worker, overtaken>>
    BY <1>1, <1>2, <1>4 DEF ProbeInv, ThreadsTyped, RunningIsHeld
  <1> QED
    BY <1>3, <1>4 DEF Finished

LEMMA ProbeStepHolds == ProbeInv /\ [ProbeNext]_probeVars => ProbeInv'
  <1> SUFFICES ASSUME ProbeInv, [ProbeNext]_probeVars
               PROVE  ProbeInv'
    OBVIOUS
  <1>1. CASE UNCHANGED probeVars
    BY <1>1 DEF probeVars, ProbeInv, ThreadsTyped, RunningIsHeld
  <1>2. CASE \E wanted \in SUBSET ProbeIps : Populate(wanted)
    BY <1>2 DEF Populate, ProbeInv, ThreadsTyped, RunningIsHeld
  <1>3. CASE RefreshAll
    BY <1>3, StartKeeps DEF RefreshAll, ProbeInv, ThreadsTyped
  <1>4. CASE Answered
    <2>1. /\ Last(asking) \in ProbeIps /\ asking' \in Seq(ProbeIps) /\ overtaken' = overtaken
      BY <1>4 DEF Answered, Last, Front, ProbeInv, ThreadsTyped
    <2>2. CASE ProbeRows({Last(asking)})
      BY <2>1, <2>2, StartKeeps
    <2>3. CASE UNCHANGED <<status, worker, thread>>
      BY <2>1, <2>3 DEF ProbeInv, ThreadsTyped, RunningIsHeld
    <2> QED
      BY <1>4, <2>2, <2>3 DEF Answered
  <1>5. CASE \E ip \in ProbeIps, t \in Threads : ProbeSignals(ip, t)
    BY <1>5, SignalKeeps, FinishedKeeps DEF ProbeSignals
  <1> QED
    BY <1>1, <1>2, <1>3, <1>4, <1>5 DEF ProbeNext

(* However answers, refreshes, questions and ends of threads interleave, a  *)
(* running probe is the one its tab holds, so that it is neither destroyed  *)
(* nor doubled; only the late signal of a replaced worker can take it.      *)
THEOREM RunningStaysHeld == ProbeSpec => []RunningIsHeld
  <1>1. ProbeInv => RunningIsHeld
    BY DEF ProbeInv
  <1> QED
    BY ProbeInitHolds, ProbeStepHolds, <1>1, PTL DEF ProbeSpec

---------------------------------------------------------------------------
(* The scanner's table and the AI tab beside it. *)

\* Rows are records of these fields.
IsRow(x) == x = [ip |-> x.ip, mac |-> x.mac, ping |-> x.ping]
IsTable(s) == IsList(s) /\ \A i \in DOMAIN s : IsRow(s[i])

TableShape ==
    /\ IsTable(rows)
    /\ IsFiniteSet(results) /\ IsFiniteSet(DOMAIN saved)

OneDiscovery == discovery = [on |-> discovery.on, left |-> discovery.left] /\ stale \in BOOLEAN

AIInv == TableShape /\ OneDiscovery /\ ListIsCurrent

\* A function on the first numbers is a sequence of its values.
LEMMA ListsAreSeqs ==
    ASSUME NEW n \in Nat, NEW s, s = [i \in 1..n |-> s[i]]
    PROVE  IsList(s) /\ DOMAIN s = 1..n
  <1> DEFINE S == {s[i] : i \in DOMAIN s}
  <1>1. DOMAIN s = 1..n
    OBVIOUS
  <1>2. \A i \in 1..n : s[i] \in S
    BY <1>1
  <1> HIDE DEF S
  <1>3. s \in [1..n -> S]
    BY <1>1, <1>2
  <1>4. s \in Seq(S)
    BY <1>3
  <1> QED
    BY <1>1, <1>4 DEF IsList, S

LEMMA SeqsAreLists ==
    ASSUME NEW s, IsList(s)
    PROVE  Len(s) \in Nat /\ DOMAIN s = 1..Len(s) /\ s = [i \in 1..Len(s) |-> s[i]]
  <1> DEFINE S == {s[i] : i \in DOMAIN s}
  <1>1. s \in Seq(S)
    BY DEF IsList
  <1> HIDE DEF S
  <1> QED
    BY <1>1

\* The rows that are left when one is removed, or added.
LEMMA RemovedRows ==
    ASSUME NEW s, IsList(s), NEW i \in DOMAIN s
    PROVE  /\ IsList(RemoveAt(s, i))
           /\ \A j \in DOMAIN RemoveAt(s, i) : \E k \in DOMAIN s : RemoveAt(s, i)[j] = s[k]
  <1> DEFINE S == {s[k] : k \in DOMAIN s}
             r == RemoveAt(s, i)
  <1>1. s \in Seq(S) /\ i \in 1..Len(s)
    BY SeqsAreLists DEF IsList
  <1>2. r \in Seq(S)
    <2> HIDE DEF S
    <2>1. i - 1 \in Int /\ i + 1 \in Int /\ Len(s) \in Nat /\ i \in Nat
      BY <1>1
    <2>2. SubSeq(s, 1, i - 1) \in Seq(S)
      BY <1>1, <2>1, SubSeqProperties
    <2>3. SubSeq(s, i + 1, Len(s)) \in Seq(S)
      BY <1>1, <2>1, SubSeqProperties
    <2> QED
      BY <2>2, <2>3, ConcatProperties DEF RemoveAt
  <1>3. \A j \in DOMAIN r : r[j] \in S
    <2> HIDE DEF S, r
    <2> QED
      BY <1>2
  <1>4. r = [j \in 1..Len(r) |-> r[j]] /\ Len(r) \in Nat
    <2> HIDE DEF S, r
    <2> QED
      BY <1>2
  <1>5. IsList(r)
    BY <1>4, ListsAreSeqs
  <1> HIDE DEF r
  <1>6. \A j \in DOMAIN r : \E k \in DOMAIN s : r[j] = s[k]
    BY <1>3
  <1> QED
    BY <1>5, <1>6 DEF r

LEMMA AppendedRows ==
    ASSUME NEW s, IsList(s), NEW x
    PROVE  IsList(Append(s, x))
  <1>1. Len(s) \in Nat /\ s = [i \in 1..Len(s) |-> s[i]]
    BY SeqsAreLists
  <1> DEFINE n == Len(s) + 1
             r == Append(s, x)
             S == {s[i] : i \in DOMAIN s} \cup {x}
  <1>2. s \in Seq(S) /\ x \in S
    <2>1. \A i \in 1..Len(s) : s[i] \in S
      BY <1>1
    <2> HIDE DEF S
    <2>2. s \in [1..Len(s) -> S]
      BY <1>1, <2>1
    <2>3. s \in Seq(S)
      BY <1>1, <2>2
    <2> QED
      BY <2>3 DEF S
  <1> HIDE DEF S
  <1>3. r \in Seq(S)
    BY <1>2
  <1> HIDE DEF r
  <1>4. r = [i \in 1..Len(r) |-> r[i]] /\ Len(r) \in Nat
    BY <1>3
  <1> QED
    BY <1>4, ListsAreSeqs DEF r

LEMMA AppendedTable ==
    ASSUME NEW s, IsTable(s), NEW x, IsRow(x)
    PROVE  IsTable(Append(s, x))
  <1> DEFINE r == Append(s, x)
  <1>1. IsList(s) /\ IsList(r)
    BY AppendedRows DEF IsTable
  <1>2. Len(s) \in Nat /\ s = [i \in 1..Len(s) |-> s[i]]
    BY <1>1, SeqsAreLists
  <1> DEFINE S == {s[i] : i \in 1..Len(s)} \cup {x}
  <1>3. s \in Seq(S) /\ x \in S
    <2>1. \A i \in 1..Len(s) : s[i] \in S
      BY <1>2
    <2> HIDE DEF S
    <2>2. s \in [1..Len(s) -> S]
      BY <1>2, <2>1
    <2> QED
      BY <1>2, <2>2 DEF S
  <1>4. \A y \in S : IsRow(y)
    BY <1>2 DEF IsTable
  <1> HIDE DEF S
  <1>5. \A i \in DOMAIN r : r[i] \in S
    BY <1>3
  <1> QED
    BY <1>1, <1>4, <1>5 DEF IsTable

---------------------------------------------------------------------------
LEMMA PopulateIsList ==
    ASSUME ScanTableAssumption, IsFiniteSet(results'), IsFiniteSet(DOMAIN saved), PopulateResults
    PROVE  IsTable(rows')
  <1>1. PICK owner \in Owners :
          LET sorted == SetToSortSeq(Master(owner), Above)
          IN  rows' = [i \in 1..Cardinality(Master(owner)) |-> Row(sorted[i].ip, sorted[i].mac)]
    BY DEF PopulateResults
  <1> DEFINE Key(h) == HostKey(h, owner)
             present == {h \in results' : \A g \in results' : Key(g) = Key(h) => g.ip <= h.ip}
             absent == DOMAIN saved \ {Key(h) : h \in results'}
             Mac(k) == IF k \in TabMacs THEN k ELSE Dash
             Of(h) == [key |-> Key(h), ip |-> h.ip, off |-> 0, mac |-> IF h.mac # Dash THEN h.mac ELSE Mac(Key(h))]
             Off(k) == [key |-> k, ip |-> saved[k], off |-> 1, mac |-> Mac(k)]
             A == {Of(h) : h \in present}
             B == {Off(k) : k \in absent}
  <1>2. Master(owner) = A \cup B
    BY DEF Master
  <1>3. IsFiniteSet(present)
    BY FS_Subset
  <1>4. IsFiniteSet(absent)
    BY FS_Subset
  <1> HIDE DEF present, absent, Of, Off
  <1>5. IsFiniteSet(A)
    <2> DEFINE f == [h \in present |-> Of(h)]
    <2>1. f \in Surjection(present, A)
      BY DEF Surjection
    <2> QED
      BY <1>3, <2>1, FS_Surjection
  <1>6. IsFiniteSet(B)
    <2> DEFINE f == [k \in absent |-> Off(k)]
    <2>1. f \in Surjection(absent, B)
      BY DEF Surjection
    <2> QED
      BY <1>4, <2>1, FS_Surjection
  <1>7. Cardinality(Master(owner)) \in Nat
    BY <1>2, <1>5, <1>6, FS_Union, FS_CardinalityType
  <1>8. rows' = [i \in 1..Cardinality(Master(owner)) |-> rows'[i]]
    BY <1>1
  <1>9. IsList(rows') /\ DOMAIN rows' = 1..Cardinality(Master(owner))
    BY <1>7, <1>8, ListsAreSeqs
  <1>10. \A i \in DOMAIN rows' : IsRow(rows'[i])
    <2> HIDE DEF A, B
    <2> QED
      BY <1>1, <1>9 DEF Row, IsRow
  <1> QED
    BY <1>9, <1>10 DEF IsTable

LEMMA SavedStaysFinite ==
    ASSUME IsFiniteSet(DOMAIN saved), NEW k, NEW x
    PROVE  /\ IsFiniteSet(DOMAIN Save(k, x)) /\ IsFiniteSet(DOMAIN Without(saved, k))
           /\ IsFiniteSet((DOMAIN saved \ {k}) \cup {x})
  <1>1. IsFiniteSet(DOMAIN saved \cup {k}) /\ IsFiniteSet(DOMAIN saved \ {k})
    BY FS_AddElement, FS_RemoveElement
  <1>2. IsFiniteSet((DOMAIN saved \ {k}) \cup {x})
    BY <1>1, FS_AddElement
  <1> QED
    BY <1>1, <1>2 DEF Save, Without

\* A step that tells of new hosts leaves a table with a list of rows.
LEMMA ChangesKeepShape ==
    ASSUME ScanTableAssumption, TableShape, HostsChange
    PROVE  TableShape'
  <1>1. ASSUME NEW ip \in TabIps, AddHost(ip) PROVE TableShape'
    <2>1. rows' = Append(rows, Row(ip, Dash)) /\ IsRow(Row(ip, Dash))
      BY <1>1 DEF AddHost, Row, IsRow
    <2>2. IsTable(rows')
      BY <2>1, AppendedTable DEF TableShape
    <2>3. IsFiniteSet(DOMAIN saved') /\ results' = results
      BY <1>1, SavedStaysFinite DEF AddHost, TableShape
    <2> QED
      BY <2>2, <2>3 DEF TableShape, IsTable, IsList, IsRow
  <1>2. ASSUME NEW found \in Founds, ShowResults(found) PROVE TableShape'
    <2>1. IsFiniteSet(results') /\ saved' = saved
      BY <1>2 DEF ShowResults, ScanTableAssumption
    <2>2. IsTable(rows')
      BY <1>2, <2>1, PopulateIsList DEF ShowResults, TableShape
    <2> QED
      BY <2>1, <2>2 DEF TableShape, IsTable, IsList, IsRow
  <1>3. CASE FadedOut
    <2>1. results' = results /\ saved' = saved
      BY <1>3 DEF FadedOut
    <2>2. IsTable(rows')
      BY <1>3, <2>1, PopulateIsList DEF FadedOut, TableShape
    <2> QED
      BY <2>1, <2>2 DEF TableShape, IsTable, IsList, IsRow
  <1>4. CASE ClearHistory
    <2>1. IsTable(rows')
      <3>1. rows' = <<>>
        BY <1>4 DEF ClearHistory
      <3> QED
        BY <3>1 DEF IsTable, IsList
    <2>2. IsFiniteSet(DOMAIN saved') /\ results' = results
      BY <1>4, FS_EmptySet DEF ClearHistory
    <2> QED
      BY <2>1, <2>2 DEF TableShape, IsTable, IsList, IsRow
  <1> QED
    BY <1>1, <1>2, <1>3, <1>4 DEF HostsChange

\* No other step of the table brings an address into it.
NoNewRow == \A j \in DOMAIN rows' : \E k \in DOMAIN rows : rows'[j].ip = rows[k].ip

LEMMA OneCell ==
    ASSUME IsTable(rows), NEW i \in DOMAIN rows, NEW x,
           rows' = [rows EXCEPT ![i].ping = x] \/ rows' = [rows EXCEPT ![i].mac = x]
    PROVE  IsTable(rows') /\ NoNewRow
  <1>1. Len(rows) \in Nat /\ DOMAIN rows = 1..Len(rows) /\ rows = [j \in 1..Len(rows) |-> rows[j]]
    BY SeqsAreLists DEF IsTable
  <1>2. DOMAIN rows' = DOMAIN rows /\ rows' = [j \in 1..Len(rows) |-> rows'[j]]
    BY <1>1
  <1>3. \A j \in DOMAIN rows : j # i => rows'[j] = rows[j]
    BY <1>1
  <1>4. rows'[i] = [ip |-> rows[i].ip, mac |-> rows[i].mac, ping |-> x]
        \/ rows'[i] = [ip |-> rows[i].ip, mac |-> x, ping |-> rows[i].ping]
    <2>1. PICK a : a = rows[i]
      OBVIOUS
    <2>2. a = [ip |-> a.ip, mac |-> a.mac, ping |-> a.ping]
      BY <2>1 DEF IsTable, IsRow
    <2>3. rows'[i] = [a EXCEPT !.ping = x] \/ rows'[i] = [a EXCEPT !.mac = x]
      BY <1>1, <2>1
    <2>4. [a EXCEPT !.ping = x] = [ip |-> a.ip, mac |-> a.mac, ping |-> x]
          /\ [a EXCEPT !.mac = x] = [ip |-> a.ip, mac |-> x, ping |-> a.ping]
      BY <2>2
    <2> QED
      BY <2>1, <2>3, <2>4
  <1>5. IsList(rows')
    BY <1>1, <1>2, ListsAreSeqs
  <1>6. \A j \in DOMAIN rows' : IsRow(rows'[j]) /\ rows'[j].ip = rows[j].ip
    <2> SUFFICES ASSUME NEW j \in DOMAIN rows' PROVE IsRow(rows'[j]) /\ rows'[j].ip = rows[j].ip
      OBVIOUS
    <2>1. CASE j = i
      BY <1>4, <2>1 DEF IsRow
    <2>2. CASE j # i
      BY <1>2, <1>3, <2>2 DEF IsTable
    <2> QED
      BY <2>1, <2>2
  <1> QED
    BY <1>2, <1>5, <1>6 DEF IsTable, NoNewRow

LEMMA OthersKeepShape ==
    ASSUME ScanTableAssumption, TableShape, HostsStay
    PROVE  TableShape' /\ NoNewRow
  <1>0. ASSUME UNCHANGED rows PROVE IsTable(rows') /\ NoNewRow
    BY <1>0 DEF TableShape, NoNewRow
  <1>1. ASSUME NEW found \in Founds, KeepResults(found) PROVE TableShape' /\ NoNewRow
    <2>1. UNCHANGED <<rows, saved>> /\ IsFiniteSet(results')
      BY <1>1 DEF KeepResults, ScanTableAssumption
    <2> QED
      BY <1>0, <2>1 DEF TableShape, IsTable, IsList, IsRow
  <1>2. CASE FadedIn \/ Dismiss \/ \E i \in DOMAIN rows : OpenBox(i)
    <2>1. UNCHANGED <<rows, saved, results>>
      BY <1>2 DEF FadedIn, Dismiss, OpenBox
    <2> QED
      BY <1>0, <2>1 DEF TableShape, IsTable, IsList, IsRow
  <1>3. ASSUME NEW p \in BagToSet(pings), PingAnswered(p) PROVE TableShape' /\ NoNewRow
    <2>1. UNCHANGED <<saved, results>>
      BY <1>3 DEF PingAnswered
    <2>2. PICK ms \in BOOLEAN : PingCell(p, ms)
      BY <1>3 DEF PingAnswered
    <2>3. IsTable(rows') /\ NoNewRow
      <3>1. CASE p[1] \in DOMAIN rows
        <4>1. PICK i \in DOMAIN rows : i = p[1]
          BY <3>1
        <4>2. PICK x : x = IF ms THEN p[2] ELSE NoTime
          OBVIOUS
        <4>3. rows' = [rows EXCEPT ![i].ping = x]
          BY <2>2, <3>1, <4>1, <4>2 DEF PingCell
        <4> QED
          BY <4>3, OneCell DEF TableShape
      <3>2. CASE p[1] \notin DOMAIN rows
        BY <1>0, <2>2, <3>2 DEF PingCell
      <3> QED
        BY <3>1, <3>2
    <2> QED
      BY <2>1, <2>3 DEF TableShape, IsTable, IsList, IsRow
  <1>4. CASE EditProfile
    <2>1. UNCHANGED <<rows, results>> /\ IsFiniteSet(DOMAIN saved')
      BY <1>4, SavedStaysFinite DEF EditProfile, TableShape
    <2> QED
      BY <1>0, <2>1 DEF TableShape, IsTable, IsList, IsRow
  <1>5. CASE DeleteProfile
    <2>1. UNCHANGED results /\ IsFiniteSet(DOMAIN saved')
      BY <1>5, SavedStaysFinite DEF DeleteProfile, TableShape
    <2>2. IsTable(rows') /\ NoNewRow
      <3>1. CASE UNCHANGED rows
        BY <1>0, <3>1
      <3>2. CASE box.row \in DOMAIN rows /\ rows' = RemoveAt(rows, box.row)
        BY <3>2, RemovedRows DEF TableShape, IsTable, NoNewRow
      <3> QED
        BY <1>5, <3>1, <3>2 DEF DeleteProfile
    <2> QED
      BY <2>1, <2>2 DEF TableShape, IsTable, IsList, IsRow
  <1>6. ASSUME NEW mac \in TabMacs, Connected(mac) PROVE TableShape' /\ NoNewRow
    <2>1. UNCHANGED results /\ box.row \in DOMAIN rows /\ rows' = [rows EXCEPT ![box.row].mac = mac]
      BY <1>6 DEF Connected
    <2>2. PICK k \in DOMAIN saved :
            saved' = [x \in (DOMAIN saved \ {k}) \cup {mac} |-> IF x = mac THEN saved[k] ELSE saved[x]]
      BY <1>6 DEF Connected
    <2>3. IsFiniteSet(DOMAIN saved')
      BY <2>2, SavedStaysFinite DEF TableShape
    <2>4. IsTable(rows') /\ NoNewRow
      <3>1. PICK i \in DOMAIN rows : i = box.row
        BY <2>1
      <3> QED
        BY <2>1, <3>1, OneCell DEF TableShape
    <2> QED
      BY <2>1, <2>3, <2>4 DEF TableShape, IsTable, IsList, IsRow
  <1> QED
    BY <1>1, <1>2, <1>3, <1>4, <1>5, <1>6 DEF HostsStay

---------------------------------------------------------------------------
LEMMA AIInitHolds == ScanTableAssumption /\ TableInit /\ AIInit => AIInv
  <1> SUFFICES ASSUME ScanTableAssumption, TableInit, AIInit PROVE AIInv
    OBVIOUS
  <1>1. IsTable(rows) /\ IsFiniteSet(results)
    <2>1. rows = <<>> /\ results = {}
      BY DEF TableInit
    <2> QED
      BY <2>1, FS_EmptySet DEF IsTable, IsList
  <1>2. IsFiniteSet(DOMAIN saved)
    <2>1. PICK S \in SUBSET TabMacs : saved \in [S -> TabIps]
      BY DEF TableInit
    <2> QED
      BY <2>1, FS_Subset DEF ScanTableAssumption
  <1>3. OneDiscovery /\ ListIsCurrent
    BY DEF AIInit, OneDiscovery, ListIsCurrent, NoDiscovery
  <1> QED
    BY <1>1, <1>2, <1>3 DEF AIInv, TableShape

LEMMA AIStepKeeps ==
    ASSUME AIInv, AIStep
    PROVE  AIInv'
  <1>1. UNCHANGED tableVars
    BY DEF AIStep, FindServers, ShowTab, Discover, DiscoveryDone, AddServer, Asked
  <1>2. TableShape' /\ AskedHosts' = AskedHosts
    BY <1>1 DEF tableVars, AIInv, TableShape, IsTable, IsList, IsRow, AskedHosts
  <1>3. CASE Discover
    BY <1>2, <1>3 DEF Discover, AIInv, OneDiscovery, ListIsCurrent
  <1>4. CASE DiscoveryDone
    BY <1>2, <1>4 DEF DiscoveryDone, AIInv, OneDiscovery, ListIsCurrent, NoDiscovery
  <1>5. ASSUME NEW host, AddServer(host) PROVE AIInv'
    BY <1>2, <1>5 DEF AddServer, AIInv, OneDiscovery, ListIsCurrent
  <1>6. ASSUME NEW host, Asked(host) PROVE AIInv'
    <2>1. discovery' = [on |-> discovery.on, left |-> discovery.left \ {host}]
      BY <1>6 DEF Asked, AIInv, OneDiscovery
    <2>2. UNCHANGED <<stale, asked>> /\ services' \in {services, services \cup {host}} /\ host \in discovery.left
      BY <1>6 DEF Asked
    <2> QED
      BY <1>2, <2>1, <2>2 DEF AIInv, OneDiscovery, ListIsCurrent
  <1> QED
    BY <1>3, <1>4, <1>5, <1>6 DEF AIStep, FindServers, ShowTab

LEMMA AINextKeeps ==
    ASSUME ScanTableAssumption, AIInv, [AITabNext]_<<tableVars, aiVars>>
    PROVE  AIInv'
  <1>1. CASE HostsChange /\ MarkStale
    <2>1. TableShape'
      BY <1>1, ChangesKeepShape DEF AIInv
    <2> QED
      BY <1>1, <2>1 DEF MarkStale, AIInv, OneDiscovery, ListIsCurrent
  <1>2. CASE HostsStay /\ UNCHANGED aiVars
    <2>1. TableShape' /\ NoNewRow
      BY <1>2, OthersKeepShape DEF AIInv
    <2>2. AskedHosts' \subseteq AskedHosts
      BY <2>1 DEF AskedHosts, NoNewRow
    <2> QED
      BY <1>2, <2>1, <2>2 DEF aiVars, AIInv, OneDiscovery, ListIsCurrent
  <1>3. CASE AIStep
    BY <1>3, AIStepKeeps
  <1>4. CASE UNCHANGED <<tableVars, aiVars>>
    BY <1>4 DEF tableVars, aiVars, AIInv, TableShape, IsTable, IsList, IsRow, OneDiscovery, ListIsCurrent, AskedHosts
  <1> QED
    BY <1>1, <1>2, <1>3, <1>4 DEF AITabNext

\* Whatever the table does beside it (scans and their results, addresses that
\* are edited, rows that are cleared, pings): while the AI tab takes its hosts as
\* fresh, every host of the table was asked since the list of servers was
\* emptied, and only servers that were asked are listed (mark_stale, discover,
\* _discovery_done).
THEOREM ListStaysCurrent == AITabSpec => []ListIsCurrent
  <1>1. TableInit /\ AIInit => AIInv
    BY AIInitHolds, ScanTableAssumption
  <1>2. AIInv /\ [AITabNext]_<<tableVars, aiVars>> => AIInv'
    BY AINextKeeps, ScanTableAssumption
  <1>3. AIInv => ListIsCurrent
    BY DEF AIInv
  <1> QED
    BY <1>1, <1>2, <1>3, PTL DEF AITabSpec

---------------------------------------------------------------------------
(* What a scan is given. *)

\* What is true of no least number is true of none.
LEMMA LeastOf ==
    ASSUME NEW T \in SUBSET Nat, T # {}
    PROVE  \E x \in T : \A y \in T : x <= y
<1> DEFINE R == {ss \in Nat \X Nat : ss[1] < ss[2]}
<1>1. IsWellFoundedOn(R, Nat)
  BY NatLessThanWellFounded DEF OpToRel
<1>2. PICK x \in T : \A y \in T : ~ (<<y, x>> \in R)
  <2> HIDE DEF R
  <2> QED BY <1>1, WFMin
<1>3. ASSUME NEW y \in T PROVE x <= y
  <2>1. x \in Nat /\ y \in Nat
    OBVIOUS
  <2>2. <<y, x>> \in Nat \X Nat
    BY <2>1
  <2>3. <<y, x>>[1] = y /\ <<y, x>>[2] = x
    OBVIOUS
  <2>4. ~(<<y, x>> \in R)
    BY <1>2
  <2>5. ~(y < x)
    <3> SUFFICES ASSUME y < x PROVE <<y, x>> \in R
      BY <2>4
    <3> QED BY <2>2, <2>3
  <2> QED BY <2>1, <2>5
<1> QED
  BY <1>3

\* The arguments are gone through one by one.
LEMMA WalkSteps ==
    ASSUME NEW args, Len(args) \in Nat
    PROVE  /\ Walk(args)[0] = NotWalked
           /\ \A i \in 1..Len(args) : Walk(args)[i] = Walked(Walk(args)[i - 1], args[i])
  <1> DEFINE n == Len(args)
             Follows(f, j) == f = [i \in 0..j |-> IF i = 0 THEN NotWalked ELSE Walked(f[i - 1], args[i])]
             T == {j \in Nat : ~ \E f : Follows(f, j)}
  <1>1. T = {}
    <2> SUFFICES ASSUME T # {} PROVE FALSE
      OBVIOUS
    <2>1. PICK x \in T : \A y \in T : x <= y
      <3>1. T \in SUBSET Nat
        OBVIOUS
      <3> HIDE DEF T
      <3> QED BY <3>1, LeastOf
    <2>2. x \in Nat /\ ~ \E f : Follows(f, x)
      OBVIOUS
    <2>3. CASE x = 0
      <3> DEFINE f == [i \in 0..0 |-> NotWalked]
      <3>1. f = [i \in 0..0 |-> IF i = 0 THEN NotWalked ELSE Walked(f[i - 1], args[i])]
        OBVIOUS
      <3> QED BY <2>2, <2>3, <3>1
    <2>4. CASE x # 0
      <3>1. x - 1 \in Nat /\ x - 1 \notin T
        <4>1. x - 1 \in Nat /\ ~(x <= x - 1)
          BY <2>2, <2>4
        <4> HIDE DEF T
        <4> QED BY <4>1, <2>1
      <3>2. PICK f : Follows(f, x - 1)
        BY <3>1
      <3>3. \A i \in 0..(x - 1) : f[i] = IF i = 0 THEN NotWalked ELSE Walked(f[i - 1], args[i])
        BY <3>2
      <3> DEFINE g == [i \in 0..x |-> IF i = x THEN Walked(f[x - 1], args[x]) ELSE f[i]]
                 h == [i \in 0..x |-> IF i = 0 THEN NotWalked ELSE Walked(g[i - 1], args[i])]
      <3>4. ASSUME NEW i \in 0..x PROVE g[i] = h[i]
        <4>1. CASE i = 0
          <5>1. i # x /\ i \in 0..(x - 1)
            BY <2>2, <2>4, <4>1
          <5> QED BY <3>3, <4>1, <5>1
        <4>2. CASE i # 0
          <5>1. i - 1 \in 0..x /\ i - 1 # x /\ i \in Nat
            BY <2>2, <4>2
          <5>2. g[i - 1] = f[i - 1]
            BY <5>1
          <5>3. CASE i = x
            BY <4>2, <5>2, <5>3
          <5>4. CASE i # x
            <6>1. i \in 0..(x - 1)
              BY <2>2, <5>1, <5>4
            <6>2. f[i] = Walked(f[i - 1], args[i])
              BY <3>3, <4>2, <6>1
            <6> QED BY <4>2, <5>2, <5>4, <6>2
          <5> QED BY <5>3, <5>4
        <4> QED BY <4>1, <4>2
      <3>5. g = h
        BY <3>4
      <3>6. Follows(g, x)
        BY <3>5
      <3> HIDE DEF g
      <3> QED BY <2>2, <3>6
    <2> QED BY <2>3, <2>4
  <1>2. \E f : Follows(f, n)
    BY <1>1
  <1> DEFINE w == CHOOSE f : Follows(f, n)
  <1>3. Follows(w, n)
    <2> HIDE DEF Follows
    <2> QED BY <1>2
  <1>4. Walk(args) = w
    BY DEF Walk
  <1> HIDE DEF w
  <1>5. \A i \in 0..n : w[i] = IF i = 0 THEN NotWalked ELSE Walked(w[i - 1], args[i])
    BY <1>3
  <1>6. w[0] = NotWalked
    BY <1>5
  <1>7. \A i \in 1..n : w[i] = Walked(w[i - 1], args[i])
    BY <1>5
  <1> QED
    BY <1>4, <1>6, <1>7


\* One option by itself.
LEMMA FlagStep ==
    ASSUME NEW n \in Nat, NEW k \in Nat, NEW f \in Flags
    PROVE  Walked(State("", n, k), Opt(f)) = State("", IF f \in ScanTypes THEN n + 1 ELSE n, k)
  <1> DEFINE s == State("", n, k)
  <1>1. Opt(f).opt = f /\ "opt" \in DOMAIN Opt(f)
    BY DEF Opt
  <1>2. s # Refused /\ s.wants = "" /\ s.types = n /\ s.outputs = k
    BY DEF State, Refused
  <1> HIDE DEF s
  <1>3. Walked(s, Opt(f)) = State("", s.types + (IF f \in ScanTypes THEN 1 ELSE 0), s.outputs)
    BY <1>1, <1>2 DEF Walked, Flags, Valued, ScanTypes
  <1>4. n + (IF f \in ScanTypes THEN 1 ELSE 0) = IF f \in ScanTypes THEN n + 1 ELSE n
    OBVIOUS
  <1> QED
    BY <1>2, <1>3, <1>4 DEF s

\* An option and its value.
LEMMA OptionStep ==
    ASSUME NEW n \in Nat, NEW k \in Nat, NEW v \in Valued
    PROVE  Walked(State("", n, k), Opt(v)) = State(v, n, k)
  <1> DEFINE s == State("", n, k)
  <1>1. Opt(v).opt = v /\ "opt" \in DOMAIN Opt(v) /\ v \notin Flags
    BY DEF Opt, Flags, ScanTypes, Valued
  <1>2. s # Refused /\ s.wants = "" /\ s.types = n /\ s.outputs = k
    BY DEF State, Refused
  <1> HIDE DEF s
  <1>3. Walked(s, Opt(v)) = State(v, s.types, s.outputs)
    BY <1>1, <1>2 DEF Walked
  <1> QED
    BY <1>2, <1>3 DEF s

LEMMA ValueStep ==
    ASSUME NEW n \in Nat, NEW k \in Nat, NEW v \in Valued, NEW a
    PROVE  Walked(State(v, n, k), a) =
             IF ValueOk(v, a) THEN State("", n, IF v = "-oX" THEN k + 1 ELSE k) ELSE Refused
  <1> DEFINE s == State(v, n, k)
  <1>1. v # "" /\ v # "refused"
    BY DEF Valued
  <1>2. s # Refused /\ s.wants = v /\ s.types = n /\ s.outputs = k
    BY <1>1 DEF State, Refused
  <1> HIDE DEF s
  <1>3. Walked(s, a) = IF ValueOk(v, a) THEN State("", n, k + (IF v = "-oX" THEN 1 ELSE 0)) ELSE Refused
    BY <1>1, <1>2 DEF Walked
  <1>4. k + (IF v = "-oX" THEN 1 ELSE 0) = IF v = "-oX" THEN k + 1 ELSE k
    OBVIOUS
  <1> QED
    BY <1>3, <1>4 DEF s

---------------------------------------------------------------------------
\* Up to i, all was right and one type of scan was met.
Good(args, i) == Walk(args)[i] = State("", 1, 0)

LEMMA StartIsGood ==
    ASSUME NEW args, Len(args) \in Nat, 1 <= Len(args), args[1] = Opt("-sS")
    PROVE  Good(args, 1)
  <1>1. Walk(args)[0] = State("", 0, 0)
    BY WalkSteps DEF NotWalked
  <1>2. Walk(args)[1] = Walked(Walk(args)[0], args[1])
    <2>1. 1 \in 1..Len(args) /\ 1 - 1 = 0
      OBVIOUS
    <2> QED
      BY <2>1, WalkSteps
  <1>3. "-sS" \in Flags /\ "-sS" \in ScanTypes
    BY DEF Flags, ScanTypes
  <1>4. \A f \in Flags \cap ScanTypes : Walked(State("", 0, 0), Opt(f)) = State("", 0 + 1, 0)
    <2> SUFFICES ASSUME NEW f \in Flags \cap ScanTypes
                 PROVE  Walked(State("", 0, 0), Opt(f)) = State("", 0 + 1, 0)
      OBVIOUS
    <2>1. PICK n \in Nat : n = 0
      OBVIOUS
    <2>2. Walked(State("", n, n), Opt(f)) = State("", n + 1, n)
      BY FlagStep
    <2> QED
      BY <2>1, <2>2
  <1>5. 0 + 1 = 1
    OBVIOUS
  <1> QED
    BY <1>1, <1>2, <1>3, <1>4, <1>5 DEF Good

LEMMA FlagIsGood ==
    ASSUME NEW args, Len(args) \in Nat, NEW i \in Nat, NEW j, j = i + 1, j <= Len(args), Good(args, i),
           NEW f \in Flags \ ScanTypes, args[j] = Opt(f)
    PROVE  Good(args, j)
  <1>1. Walk(args)[j] = Walked(Walk(args)[i], args[j])
    <2>1. j \in 1..Len(args) /\ j - 1 = i
      OBVIOUS
    <2> QED
      BY <2>1, WalkSteps
  <1>2. PICK n \in Nat, k \in Nat : n = 1 /\ k = 0
    OBVIOUS
  <1>3. Walked(State("", n, k), Opt(f)) = State("", n, k)
    BY FlagStep
  <1> QED
    BY <1>1, <1>2, <1>3 DEF Good

LEMMA ValueComes ==
    ASSUME NEW args, Len(args) \in Nat, NEW i \in Nat, NEW j, j = i + 2, j <= Len(args), Good(args, i),
           NEW v \in Valued, args[i + 1] = Opt(v)
    PROVE  Walk(args)[j] =
             IF ValueOk(v, args[j]) THEN State("", 1, IF v = "-oX" THEN 1 ELSE 0) ELSE Refused
  <1>1. Walk(args)[i + 1] = Walked(Walk(args)[i], args[i + 1])
    <2>1. i + 1 \in 1..Len(args) /\ (i + 1) - 1 = i
      OBVIOUS
    <2> QED
      BY <2>1, WalkSteps
  <1>2. Walk(args)[j] = Walked(Walk(args)[i + 1], args[j])
    <2>1. j \in 1..Len(args) /\ j - 1 = i + 1
      OBVIOUS
    <2> QED
      BY <2>1, WalkSteps
  <1>3. PICK n \in Nat, k \in Nat : n = 1 /\ k = 0
    OBVIOUS
  <1>4. Walk(args)[i + 1] = State(v, n, k)
    <2>1. Walked(State("", n, k), Opt(v)) = State(v, n, k)
      BY OptionStep
    <2> QED
      BY <1>1, <1>3, <2>1 DEF Good
  <1>5. Walked(State(v, n, k), args[j]) =
          IF ValueOk(v, args[j]) THEN State("", n, IF v = "-oX" THEN k + 1 ELSE k) ELSE Refused
    BY ValueStep
  <1>6. k + 1 = 1
    BY <1>3
  <1>7. CASE v = "-oX"
    BY <1>2, <1>3, <1>4, <1>5, <1>6, <1>7
  <1>8. CASE v # "-oX"
    BY <1>2, <1>3, <1>4, <1>5, <1>8
  <1> QED
    BY <1>7, <1>8

LEMMA ValueIsGood ==
    ASSUME NEW args, Len(args) \in Nat, NEW i \in Nat, NEW j, j = i + 2, j <= Len(args), Good(args, i),
           NEW v \in Valued \ {"-oX"}, args[j - 1] = Opt(v), ValueOk(v, args[j])
    PROVE  Good(args, j)
  <1>1. j - 1 = i + 1
    OBVIOUS
  <1>2. args[i + 1] = Opt(v)
    BY <1>1
  <1>3. Walk(args)[j] = State("", 1, IF v = "-oX" THEN 1 ELSE 0)
    BY <1>2, ValueComes
  <1> QED
    BY <1>3 DEF Good

\* A list that ends with the output and its target is accepted.
LEMMA EndIsValid ==
    ASSUME NEW args, Len(args) \in Nat, NEW i \in Nat, i + 3 = Len(args), Good(args, i), NEW target,
           args[Len(args) - 2] = Opt("-oX"), args[Len(args) - 1] = Opt("-"), args[Len(args)] = Target(target),
           TargetOk(target)
    PROVE  ValidArgs(args)
  <1>1. "-oX" \in Valued /\ ValueOk("-oX", Opt("-"))
    BY DEF Valued, ValueOk
  <1>2. PICK j \in Nat : j = i + 2
    OBVIOUS
  <1>3. j = Len(args) - 1 /\ i + 1 = Len(args) - 2 /\ j <= Len(args)
    BY <1>2
  <1>4. PICK v \in Valued : v = "-oX"
    BY <1>1
  <1>5. args[i + 1] = Opt(v) /\ args[j] = Opt("-") /\ ValueOk(v, args[j])
    BY <1>1, <1>3, <1>4
  <1>6. Walk(args)[j] = State("", 1, IF v = "-oX" THEN 1 ELSE 0)
    BY <1>2, <1>3, <1>5, ValueComes
  <1>7. Walk(args)[Len(args) - 1] = State("", 1, 1)
    BY <1>3, <1>4, <1>6
  <1>8. /\ State("", 1, 1).wants = "" /\ State("", 1, 1).types = 1
        /\ State("", 1, 1).outputs > 0
    BY DEF State
  <1>9. Last(args).target = target
    BY DEF Last, Target
  <1> QED
    BY <1>7, <1>8, <1>9 DEF ValidArgs

LEMMA EndsAreValid ==
    ASSUME NEW args, Len(args) \in Nat, NEW target, TargetOk(target)
    PROVE  \A i, h, j, n \in Nat :
             h = i + 1 /\ j = i + 2 /\ n = i + 3 /\ n = Len(args) /\ Good(args, i)
             /\ args[h] = Opt("-oX") /\ args[j] = Opt("-") /\ args[n] = Target(target) => ValidArgs(args)
  <1> SUFFICES ASSUME NEW i \in Nat, NEW h \in Nat, NEW j \in Nat, NEW n \in Nat,
                      h = i + 1, j = i + 2, n = i + 3, n = Len(args), Good(args, i),
                      args[h] = Opt("-oX"), args[j] = Opt("-"), args[n] = Target(target)
               PROVE  ValidArgs(args)
    OBVIOUS
  <1>1. h = Len(args) - 2 /\ j = Len(args) - 1 /\ i + 3 = Len(args)
    OBVIOUS
  <1>2. /\ args[Len(args) - 2] = Opt("-oX") /\ args[Len(args) - 1] = Opt("-")
        /\ args[Len(args)] = Target(target)
    BY <1>1
  <1> QED
    BY <1>1, <1>2, EndIsValid

\* What may follow a good beginning: a flag, or an option with its value.
IsFlag(a)    == \E f \in Flags \ ScanTypes : a = Opt(f)
IsPair(a, b) == \E v \in Valued \ {"-oX"} : a = Opt(v) /\ ValueOk(v, b)

LEMMA FlagsAreGood ==
    ASSUME NEW args, Len(args) \in Nat
    PROVE  \A i, j \in Nat : j = i + 1 /\ j <= Len(args) /\ Good(args, i) /\ IsFlag(args[j]) => Good(args, j)
  <1> SUFFICES ASSUME NEW i \in Nat, NEW j \in Nat, j = i + 1, j <= Len(args), Good(args, i), IsFlag(args[j])
               PROVE  Good(args, j)
    OBVIOUS
  <1>1. PICK f \in Flags \ ScanTypes : args[j] = Opt(f)
    BY DEF IsFlag
  <1> QED
    BY <1>1, FlagIsGood

LEMMA PairsAreGood ==
    ASSUME NEW args, Len(args) \in Nat
    PROVE  \A i, h, j \in Nat : h = i + 1 /\ j = i + 2 /\ j <= Len(args) /\ Good(args, i) /\ IsPair(args[h], args[j])
                                 => Good(args, j)
  <1> SUFFICES ASSUME NEW i \in Nat, NEW h \in Nat, NEW j \in Nat, h = i + 1, j = i + 2, j <= Len(args),
                      Good(args, i), IsPair(args[h], args[j])
               PROVE  Good(args, j)
    OBVIOUS
  <1>1. PICK v \in Valued \ {"-oX"} : args[h] = Opt(v) /\ ValueOk(v, args[j])
    BY DEF IsPair
  <1>2. j - 1 = h
    OBVIOUS
  <1>3. args[j - 1] = Opt(v)
    BY <1>1, <1>2
  <1> QED
    BY <1>1, <1>3, ValueIsGood

\* The flags and the options of the program's own lists are such.
LEMMA OwnFlags ==
    IsFlag(Opt("-sV")) /\ IsFlag(Opt("-PR")) /\ IsFlag(Opt("-p-")) /\ IsFlag(Opt("-T3")) /\ IsFlag(Opt("-T4"))
  BY DEF IsFlag, Flags, ScanTypes

LEMMA OwnPorts ==
    ASSUME NEW ports, PortsOk(ports)
    PROVE  IsPair(Opt("-p"), PortArg(ports))
  <1>1. ValueOk("-p", PortArg(ports))
    BY DEF ValueOk, PortArg
  <1>2. "-p" \in Valued \ {"-oX"}
    BY DEF Valued
  <1> QED
    BY <1>1, <1>2 DEF IsPair

LEMMA SweptPortsAreOk == PortsOk(SweptPorts)
  BY JunkAssumption DEF PortsOk, SweptPorts

LEMMA OwnNumbers ==
    /\ IsPair(Opt("--max-retries"), Num(3)) /\ IsPair(Opt("--version-intensity"), Num(5))
    /\ IsPair(Opt("--top-ports"), Num(1000))
    /\ IsPair(Opt("--host-timeout"), Secs(30)) /\ IsPair(Opt("--host-timeout"), Secs(15))
  <1>1. /\ ValueOk("--max-retries", Num(3)) /\ ValueOk("--version-intensity", Num(5))
        /\ ValueOk("--top-ports", Num(1000))
        /\ ValueOk("--host-timeout", Secs(30)) /\ ValueOk("--host-timeout", Secs(15))
    BY DEF ValueOk, IntIn, Num, Secs
  <1>2. {"--top-ports", "--version-intensity", "--max-retries", "--host-timeout"} \subseteq Valued \ {"-oX"}
    BY DEF Valued
  <1> QED
    BY <1>1, <1>2 DEF IsPair

---------------------------------------------------------------------------
\* The lists of the program, each gone through to its end.
LEMMA ThoroughIsValid ==
    ASSUME NEW target, TargetOk(target)
    PROVE  ValidArgs(SubnetScanArgs(target, TRUE, TRUE))
  <1> DEFINE a == SubnetScanArgs(target, TRUE, TRUE)
  <1>1. /\ Len(a) = 12
        /\ a[1] = Opt("-sS") /\ a[2] = Opt("-p") /\ a[3] = PortArg(SweptPorts) /\ a[4] = Opt("-PR")
        /\ a[5] = Opt("-T3") /\ a[6] = Opt("--max-retries") /\ a[7] = Num(3) /\ a[8] = Opt("--host-timeout")
        /\ a[9] = Secs(30) /\ a[10] = Opt("-oX") /\ a[11] = Opt("-") /\ a[12] = Target(target)
    BY DEF SubnetScanArgs, Xml
  <1> HIDE DEF a
  <1>2. Good(a, 1)
    BY <1>1, StartIsGood
  <1>3. Good(a, 3)
    BY <1>1, <1>2, PairsAreGood, OwnPorts, SweptPortsAreOk
  <1>4. Good(a, 4)
    BY <1>1, <1>3, FlagsAreGood, OwnFlags
  <1>5. Good(a, 5)
    BY <1>1, <1>4, FlagsAreGood, OwnFlags
  <1>6. Good(a, 7)
    BY <1>1, <1>5, PairsAreGood, OwnNumbers
  <1>7. Good(a, 9)
    BY <1>1, <1>6, PairsAreGood, OwnNumbers
  <1>8. ValidArgs(a)
    <2>1. /\ 9 \in Nat /\ 10 \in Nat /\ 11 \in Nat /\ 12 \in Nat
          /\ 10 = 9 + 1 /\ 11 = 9 + 2 /\ 12 = 9 + 3
      OBVIOUS
    <2>2. Good(a, 9) /\ a[10] = Opt("-oX") /\ a[11] = Opt("-") /\ a[12] = Target(target) /\ 12 = Len(a)
      BY <1>1, <1>7
    <2>3. Len(a) \in Nat
      BY <1>1
    <2> QED
      BY <2>1, <2>2, <2>3, EndsAreValid
  <1> QED
    BY <1>8 DEF a

LEMMA FastIsValid ==
    ASSUME NEW target, TargetOk(target)
    PROVE  ValidArgs(SubnetScanArgs(target, TRUE, FALSE))
  <1> DEFINE a == SubnetScanArgs(target, TRUE, FALSE)
  <1>1. /\ Len(a) = 10
        /\ a[1] = Opt("-sS") /\ a[2] = Opt("-p") /\ a[3] = PortArg(SweptPorts) /\ a[4] = Opt("-PR")
        /\ a[5] = Opt("-T4") /\ a[6] = Opt("--host-timeout") /\ a[7] = Secs(15) /\ a[8] = Opt("-oX")
        /\ a[9] = Opt("-") /\ a[10] = Target(target)
    BY DEF SubnetScanArgs, Xml
  <1> HIDE DEF a
  <1>2. Good(a, 1)
    BY <1>1, StartIsGood
  <1>3. Good(a, 3)
    BY <1>1, <1>2, PairsAreGood, OwnPorts, SweptPortsAreOk
  <1>4. Good(a, 4)
    BY <1>1, <1>3, FlagsAreGood, OwnFlags
  <1>5. Good(a, 5)
    BY <1>1, <1>4, FlagsAreGood, OwnFlags
  <1>6. Good(a, 7)
    BY <1>1, <1>5, PairsAreGood, OwnNumbers
  <1>7. ValidArgs(a)
    <2>1. /\ 7 \in Nat /\ 8 \in Nat /\ 9 \in Nat /\ 10 \in Nat
          /\ 8 = 7 + 1 /\ 9 = 7 + 2 /\ 10 = 7 + 3
      OBVIOUS
    <2>2. Good(a, 7) /\ a[8] = Opt("-oX") /\ a[9] = Opt("-") /\ a[10] = Target(target) /\ 10 = Len(a)
      BY <1>1, <1>6
    <2>3. Len(a) \in Nat
      BY <1>1
    <2> QED
      BY <2>1, <2>2, <2>3, EndsAreValid
  <1> QED
    BY <1>7 DEF a

LEMMA QuickIsValid ==
    ASSUME NEW target, TargetOk(target), NEW ports
    PROVE  ValidArgs(HostScanArgs(target, "quick", TRUE, ports))
  <1> DEFINE a == HostScanArgs(target, "quick", TRUE, ports)
  <1>1. /\ Len(a) = 10
        /\ a[1] = Opt("-sS") /\ a[2] = Opt("-sV") /\ a[3] = Opt("--version-intensity") /\ a[4] = Num(5)
        /\ a[5] = Opt("--top-ports") /\ a[6] = Num(1000) /\ a[7] = Opt("-T4") /\ a[8] = Opt("-oX")
        /\ a[9] = Opt("-") /\ a[10] = Target(target)
    BY DEF HostScanArgs, Xml
  <1> HIDE DEF a
  <1>2. Good(a, 1)
    BY <1>1, StartIsGood
  <1>3. Good(a, 2)
    BY <1>1, <1>2, FlagsAreGood, OwnFlags
  <1>4. Good(a, 4)
    BY <1>1, <1>3, PairsAreGood, OwnNumbers
  <1>5. Good(a, 6)
    BY <1>1, <1>4, PairsAreGood, OwnNumbers
  <1>6. Good(a, 7)
    BY <1>1, <1>5, FlagsAreGood, OwnFlags
  <1>7. ValidArgs(a)
    <2>1. /\ 7 \in Nat /\ 8 \in Nat /\ 9 \in Nat /\ 10 \in Nat
          /\ 8 = 7 + 1 /\ 9 = 7 + 2 /\ 10 = 7 + 3
      OBVIOUS
    <2>2. Good(a, 7) /\ a[8] = Opt("-oX") /\ a[9] = Opt("-") /\ a[10] = Target(target) /\ 10 = Len(a)
      BY <1>1, <1>6
    <2>3. Len(a) \in Nat
      BY <1>1
    <2> QED
      BY <2>1, <2>2, <2>3, EndsAreValid
  <1> QED
    BY <1>7 DEF a

LEMMA FullIsValid ==
    ASSUME NEW target, TargetOk(target), NEW ports
    PROVE  ValidArgs(HostScanArgs(target, "full", TRUE, ports))
  <1> DEFINE a == HostScanArgs(target, "full", TRUE, ports)
  <1>1. /\ Len(a) = 9
        /\ a[1] = Opt("-sS") /\ a[2] = Opt("-sV") /\ a[3] = Opt("--version-intensity") /\ a[4] = Num(5)
        /\ a[5] = Opt("-p-") /\ a[6] = Opt("-T4") /\ a[7] = Opt("-oX") /\ a[8] = Opt("-")
        /\ a[9] = Target(target)
    BY DEF HostScanArgs, Xml
  <1> HIDE DEF a
  <1>2. Good(a, 1)
    BY <1>1, StartIsGood
  <1>3. Good(a, 2)
    BY <1>1, <1>2, FlagsAreGood, OwnFlags
  <1>4. Good(a, 4)
    BY <1>1, <1>3, PairsAreGood, OwnNumbers
  <1>5. Good(a, 5)
    BY <1>1, <1>4, FlagsAreGood, OwnFlags
  <1>6. Good(a, 6)
    BY <1>1, <1>5, FlagsAreGood, OwnFlags
  <1>7. ValidArgs(a)
    <2>1. /\ 6 \in Nat /\ 7 \in Nat /\ 8 \in Nat /\ 9 \in Nat
          /\ 7 = 6 + 1 /\ 8 = 6 + 2 /\ 9 = 6 + 3
      OBVIOUS
    <2>2. Good(a, 6) /\ a[7] = Opt("-oX") /\ a[8] = Opt("-") /\ a[9] = Target(target) /\ 9 = Len(a)
      BY <1>1, <1>6
    <2>3. Len(a) \in Nat
      BY <1>1
    <2> QED
      BY <2>1, <2>2, <2>3, EndsAreValid
  <1> QED
    BY <1>7 DEF a

LEMMA CustomIsValid ==
    ASSUME NEW target, TargetOk(target), NEW ports, PortsOk(ports)
    PROVE  ValidArgs(HostScanArgs(target, "custom", TRUE, ports))
  <1> DEFINE a == HostScanArgs(target, "custom", TRUE, ports)
  <1>1. /\ Len(a) = 10
        /\ a[1] = Opt("-sS") /\ a[2] = Opt("-sV") /\ a[3] = Opt("--version-intensity") /\ a[4] = Num(5)
        /\ a[5] = Opt("-p") /\ a[6] = PortArg(ports) /\ a[7] = Opt("-T4") /\ a[8] = Opt("-oX")
        /\ a[9] = Opt("-") /\ a[10] = Target(target)
    BY DEF HostScanArgs, Xml
  <1> HIDE DEF a
  <1>2. Good(a, 1)
    BY <1>1, StartIsGood
  <1>3. Good(a, 2)
    BY <1>1, <1>2, FlagsAreGood, OwnFlags
  <1>4. Good(a, 4)
    BY <1>1, <1>3, PairsAreGood, OwnNumbers
  <1>5. Good(a, 6)
    BY <1>1, <1>4, PairsAreGood, OwnPorts
  <1>6. Good(a, 7)
    BY <1>1, <1>5, FlagsAreGood, OwnFlags
  <1>7. ValidArgs(a)
    <2>1. /\ 7 \in Nat /\ 8 \in Nat /\ 9 \in Nat /\ 10 \in Nat
          /\ 8 = 7 + 1 /\ 9 = 7 + 2 /\ 10 = 7 + 3
      OBVIOUS
    <2>2. Good(a, 7) /\ a[8] = Opt("-oX") /\ a[9] = Opt("-") /\ a[10] = Target(target) /\ 10 = Len(a)
      BY <1>1, <1>6
    <2>3. Len(a) \in Nat
      BY <1>1
    <2> QED
      BY <2>1, <2>2, <2>3, EndsAreValid
  <1> QED
    BY <1>7 DEF a

---------------------------------------------------------------------------
\* Once refused, a list stays refused; so ports the check lets through among
\* the arguments of the question are ports it lets through among those of the scan.

LEMMA RefusedStays == \A a : Walked(Refused, a) = Refused
  <1> SUFFICES ASSUME NEW a PROVE Walked(Refused, a) = Refused
    OBVIOUS
  <1>1. Refused.wants = "refused"
    BY DEF Refused, State
  <1>2. PICK s : s = Refused
    OBVIOUS
  <1>3. s.wants # ""
    BY <1>1, <1>2
  <1> QED
    BY <1>2, <1>3 DEF Walked

LEMMA TypedPortsAreOk ==
    ASSUME NEW ports, NEW ip, ValidArgs(TypedArgs(ports, ip))
    PROVE  PortsOk(ports)
  <1> DEFINE a == TypedArgs(ports, ip)
  <1>1. /\ Len(a) = 6
        /\ a[1] = Opt("-sS") /\ a[2] = Opt("-p") /\ a[3] = PortArg(ports)
    BY DEF TypedArgs, Xml
  <1>2. ValidArgs(a)
    OBVIOUS
  <1> HIDE DEF a
  <1>3. Good(a, 1)
    BY <1>1, StartIsGood
  <1>4. SUFFICES ASSUME ~PortsOk(ports) PROVE FALSE
    OBVIOUS
  <1>5. ~ValueOk("-p", PortArg(ports))
    BY <1>4 DEF ValueOk, PortArg
  <1>6. Walk(a)[3] = Refused
    <2>1. PICK v \in Valued : v = "-p"
      BY DEF Valued
    <2>2. PICK i \in Nat, j \in Nat : i = 1 /\ j = 3
      OBVIOUS
    <2>3. j = i + 2 /\ j <= Len(a) /\ i + 1 = 2 /\ Len(a) \in Nat
      BY <1>1, <2>2
    <2>4. Good(a, i) /\ a[i + 1] = Opt(v) /\ ~ValueOk(v, a[j])
      BY <1>1, <1>3, <1>5, <2>1, <2>2, <2>3
    <2>5. Walk(a)[j] = Refused
      BY <2>3, <2>4, ValueComes
    <2> QED
      BY <2>2, <2>5
  <1>7. \A i \in 1..Len(a) : Walk(a)[i] = Walked(Walk(a)[i - 1], a[i])
    <2>1. Len(a) \in Nat
      BY <1>1
    <2> QED
      BY <2>1, WalkSteps
  <1>8. Walk(a)[4] = Refused
    <2>1. 4 \in 1..Len(a) /\ 4 - 1 = 3
      BY <1>1
    <2>2. Walk(a)[4] = Walked(Walk(a)[3], a[4])
      BY <1>7, <2>1
    <2> QED
      BY <1>6, <2>2, RefusedStays
  <1>9. Walk(a)[5] = Refused
    <2>1. 5 \in 1..Len(a) /\ 5 - 1 = 4
      BY <1>1
    <2>2. Walk(a)[5] = Walked(Walk(a)[4], a[5])
      BY <1>7, <2>1
    <2> QED
      BY <1>8, <2>2, RefusedStays
  <1>10. Refused.wants # ""
    BY DEF Refused, State
  <1>11. Len(a) - 1 = 5
    BY <1>1
  <1> QED
    BY <1>2, <1>9, <1>10, <1>11 DEF ValidArgs

---------------------------------------------------------------------------
\* And only an address passes for the target.

LEMMA TargetIsChecked ==
    ASSUME NEW args, Len(args) \in Nat, NEW target, args[Len(args)] = Target(target), ValidArgs(args)
    PROVE  TargetOk(target)
  <1>1. Last(args).target = target
    BY DEF Last, Target
  <1> QED
    BY <1>1 DEF ValidArgs

LEMMA SweptTargetIsChecked ==
    ASSUME NEW target, NEW thorough \in BOOLEAN, ValidArgs(SubnetScanArgs(target, TRUE, thorough))
    PROVE  TargetOk(target)
  <1>1. CASE thorough
    <2> DEFINE a == SubnetScanArgs(target, TRUE, TRUE)
    <2>1. Len(a) = 12 /\ a[12] = Target(target)
      BY DEF SubnetScanArgs, Xml
    <2>2. ValidArgs(a)
      BY <1>1
    <2> HIDE DEF a
    <2>3. Len(a) \in Nat /\ a[Len(a)] = Target(target)
      BY <2>1
    <2> QED
      BY <2>2, <2>3, TargetIsChecked
  <1>2. CASE ~thorough
    <2> DEFINE a == SubnetScanArgs(target, TRUE, FALSE)
    <2>1. Len(a) = 10 /\ a[10] = Target(target)
      BY DEF SubnetScanArgs, Xml
    <2>2. ValidArgs(a)
      BY <1>2
    <2> HIDE DEF a
    <2>3. Len(a) \in Nat /\ a[Len(a)] = Target(target)
      BY <2>1
    <2> QED
      BY <2>2, <2>3, TargetIsChecked
  <1> QED
    BY <1>1, <1>2

LEMMA LookedTargetIsChecked ==
    ASSUME NEW target, NEW mode \in {"quick", "full", "custom"}, NEW ports,
           ValidArgs(HostScanArgs(target, mode, TRUE, ports))
    PROVE  TargetOk(target)
  <1> DEFINE a == HostScanArgs(target, mode, TRUE, ports)
  <1>1. CASE mode = "quick"
    <2>1. Len(a) = 10 /\ a[10] = Target(target)
      BY <1>1 DEF HostScanArgs, Xml
    <2>2. ValidArgs(a)
      OBVIOUS
    <2> HIDE DEF a
    <2>3. Len(a) \in Nat /\ a[Len(a)] = Target(target)
      BY <2>1
    <2> QED
      BY <2>2, <2>3, TargetIsChecked
  <1>2. CASE mode = "full"
    <2>1. Len(a) = 9 /\ a[9] = Target(target)
      BY <1>2 DEF HostScanArgs, Xml
    <2>2. ValidArgs(a)
      OBVIOUS
    <2> HIDE DEF a
    <2>3. Len(a) \in Nat /\ a[Len(a)] = Target(target)
      BY <2>1
    <2> QED
      BY <2>2, <2>3, TargetIsChecked
  <1>3. CASE mode = "custom"
    <2>1. Len(a) = 10 /\ a[10] = Target(target)
      BY <1>3 DEF HostScanArgs, Xml
    <2>2. ValidArgs(a)
      OBVIOUS
    <2> HIDE DEF a
    <2>3. Len(a) \in Nat /\ a[Len(a)] = Target(target)
      BY <2>1
    <2> QED
      BY <2>2, <2>3, TargetIsChecked
  <1> QED
    BY <1>1, <1>2, <1>3

---------------------------------------------------------------------------
\* The text of the user stands exactly while it differs from what the program
\* put in the field, and while none stands that is the network last followed.
\* Only a scan started beside another is without its button.
Followed ==
    /\ online \in Nets \cup {<<>>}
    /\ hand.stands <=> Strip(field) # filled
    /\ hand.stands => field = hand.text
    /\ ~hand.stands => filled = seen
Counted ==
    /\ sweeps \in Nat /\ crowded \in BOOLEAN
    /\ sweeps > 1 => crowded
    /\ ~sweeping => sweeps = 0 \/ crowded
Accepted(s) == s.privileged => (ValidArgs(s.args) <=> TargetOk(s.target))
TargetsInv == Followed /\ Counted /\ FollowsBetweenScans /\ Accepted(sweep) /\ Accepted(look)

LEMMA NothingIsAccepted == Accepted(NothingLaunched)
  BY DEF Accepted, NothingLaunched

LEMMA HandOf == \A t, b : [text |-> t, stands |-> b].stands = b /\ [text |-> t, stands |-> b].text = t
  OBVIOUS

LEMMA TargetsInitHolds == TargetsInit => TargetsInv
  <1> SUFFICES ASSUME TargetsInit PROVE TargetsInv
    OBVIOUS
  <1>1. hand.stands = FALSE /\ field = filled /\ seen = filled /\ filled \in Nets \cup {Fallback}
    BY DEF TargetsInit, NoHand
  <1>2. Strip(field) = filled
    BY <1>1, TargetsAssumption
  <1>3. Followed
    BY <1>1, <1>2 DEF Followed, TargetsInit
  <1>4. Counted /\ FollowsBetweenScans
    <2>1. sweeps = 0 /\ sweeping = FALSE /\ moved = FALSE /\ crowded = FALSE
      BY DEF TargetsInit
    <2>2. sweeps \in Nat /\ ~(sweeps > 1)
      BY <2>1
    <2> QED
      BY <2>1, <2>2, Zenon DEF Counted, FollowsBetweenScans
  <1>5. sweep = NothingLaunched /\ look = NothingLaunched
    BY DEF TargetsInit
  <1> QED
    BY <1>3, <1>4, <1>5, NothingIsAccepted DEF TargetsInv

LEMMA FieldKeeps ==
    ASSUME Followed, UNCHANGED <<online, filled, field, hand, seen>>
    PROVE  Followed'
  BY DEF Followed

LEMMA LaunchIsAccepted ==
    ASSUME NEW privileged \in BOOLEAN, NEW thorough \in BOOLEAN, LaunchSweep(privileged, thorough)
    PROVE  Accepted(sweep')
  <1>1. PICK s : s = sweep'
    OBVIOUS
  <1>2. s.target = field /\ s.args = SubnetScanArgs(field, privileged, thorough)
    BY <1>1 DEF LaunchSweep
  <1>3. s.privileged <=> privileged
    BY <1>1 DEF LaunchSweep
  <1>4. privileged => (ValidArgs(SubnetScanArgs(field, privileged, thorough)) <=> TargetOk(field))
    <2> SUFFICES ASSUME privileged
                 PROVE  ValidArgs(SubnetScanArgs(field, TRUE, thorough)) <=> TargetOk(field)
      OBVIOUS
    <2>1. TargetOk(field) => ValidArgs(SubnetScanArgs(field, TRUE, thorough))
      BY ThoroughIsValid, FastIsValid
    <2> QED
      BY <2>1, SweptTargetIsChecked
  <1> QED
    BY <1>1, <1>2, <1>3, <1>4 DEF Accepted

LEMMA SubnetKeeps == TargetsInv /\ SubnetNext => TargetsInv'
  <1> SUFFICES ASSUME TargetsInv, SubnetNext PROVE TargetsInv'
    OBVIOUS
  <1>1. Followed /\ Counted /\ Accepted(look)
    BY DEF TargetsInv
  <1>2. look' = look
    BY DEF SubnetNext, JoinNetwork, TypeSubnet, RefreshSubnet, FollowNetwork, SweepEnds, LaunchSweep, Quiet,
           lookVars
  <1>3. Accepted(sweep')
    <2>1. CASE \E privileged, thorough \in BOOLEAN : LaunchSweep(privileged, thorough)
      BY <2>1, LaunchIsAccepted
    <2>2. CASE JoinNetwork \/ TypeSubnet \/ RefreshSubnet \/ FollowNetwork \/ SweepEnds
      <3>1. sweep' = NothingLaunched
        BY <2>2 DEF JoinNetwork, TypeSubnet, RefreshSubnet, FollowNetwork, SweepEnds, Quiet
      <3> QED
        BY <3>1, NothingIsAccepted
    <2> QED
      BY <2>1, <2>2 DEF SubnetNext
  <1>4. Counted'
    <2>1. CASE \E privileged, thorough \in BOOLEAN : LaunchSweep(privileged, thorough)
      <3>1. sweeps' = sweeps + 1 /\ sweeping' = TRUE /\ crowded' = (crowded \/ sweeps > 0)
        BY <2>1 DEF LaunchSweep
      <3>2. sweeps \in Nat /\ crowded \in BOOLEAN
        BY <1>1 DEF Counted
      <3>3. sweeps' \in Nat /\ (sweeps' > 1 => sweeps > 0)
        BY <3>1, <3>2
      <3>4. crowded' \in BOOLEAN /\ (sweeps > 0 => crowded')
        BY <3>1, <3>2, Zenon
      <3> QED
        BY <3>1, <3>3, <3>4 DEF Counted
    <2>2. CASE SweepEnds
      <3>1. sweeps > 0 /\ sweeps' = sweeps - 1 /\ sweeping' = FALSE /\ crowded' = (crowded /\ sweeps' > 0)
        BY <2>2 DEF SweepEnds
      <3> QED
        BY <1>1, <3>1 DEF Counted
    <2>3. CASE JoinNetwork \/ TypeSubnet \/ RefreshSubnet \/ FollowNetwork
      <3>1. UNCHANGED scanning
        BY <2>3 DEF JoinNetwork, TypeSubnet, RefreshSubnet, FollowNetwork
      <3> QED
        BY <1>1, <3>1 DEF Counted, scanning
    <2> QED
      BY <2>1, <2>2, <2>3 DEF SubnetNext
  <1>5. FollowsBetweenScans'
    <2>1. CASE FollowNetwork
      <3>1. ~sweeping /\ UNCHANGED scanning
        BY <2>1 DEF FollowNetwork
      <3> QED
        BY <1>1, <3>1 DEF Counted, FollowsBetweenScans, scanning
    <2>2. CASE ~FollowNetwork
      <3>1. moved' = FALSE
        BY <2>2 DEF SubnetNext, JoinNetwork, TypeSubnet, RefreshSubnet, SweepEnds, LaunchSweep, Quiet
      <3> QED
        BY <3>1 DEF FollowsBetweenScans
    <2> QED
      BY <2>1, <2>2
  <1>6. Followed'
    <2>1. CASE JoinNetwork
      <3>1. online' \in Nets \cup {<<>>} /\ UNCHANGED <<filled, field, hand, seen>>
        BY <2>1 DEF JoinNetwork
      <3> QED
        BY <1>1, <3>1 DEF Followed
    <2>2. CASE TypeSubnet
      <3>1. hand'.stands = (Strip(field') # filled) /\ hand'.text = field'
        BY <2>2, HandOf DEF TypeSubnet
      <3>2. filled' = filled /\ online' = online /\ seen' = IF Strip(field') = filled THEN filled ELSE seen
        BY <2>2 DEF TypeSubnet
      <3> QED
        BY <1>1, <3>1, <3>2 DEF Followed, Strip
    <2>3. CASE RefreshSubnet
      <3>1. hand'.stands = FALSE
        BY <2>3 DEF RefreshSubnet, NoHand
      <3>2. filled' = online /\ seen' = online /\ online' = online /\ online \in Nets
        BY <1>1, <2>3 DEF RefreshSubnet, Followed
      <3>3. field' = IF Strip(field) = online THEN field ELSE online
        BY <2>3 DEF RefreshSubnet
      <3>4. Strip(online) = online
        BY <3>2, TargetsAssumption
      <3>5. Strip(field') = online
        BY <3>3, <3>4
      <3> QED
        BY <1>1, <3>1, <3>2, <3>5 DEF Followed, Strip
    <2>4. CASE FollowNetwork
      <3>1. hand' = hand /\ field' = online /\ filled' = online /\ seen' = online /\ online' = online
        BY <2>4 DEF FollowNetwork
      <3>2. ~hand.stands /\ online \in Nets
        BY <1>1, <2>4 DEF FollowNetwork, Followed
      <3>3. Strip(online) = online
        BY <3>2, TargetsAssumption
      <3>4. Strip(field') = filled'
        BY <3>1, <3>3
      <3> QED
        BY <1>1, <3>1, <3>2, <3>4 DEF Followed, Strip
    <2>5. CASE SweepEnds
      BY <1>1, <2>5, FieldKeeps DEF SweepEnds
    <2>6. CASE \E privileged, thorough \in BOOLEAN : LaunchSweep(privileged, thorough)
      BY <1>1, <2>6, FieldKeeps DEF LaunchSweep
    <2> QED
      BY <2>1, <2>2, <2>3, <2>4, <2>5, <2>6 DEF SubnetNext
  <1> QED
    BY <1>1, <1>2, <1>3, <1>4, <1>5, <1>6 DEF TargetsInv

LEMMA ScanIsAccepted ==
    ASSUME NEW mode \in {"quick", "full", "custom"}, NEW ports, NEW privileged \in BOOLEAN,
           StartScan(mode, ports, privileged)
    PROVE  Accepted(look')
  <1>1. PICK s : s = look'
    OBVIOUS
  <1>2. PICK ip : ip = ResolvedIp
    OBVIOUS
  <1>3. s.target = ip /\ s.args = HostScanArgs(ip, mode, privileged, ports)
    BY <1>1, <1>2 DEF StartScan
  <1>4. s.privileged <=> privileged
    BY <1>1 DEF StartScan
  <1>5. mode = "custom" => ValidArgs(TypedArgs(ports, ip))
    BY <1>2 DEF StartScan
  <1>6. mode = "custom" => PortsOk(ports)
    BY <1>5, TypedPortsAreOk
  <1>7. privileged => (ValidArgs(HostScanArgs(ip, mode, privileged, ports)) <=> TargetOk(ip))
    <2> SUFFICES ASSUME privileged
                 PROVE  ValidArgs(HostScanArgs(ip, mode, TRUE, ports)) <=> TargetOk(ip)
      OBVIOUS
    <2>1. ASSUME TargetOk(ip) PROVE ValidArgs(HostScanArgs(ip, mode, TRUE, ports))
      <3>1. CASE mode = "quick"
        BY <2>1, <3>1, QuickIsValid
      <3>2. CASE mode = "full"
        BY <2>1, <3>2, FullIsValid
      <3>3. CASE mode = "custom"
        BY <1>6, <2>1, <3>3, CustomIsValid
      <3> QED
        BY <3>1, <3>2, <3>3
    <2> QED
      BY <2>1, LookedTargetIsChecked
  <1> QED
    BY <1>1, <1>3, <1>4, <1>7 DEF Accepted

LEMMA LookKeeps == TargetsInv /\ LookNext => TargetsInv'
  <1> SUFFICES ASSUME TargetsInv, LookNext PROVE TargetsInv'
    OBVIOUS
  <1>1. Followed /\ Counted /\ FollowsBetweenScans /\ Accepted(sweep)
    BY DEF TargetsInv
  <1>2. UNCHANGED subnetVars
    BY DEF LookNext, SaveProfile, DropProfile, SelectHost, TypeHost, StartScan, RefreshHostList, EnterHost
  <1>3. Followed' /\ sweep' = sweep
    BY <1>1, <1>2, FieldKeeps DEF subnetVars
  <1>4. Counted' /\ FollowsBetweenScans'
    BY <1>1, <1>2 DEF subnetVars, Counted, FollowsBetweenScans
  <1>5. Accepted(look')
    <2>1. CASE \E privileged \in BOOLEAN :
                 \/ \E mode \in {"quick", "full"} : StartScan(mode, <<>>, privileged)
                 \/ \E ports \in PortTexts : StartScan("custom", ports, privileged)
      <3>1. PICK privileged \in BOOLEAN :
                 \/ \E mode \in {"quick", "full"} : StartScan(mode, <<>>, privileged)
                 \/ \E ports \in PortTexts : StartScan("custom", ports, privileged)
        BY <2>1
      <3>2. PICK mode \in {"quick", "full", "custom"} : \E ports : StartScan(mode, ports, privileged)
        BY <3>1
      <3>3. PICK ports : StartScan(mode, ports, privileged)
        BY <3>2
      <3> QED
        BY <3>3, ScanIsAccepted
    <2>2. CASE \/ \E e \in Entries, i \in 1..(Len(profs) + 1) : SaveProfile(i, e)
               \/ \E i \in DOMAIN profs : DropProfile(i)
               \/ \E i \in DOMAIN items : SelectHost(i)
               \/ \E text \in HandTexts : TypeHost(text)
               \/ RefreshHostList \/ EnterHost
      <3>1. look' = NothingLaunched
        BY <2>2 DEF SaveProfile, DropProfile, SelectHost, TypeHost, RefreshHostList, EnterHost
      <3> QED
        BY <3>1, NothingIsAccepted
    <2> QED
      BY <2>1, <2>2 DEF LookNext
  <1> QED
    BY <1>1, <1>3, <1>4, <1>5 DEF TargetsInv

LEMMA TargetsInvImplies == TargetsInv => ScansAreMeant
  <1> SUFFICES ASSUME TargetsInv PROVE ScansAreMeant
    OBVIOUS
  <1>1. SubnetIsFollowed
    BY DEF TargetsInv, Followed, SubnetIsFollowed
  <1>2. AskedIsAccepted
    BY DEF TargetsInv, Accepted, AskedIsAccepted
  <1>3. FollowsBetweenScans
    BY DEF TargetsInv
  <1> QED
    BY <1>1, <1>2, <1>3 DEF ScansAreMeant

\* For any networks, texts, profiles, ports and number of scans at a time: the
\* arguments of a privileged scan pass the check of the thread exactly when the
\* text is an address; the subnet field is what the user typed, or else the
\* network it was last brought up to; and the timer leaves it alone while a scan
\* runs that was not started beside another (core/nmap_scan.py; core/privilege.py,
\* validate; scanner_tab.py, _follow_network, _launch_scan).
THEOREM ScansStayMeant == TargetsSpec => []ScansAreMeant
  <1>1. TargetsInit => TargetsInv
    BY TargetsInitHolds
  <1>2. TargetsInv /\ [SubnetNext \/ LookNext]_targetsVars => TargetsInv'
    <2> SUFFICES ASSUME TargetsInv, UNCHANGED targetsVars PROVE TargetsInv'
      BY SubnetKeeps, LookKeeps
    <2> QED
      BY FieldKeeps DEF TargetsInv, Counted, FollowsBetweenScans, targetsVars, subnetVars, lookVars
  <1> QED
    BY <1>1, <1>2, TargetsInvImplies, PTL DEF TargetsSpec

---------------------------------------------------------------------------
(* The servers of a chat. *)

LEMMA MinOf ==
    ASSUME NEW T \in SUBSET Nat, T # {}
    PROVE  Min(T) \in T
  <1>1. \E x \in T : \A y \in T : x <= y
    BY LeastOf
  <1> QED
    BY <1>1 DEF Min

LEMMA Extremes ==
    ASSUME NEW a \in Nat, NEW b \in Nat
    PROVE  /\ Max({a, b}) = IF a >= b THEN a ELSE b
           /\ Min({a, b}) = IF a <= b THEN a ELSE b
  <1>1. Max({a, b}) = CHOOSE x \in {a, b} : \A y \in {a, b} : x >= y
    BY DEF Max
  <1>2. Min({a, b}) = CHOOSE x \in {a, b} : \A y \in {a, b} : x <= y
    BY DEF Min
  <1>3. \E x \in {a, b} : \A y \in {a, b} : x >= y
    OBVIOUS
  <1>4. \E x \in {a, b} : \A y \in {a, b} : x <= y
    OBVIOUS
  <1>5. Max({a, b}) \in {a, b} /\ \A y \in {a, b} : Max({a, b}) >= y
    BY <1>1, <1>3
  <1>6. Min({a, b}) \in {a, b} /\ \A y \in {a, b} : Min({a, b}) <= y
    BY <1>2, <1>4
  <1> QED
    BY <1>5, <1>6

LEMMA SizesAreNumbers == Sizes \subseteq Int
  <1>1. \A n \in Nat : 2^n \in Int
    OBVIOUS
  <1>2. \A n \in 0..MaxDoublings : 8192 * 2^n \in Int
    <2> SUFFICES ASSUME NEW n \in 0..MaxDoublings PROVE 8192 * 2^n \in Int
      OBVIOUS
    <2>1. n \in Nat
      BY ServersAssumption DEF ServersAssumption
    <2>2. PICK p \in Int : p = 2^n
      BY <1>1, <2>1
    <2> QED
      BY <2>2
  <1> QED
    BY <1>2 DEF Sizes

\* What ollama_context promises.
LEMMA ContextOfPrompt ==
    ASSUME ServersAssumption, NEW prompt \in Prompts, NEW most \in Nat, NEW previous \in Nat
    PROVE  LET ctx == OllamaContext(prompt, most, previous)
           IN  /\ ctx \in Nat
               /\ ctx = 0 => prompt <= ShortPrompt /\ previous = 0
               /\ ctx # 0 => ctx >= prompt + ReplyBudget \/ (most # 0 /\ ctx = most)
               /\ ctx >= previous \/ (most # 0 /\ ctx = most)
  <1> DEFINE T == {s \in Sizes : s >= prompt + ReplyBudget}
             least == Min(T)
             size == Max({previous, least})
  <1>1. prompt \in Nat /\ prompt + ReplyBudget \in Nat /\ prompt + ReplyBudget > 0
    BY DEF ServersAssumption, ReplyBudget
  <1>2. T \in SUBSET Nat /\ T # {}
    <2>1. \A s \in Sizes : s \in Int
      BY SizesAreNumbers
    <2> QED
      BY <1>1, <2>1 DEF ServersAssumption
  <1>3. least \in T
    BY <1>2, MinOf
  <1>4. least \in Nat /\ least # 0 /\ least >= prompt + ReplyBudget
    BY <1>1, <1>2, <1>3 DEF ReplyBudget
  <1> HIDE DEF least
  <1>5. size \in Nat /\ size # 0 /\ size >= prompt + ReplyBudget /\ size >= previous
    BY <1>1, <1>4, Extremes
  <1>6. OllamaContext(prompt, most, previous) =
          IF prompt <= ShortPrompt /\ previous = 0 THEN 0
          ELSE IF most = 0 THEN size ELSE Min({size, most})
    BY DEF OllamaContext, least
  <1> HIDE DEF size
  <1>7. Min({size, most}) = IF size <= most THEN size ELSE most
    BY <1>5, Extremes
  <1> QED
    BY <1>1, <1>5, <1>6, <1>7 DEF ShortPrompt

---------------------------------------------------------------------------
(* The inductive invariant. *)

\* A question whose key may be known to its server, given the user's consents.
Meant(r, agrees) ==
    /\ r.key \in {NoKey, r.server}
    /\ (r.kind = "list" /\ SendsInClear(r.server, r.key)) => r.server \in agrees

KeysAtHome ==
    /\ server \in Servers /\ keyText \in {NoKey, server}
    /\ keyring = [s \in Servers |-> keyring[s]]
    /\ \A s \in Servers : keyring[s] \in {NoKey, s}
    /\ \A r \in asks : Meant(r, agreed)

SizesTyped ==
    /\ model \in Models \cup {NoModel}
    /\ modelLists \in [Servers -> Seq(Models)]
    /\ limits \in [Servers \X (Models \cup {NoModel}) -> Nat]
    /\ numCtx \in Nat
    /\ keyBox # NoKeyBox => keyBox.prompt \in Prompts

\* A reply is asked for in the clear with the user's consent.
KeyOfReply ==
    request # NoRequest /\ SendsInClear(request.server, request.key) => request.server \in agreed

ServerInv == KeysAtHome /\ SizesTyped /\ ContextHolds /\ KeyOfReply

LEMMA ServerInitHolds == ServerInit => ServerInv
  <1> SUFFICES ASSUME ServerInit PROVE ServerInv
    OBVIOUS
  <1>1. KeysAtHome
    BY DEF ServerInit, KeysAtHome
  <1>2. SizesTyped
    BY DEF ServerInit, SizesTyped
  <1>3. ContextHolds
    BY DEF ServerInit, ContextHolds
  <1>4. KeyOfReply
    BY DEF ServerInit, KeyOfReply
  <1> QED
    BY <1>1, <1>2, <1>3, <1>4 DEF ServerInv

\* Nothing is promised of a step that sends nothing.
LEMMA SilentStep == NothingSent => ContextHolds' /\ KeyOfReply'
  BY DEF NothingSent, ContextHolds, KeyOfReply

\* What _on_model_changed asks goes to the server that is shown.
LEMMA QuestionsAreMeant ==
    ASSUME NEW s, NEW m, NEW k, NEW Q, ModelShown(s, m, k, Q), k \in {NoKey, s}, NEW agrees,
           \A r \in asks : Meant(r, agreed), agreed \subseteq agrees, \A r \in Q : Meant(r, agrees)
    PROVE  (\A r \in asks' : Meant(r, agrees)) /\ model' = m
  <1> DEFINE show == [kind |-> "show", server |-> s, model |-> m, key |-> k]
  <1>1. asks' \subseteq asks \cup Q \cup {show}
    BY DEF ModelShown
  <1>2. Meant(show, agrees)
    BY DEF Meant
  <1>3. \A r \in asks : Meant(r, agrees)
    BY DEF Meant
  <1> QED
    BY <1>1, <1>2, <1>3 DEF ModelShown

LEMMA TextIsModel ==
    ASSUME NEW list \in Seq(Models), NEW m \in Models \cup {NoModel}
    PROVE  TextAfter(list, m) \in Models \cup {NoModel}
  <1>1. CASE list = <<>>
    BY <1>1 DEF TextAfter
  <1>2. CASE list # <<>>
    <2>1. list[1] \in Models
      BY <1>2
    <2> QED
      BY <2>1 DEF TextAfter
  <1> QED
    BY <1>1, <1>2

---------------------------------------------------------------------------
(* The server, its key and its models. *)

LEMMA ServerChosenKeeps ==
    ASSUME ServersAssumption, ServerInv, NEW s \in Servers, NEW agrees \in BOOLEAN, OnServerChosen(s, agrees)
    PROVE  ServerInv'
  <1> DEFINE key == keyring[s]
             asksList == modelLists[s] = <<>> /\ (~SendsInClear(s, key) \/ s \in agreed \/ agrees)
             Q == IF asksList THEN {ListQuestion(s, key)} ELSE {}
             m == TextAfter(modelLists[s], model)
  <1>1. /\ server' = s /\ keyText' = key
        /\ agreed' = IF asksList /\ SendsInClear(s, key) THEN agreed \cup {s} ELSE agreed
        /\ ModelShown(s, m, key, Q)
        /\ UNCHANGED <<keyring, limits, modelLists, sizeVars>> /\ NothingSent
    BY DEF OnServerChosen
  <1>2. key \in {NoKey, s}
    BY DEF ServerInv, KeysAtHome
  <1>3. agreed \subseteq agreed'
    BY <1>1
  <1>4. \A r \in Q : Meant(r, agreed')
    <2> SUFFICES ASSUME asksList PROVE Meant(ListQuestion(s, key), agreed')
      OBVIOUS
    <2>1. SendsInClear(s, key) => s \in agreed'
      BY <1>1
    <2>2. ListQuestion(s, key).server = s /\ ListQuestion(s, key).key = key
      BY DEF ListQuestion
    <2> HIDE DEF key
    <2> QED
      BY <1>2, <2>1, <2>2 DEF Meant
  <1> HIDE DEF Q, m, asksList
  <1>5. (\A r \in asks' : Meant(r, agreed')) /\ model' = m
    <2>1. \A r \in asks : Meant(r, agreed)
      BY DEF ServerInv, KeysAtHome
    <2> HIDE DEF key
    <2>2. PICK a : a = agreed'
      OBVIOUS
    <2>3. ModelShown(s, m, key, Q) /\ agreed \subseteq a /\ \A r \in Q : Meant(r, a)
      BY <1>1, <1>3, <1>4, <2>2
    <2>4. (\A r \in asks' : Meant(r, a)) /\ model' = m
      BY <1>2, <2>1, <2>3, QuestionsAreMeant
    <2> QED
      BY <2>2, <2>4
  <1>6. m \in Models \cup {NoModel}
    BY TextIsModel DEF m, ServerInv, SizesTyped
  <1>7. KeysAtHome'
    BY <1>1, <1>2, <1>5 DEF ServerInv, KeysAtHome
  <1>8. SizesTyped'
    BY <1>1, <1>5, <1>6 DEF ServerInv, SizesTyped, sizeVars
  <1> QED
    BY <1>1, <1>7, <1>8, SilentStep DEF ServerInv

\* The field of the key, and the keyring.
LEMMA KeyStepsKeep ==
    ASSUME ServerInv,
           \/ \E remembers \in BOOLEAN : TypeKey(remembers)
           \/ \E s \in Servers : OtherWindow(s)
           \/ ForgetKey
    PROVE  ServerInv'
  <1>1. UNCHANGED <<server, agreed, model, limits, modelLists, asks, sizeVars>> /\ NothingSent
    BY DEF TypeKey, OtherWindow, ForgetKey
  <1>2. keyText' \in {NoKey, server}
    BY DEF TypeKey, OtherWindow, ForgetKey, ServerInv, KeysAtHome
  <1>3. keyring' = [s \in Servers |-> keyring'[s]] /\ \A s \in Servers : keyring'[s] \in {NoKey, s}
    <2>1. CASE UNCHANGED keyring
      BY <2>1 DEF ServerInv, KeysAtHome
    <2>2. ASSUME NEW s \in Servers, NEW k \in {NoKey, s}, keyring' = [keyring EXCEPT ![s] = k]
          PROVE  keyring' = [x \in Servers |-> keyring'[x]] /\ \A x \in Servers : keyring'[x] \in {NoKey, x}
      BY <2>2 DEF ServerInv, KeysAtHome
    <2>3. \/ UNCHANGED keyring
          \/ \E s \in Servers : \E k \in {NoKey, s} : keyring' = [keyring EXCEPT ![s] = k]
      BY DEF TypeKey, OtherWindow, ForgetKey, ServerInv, KeysAtHome
    <2> QED
      BY <2>1, <2>2, <2>3
  <1>4. KeysAtHome'
    BY <1>1, <1>2, <1>3 DEF ServerInv, KeysAtHome
  <1>5. SizesTyped'
    BY <1>1 DEF ServerInv, SizesTyped, sizeVars
  <1> QED
    BY <1>1, <1>4, <1>5, SilentStep DEF ServerInv

LEMMA TypeModelKeeps ==
    ASSUME ServerInv, NEW m \in Models, TypeModel(m)
    PROVE  ServerInv'
  <1>1. /\ UNCHANGED <<server, keyVars, limits, modelLists, sizeVars>> /\ NothingSent
        /\ ModelShown(server, m, keyText, {})
    BY DEF TypeModel
  <1>2. (\A r \in asks' : Meant(r, agreed)) /\ model' = m
    BY <1>1, QuestionsAreMeant DEF ServerInv, KeysAtHome
  <1>3. KeysAtHome'
    BY <1>1, <1>2 DEF ServerInv, KeysAtHome, keyVars
  <1>4. SizesTyped'
    BY <1>1, <1>2 DEF ServerInv, SizesTyped, sizeVars
  <1> QED
    BY <1>1, <1>3, <1>4, SilentStep DEF ServerInv

\* A list of models is asked for in the clear with the user's consent.
LEMMA RefreshKeeps ==
    ASSUME ServerInv, NEW agrees \in BOOLEAN, RefreshModels(agrees)
    PROVE  ServerInv'
  <1> DEFINE q == ListQuestion(server, keyText)
  <1>1. /\ agreed' = AgreedTo(server) /\ ModelShown(server, model, keyText, {q})
        /\ UNCHANGED <<server, keyText, keyring, limits, modelLists, sizeVars>> /\ NothingSent
    BY DEF RefreshModels
  <1>2. agreed \subseteq agreed' /\ (SendsInClear(server, keyText) => server \in agreed')
    BY <1>1 DEF AgreedTo
  <1>3. Meant(q, agreed')
    BY <1>2 DEF Meant, ListQuestion, ServerInv, KeysAtHome
  <1> HIDE DEF q
  <1>4. (\A r \in asks' : Meant(r, agreed')) /\ model' = model
    BY <1>1, <1>2, <1>3, QuestionsAreMeant DEF ServerInv, KeysAtHome
  <1>5. KeysAtHome'
    BY <1>1, <1>4 DEF ServerInv, KeysAtHome
  <1>6. SizesTyped'
    BY <1>1, <1>4 DEF ServerInv, SizesTyped, sizeVars
  <1> QED
    BY <1>1, <1>5, <1>6, SilentStep DEF ServerInv

\* The key shown is saved for the server shown.
LEMMA SavedKeysAreHome ==
    ASSUME KeysAtHome
    PROVE  /\ KeyringSaved = [s \in Servers |-> KeyringSaved[s]]
           /\ \A s \in Servers : KeyringSaved[s] \in {NoKey, s}
  <1>1. CASE KeyringSaved = keyring
    BY <1>1 DEF KeysAtHome
  <1>2. CASE keyText # NoKey /\ KeyringSaved = [keyring EXCEPT ![server] = keyText]
    BY <1>2 DEF KeysAtHome
  <1> QED
    BY <1>1, <1>2 DEF KeyringSaved

LEMMA ModelsComeKeeps ==
    ASSUME ServersAssumption, ServerInv, NEW r \in asks, NEW list \in ModelAnswers, OnModels(r, list)
    PROVE  ServerInv'
  <1> DEFINE m == TextAfter(list, model)
             show == [kind |-> "show", server |-> server, model |-> m, key |-> keyText]
  <1>1. /\ modelLists' = IF list = <<>> THEN modelLists ELSE [modelLists EXCEPT ![server] = list]
        /\ keyring' = IF list = <<>> THEN keyring ELSE KeyringSaved
        /\ model' = m /\ asks' \subseteq asks \cup {show}
        /\ UNCHANGED <<server, keyText, agreed, limits, sizeVars>> /\ NothingSent
    BY DEF OnModels
  <1>2. list \in Seq(Models)
    BY DEF ServersAssumption
  <1>3. m \in Models \cup {NoModel}
    BY <1>2, TextIsModel DEF ServerInv, SizesTyped
  <1>4. modelLists' \in [Servers -> Seq(Models)]
    BY <1>1, <1>2 DEF ServerInv, SizesTyped, KeysAtHome
  <1>5. keyring' = [s \in Servers |-> keyring'[s]] /\ \A s \in Servers : keyring'[s] \in {NoKey, s}
    <2>1. CASE keyring' = keyring
      BY <2>1 DEF ServerInv, KeysAtHome
    <2>2. CASE keyring' = KeyringSaved
      BY <2>2, SavedKeysAreHome DEF ServerInv
    <2> QED
      BY <1>1, <2>1, <2>2
  <1>6. Meant(show, agreed)
    BY DEF Meant, ServerInv, KeysAtHome
  <1> HIDE DEF m, show
  <1>7. KeysAtHome'
    BY <1>1, <1>5, <1>6 DEF ServerInv, KeysAtHome
  <1>8. SizesTyped'
    BY <1>1, <1>3, <1>4 DEF ServerInv, SizesTyped, sizeVars
  <1> QED
    BY <1>1, <1>7, <1>8, SilentStep DEF ServerInv

LEMMA CapabilitiesComeKeeps ==
    ASSUME ServersAssumption, ServerInv, NEW r \in asks, NEW limit \in Limits, OnCapabilities(r, limit)
    PROVE  ServerInv'
  <1>1. /\ asks' \subseteq asks /\ limits' = [limits EXCEPT ![<<r.server, r.model>>] = limit]
        /\ UNCHANGED <<server, keyVars, model, modelLists, sizeVars>> /\ NothingSent
    BY DEF OnCapabilities
  <1>2. limit \in Nat
    BY DEF ServersAssumption
  <1>3. limits' \in [Servers \X (Models \cup {NoModel}) -> Nat]
    <2>1. PICK sm : sm = <<r.server, r.model>>
      OBVIOUS
    <2>2. limits' = [limits EXCEPT ![sm] = limit] /\ limits \in [Servers \X (Models \cup {NoModel}) -> Nat]
      BY <1>1, <2>1 DEF ServerInv, SizesTyped
    <2> QED
      BY <1>2, <2>2
  <1>4. KeysAtHome'
    BY <1>1 DEF ServerInv, KeysAtHome, keyVars
  <1>5. SizesTyped'
    BY <1>1, <1>3 DEF ServerInv, SizesTyped, sizeVars
  <1> QED
    BY <1>1, <1>4, <1>5, SilentStep DEF ServerInv

---------------------------------------------------------------------------
(* Replies. *)

\* What is sent was looked at as it is now, or the user agreed, or a box was open.
LEMMA ReplyIsMeant ==
    ASSUME ServersAssumption, SizesTyped, server \in Servers, NEW prompt \in Prompts,
           NEW boxed \in BOOLEAN, NEW agrees, StartReply(prompt, boxed, agrees),
           boxed \/ Holds(prompt) \/ agrees
    PROVE  numCtx' \in Nat /\ ContextHolds'
  <1> DEFINE most == LimitOf(server, model)
             ctx == IF server \in Ollamas THEN OllamaContext(prompt, most, numCtx) ELSE 0
  <1>1. most \in Nat
    <2>1. <<server, model>> \in Servers \X (Models \cup {NoModel})
      BY DEF SizesTyped
    <2> QED
      BY <2>1 DEF SizesTyped, LimitOf
  <1>2. /\ numCtx' = IF ctx # 0 THEN ctx ELSE numCtx
        /\ request' = [server |-> server, key |-> keyText, prompt |-> prompt, ctx |-> ctx, most |-> most,
                       before |-> numCtx, boxed |-> boxed, agreed |-> agrees]
    BY DEF StartReply
  <1>3. CASE server \notin Ollamas
    <2>1. numCtx' = numCtx /\ request'.server \notin Ollamas
      BY <1>2, <1>3
    <2> QED
      BY <2>1 DEF ContextHolds, SizesTyped
  <1>4. CASE server \in Ollamas
    <2>1. /\ ctx \in Nat
          /\ ctx = 0 => prompt <= ShortPrompt /\ numCtx = 0
          /\ ctx # 0 => ctx >= prompt + ReplyBudget \/ (most # 0 /\ ctx = most)
          /\ ctx >= numCtx \/ (most # 0 /\ ctx = most)
      BY <1>1, <1>4, ContextOfPrompt DEF SizesTyped
    <2>2. boxed \/ agrees \/ most = 0 \/ prompt + ReplyBudget <= most
      BY <1>4 DEF Holds
    <2>3. prompt \in Nat /\ ReplyBudget \in Nat /\ numCtx \in Nat
      BY DEF ServersAssumption, ReplyBudget, SizesTyped
    <2> HIDE DEF ctx, most
    <2>4. numCtx' \in Nat
      BY <1>2, <2>1, <2>3
    <2>5. /\ request'.prompt = prompt /\ request'.ctx = ctx /\ request'.most = most
          /\ request'.before = numCtx /\ request'.boxed = boxed /\ request'.agreed = agrees
      BY <1>2
    <2>6. /\ ctx = 0 => prompt <= ShortPrompt
          /\ ctx # 0 => ctx >= prompt + ReplyBudget \/ agrees \/ boxed
          /\ ctx >= numCtx \/ (most # 0 /\ ctx = most)
      BY <1>1, <2>1, <2>2, <2>3 DEF most
    <2>7. ContextHolds'
      BY <2>5, <2>6 DEF ContextHolds
    <2> QED
      BY <2>4, <2>7
  <1> QED
    BY <1>3, <1>4

\* A reply is asked for with the key that is shown.
LEMMA ReplyIsAgreed ==
    ASSUME NEW prompt, NEW boxed, NEW agrees, StartReply(prompt, boxed, agrees),
           SendsInClear(server, keyText) => server \in agreed'
    PROVE  KeyOfReply'
  <1>1. request'.server = server /\ request'.key = keyText
    BY DEF StartReply
  <1> QED
    BY <1>1 DEF KeyOfReply, SendsInClear

\* The lists and the limits do not change when something is sent.
LEMMA ReplyLeaves ==
    ASSUME ServerInv, numCtx' \in Nat, ContextHolds', KeyOfReply', keyBox' # NoKeyBox => keyBox'.prompt \in Prompts,
           agreed \subseteq agreed', UNCHANGED <<server, keyText, keyring, model, limits, modelLists, asks>>
    PROVE  ServerInv'
  <1>1. \A r \in asks : Meant(r, agreed')
    BY DEF ServerInv, KeysAtHome, Meant
  <1>2. KeysAtHome'
    BY <1>1 DEF ServerInv, KeysAtHome
  <1>3. SizesTyped'
    BY DEF ServerInv, SizesTyped
  <1> QED
    BY <1>2, <1>3 DEF ServerInv

LEMMA SendKeeps ==
    ASSUME ServersAssumption, ServerInv, NEW prompt \in Prompts, NEW agrees \in BOOLEAN, NEW takes \in BOOLEAN,
           Send(prompt, agrees, takes)
    PROVE  ServerInv'
  <1>1. /\ agreed' = AgreedTo(server)
        /\ UNCHANGED <<server, keyText, keyring, model, limits, modelLists, asks, keyBox>>
    BY DEF Send
  <1>2. agreed \subseteq agreed' /\ (SendsInClear(server, keyText) => server \in agreed')
    BY <1>1 DEF AgreedTo
  <1>3. numCtx' \in Nat /\ ContextHolds' /\ KeyOfReply'
    <2>1. CASE StartReply(prompt, FALSE, takes) /\ (Holds(prompt) \/ takes)
      BY <1>2, <2>1, ReplyIsMeant, ReplyIsAgreed DEF ServerInv, KeysAtHome
    <2>2. CASE UNCHANGED <<warned, numCtx, replying>> /\ NothingSent
      BY <2>2, SilentStep DEF ServerInv, SizesTyped
    <2> QED
      BY <2>1, <2>2 DEF Send, Fits
  <1>4. keyBox' # NoKeyBox => keyBox'.prompt \in Prompts
    BY <1>1 DEF ServerInv, SizesTyped
  <1> QED
    BY <1>1, <1>2, <1>3, <1>4, ReplyLeaves

LEMMA RegenerateKeeps ==
    ASSUME ServersAssumption, ServerInv, NEW prompt \in Prompts, NEW takes \in BOOLEAN, Regenerate(prompt, takes)
    PROVE  ServerInv'
  <1>1. /\ Holds(prompt) \/ takes
        /\ UNCHANGED <<server, keyText, keyring, agreed, model, limits, modelLists, asks>>
    BY DEF Regenerate, Fits, keyVars
  <1>2. CASE MayBeSent(FALSE)
    <2>1. StartReply(prompt, FALSE, takes) /\ UNCHANGED keyBox
      BY <1>2 DEF Regenerate
    <2>2. numCtx' \in Nat /\ ContextHolds'
      BY <1>1, <2>1, ReplyIsMeant DEF ServerInv, KeysAtHome
    <2>3. KeyOfReply'
      <3>1. SendsInClear(server, keyText) => server \in agreed'
        BY <1>1, <1>2 DEF MayBeSent
      <3> QED
        BY <2>1, <3>1, ReplyIsAgreed
    <2> QED
      BY <1>1, <2>1, <2>2, <2>3, ReplyLeaves DEF ServerInv, SizesTyped
  <1>3. CASE ~MayBeSent(FALSE)
    <2>1. keyBox' = [prompt |-> prompt, takes |-> takes] /\ UNCHANGED <<numCtx, replying>> /\ NothingSent
      BY <1>3 DEF Regenerate
    <2>2. numCtx' \in Nat /\ ContextHolds' /\ KeyOfReply'
      BY <2>1, SilentStep DEF ServerInv, SizesTyped
    <2>3. keyBox'.prompt \in Prompts
      BY <2>1
    <2> QED
      BY <1>1, <2>2, <2>3, ReplyLeaves
  <1> QED
    BY <1>2, <1>3

LEMMA BoxAnsweredKeeps ==
    ASSUME ServersAssumption, ServerInv, NEW agrees \in BOOLEAN, KeyBoxAnswered(agrees)
    PROVE  ServerInv'
  <1>1. /\ keyBox # NoKeyBox /\ keyBox' = NoKeyBox /\ agreed \subseteq agreed'
        /\ UNCHANGED <<server, keyText, keyring, model, limits, modelLists, asks>>
    BY DEF KeyBoxAnswered
  <1>2. keyBox.prompt \in Prompts
    BY <1>1 DEF ServerInv, SizesTyped
  <1>3. numCtx' \in Nat /\ ContextHolds' /\ KeyOfReply'
    <2>1. CASE agrees /\ model # NoModel
      <3>1. StartReply(keyBox.prompt, TRUE, keyBox.takes) /\ server \in agreed'
        BY <2>1 DEF KeyBoxAnswered
      <3> QED
        BY <1>2, <3>1, ReplyIsMeant, ReplyIsAgreed DEF ServerInv, KeysAtHome
    <2>2. CASE ~(agrees /\ model # NoModel)
      <3>1. UNCHANGED <<numCtx, replying>> /\ NothingSent
        BY <2>2 DEF KeyBoxAnswered
      <3> QED
        BY <3>1, SilentStep DEF ServerInv, SizesTyped
    <2> QED
      BY <2>1, <2>2
  <1> QED
    BY <1>1, <1>3, ReplyLeaves

LEMMA ReplyEndsKeeps ==
    ASSUME ServerInv, NEW answered \in BOOLEAN, ReplyEnds(answered)
    PROVE  ServerInv'
  <1>1. /\ keyring' \in {keyring, KeyringSaved} /\ NothingSent
        /\ UNCHANGED <<server, keyText, agreed, model, limits, modelLists, asks, numCtx, keyBox>>
    BY DEF ReplyEnds
  <1>2. keyring' = [s \in Servers |-> keyring'[s]] /\ \A s \in Servers : keyring'[s] \in {NoKey, s}
    BY <1>1, SavedKeysAreHome DEF ServerInv, KeysAtHome
  <1>3. KeysAtHome'
    BY <1>1, <1>2 DEF ServerInv, KeysAtHome
  <1>4. SizesTyped'
    BY <1>1 DEF ServerInv, SizesTyped
  <1> QED
    BY <1>1, <1>3, <1>4, SilentStep DEF ServerInv

LEMMA NewChatKeeps ==
    ASSUME ServerInv, NewChat
    PROVE  ServerInv'
  <1>1. /\ numCtx' = 0 /\ NothingSent
        /\ UNCHANGED <<server, keyVars, model, limits, modelLists, asks, keyBox>>
    BY DEF NewChat
  <1>2. numCtx' \in Nat /\ ContextHolds' /\ KeyOfReply'
    BY <1>1, SilentStep
  <1> QED
    BY <1>1, <1>2, ReplyLeaves DEF ServerInv, SizesTyped, keyVars

LEMMA ServerNextKeeps ==
    ASSUME ServersAssumption, ServerInv, [ServerNext]_serverVars
    PROVE  ServerInv'
  <1>1. ASSUME UserStep PROVE ServerInv'
    BY <1>1, ServerChosenKeeps, KeyStepsKeep, TypeModelKeeps, SendKeeps, RegenerateKeeps, RefreshKeeps,
       NewChatKeeps DEF UserStep
  <1>2. ASSUME NEW r \in asks, NEW list \in ModelAnswers, OnModels(r, list) PROVE ServerInv'
    BY <1>2, ModelsComeKeeps
  <1>3. ASSUME NEW r \in asks, NEW limit \in Limits, OnCapabilities(r, limit) PROVE ServerInv'
    BY <1>3, CapabilitiesComeKeeps
  <1>4. CASE UNCHANGED serverVars
    <2>1. UNCHANGED <<server, keyVars, model, limits, modelLists, asks, sizeVars, request>>
      BY <1>4 DEF serverVars
    <2>2. KeysAtHome'
      BY <2>1 DEF ServerInv, KeysAtHome, keyVars
    <2>3. SizesTyped'
      BY <2>1 DEF ServerInv, SizesTyped, sizeVars
    <2>4. ContextHolds' /\ KeyOfReply'
      BY <2>1 DEF ServerInv, ContextHolds, KeyOfReply, keyVars
    <2> QED
      BY <2>2, <2>3, <2>4 DEF ServerInv
  <1> QED
    BY <1>1, <1>2, <1>3, <1>4, BoxAnsweredKeeps, ReplyEndsKeeps DEF ServerNext

\* In whatever order servers are chosen, keys typed, remembered and forgotten,
\* answers about models and limits come, and prompts are sent, for any list of
\* sizes that reaches the longest prompt: a key goes to its own server alone, and
\* with a question for models or with a message in the clear only where the user
\* agreed (_on_model_changed's questions are not covered); what is sent to Ollama is
\* taken in whole, or the user agreed that it may not be, or a question about the
\* key was open; and the context of a chat never shrinks but to the most its
\* model is known to take (core/ai_chat.py, ollama_context; _fits).
THEOREM RequestsStayMeant == ServerSpec => []RequestsAreMeant
  <1>1. ServerInit => ServerInv
    BY ServerInitHolds
  <1>2. ServerInv /\ [ServerNext]_serverVars => ServerInv'
    BY ServerNextKeeps, ServersAssumption
  <1>3. ServerInv => RequestsAreMeant
    BY DEF ServerInv, KeysAtHome, Meant, KeyOfReply, RequestsAreMeant, KeysStayHome
  <1> QED
    BY <1>1, <1>2, <1>3, PTL DEF ServerSpec

---------------------------------------------------------------------------
(* What becomes of a transfer. *)

\* The lists of a list, one behind the other.
LEMMA FlattenSteps ==
    ASSUME NEW seqs, Len(seqs) \in Nat, Len(seqs) # 0
    PROVE  \E w : /\ FlattenSeq(seqs) = w[Len(seqs)] /\ w[1] = seqs[1]
                  /\ \A i \in 2..Len(seqs) : w[i] = w[i - 1] \o seqs[i]
  <1> DEFINE n == Len(seqs)
             Joins(f, j) == f = [i \in 1..j |-> IF i = 1 THEN seqs[i] ELSE f[i - 1] \o seqs[i]]
             T == {j \in Nat : ~ \E f : Joins(f, j)}
  <1>1. T = {}
    <2> SUFFICES ASSUME T # {} PROVE FALSE
      OBVIOUS
    <2>1. PICK x \in T : \A y \in T : x <= y
      <3>1. T \in SUBSET Nat
        OBVIOUS
      <3> HIDE DEF T
      <3> QED BY <3>1, LeastOf
    <2>2. x \in Nat /\ ~ \E f : Joins(f, x)
      OBVIOUS
    <2>3. CASE x = 0
      <3> DEFINE f == [i \in 1..0 |-> seqs[i]]
      <3>1. f = [i \in 1..0 |-> IF i = 1 THEN seqs[i] ELSE f[i - 1] \o seqs[i]]
        OBVIOUS
      <3> QED BY <2>2, <2>3, <3>1
    <2>4. CASE x # 0
      <3>1. x - 1 \in Nat /\ x - 1 \notin T
        <4>1. x - 1 \in Nat /\ ~(x <= x - 1)
          BY <2>2, <2>4
        <4> HIDE DEF T
        <4> QED BY <4>1, <2>1
      <3>2. PICK f : Joins(f, x - 1)
        BY <3>1
      <3>3. \A i \in 1..(x - 1) : f[i] = IF i = 1 THEN seqs[i] ELSE f[i - 1] \o seqs[i]
        BY <3>2
      <3> DEFINE g == [i \in 1..x |-> IF i = x THEN IF x = 1 THEN seqs[x] ELSE f[x - 1] \o seqs[x] ELSE f[i]]
                 h == [i \in 1..x |-> IF i = 1 THEN seqs[i] ELSE g[i - 1] \o seqs[i]]
      <3>4. ASSUME NEW i \in 1..x PROVE g[i] = h[i]
        <4>1. CASE i = 1
          <5>1. CASE i = x
            BY <4>1, <5>1
          <5>2. CASE i # x
            <6>1. i \in 1..(x - 1)
              BY <2>2, <5>2
            <6> QED BY <3>3, <4>1, <5>2, <6>1
          <5> QED BY <5>1, <5>2
        <4>2. CASE i # 1
          <5>1. i - 1 \in 1..x /\ i - 1 # x /\ i \in Nat
            BY <2>2, <4>2
          <5>2. g[i - 1] = f[i - 1]
            BY <5>1
          <5>3. CASE i = x
            BY <4>2, <5>2, <5>3
          <5>4. CASE i # x
            <6>1. i \in 1..(x - 1)
              BY <2>2, <5>1, <5>4
            <6>2. f[i] = f[i - 1] \o seqs[i]
              BY <3>3, <4>2, <6>1
            <6> QED BY <4>2, <5>2, <5>4, <6>2
          <5> QED BY <5>3, <5>4
        <4> QED BY <4>1, <4>2
      <3>5. g = h
        BY <3>4
      <3>6. Joins(g, x)
        BY <3>5
      <3> HIDE DEF g
      <3> QED BY <2>2, <3>6
    <2> QED BY <2>3, <2>4
  <1>2. \E f : Joins(f, n)
    BY <1>1
  <1> DEFINE w == CHOOSE f : Joins(f, n)
  <1>3. Joins(w, n)
    <2> HIDE DEF Joins
    <2> QED BY <1>2
  <1>4. FlattenSeq(seqs) = w[n]
    <2>1. FlattenSeq(seqs) = IF Len(seqs) = 0 THEN seqs ELSE w[n]
      BY DEF FlattenSeq
    <2> HIDE DEF w
    <2> QED
      BY <2>1
  <1> HIDE DEF w
  <1>5. \A i \in 1..n : w[i] = IF i = 1 THEN seqs[i] ELSE w[i - 1] \o seqs[i]
    BY <1>3
  <1>6. w[1] = seqs[1]
    BY <1>5
  <1>7. ASSUME NEW i \in 2..n PROVE w[i] = w[i - 1] \o seqs[i]
    <2>1. i \in 1..n /\ i # 1
      OBVIOUS
    <2> QED
      BY <1>5, <2>1
  <1> QED
    BY <1>4, <1>6, <1>7

LEMMA FlattenIsList ==
    ASSUME NEW S, NEW seqs \in Seq(Seq(S))
    PROVE  FlattenSeq(seqs) \in Seq(S)
  <1>1. CASE Len(seqs) = 0
    <2>1. seqs = <<>>
      BY <1>1
    <2>2. \A w : (IF Len(seqs) = 0 THEN seqs ELSE w) = seqs
      BY <1>1
    <2>3. FlattenSeq(seqs) = seqs
      BY <2>2 DEF FlattenSeq
    <2>4. seqs \in Seq(S)
      BY <2>1
    <2> QED
      BY <2>3, <2>4, Zenon
  <1>2. CASE Len(seqs) # 0
    <2>1. Len(seqs) \in Nat /\ \A i \in 1..Len(seqs) : seqs[i] \in Seq(S)
      OBVIOUS
    <2>2. PICK w : /\ FlattenSeq(seqs) = w[Len(seqs)] /\ w[1] = seqs[1]
                   /\ \A i \in 2..Len(seqs) : w[i] = w[i - 1] \o seqs[i]
      BY <1>2, <2>1, FlattenSteps
    <2> DEFINE T == {j \in 1..Len(seqs) : w[j] \notin Seq(S)}
    <2>3. T = {}
      <3> SUFFICES ASSUME T # {} PROVE FALSE
        OBVIOUS
      <3>1. PICK x \in T : \A y \in T : x <= y
        <4>1. T \in SUBSET Nat
          BY <2>1
        <4> HIDE DEF T
        <4> QED BY <4>1, LeastOf
      <3>2. x # 1
        BY <2>1, <2>2
      <3>3. x \in 2..Len(seqs) /\ x - 1 \in 1..Len(seqs)
        BY <2>1, <3>2
      <3>4. x - 1 \notin T
        <4>1. ~(x <= x - 1)
          BY <3>3
        <4> HIDE DEF T
        <4> QED BY <3>1, <4>1
      <3>5. w[x - 1] \in Seq(S) /\ seqs[x] \in Seq(S)
        BY <2>1, <3>3, <3>4
      <3>6. w[x] \in Seq(S)
        <4>1. w[x] = w[x - 1] \o seqs[x]
          BY <2>2, <3>3
        <4> QED BY <3>5, <4>1, ConcatProperties
      <3> QED
        BY <3>6
    <2>4. Len(seqs) \in 1..Len(seqs)
      BY <1>2, <2>1
    <2> QED
      BY <2>2, <2>3, <2>4
  <1> QED
    BY <1>1, <1>2

---------------------------------------------------------------------------
\* Every option of a host is at its address, for an account with a name.
LEMMA OptionsAreOfTheHost ==
    ASSUME NEW h, IsList(h.extras), HasNames(h.extras)
    PROVE  /\ IsList(OptionsOf(h))
           /\ \A k \in DOMAIN OptionsOf(h) : OptionsOf(h)[k].ip = h.ip /\ OptionsOf(h)[k].user # NoUser
  <1>1. CASE h.alias = Nameless
    <2>1. OptionsOf(h) = <<>>
      BY <1>1 DEF OptionsOf
    <2> QED
      BY <2>1 DEF IsList
  <1>2. CASE h.alias # Nameless
    <2> DEFINE E == {u \in {h.extras[i] : i \in DOMAIN h.extras} \cup {h.primary} : u # NoUser}
               first == IF h.primary = NoUser THEN <<>> ELSE <<h.primary>>
               users == first \o h.extras
               o == OptionsOf(h)
    <2>1. first \in Seq(E) /\ h.extras \in Seq(E)
      <3>1. h.extras \in Seq({h.extras[i] : i \in DOMAIN h.extras})
        BY DEF IsList
      <3>2. h.extras \in Seq(E)
        <4> DEFINE D == {h.extras[i] : i \in DOMAIN h.extras}
        <4>1. D \subseteq E
          BY DEF HasNames
        <4>2. h.extras \in Seq(D)
          BY <3>1
        <4> HIDE DEF D, E
        <4> QED
          BY <4>1, <4>2
      <3>3. h.primary # NoUser => h.primary \in E
        OBVIOUS
      <3> HIDE DEF E
      <3> QED
        BY <3>2, <3>3
    <2>2. users \in Seq(E)
      <3> HIDE DEF E, first
      <3> QED BY <2>1, ConcatProperties
    <2>n. \A u \in E : u # NoUser
      OBVIOUS
    <2> HIDE DEF E, users
    <2>3. Len(users) \in Nat /\ DOMAIN users = 1..Len(users) /\ \A k \in DOMAIN users : users[k] # NoUser
      BY <2>2, <2>n
    <2>4. OptionsOf(h) = [i \in DOMAIN users |-> [alias |-> h.alias, ip |-> h.ip, user |-> users[i]]]
      BY <1>2 DEF OptionsOf, users
    <2>5. DOMAIN o = 1..Len(users)
      BY <2>3, <2>4
    <2>6. \A k \in DOMAIN o : o[k].ip = h.ip /\ o[k].user # NoUser
      BY <2>3, <2>4
    <2>7. o = [i \in 1..Len(users) |-> o[i]]
      BY <2>3, <2>4
    <2> HIDE DEF o
    <2>8. IsList(o)
      BY <2>3, <2>7, ListsAreSeqs
    <2> QED
      BY <2>6, <2>8 DEF o
  <1> QED
    BY <1>1, <1>2

\* No host that is offered is this machine, and every account has a name.
TableIsKnown == table \in HostTables

LEMMA OfferedHosts ==
    ASSUME TableIsKnown
    PROVE  /\ Len(Offered) \in Nat /\ DOMAIN Offered = 1..Len(Offered)
           /\ \A d \in 1..Len(Offered) : Offered[d].ip # Here /\ Offered[d].user # NoUser
  <1>1. /\ IsList(table)
        /\ \A i \in DOMAIN table : table[i].ip # Here /\ IsList(table[i].extras) /\ HasNames(table[i].extras)
    BY PlanAssumption DEF TableIsKnown
  <1>2. Len(table) \in Nat /\ DOMAIN table = 1..Len(table)
    <2>1. IsList(table)
      BY <1>1
    <2> QED
      BY <2>1, SeqsAreLists
  <1> DEFINE Of(i) == OptionsOf(table[i])
             S == UNION {{Of(i)[k] : k \in DOMAIN Of(i)} : i \in DOMAIN table}
             seqs == [i \in DOMAIN table |-> OptionsOf(table[i])]
  <1>3. \A x \in S : x.ip # Here /\ x.user # NoUser
    <2> SUFFICES ASSUME NEW i \in DOMAIN table, NEW k \in DOMAIN Of(i)
                 PROVE  Of(i)[k].ip # Here /\ Of(i)[k].user # NoUser
      OBVIOUS
    <2>1. Of(i)[k].ip = table[i].ip /\ Of(i)[k].user # NoUser
      BY <1>1, OptionsAreOfTheHost
    <2> QED
      BY <1>1, <2>1
  <1>4. ASSUME NEW i \in DOMAIN table PROVE Of(i) \in Seq(S)
    <2> DEFINE D == {Of(i)[k] : k \in DOMAIN Of(i)}
    <2>1. IsList(Of(i))
      BY <1>1, OptionsAreOfTheHost
    <2>2. Of(i) \in Seq(D)
      BY <2>1 DEF IsList
    <2>3. D \subseteq S
      OBVIOUS
    <2> HIDE DEF D, S, Of
    <2> QED
      BY <2>2, <2>3
  <1> HIDE DEF S
  <1>5. seqs \in Seq(Seq(S))
    <2>1. seqs = [i \in 1..Len(table) |-> OptionsOf(table[i])] /\ \A i \in 1..Len(table) : OptionsOf(table[i]) \in Seq(S)
      BY <1>2, <1>4
    <2> QED
      BY <1>2, <2>1
  <1>6. Offered \in Seq(S)
    BY <1>5, FlattenIsList DEF Offered
  <1>7. Len(Offered) \in Nat /\ DOMAIN Offered = 1..Len(Offered) /\ \A d \in 1..Len(Offered) : Offered[d] \in S
    BY <1>6
  <1> QED
    BY <1>3, <1>7

\* A set of numbers up to n has a greatest one.
LEMMA GreatestOf ==
    ASSUME NEW n \in Nat, NEW T \in SUBSET (1..n), T # {}
    PROVE  Max(T) \in T /\ \A y \in T : Max(T) >= y
  <1> DEFINE R == {n - x : x \in T}
  <1>1. R \in SUBSET Nat /\ R # {}
    <2>1. \A x \in 1..n : n - x \in Nat
      OBVIOUS
    <2>2. \A x \in T : n - x \in R
      OBVIOUS
    <2> QED
      BY <2>1, <2>2
  <1>2. PICK r \in R : \A y \in R : r <= y
    <2> HIDE DEF R
    <2> QED
      BY <1>1, LeastOf
  <1>3. PICK x \in T : r = n - x
    OBVIOUS
  <1>4. ASSUME NEW y \in T PROVE x >= y
    <2>1. n - y \in R
      OBVIOUS
    <2>2. n - x <= n - y
      BY <1>2, <1>3, <2>1
    <2> QED
      BY <2>2
  <1> QED
    BY <1>4 DEF Max

\* The account kept of an address: that of its last device.
LEMMA LastUser ==
    ASSUME TableIsKnown, NEW d \in 1..Len(Offered)
    PROVE  \E i \in 1..Len(Offered) : /\ i >= d /\ Offered[i].ip = Offered[d].ip
                                      /\ UserOf(Offered[d].ip) = Offered[i].user
  <1>1. Len(Offered) \in Nat /\ DOMAIN Offered = 1..Len(Offered)
    BY OfferedHosts
  <1> DEFINE at == {i \in DOMAIN Offered : Offered[i].ip = Offered[d].ip}
  <1>2. d \in at /\ at \subseteq 1..Len(Offered)
    BY <1>1
  <1>3. UserOf(Offered[d].ip) = Offered[Max(at)].user
    BY <1>2 DEF UserOf
  <1>4. \A i \in at : i \in 1..Len(Offered) /\ Offered[i].ip = Offered[d].ip
    BY <1>1
  <1> HIDE DEF at
  <1>5. Max(at) \in at /\ \A y \in at : Max(at) >= y
    BY <1>1, <1>2, GreatestOf
  <1> QED
    BY <1>2, <1>3, <1>4, <1>5

LEMMA EndFields ==
    ASSUME NEW ip, NEW user, NEW path
    PROVE  /\ EndAt(ip, user, path).ip = ip /\ EndAt(ip, user, path).path = path
           /\ ip = Here => EndAt(ip, user, path).user = NoUser
           /\ ip # Here => EndAt(ip, user, path).user = user
  BY DEF EndAt

\* The end of a transfer is at the device that was chosen for it.
LEMMA EndIsChosen ==
    ASSUME TableIsKnown, NEW d \in 0..Len(Offered), NEW path,
           NEW user \in {UserOf(IpOf(d)), Quoted(UserOf(IpOf(d)))}
    PROVE  IsAt(EndAt(IpOf(d), user, path), d, path)
  <1>1. CASE d = 0
    <2>1. IpOf(d) = Here
      BY <1>1 DEF IpOf
    <2>2. /\ EndAt(IpOf(d), user, path).ip = Chosen(d).ip
          /\ EndAt(IpOf(d), user, path).user = Chosen(d).user
      BY <1>1, <2>1, EndFields DEF Chosen
    <2> QED
      BY <2>2, EndFields DEF IsAt, IsAccountOf
  <1>2. CASE d # 0
    <2>1. d \in 1..Len(Offered) /\ Len(Offered) \in Nat /\ DOMAIN Offered = 1..Len(Offered)
      BY <1>2, OfferedHosts
    <2>2. CASE Offered[d].alias = Bracketed
      BY <1>2, <2>2, EndFields DEF IsAt
    <2>3. CASE Offered[d].alias # Bracketed
      <3>1. IpOf(d) = Offered[d].ip /\ IpOf(d) # Here
        BY <1>2, <2>1, <2>3, OfferedHosts DEF IpOf
      <3>2. PICK i \in 1..Len(Offered) : /\ i >= d /\ Offered[i].ip = Offered[d].ip
                                         /\ UserOf(Offered[d].ip) = Offered[i].user
        BY <2>1, LastUser
      <3>3. Offered[i].user # NoUser
        BY OfferedHosts
      <3>4. user = Offered[i].user
        BY <3>1, <3>2, <3>3 DEF Quoted
      <3>5. PICK end : end = EndAt(IpOf(d), user, path)
        OBVIOUS
      <3>6. end.ip = Offered[d].ip /\ end.user = Offered[i].user /\ end.path = path
        BY <3>1, <3>4, <3>5, EndFields
      <3>7. Chosen(d).ip = Offered[d].ip /\ Chosen(d).user = Offered[d].user
        BY <1>2 DEF Chosen
      <3>8. end.user # Chosen(d).user => i > d
        <4> SUFFICES ASSUME end.user # Chosen(d).user PROVE i > d
          OBVIOUS
        <4>1. i # d
          BY <3>6, <3>7
        <4> QED
          BY <2>1, <3>2, <4>1
      <3>9. IsAccountOf(end, d)
        BY <2>1, <3>2, <3>6, <3>7, <3>8 DEF IsAccountOf
      <3> QED
        BY <3>5, <3>6, <3>9 DEF IsAt
    <2> QED
      BY <2>2, <2>3
  <1> QED
    BY <1>1, <1>2

\* A path without a machine is on the one that rsync runs on.
LEMMA EndsOf ==
    ASSUME NEW c, NEW ip, NEW user, NEW path, NEW none, c.on = EndAt(ip, user, none)
    PROVE  /\ EndOf(c, EndAt(Here, NoUser, path)) = EndAt(ip, user, path)
           /\ \A at, who : at # Here => EndOf(c, EndAt(at, who, path)) = EndAt(at, who, path)
  <1>1. EndOf(c, EndAt(Here, NoUser, path)) = EndAt(c.on.ip, c.on.user, path)
    BY EndFields DEF EndOf
  <1>2. EndAt(c.on.ip, c.on.user, path) = EndAt(ip, user, path)
    <2>1. c.on.ip = ip /\ (ip # Here => c.on.user = user)
      BY EndFields
    <2> QED
      BY <2>1 DEF EndAt
  <1>3. \A at, who : at # Here => EndOf(c, EndAt(at, who, path)) = EndAt(at, who, path)
    <2> SUFFICES ASSUME NEW at, NEW who, at # Here PROVE EndOf(c, EndAt(at, who, path)) = EndAt(at, who, path)
      OBVIOUS
    <2>1. EndAt(at, who, path).ip # Here
      BY EndFields
    <2> QED
      BY <2>1 DEF EndOf
  <1> QED
    BY <1>1, <1>2, <1>3

LEMMA CommandHolds ==
    ASSUME TableIsKnown, NEW f, IsForm(f), queued = [form |-> f, data |-> DataOf(f)]
    PROVE  CommandIsMeant
  <1> DEFINE src == IF f.kind = "wildcard" THEN <<f.dir, f.path>> ELSE <<f.path>>
             dst == <<f.dest>>
  <1>1. PICK d : d = DataOf(f)
    OBVIOUS
  <1>2. queued.form = f /\ queued.data = d
    BY <1>1
  <1>3. PICK sip, rip : sip = IpOf(f.from) /\ rip = IpOf(f.to)
    OBVIOUS
  <1>4. PICK s, r : s = EndAt(sip, UserOf(sip), src) /\ r = EndAt(rip, UserOf(rip), dst)
    OBVIOUS
  <1>5. /\ d.sender_ip = sip /\ d.receiver_ip = rip /\ d.sender_user = UserOf(sip)
        /\ d.src_path = src /\ d.args = f.flags /\ d.full_source = s /\ d.full_dest = r
    BY <1>1, <1>3, <1>4 DEF DataOf
  <1>6. f.from \in 0..Len(Offered) /\ f.to \in 0..Len(Offered)
    BY DEF IsForm
  <1>7. PICK q : q = EndAt(sip, Quoted(UserOf(sip)), src)
    OBVIOUS
  <1>a. IsAt(s, f.from, src) /\ IsAt(q, f.from, src) /\ IsAt(r, f.to, dst)
    BY <1>3, <1>4, <1>6, <1>7, EndIsChosen
  <1> HIDE DEF src, dst
  <1>8. s.ip = sip /\ s.path = src /\ r.ip = rip /\ r.path = dst /\ q.ip = sip
    BY <1>4, <1>7, EndFields
  <1>9. PICK c : c = BuildCommand(d)
    OBVIOUS
  <1>10. /\ EndOf(c, c.source) \in {s, q} /\ EndOf(c, c.dest) = r
         /\ Expands(c) <=> sip # Here /\ rip = Here
         /\ Here \in {c.source.ip, c.dest.ip} /\ c.args = f.flags /\ MetBy(c) = Pinned(d)
    <2>1. CASE IsRemoteToRemote(d)
      <3>1. sip # Here /\ rip # Here
        BY <1>5, <2>1 DEF IsRemoteToRemote
      <3>2. /\ c.on = EndAt(sip, Quoted(UserOf(sip)), <<>>) /\ c.source = EndAt(Here, NoUser, src)
            /\ c.dest = r /\ c.args = f.flags /\ c.quoted
        BY <1>5, <1>9, <2>1 DEF BuildCommand
      <3>3. EndOf(c, c.source) = q
        BY <1>7, <3>2, EndsOf
      <3>4. EndOf(c, c.dest) = r
        BY <1>8, <3>1, <3>2 DEF EndOf
      <3>5. c.source.ip = Here /\ c.on.ip = sip
        BY <3>2, EndFields
      <3>6. MetBy(c) = Pinned(d)
        BY <1>5, <3>1, <3>5 DEF MetBy, Pinned
      <3>7. ~Expands(c)
        BY <3>1, <3>2, <3>5 DEF Expands
      <3> QED
        BY <3>1, <3>2, <3>3, <3>4, <3>5, <3>6, <3>7
    <2>2. CASE ~IsRemoteToRemote(d)
      <3>1. sip = Here \/ rip = Here
        BY <1>5, <2>2 DEF IsRemoteToRemote
      <3>2. c.on = EndAt(Here, NoUser, <<>>) /\ c.source = s /\ c.dest = r /\ c.args = f.flags
        BY <1>5, <1>9, <2>2 DEF BuildCommand
      <3>3. \A ip, user, path : EndOf(c, EndAt(ip, user, path)) = EndAt(ip, user, path)
        <4> SUFFICES ASSUME NEW ip, NEW user, NEW path
                     PROVE  EndOf(c, EndAt(ip, user, path)) = EndAt(ip, user, path)
          OBVIOUS
        <4>1. CASE ip # Here
          BY <4>1, EndFields DEF EndOf
        <4>2. CASE ip = Here
          <5>1. EndAt(ip, user, path) = EndAt(Here, NoUser, path)
            BY <4>2 DEF EndAt
          <5> QED
            BY <3>2, <5>1, EndsOf
        <4> QED
          BY <4>1, <4>2
      <3>4. EndOf(c, c.source) = s /\ EndOf(c, c.dest) = r
        BY <1>4, <3>2, <3>3
      <3>5. c.on.ip = Here
        BY <3>2, EndFields
      <3>6. MetBy(c) = Pinned(d)
        BY <1>5, <1>8, <3>1, <3>2, <3>5 DEF MetBy, Pinned
      <3>7. Expands(c) <=> sip # Here
        BY <1>8, <3>2, <3>5 DEF Expands
      <3> QED
        BY <1>8, <3>1, <3>2, <3>4, <3>6, <3>7
    <2> QED
      BY <2>1, <2>2
  <1> QED
    BY <1>2, <1>8, <1>9, <1>10, <1>a DEF CommandIsMeant, src, dst

---------------------------------------------------------------------------
(* The lists and their file. *)

\* The lists of a file are gone through one by one.
LEMMA ParsedSteps ==
    ASSUME NEW file, Len(file) \in Nat
    PROVE  \E w : /\ Parsed(file) = w[Len(file)] /\ w[0] = <<>>
                  /\ \A i \in 1..Len(file) :
                       w[i] = IF ListOk(DictToSchedule(file[i])) THEN Append(w[i - 1], DictToSchedule(file[i]))
                              ELSE w[i - 1]
  <1> DEFINE n == Len(file)
             Takes(f, j) == f = [i \in 0..j |->
                                   IF i = 0 THEN <<>>
                                   ELSE IF ListOk(DictToSchedule(file[i])) THEN Append(f[i - 1], DictToSchedule(file[i]))
                                   ELSE f[i - 1]]
             T == {j \in Nat : ~ \E f : Takes(f, j)}
             One(l, i) == IF ListOk(DictToSchedule(file[i])) THEN Append(l, DictToSchedule(file[i])) ELSE l
  <1>0. \A f, j : Takes(f, j) <=> f = [i \in 0..j |-> IF i = 0 THEN <<>> ELSE One(f[i - 1], i)]
    OBVIOUS
  <1> HIDE DEF Takes, One
  <1>1. T = {}
    <2> SUFFICES ASSUME T # {} PROVE FALSE
      OBVIOUS
    <2>1. PICK x \in T : \A y \in T : x <= y
      <3>1. T \in SUBSET Nat
        OBVIOUS
      <3> HIDE DEF T
      <3> QED BY <3>1, LeastOf
    <2>2. x \in Nat /\ ~ \E f : Takes(f, x)
      OBVIOUS
    <2>3. CASE x = 0
      <3> DEFINE f == [i \in 0..0 |-> <<>>]
      <3>1. f = [i \in 0..0 |-> IF i = 0 THEN <<>> ELSE One(f[i - 1], i)]
        OBVIOUS
      <3> HIDE DEF f
      <3>2. Takes(f, x)
        BY <1>0, <2>3, <3>1
      <3> QED BY <2>2, <3>2
    <2>4. CASE x # 0
      <3>1. x - 1 \in Nat /\ x - 1 \notin T
        <4>1. x - 1 \in Nat /\ ~(x <= x - 1)
          BY <2>2, <2>4
        <4> HIDE DEF T
        <4> QED BY <4>1, <2>1
      <3>2. PICK f : Takes(f, x - 1)
        BY <3>1
      <3>3. \A i \in 0..(x - 1) : f[i] = IF i = 0 THEN <<>> ELSE One(f[i - 1], i)
        BY <1>0, <3>2
      <3> DEFINE g == [i \in 0..x |-> IF i = x THEN One(f[x - 1], x) ELSE f[i]]
                 h == [i \in 0..x |-> IF i = 0 THEN <<>> ELSE One(g[i - 1], i)]
      <3>4. ASSUME NEW i \in 0..x PROVE g[i] = h[i]
        <4>1. CASE i = 0
          <5>1. i # x /\ i \in 0..(x - 1)
            BY <2>2, <2>4, <4>1
          <5> QED BY <3>3, <4>1, <5>1
        <4>2. CASE i # 0
          <5>1. i - 1 \in 0..x /\ i - 1 # x /\ i \in Nat
            BY <2>2, <4>2
          <5>2. g[i - 1] = f[i - 1]
            BY <5>1
          <5>3. CASE i = x
            BY <4>2, <5>2, <5>3
          <5>4. CASE i # x
            <6>1. i \in 0..(x - 1)
              BY <2>2, <5>1, <5>4
            <6>2. f[i] = One(f[i - 1], i)
              BY <3>3, <4>2, <6>1
            <6> QED BY <4>2, <5>2, <5>4, <6>2
          <5> QED BY <5>3, <5>4
        <4> QED BY <4>1, <4>2
      <3>5. g = h
        BY <3>4
      <3>6. Takes(g, x)
        BY <1>0, <3>5
      <3> HIDE DEF g
      <3> QED BY <2>2, <3>6
    <2> QED BY <2>3, <2>4
  <1>2. \E f : Takes(f, n)
    BY <1>1
  <1> DEFINE w == CHOOSE f : Takes(f, n)
  <1>3. Takes(w, n)
    BY <1>2
  <1>4. Parsed(file) = w[n]
    BY DEF Parsed, Takes
  <1> HIDE DEF w
  <1>5. \A i \in 0..n : w[i] = IF i = 0 THEN <<>> ELSE One(w[i - 1], i)
    BY <1>0, <1>3
  <1>6. w[0] = <<>>
    BY <1>5
  <1>7. ASSUME NEW i \in 1..n PROVE w[i] = One(w[i - 1], i)
    <2>1. i \in 0..n /\ i # 0
      OBVIOUS
    <2> QED
      BY <1>5, <2>1
  <1> QED
    BY <1>4, <1>6, <1>7 DEF One

IsTrigger(t) == t = TriggerWith(t.type, t.value, t.unit, t.days, t.time) /\ t.value \in Int
IsWhole(s) ==
    /\ s = ListOf(s.name, s.enabled, s.confirm, s.missed, s.onFailure, s.trigger, s.transfers)
    /\ IsTrigger(s.trigger) /\ IsList(s.transfers)
GoodLists(l) == IsList(l) /\ \A i \in DOMAIN l : IsWhole(l[i]) /\ ListOk(l[i])

LEMMA ListFields ==
    ASSUME NEW name, NEW enabled, NEW confirm, NEW missed, NEW onFailure, NEW t, NEW transfers, NEW s,
           s = ListOf(name, enabled, confirm, missed, onFailure, t, transfers)
    PROVE  /\ s.name = name /\ s.enabled = enabled /\ s.confirm = confirm /\ s.missed = missed
           /\ s.onFailure = onFailure /\ s.trigger = t /\ s.transfers = transfers
           /\ DOMAIN s = {"name", "enabled", "confirm", "missed", "onFailure", "trigger", "transfers"}
  BY DEF ListOf

LEMMA TriggerFields ==
    ASSUME NEW type, NEW value, NEW unit, NEW days, NEW time, NEW t, t = TriggerWith(type, value, unit, days, time)
    PROVE  /\ t.type = type /\ t.value = value /\ t.unit = unit /\ t.days = days /\ t.time = time
           /\ DOMAIN t = {"type", "value", "unit", "days", "time"}
           /\ value \in Int => IsTrigger(t)
  BY DEF TriggerWith, IsTrigger

LEMMA ListIsWhole ==
    ASSUME NEW name, NEW enabled, NEW confirm, NEW missed, NEW onFailure, NEW t, NEW transfers,
           IsTrigger(t), IsList(transfers)
    PROVE  IsWhole(ListOf(name, enabled, confirm, missed, onFailure, t, transfers))
  <1>1. PICK s : s = ListOf(name, enabled, confirm, missed, onFailure, t, transfers)
    OBVIOUS
  <1>2. /\ s.name = name /\ s.enabled = enabled /\ s.confirm = confirm /\ s.missed = missed
        /\ s.onFailure = onFailure /\ s.trigger = t /\ s.transfers = transfers
    BY <1>1, ListFields
  <1> QED
    BY <1>1, <1>2 DEF IsWhole

\* What a file says of a list and its trigger, as an older version may have written it.
IsWritten(r) ==
    /\ "transfers" \in DOMAIN r => IsList(r.transfers)
    /\ "trigger" \in DOMAIN r => HasNumbers(r.trigger)

LEMMA TriggerOfIsTrigger ==
    ASSUME NEW r, HasNumbers(r)
    PROVE  IsTrigger(TriggerOf(r))
  <1>1. Get(r, "value", OldHours(r)) \in Int
    <2>1. OldHours(r) \in Int
      <3>1. CASE "hours" \in DOMAIN r
        BY <3>1 DEF OldHours, Get, HasNumbers
      <3>2. CASE "hours" \notin DOMAIN r
        BY <3>2 DEF OldHours, Get
      <3> QED
        BY <3>1, <3>2
    <2>2. PICK k : k = OldHours(r)
      OBVIOUS
    <2>3. Get(r, "value", k) \in Int
      BY <2>1, <2>2 DEF Get, HasNumbers
    <2> QED
      BY <2>2, <2>3
  <1>2. PICK a, c, d, e : TriggerOf(r) = TriggerWith(a, Get(r, "value", OldHours(r)), c, d, e)
    BY Zenon DEF TriggerOf
  <1> QED
    BY <1>1, <1>2, TriggerFields

LEMMA DictIsWhole ==
    ASSUME NEW r, IsWritten(r)
    PROVE  IsWhole(DictToSchedule(r))
  <1>1. IsList(Get(r, "transfers", <<>>))
    <2>1. IsList(<<>>)
      BY DEF IsList
    <2> QED
      BY <2>1 DEF Get, IsWritten
  <1>2. HasNumbers(Get(r, "trigger", NoFields))
    <2>1. HasNumbers(NoFields)
      BY DEF HasNumbers, NoFields
    <2> QED
      BY <2>1 DEF Get, IsWritten
  <1>3. PICK a, b, c, d, e : DictToSchedule(r) = ListOf(a, b, c, d, e, TriggerOf(Get(r, "trigger", NoFields)), Get(r, "transfers", <<>>))
    BY Zenon DEF DictToSchedule
  <1>4. PICK f, g : f = Get(r, "trigger", NoFields) /\ g = Get(r, "transfers", <<>>)
    OBVIOUS
  <1>5. IsTrigger(TriggerOf(f)) /\ IsList(g)
    BY <1>1, <1>2, <1>4, TriggerOfIsTrigger
  <1> QED
    BY <1>3, <1>4, <1>5, ListIsWhole

\* A list reads back from its own dictionary.
LEMMA WholeIsRead ==
    ASSUME NEW s, IsWhole(s)
    PROVE  DictToSchedule(s) = s
  <1>1. DOMAIN s = {"name", "enabled", "confirm", "missed", "onFailure", "trigger", "transfers"}
    BY ListFields DEF IsWhole
  <1>2. \A d : /\ Get(s, "name", d) = s.name /\ Get(s, "enabled", d) = s.enabled /\ Get(s, "confirm", d) = s.confirm
               /\ Get(s, "missed", d) = s.missed /\ Get(s, "onFailure", d) = s.onFailure
               /\ Get(s, "trigger", d) = s.trigger /\ Get(s, "transfers", d) = s.transfers
    BY <1>1 DEF Get
  <1>3. PICK t : t = s.trigger
    OBVIOUS
  <1>4. t = TriggerWith(t.type, t.value, t.unit, t.days, t.time)
    BY <1>3 DEF IsWhole, IsTrigger
  <1>5. DOMAIN t = {"type", "value", "unit", "days", "time"}
    BY <1>4, TriggerFields
  <1>6. \A d : /\ Get(t, "type", d) = t.type /\ Get(t, "value", d) = t.value /\ Get(t, "unit", d) = t.unit
               /\ Get(t, "days", d) = t.days /\ Get(t, "time", d) = t.time
    BY <1>5 DEF Get
  <1>7. TriggerOf(t) = t
    BY <1>4, <1>6, Zenon DEF TriggerOf
  <1>8. DictToSchedule(s) = ListOf(s.name, s.enabled, s.confirm, s.missed, s.onFailure, TriggerOf(s.trigger), s.transfers)
    BY <1>2, Zenon DEF DictToSchedule
  <1> QED
    BY <1>3, <1>7, <1>8 DEF IsWhole

LEMMA AppendedList ==
    ASSUME NEW l, GoodLists(l), NEW s, IsWhole(s), ListOk(s)
    PROVE  GoodLists(Append(l, s))
  <1>1. IsList(l) /\ \A i \in DOMAIN l : IsWhole(l[i]) /\ ListOk(l[i])
    BY DEF GoodLists
  <1>2. Len(l) \in Nat /\ DOMAIN l = 1..Len(l) /\ l = [i \in 1..Len(l) |-> l[i]]
    BY <1>1, SeqsAreLists
  <1> DEFINE n == Len(l) + 1
             r == Append(l, s)
  <1>3. IsList(r)
    BY <1>1, AppendedRows
  <1>4. DOMAIN r = 1..n /\ \A i \in 1..n : r[i] = IF i = n THEN s ELSE l[i]
    <2>1. l \in Seq({l[i] : i \in DOMAIN l})
      BY <1>1 DEF IsList
    <2> QED
      BY <1>2, <2>1
  <1> HIDE DEF r
  <1>5. ASSUME NEW i \in DOMAIN r PROVE IsWhole(r[i]) /\ ListOk(r[i])
    <2>1. i = n \/ i \in 1..Len(l)
      BY <1>2, <1>4
    <2> QED
      BY <1>1, <1>2, <1>4, <2>1
  <1>6. GoodLists(r)
    BY <1>3, <1>5 DEF GoodLists
  <1> QED
    BY <1>6 DEF r

LEMMA ParsedIsGood ==
    ASSUME NEW file, IsList(file), \A i \in DOMAIN file : IsWritten(file[i])
    PROVE  GoodLists(Parsed(file))
  <1> DEFINE n == Len(file)
  <1>1. n \in Nat /\ DOMAIN file = 1..n
    BY SeqsAreLists
  <1>2. PICK w : /\ Parsed(file) = w[n] /\ w[0] = <<>>
                 /\ \A i \in 1..n : w[i] = IF ListOk(DictToSchedule(file[i])) THEN Append(w[i - 1], DictToSchedule(file[i]))
                                           ELSE w[i - 1]
    BY <1>1, ParsedSteps
  <1>3. GoodLists(<<>>)
    BY DEF GoodLists, IsList
  <1> DEFINE T == {j \in 0..n : ~GoodLists(w[j])}
  <1>4. T = {}
    <2> SUFFICES ASSUME T # {} PROVE FALSE
      OBVIOUS
    <2>1. PICK x \in T : \A y \in T : x <= y
      <3>1. T \in SUBSET Nat
        BY <1>1
      <3> HIDE DEF T
      <3> QED BY <3>1, LeastOf
    <2>2. x \in 1..n /\ x - 1 \in 0..n
      BY <1>1, <1>2, <1>3
    <2>3. GoodLists(w[x - 1])
      <3>1. x - 1 \notin T
        <4>1. ~(x <= x - 1)
          BY <2>2
        <4> HIDE DEF T
        <4> QED BY <2>1, <4>1
      <3> QED BY <2>2, <3>1
    <2>4. IsWhole(DictToSchedule(file[x]))
      BY <1>1, <2>2, DictIsWhole
    <2>5. w[x] = IF ListOk(DictToSchedule(file[x])) THEN Append(w[x - 1], DictToSchedule(file[x])) ELSE w[x - 1]
      BY <1>2, <2>2
    <2>6. GoodLists(w[x])
      <3>1. CASE ListOk(DictToSchedule(file[x]))
        <4>1. w[x] = Append(w[x - 1], DictToSchedule(file[x]))
          BY <2>5, <3>1
        <4> QED BY <2>3, <2>4, <3>1, <4>1, AppendedList
      <3>2. CASE ~ListOk(DictToSchedule(file[x]))
        <4>1. w[x] = w[x - 1]
          BY <2>5, <3>2
        <4> QED BY <2>3, <4>1
      <3> QED BY <3>1, <3>2
    <2> QED BY <2>6
  <1>5. n \in 0..n
    BY <1>1
  <1> QED
    BY <1>2, <1>4, <1>5

\* Good lists are read as they were written.
LEMMA GoodAreRead ==
    ASSUME NEW file, GoodLists(file)
    PROVE  Parsed(file) = file
  <1> DEFINE n == Len(file)
  <1>1. IsList(file) /\ \A i \in DOMAIN file : IsWhole(file[i]) /\ ListOk(file[i])
    BY DEF GoodLists
  <1>2. n \in Nat /\ DOMAIN file = 1..n /\ file = [i \in 1..n |-> file[i]]
    BY <1>1, SeqsAreLists
  <1>3. \A i \in 1..n : DictToSchedule(file[i]) = file[i] /\ ListOk(file[i])
    BY <1>1, <1>2, WholeIsRead
  <1>4. PICK w : /\ Parsed(file) = w[n] /\ w[0] = <<>>
                 /\ \A i \in 1..n : w[i] = IF ListOk(DictToSchedule(file[i])) THEN Append(w[i - 1], DictToSchedule(file[i]))
                                           ELSE w[i - 1]
    BY <1>2, ParsedSteps
  <1>5. \A i \in 1..n : w[i] = Append(w[i - 1], file[i])
    BY <1>3, <1>4
  <1> DEFINE S == {file[i] : i \in 1..n}
             First(j) == [i \in 1..j |-> file[i]]
             T == {j \in 0..n : w[j] # First(j)}
  <1>6. T = {}
    <2> SUFFICES ASSUME T # {} PROVE FALSE
      OBVIOUS
    <2>1. PICK x \in T : \A y \in T : x <= y
      <3>1. T \in SUBSET Nat
        BY <1>2
      <3> HIDE DEF T
      <3> QED BY <3>1, LeastOf
    <2>2. First(0) = <<>>
      OBVIOUS
    <2>3. x \in 1..n /\ x - 1 \in 0..n /\ x \in Nat
      <3>1. x # 0
        BY <1>4, <2>2
      <3> QED BY <1>2, <3>1
    <2>4. w[x - 1] = First(x - 1)
      <3>1. x - 1 \notin T
        <4>1. ~(x <= x - 1)
          BY <2>3
        <4> HIDE DEF T
        <4> QED BY <2>1, <4>1
      <3> QED BY <2>3, <3>1
    <2>5. Append(First(x - 1), file[x]) = First(x)
      <3>1. First(x - 1) \in Seq(S) /\ Len(First(x - 1)) = x - 1 /\ file[x] \in S
        BY <1>2, <2>3
      <3> HIDE DEF S
      <3> DEFINE r == Append(First(x - 1), file[x])
      <3>2. r \in Seq(S) /\ Len(r) = x
        BY <2>3, <3>1
      <3>3. \A i \in 1..x : r[i] = file[i]
        BY <2>3, <3>1
      <3> HIDE DEF r
      <3>4. r = [i \in 1..x |-> file[i]]
        BY <2>3, <3>2, <3>3
      <3> QED BY <3>4 DEF r
    <2>6. w[x] = Append(w[x - 1], file[x])
      BY <1>5, <2>3
    <2>7. w[x] = First(x)
      BY <2>4, <2>5, <2>6
    <2> QED BY <2>7
  <1>7. w[n] = First(n)
    BY <1>2, <1>6
  <1> QED
    BY <1>2, <1>4, <1>7

---------------------------------------------------------------------------
\* What the dialog makes of a list, and what it shows of it.

LEMMA WithIsWhole ==
    ASSUME NEW s, NEW name, NEW t, NEW transfers, IsTrigger(t), IsList(transfers)
    PROVE  /\ IsWhole(With(s, name, t, transfers))
           /\ With(s, name, t, transfers).name = name /\ With(s, name, t, transfers).enabled = s.enabled
           /\ With(s, name, t, transfers).confirm = s.confirm /\ With(s, name, t, transfers).missed = s.missed
           /\ With(s, name, t, transfers).onFailure = s.onFailure
           /\ With(s, name, t, transfers).trigger = t /\ With(s, name, t, transfers).transfers = transfers
  <1>1. PICK w : w = With(s, name, t, transfers)
    OBVIOUS
  <1>2. w = ListOf(name, s.enabled, s.confirm, s.missed, s.onFailure, t, transfers)
    BY <1>1 DEF With
  <1>3. /\ w.name = name /\ w.enabled = s.enabled /\ w.confirm = s.confirm /\ w.missed = s.missed
        /\ w.onFailure = s.onFailure /\ w.trigger = t /\ w.transfers = transfers
    BY <1>2, ListFields
  <1>4. IsWhole(w)
    BY <1>2, ListIsWhole
  <1> QED
    BY <1>1, <1>3, <1>4

\* The dialog shows what counts of a trigger, but for an interval too long for it.
LEMMA ShownIsKept ==
    ASSUME NEW t, IsTrigger(t), TriggerOk(t)
    PROVE  /\ IsTrigger(ShownTrigger(t)) /\ ShownTrigger(t).type = t.type
           /\ t.type = "interval" => /\ ShownTrigger(t).unit = t.unit
                                     /\ ShownTrigger(t).value = IF t.value > 9999 THEN 9999 ELSE t.value
           /\ t.type = "scheduled" => ShownTrigger(t).days = t.days /\ ShownTrigger(t).time = t.time
  <1>1. PICK s : s = ShownTrigger(t)
    OBVIOUS
  <1>2. CASE t.type = "interval"
    <2>1. PICK i, d, e : i = "interval" /\ d = {} /\ e = 2
      OBVIOUS
    <2>2. PICK v : v = IF t.value > 9999 THEN 9999 ELSE t.value
      OBVIOUS
    <2>3. s = TriggerWith(i, v, t.unit, d, e)
      BY <1>1, <1>2, <2>1, <2>2 DEF ShownTrigger
    <2>4. v \in Int
      BY <2>2 DEF IsTrigger
    <2>5. s.type = i /\ s.unit = t.unit /\ s.value = v /\ IsTrigger(s)
      BY <2>3, <2>4, TriggerFields
    <2> QED
      BY <1>1, <1>2, <2>1, <2>2, <2>5
  <1>3. CASE t.type = "scheduled"
    <2>1. PICK i, v, u : i = "scheduled" /\ v = 24 /\ u = "hours"
      OBVIOUS
    <2>2. s = TriggerWith(i, v, u, t.days, t.time)
      BY <1>1, <1>3, <2>1 DEF ShownTrigger
    <2> v \in Int
      BY <2>1
    <2>3. s.type = i /\ s.days = t.days /\ s.time = t.time /\ IsTrigger(s)
      BY <2>2, TriggerFields
    <2> QED
      BY <1>1, <1>3, <2>1, <2>3
  <1>4. CASE t.type = "manual"
    <2>1. PICK i, v, u, d, e : i = "manual" /\ v = 24 /\ u = "hours" /\ d = {} /\ e = 2
      OBVIOUS
    <2>2. s = TriggerWith(i, v, u, d, e)
      BY <1>1, <1>4, <2>1 DEF ShownTrigger, Default
    <2> v \in Int
      BY <2>1
    <2>3. s.type = i /\ IsTrigger(s)
      BY <2>2, TriggerFields
    <2> QED
      BY <1>1, <1>4, <2>1, <2>3
  <1> QED
    BY <1>2, <1>3, <1>4 DEF TriggerOk

LEMMA PopulatedIsWhole ==
    ASSUME NEW s, IsWhole(s), ListOk(s)
    PROVE  /\ IsWhole(Populated(s)) /\ IsTrigger(Populated(s).trigger)
           /\ Populated(s).trigger = ShownTrigger(s.trigger) /\ Populated(s).transfers = s.transfers
           /\ Populated(s).enabled = s.enabled /\ Populated(s).confirm = s.confirm
           /\ Populated(s).missed = s.missed /\ Populated(s).onFailure = s.onFailure
           /\ s.name # "Untitled" => Populated(s).name = s.name
  <1>1. PICK name : name = IF s.name = "Untitled" THEN "" ELSE s.name
    OBVIOUS
  <1>2. IsList(s.transfers) /\ IsTrigger(s.trigger) /\ TriggerOk(s.trigger)
    BY DEF IsWhole, ListOk
  <1>3. IsTrigger(ShownTrigger(s.trigger))
    BY <1>2, ShownIsKept
  <1>4. Populated(s) = With(s, name, ShownTrigger(s.trigger), s.transfers)
    BY <1>1, Zenon DEF Populated
  <1>5. s.name # "Untitled" => name = s.name
    BY <1>1
  <1> QED
    BY <1>2, <1>3, <1>4, <1>5, WithIsWhole

LEMMA ShownTimes ==
    ASSUME NEW t, IsTrigger(t), TriggerOk(t), t.value <= 9999
    PROVE  TriggerOk(ShownTrigger(t)) /\ Timing(ShownTrigger(t)) = Timing(t)
  <1>1. PICK u : u = ShownTrigger(t)
    OBVIOUS
  <1>2. /\ u.type = t.type /\ t.type \in {"manual", "interval", "scheduled"}
        /\ t.type = "interval" => u.unit = t.unit /\ u.value = IF t.value > 9999 THEN 9999 ELSE t.value
        /\ t.type = "scheduled" => u.days = t.days /\ u.time = t.time
    BY <1>1, ShownIsKept DEF TriggerOk
  <1>3. t.type = "interval" => u.value = t.value
    <2>1. t.value \in Int
      BY DEF IsTrigger
    <2> QED
      BY <1>2, <2>1
  <1>4. TriggerOk(u)
    BY <1>2, <1>3 DEF TriggerOk
  <1>5. Timing(u) = Timing(t)
    BY <1>2, <1>3 DEF Timing
  <1> QED
    BY <1>1, <1>4, <1>5

LEMMA LikeIsOk ==
    ASSUME NEW s, ListOk(s), NEW p, p.name = s.name, p.missed = s.missed, p.onFailure = s.onFailure,
           p.transfers = s.transfers, TriggerOk(p.trigger)
    PROVE  ListOk(p)
  BY DEF ListOk

LEMMA LikeCounts ==
    ASSUME NEW s, NEW p, p.name = s.name, p.enabled = s.enabled, p.confirm = s.confirm, p.missed = s.missed,
           p.onFailure = s.onFailure, p.transfers = s.transfers, Timing(p.trigger) = Timing(s.trigger)
    PROVE  Counts(p) = Counts(s)
  BY DEF Counts

LEMMA PartsOfList ==
    ASSUME NEW s, IsWhole(s), ListOk(s)
    PROVE  TriggerOk(s.trigger) /\ IsTrigger(s.trigger)
  BY DEF ListOk, IsWhole

LEMMA ShownSurvives ==
    ASSUME NEW s, IsWhole(s), ListOk(s), s.name # "Untitled", s.trigger.value <= 9999
    PROVE  Accepts(Populated(s)) /\ Counts(Populated(s)) = Counts(s)
  <1>1. TriggerOk(ShownTrigger(s.trigger)) /\ Timing(ShownTrigger(s.trigger)) = Timing(s.trigger)
    <2>1. TriggerOk(s.trigger) /\ IsTrigger(s.trigger)
      BY PartsOfList
    <2> QED
      BY <2>1, ShownTimes
  <1>2. PICK p : p = Populated(s)
    OBVIOUS
  <1>3. PICK u : u = "Untitled"
    OBVIOUS
  <1>4. /\ p.trigger = ShownTrigger(s.trigger) /\ p.transfers = s.transfers /\ p.name = s.name
        /\ p.enabled = s.enabled /\ p.confirm = s.confirm /\ p.missed = s.missed /\ p.onFailure = s.onFailure
    BY <1>2, PopulatedIsWhole
  <1>5. TriggerOk(p.trigger) /\ Timing(p.trigger) = Timing(s.trigger)
    BY <1>1, <1>4
  <1>6. ListOk(p)
    BY <1>4, <1>5, LikeIsOk
  <1>7. Counts(p) = Counts(s)
    BY <1>4, <1>5, LikeCounts
  <1> QED
    BY <1>2, <1>6, <1>7 DEF Accepts

---------------------------------------------------------------------------
(* The inductive invariant. *)

QueuedIsOfForm == queued = NotQueued \/ \E f : IsForm(f) /\ queued = [form |-> f, data |-> DataOf(f)]
PlanInv ==
    /\ TableIsKnown /\ QueuedIsOfForm
    /\ GoodLists(lists) /\ Parsed(listFile) = lists

LEMMA PlanInitHolds == PlanInit => PlanInv
  <1> SUFFICES ASSUME PlanInit PROVE PlanInv
    OBVIOUS
  <1>1. TableIsKnown /\ QueuedIsOfForm
    BY DEF PlanInit, TableIsKnown, QueuedIsOfForm
  <1>2. IsList(listFile) /\ \A i \in DOMAIN listFile : IsWritten(listFile[i])
    <2>1. CASE listFile = <<>>
      BY <2>1 DEF IsList
    <2>2. CASE listFile \in OldFiles
      <3>2. /\ IsList(listFile)
            /\ \A i \in DOMAIN listFile : /\ "transfers" \in DOMAIN listFile[i] => IsList(listFile[i].transfers)
                                          /\ "trigger" \in DOMAIN listFile[i] => HasNumbers(listFile[i].trigger)
        BY <2>2, PlanAssumption, Zenon
      <3>3. ASSUME NEW i \in DOMAIN listFile PROVE IsWritten(listFile[i])
        <4>1. PICK r : r = listFile[i]
          OBVIOUS
        <4>2. "transfers" \in DOMAIN r => IsList(r.transfers)
          BY <3>2, <4>1
        <4>3. "trigger" \in DOMAIN r => HasNumbers(r.trigger)
          BY <3>2, <4>1
        <4>4. IsWritten(r)
          BY <4>2, <4>3 DEF IsWritten
        <4> QED
          BY <4>1, <4>4
      <3> QED
        BY <3>2, <3>3
    <2> QED
      BY <2>1, <2>2 DEF PlanInit
  <1>3. Parsed(listFile) = lists
    BY DEF PlanInit
  <1>4. GoodLists(lists)
    BY <1>2, <1>3, ParsedIsGood
  <1> QED
    BY <1>1, <1>3, <1>4 DEF PlanInv

\* A transfer that is queued stays the one its form asked for.
LEMMA FormsStay ==
    ASSUME table' = table
    PROVE  \A f : (IsForm(f)' <=> IsForm(f)) /\ DataOf(f)' = DataOf(f)
  <1>1. Offered' = Offered
    BY DEF Offered
  <1>2. \A f : IsForm(f)' <=> IsForm(f)
    BY <1>1 DEF IsForm
  <1>3. /\ \A d : IpOf(d)' = IpOf(d)
        /\ \A ip : UserOf(ip)' = UserOf(ip)
    BY <1>1 DEF IpOf, UserOf
  <1>4. \A f : DataOf(f)' = DataOf(f)
    BY <1>3, Zenon DEF DataOf
  <1> QED
    BY <1>2, <1>4

LEMMA QueuedStays ==
    ASSUME QueuedIsOfForm, table' = table, queued' = queued
    PROVE  QueuedIsOfForm'
  <1>1. CASE queued = NotQueued
    BY <1>1 DEF QueuedIsOfForm, NotQueued
  <1>2. CASE queued # NotQueued
    <2>1. PICK f : IsForm(f) /\ queued = [form |-> f, data |-> DataOf(f)]
      BY <1>2 DEF QueuedIsOfForm
    <2>2. IsForm(f)' /\ DataOf(f)' = DataOf(f)
      BY <2>1, FormsStay
    <2>3. queued' = [form |-> f, data |-> DataOf(f)']
      BY <2>1, <2>2
    <2> QED
      BY <2>2, <2>3 DEF QueuedIsOfForm
  <1> QED
    BY <1>1, <1>2

\* A change that is agreed to is saved, and would be read again.
LEMMA AgreedKeeps ==
    ASSUME PlanInv, NEW new, GoodLists(new), Agreed(new)
    PROVE  PlanInv'
  <1>1. lists' = new /\ listFile' = new /\ table' = table /\ queued' = queued
    BY DEF Agreed
  <1>2. Parsed(new) = new
    BY GoodAreRead
  <1>3. TableIsKnown' /\ QueuedIsOfForm'
    BY <1>1, QueuedStays DEF PlanInv, TableIsKnown
  <1> QED
    BY <1>1, <1>2, <1>3 DEF PlanInv

LEMMA ChangedList ==
    ASSUME NEW l, GoodLists(l), NEW i \in DOMAIN l, NEW s, IsWhole(s), ListOk(s)
    PROVE  GoodLists([l EXCEPT ![i] = s])
  <1> DEFINE n == Len(l)
             r == [l EXCEPT ![i] = s]
  <1>1. IsList(l) /\ \A j \in DOMAIN l : IsWhole(l[j]) /\ ListOk(l[j])
    BY DEF GoodLists
  <1>2. n \in Nat /\ DOMAIN l = 1..n /\ l = [j \in 1..n |-> l[j]]
    BY <1>1, SeqsAreLists
  <1>3. r = [j \in 1..n |-> IF j = i THEN s ELSE l[j]]
    BY <1>2
  <1> HIDE DEF r
  <1>4. r = [j \in 1..n |-> r[j]] /\ \A j \in 1..n : r[j] = IF j = i THEN s ELSE l[j]
    BY <1>3
  <1>5. IsList(r) /\ DOMAIN r = 1..n
    BY <1>2, <1>4, ListsAreSeqs
  <1>6. \A j \in DOMAIN r : IsWhole(r[j]) /\ ListOk(r[j])
    BY <1>1, <1>2, <1>4, <1>5
  <1>7. GoodLists(r)
    BY <1>5, <1>6 DEF GoodLists
  <1> QED
    BY <1>7 DEF r

LEMMA NewListKeeps ==
    ASSUME PlanInv, NEW name, NEW t \in ListTriggers, NewList(name, t)
    PROVE  PlanInv'
  <1> DEFINE s == With(Populated(NewSchedule(queued.data)), name, t, <<queued.data>>)
  <1>1. Accepts(s) /\ Agreed(Append(lists, s))
    BY DEF NewList
  <1>2. IsTrigger(t)
    BY PlanAssumption DEF IsTrigger, TriggerWith
  <1>3. IsList(<<queued.data>>)
    BY DEF IsList
  <1>4. IsWhole(s)
    BY <1>2, <1>3, WithIsWhole
  <1> HIDE DEF s
  <1>5. GoodLists(Append(lists, s))
    BY <1>1, <1>4, AppendedList DEF Accepts, PlanInv
  <1> QED
    BY <1>1, <1>5, AgreedKeeps

LEMMA AddToListKeeps ==
    ASSUME PlanInv, NEW i \in DOMAIN lists, AddToList(i)
    PROVE  PlanInv'
  <1>1. PICK l, d : l = lists[i] /\ d = queued.data
    OBVIOUS
  <1>2. IsWhole(l) /\ ListOk(l) /\ GoodLists(lists)
    BY <1>1 DEF PlanInv, GoodLists
  <1>3. TransferOk(d) /\ Agreed([lists EXCEPT ![i] = With(l, l.name, l.trigger, Append(l.transfers, d))])
    BY <1>1 DEF AddToList
  <1> DEFINE s == With(l, l.name, l.trigger, Append(l.transfers, d))
  <1>4. IsList(l.transfers) /\ IsTrigger(l.trigger)
    BY <1>2 DEF IsWhole
  <1>5. IsList(Append(l.transfers, d))
    BY <1>4, AppendedRows
  <1>6. /\ IsWhole(s) /\ s.name = l.name /\ s.missed = l.missed /\ s.onFailure = l.onFailure
        /\ s.trigger = l.trigger /\ s.transfers = Append(l.transfers, d)
    <2>1. PICK name, t, all : name = l.name /\ t = l.trigger /\ all = Append(l.transfers, d)
      OBVIOUS
    <2>2. IsTrigger(t) /\ IsList(all) /\ s = With(l, name, t, all)
      BY <1>4, <1>5, <2>1
    <2> HIDE DEF s
    <2>3. /\ IsWhole(s) /\ s.name = name /\ s.missed = l.missed /\ s.onFailure = l.onFailure
          /\ s.trigger = t /\ s.transfers = all
      BY <2>2, WithIsWhole
    <2> QED
      BY <2>1, <2>3
  <1> HIDE DEF s
  <1>7. \A k \in DOMAIN s.transfers : TransferOk(s.transfers[k])
    <2>1. PICK o : o = l.transfers
      OBVIOUS
    <2>2. Len(o) \in Nat /\ DOMAIN o = 1..Len(o) /\ o \in Seq({o[k] : k \in DOMAIN o})
      BY <1>4, <2>1, SeqsAreLists DEF IsList
    <2>3. \A k \in 1..Len(o) : TransferOk(o[k])
      BY <1>2, <2>1, <2>2 DEF ListOk
    <2>4. DOMAIN Append(o, d) = 1..(Len(o) + 1) /\ \A k \in 1..(Len(o) + 1) : Append(o, d)[k] = IF k = Len(o) + 1 THEN d ELSE o[k]
      BY <2>2
    <2>5. \A k \in DOMAIN Append(o, d) : TransferOk(Append(o, d)[k])
      <3> SUFFICES ASSUME NEW k \in DOMAIN Append(o, d) PROVE TransferOk(Append(o, d)[k])
        OBVIOUS
      <3>1. k = Len(o) + 1 \/ k \in 1..Len(o)
        BY <2>2, <2>4
      <3> QED
        BY <1>3, <2>2, <2>3, <2>4, <3>1
    <2> QED
      BY <1>6, <2>1, <2>5
  <1>8. ListOk(s)
    BY <1>2, <1>6, <1>7 DEF ListOk
  <1>9. GoodLists([lists EXCEPT ![i] = s])
    BY <1>2, <1>6, <1>8, ChangedList
  <1> QED
    BY <1>3, <1>9, AgreedKeeps DEF s

LEMMA EditListKeeps ==
    ASSUME PlanInv, NEW i \in DOMAIN lists, EditList(i)
    PROVE  PlanInv'
  <1>1. IsWhole(lists[i]) /\ ListOk(lists[i]) /\ GoodLists(lists)
    BY DEF PlanInv, GoodLists
  <1>2. PICK p : p = Populated(lists[i])
    OBVIOUS
  <1>3. IsWhole(p) /\ IsTrigger(p.trigger) /\ IsList(p.transfers)
    BY <1>1, <1>2, PopulatedIsWhole DEF IsWhole
  <1>4. PICK t \in ListTriggers \cup {p.trigger}, kept \in {p.transfers} \cup {RemoveAt(p.transfers, k) : k \in DOMAIN p.transfers} :
          Accepts(With(p, p.name, t, kept)) /\ Agreed([lists EXCEPT ![i] = With(p, p.name, t, kept)])
    BY <1>2 DEF EditList
  <1>5. IsTrigger(t)
    BY <1>3, PlanAssumption DEF IsTrigger, TriggerWith
  <1>6. IsList(kept)
    BY <1>3, RemovedRows
  <1>7. IsWhole(With(p, p.name, t, kept)) /\ ListOk(With(p, p.name, t, kept))
    BY <1>4, <1>5, <1>6, WithIsWhole DEF Accepts
  <1>8. GoodLists([lists EXCEPT ![i] = With(p, p.name, t, kept)])
    BY <1>1, <1>7, ChangedList
  <1> QED
    BY <1>4, <1>8, AgreedKeeps

LEMMA PlanNextKeeps == PlanInv /\ [PlanNext]_planVars => PlanInv'
  <1> SUFFICES ASSUME PlanInv, [PlanNext]_planVars PROVE PlanInv'
    OBVIOUS
  <1>1. ASSUME NEW f \in PlanForms, AddTransfer(f) PROVE PlanInv'
    <2>1. /\ IsForm(f) /\ queued' = [form |-> f, data |-> DataOf(f)]
          /\ table' = table /\ lists' = lists /\ listFile' = listFile
      BY <1>1 DEF AddTransfer
    <2>2. QueuedIsOfForm'
      <3>1. IsForm(f)' /\ DataOf(f)' = DataOf(f)
        BY <2>1, FormsStay
      <3>2. queued' = [form |-> f, data |-> DataOf(f)']
        BY <2>1, <3>1
      <3> QED
        BY <3>1, <3>2 DEF QueuedIsOfForm
    <2> QED
      BY <2>1, <2>2 DEF PlanInv, TableIsKnown
  <1>2. CASE LoadLists
    <2>1. lists' = lists /\ listFile' = listFile /\ table' = table /\ queued' = queued
      BY <1>2 DEF LoadLists, PlanInv
    <2> QED
      BY <2>1, QueuedStays DEF PlanInv, TableIsKnown
  <1>3. CASE UNCHANGED planVars
    BY <1>3, QueuedStays DEF planVars, PlanInv, TableIsKnown
  <1> QED
    BY <1>1, <1>2, <1>3, NewListKeeps, AddToListKeeps, EditListKeeps DEF PlanNext

LEMMA PlanInvImplies == PlanInv => PlansAreKept
  <1> SUFFICES ASSUME PlanInv PROVE PlansAreKept
    OBVIOUS
  <1>1. CommandIsMeant
    <2>1. CASE queued = NotQueued
      BY <2>1 DEF CommandIsMeant
    <2>2. CASE queued # NotQueued
      BY <2>2, CommandHolds DEF PlanInv, QueuedIsOfForm
    <2> QED
      BY <2>1, <2>2
  <1>2. ListsSurvive
    <2>1. \A i \in DOMAIN lists : IsWhole(lists[i]) /\ ListOk(lists[i])
      BY DEF PlanInv, GoodLists
    <2>2. Parsed(listFile) = lists
      BY DEF PlanInv
    <2> QED
      BY <2>1, <2>2, ShownSurvives DEF ListsSurvive
  <1> QED
    BY <1>1, <1>2 DEF PlansAreKept

\* Whatever hosts the scanner's table shows, whatever the dialog's fields hold,
\* whatever lists earlier versions wrote, and in whatever order transfers are
\* queued, lists are made, added to, edited and read again at a start: rsync is
\* given the ends and the options chosen and the account, or that of a later
\* device at the address, with one end on another machine at most, whose key is
\* pinned, and a path is a pattern only from another machine to this one
\* (core/rsync.py, build_command); and the file holds the lists that are held, in a form that the next start reads as
\* they are (core/schedules.py, _parse; schedule_dialogs.py).
THEOREM PlansStayKept == PlanSpec => []PlansAreKept
  <1>1. PlanInit => PlanInv
    BY PlanInitHolds
  <1> QED
    BY <1>1, PlanNextKeeps, PlanInvImplies, PTL DEF PlanSpec
=============================================================================
