------------------------- MODULE KnownHosts_proofs -------------------------
(***************************************************************************)
(* Proofs about KnownHosts, for any threads, hosts and keys: its type, that *)
(* the signature follows every write, that a write loses no other host's   *)
(* pin, and that every pin has a reason.                                   *)
(***************************************************************************)
EXTENDS KnownHosts, TLAPS

\* The lock is held by the thread that rewrites the file, and by nobody else.
LockIsHeld == \A x \in Actors : th[x].at \in Locked <=> lock = x

\* Only the UI thread shows dialogs and trusts the file as it is.
DialogsAreUIs == \A x \in Actors : th[x].at \in Asking \cup Resigning => x = UI

\* Unless it was mixed, trusting the file and rewriting it exclude each other.
TrustIsAlone == ~mixed /\ th[UI].at \in Resigning => lock = None

\* Who rewrites the file has seen what is in it.
WriterHasSeen ==
    ~mixed => \A x \in Actors : th[x].at \in Locked \cup Resigning => file.data = th[x].seen

Order == LockIsHeld /\ DialogsAreUIs /\ TrustIsAlone /\ WriterHasSeen /\ SignatureFollows

IInv == TypeOK /\ Order

\* A file's contents, read as pins, are contents.
LEMMA ContentType == \A d \in Contents \cup {None} : Content(d) \in Contents
  BY DEF Content, Contents, Empty

\* What a thread writes has the type of the file's contents.
LEMMA NewContentType ==
  ASSUME TypeOK, NEW x \in Actors
  PROVE  NewContent(x) \in Contents
  <1>1. th[x] \in Thread
    BY DEF TypeOK
  <1>2. Content(th[x].seen) \in [Hosts -> Keys \cup {None}]
    BY <1>1, ContentType DEF Thread, Contents
  <1>3. th[x].key \in Keys \cup {None}
    BY <1>1 DEF Thread
  <1> QED
    BY <1>2, <1>3 DEF NewContent, Contents

\* The record of a thread between two connections.
LEMMA IdleType == Idle \in Thread /\ Complete(Idle)
  BY DEF Idle, Thread, Complete, Reading, Locked, Asking, Resigning

\* Setting one thread's record keeps the type of all of them.
LEMMA GotoType ==
  ASSUME TypeOK, NEW x \in Actors, NEW r \in Thread, Complete(r), Goto(x, r)
  PROVE  /\ th' \in [Actors -> Thread]
         /\ \A y \in Actors : Complete(th'[y])
         /\ th'[x] = r
         /\ \A y \in Actors \ {x} : th'[y] = th[y]
  BY DEF TypeOK, Goto

\* The alarm, and a worker's failed probe, are records of a thread.
LEMMA TamperedType ==
  ASSUME NEW x \in Actors
  PROVE  LET r == [Idle EXCEPT !.at = IF x = UI THEN "alarm" ELSE "idle"]
         IN  r \in Thread /\ Complete(r)
  BY DEF Idle, Thread, Complete, Reading, Locked, Asking, Resigning

\* A file whose contents or signature were replaced is a file.
LEMMA FileType ==
  ASSUME TypeOK, NEW c \in Contents \cup {None}
  PROVE  /\ WithData(file, c) \in [data : Contents \cup {None}, sig : Contents \cup {None}]
         /\ WithSig(file, c) \in [data : Contents \cup {None}, sig : Contents \cup {None}]
         /\ WithData(file, c).data = c /\ WithData(file, c).sig = file.sig
         /\ WithSig(file, c).data = file.data /\ WithSig(file, c).sig = c
  BY DEF TypeOK, WithData, WithSig

\* The parts of a thread's record.
LEMMA ThreadParts ==
  ASSUME TypeOK, NEW x \in Actors
  PROVE  /\ th[x] = [at |-> th[x].at, host |-> th[x].host, key |-> th[x].key,
                     op |-> th[x].op, seen |-> th[x].seen]
         /\ th[x].host \in Hosts \cup {None} /\ th[x].key \in Keys \cup {None}
         /\ th[x].op \in {"add", "remove"} /\ th[x].seen \in Contents \cup {None}
         /\ Complete(th[x])
  BY DEF TypeOK, Thread

\* Reading the file, its contents or its signature, keeps the types.
LEMMA ReadsType ==
  ASSUME TypeOK, NEW x \in Actors, ReadData(x) \/ ReadSig(x) \/ Wait(x)
  PROVE  TypeOK'
  <1>0. /\ th[x] \in Thread /\ Complete(th[x]) /\ file.data \in Contents \cup {None}
    BY DEF TypeOK
  <1>1. CASE ReadData(x)
    <2> DEFINE r == [th[x] EXCEPT
                  !.seen = file.data,
                  !.at   = CASE file.data # None -> IF @ = "check" THEN "checkSig" ELSE "loadSig"
                             [] OTHER            -> IF @ = "check" THEN "wait" ELSE "meet"]
    <2>1. r \in Thread /\ Complete(r)
      BY <1>0, <1>1 DEF ReadData, Thread, Complete, Reading, Locked, Asking, Resigning
    <2>2. Goto(x, r)
      BY <1>1 DEF ReadData
    <2> HIDE DEF r
    <2> QED
      BY <1>1, <2>1, <2>2, GotoType DEF ReadData, TypeOK
  <1>2. CASE ReadSig(x)
    <2>1. CASE Tampered(x)
      BY <1>2, <2>1, TamperedType, GotoType DEF ReadSig, Tampered, TypeOK
    <2>2. CASE Goto(x, [th[x] EXCEPT !.at = "wait", !.seen = None])
      <3> DEFINE r == [th[x] EXCEPT !.at = "wait", !.seen = None]
      <3>1. r \in Thread /\ Complete(r)
        BY <1>0, <1>2 DEF ReadSig, Thread, Complete, Reading, Locked, Asking, Resigning
      <3>2. Goto(x, r)
        BY <2>2
      <3> HIDE DEF r
      <3> QED
        BY <1>2, <3>1, <3>2, GotoType DEF ReadSig, TypeOK
    <2>3. CASE Goto(x, [th[x] EXCEPT !.at = "meet"])
      <3> DEFINE r == [th[x] EXCEPT !.at = "meet"]
      <3>1. r \in Thread /\ Complete(r)
        BY <1>0, <1>2 DEF ReadSig, Thread, Complete, Reading, Locked, Asking, Resigning
      <3>2. Goto(x, r)
        BY <2>3
      <3> HIDE DEF r
      <3> QED
        BY <1>2, <3>1, <3>2, GotoType DEF ReadSig, TypeOK
    <2> QED
      BY <1>2, <2>1, <2>2, <2>3 DEF ReadSig
  <1>3. CASE Wait(x)
    <2> DEFINE r == [th[x] EXCEPT !.at = "load"]
    <2>1. r \in Thread /\ Complete(r)
      BY <1>0, <1>3 DEF Wait, Thread, Complete, Reading, Locked, Asking, Resigning
    <2>2. Goto(x, r)
      BY <1>3 DEF Wait
    <2> HIDE DEF r
    <2> QED
      BY <1>3, <2>1, <2>2, GotoType DEF Wait, TypeOK
  <1> QED
    BY <1>1, <1>2, <1>3

\* So does a connection, from its start to the key exchange.
LEMMA ConnectionType ==
  ASSUME TypeOK, NEW x \in Actors, (\E h \in Hosts : Connect(x, h)) \/ Meet(x) \/ Unreachable(x)
  PROVE  TypeOK'
  <1> USE KeysAssumption
  <1>1. ASSUME NEW h \in Hosts, None # h, Connect(x, h)
        PROVE  TypeOK'
    <2> DEFINE r == [Idle EXCEPT !.at = "check", !.host = h]
    <2>1. r \in Thread /\ Complete(r)
      BY <1>1 DEF Idle, Thread, Complete, Reading, Locked, Asking, Resigning
    <2>2. Goto(x, r)
      BY <1>1 DEF Connect
    <2> HIDE DEF r
    <2> QED
      BY <1>1, <2>1, <2>2, GotoType DEF Connect, TypeOK
  <1>2. CASE Unreachable(x)
    BY <1>2, IdleType, GotoType DEF Unreachable, TypeOK
  <1>3. CASE Meet(x)
    <2> DEFINE h == th[x].host
    <2>1. h \in Hosts /\ h # None
      BY <1>3, ThreadParts DEF Meet, Complete, Resigning
    <2>2. PICK k \in Presents[h] :
            \/ Goto(x, Idle)
            \/ Goto(x, [Idle EXCEPT !.at = "acquire", !.host = h, !.key = k])
            \/ \E new \in IF x = UI THEN {k} ELSE {k, None} :
                  Goto(x, [Idle EXCEPT !.at = IF x = UI THEN "ask" ELSE "changed",
                                       !.host = h, !.key = new])
      BY <1>3, Zenon DEF Meet
    <2>3. k \in Keys /\ k # None
      BY <2>1, <2>2
    <2> HIDE DEF h
    <2>4. CASE Goto(x, Idle)
      BY <1>3, <2>4, IdleType, GotoType DEF Meet, TypeOK
    <2>5. CASE Goto(x, [Idle EXCEPT !.at = "acquire", !.host = h, !.key = k])
      <3> DEFINE r == [Idle EXCEPT !.at = "acquire", !.host = h, !.key = k]
      <3>1. r \in Thread /\ Complete(r)
        BY <2>1, <2>3 DEF Idle, Thread, Complete, Reading, Locked, Asking, Resigning
      <3>2. Goto(x, r)
        BY <2>5
      <3> HIDE DEF r
      <3> QED
        BY <1>3, <3>1, <3>2, GotoType DEF Meet, TypeOK
    <2>6. ASSUME NEW new \in IF x = UI THEN {k} ELSE {k, None},
                 Goto(x, [Idle EXCEPT !.at = IF x = UI THEN "ask" ELSE "changed",
                                      !.host = h, !.key = new])
          PROVE  TypeOK'
      <3> DEFINE r == [Idle EXCEPT !.at = IF x = UI THEN "ask" ELSE "changed",
                                   !.host = h, !.key = new]
      <3>1. r \in Thread /\ Complete(r)
        BY <2>1, <2>3, <2>6 DEF Idle, Thread, Complete, Reading, Locked, Asking, Resigning
      <3>2. Goto(x, r)
        BY <2>6
      <3> HIDE DEF r
      <3> QED
        BY <1>3, <3>1, <3>2, GotoType DEF Meet, TypeOK
    <2> QED
      BY <2>2, <2>4, <2>5, <2>6
  <1> QED
    BY <1>1, <1>2, <1>3, HostsAssumption

\* Giving the lock back, to idle or on the way to the second half of accepting
\* a key, keeps the threads' types.
LEMMA ReleaseType ==
  ASSUME TypeOK, NEW x \in Actors, th[x].at \in Locked, Release(x)
  PROVE  /\ th' \in [Actors -> Thread]
         /\ \A y \in Actors : Complete(th'[y])
         /\ th'[x].at \in {"idle", "acquire"}
         /\ \A y \in Actors \ {x} : th'[y] = th[y]
         /\ lock' = None
  <1>0. th[x] \in Thread /\ Complete(th[x])
    BY DEF TypeOK
  <1>1. CASE th[x].op = "remove" /\ th[x].key # None
    <2> DEFINE r == [th[x] EXCEPT !.at = "acquire", !.op = "add", !.seen = None]
    <2>1. r \in Thread /\ Complete(r) /\ r.at = "acquire"
      BY <1>0, <1>1 DEF Thread, Complete, Reading, Locked, Asking, Resigning
    <2>2. Goto(x, r)
      BY <1>1 DEF Release
    <2> HIDE DEF r
    <2> QED
      BY <2>1, <2>2, GotoType DEF Release
  <1>2. CASE ~(th[x].op = "remove" /\ th[x].key # None)
    BY <1>2, IdleType, GotoType DEF Release, Idle
  <1> QED
    BY <1>1, <1>2

\* Rewriting the file under the lock keeps the types.
LEMMA RewritesType ==
  ASSUME TypeOK, NEW x \in Actors, Acquire(x) \/ Verify(x) \/ Write(x) \/ Sign(x)
  PROVE  TypeOK'
  <1>0. th[x] \in Thread /\ Complete(th[x]) /\ file.data \in Contents \cup {None}
    BY DEF TypeOK
  <1>1. CASE Acquire(x)
    <2> DEFINE r == [th[x] EXCEPT !.seen = file.data,
                                  !.at = IF file.data = None THEN "write" ELSE "verify"]
    <2>1. r \in Thread /\ Complete(r)
      BY <1>0, <1>1 DEF Acquire, Thread, Complete, Reading, Locked, Asking, Resigning
    <2>2. Goto(x, r)
      BY <1>1 DEF Acquire
    <2> HIDE DEF r
    <2>3. mixed' \in BOOLEAN
      BY <1>1 DEF Acquire, TypeOK
    <2> QED
      BY <1>1, <2>1, <2>2, <2>3, GotoType DEF Acquire, TypeOK
  <1>2. CASE Verify(x)
    <2>1. CASE Tampered(x)
      BY <1>2, <2>1, TamperedType, GotoType DEF Verify, Tampered, TypeOK
    <2>2. CASE Goto(x, [th[x] EXCEPT !.at = "write"])
      <3> DEFINE r == [th[x] EXCEPT !.at = "write"]
      <3>1. r \in Thread /\ Complete(r)
        BY <1>0, <1>2 DEF Verify, Thread, Complete, Reading, Locked, Asking, Resigning
      <3>2. Goto(x, r)
        BY <2>2
      <3> HIDE DEF r
      <3> QED
        BY <1>2, <3>1, <3>2, GotoType DEF Verify, TypeOK
    <2> QED
      BY <1>2, <2>1, <2>2 DEF Verify
  <1>3. CASE Write(x)
    <2>1. CASE Release(x) /\ UNCHANGED file
      <3>1. th[x].at \in Locked
        BY <1>3 DEF Write, Locked
      <3> QED
        BY <1>3, <2>1, <3>1, ReleaseType DEF Write, TypeOK
    <2>2. CASE /\ file' = WithData(file, NewContent(x))
               /\ Goto(x, [th[x] EXCEPT !.at = "sign", !.seen = NewContent(x)])
               /\ UNCHANGED lock
      <3> DEFINE c == NewContent(x)
      <3>1. c \in Contents
        BY NewContentType
      <3>2. file' = WithData(file, c) /\ Goto(x, [th[x] EXCEPT !.at = "sign", !.seen = c])
        BY <2>2
      <3> HIDE DEF c
      <3> DEFINE r == [th[x] EXCEPT !.at = "sign", !.seen = c]
      <3>3. r \in Thread /\ Complete(r)
        BY <1>0, <1>3, <3>1 DEF Write, Thread, Complete, Reading, Locked, Asking, Resigning
      <3>4. Goto(x, r)
        BY <3>2
      <3> HIDE DEF r
      <3>5. file' \in [data : Contents \cup {None}, sig : Contents \cup {None}]
        BY <3>1, <3>2, FileType
      <3> QED
        BY <1>3, <2>2, <3>3, <3>4, <3>5, GotoType DEF Write, TypeOK
    <2> QED
      BY <1>3, <2>1, <2>2 DEF Write
  <1>4. CASE Sign(x)
    <2>1. th[x].at \in Locked /\ th[x].seen \in Contents \cup {None}
      BY <1>0, <1>4 DEF Sign, Locked, Thread
    <2>2. file' \in [data : Contents \cup {None}, sig : Contents \cup {None}]
      BY <1>4, <2>1, FileType DEF Sign
    <2> QED
      BY <1>4, <2>1, <2>2, ReleaseType DEF Sign, TypeOK
  <1> QED
    BY <1>1, <1>2, <1>3, <1>4

\* So do the dialogs, and trusting the file as it is.
LEMMA DialogsType ==
  ASSUME TypeOK, (\E x \in Actors : Ask(x)) \/ Dialogs \/ Trusts
  PROVE  TypeOK'
  <1> USE KeysAssumption, HostsAssumption
  <1>0. /\ UI \in Actors /\ th[UI] \in Thread /\ Complete(th[UI])
        /\ file.data \in Contents \cup {None}
    BY DEF TypeOK, Actors
  <1>1. ASSUME NEW x \in Actors, Ask(x)
        PROVE  TypeOK'
    <2> DEFINE r == [th[x] EXCEPT !.at = "ask"]
    <2>1. r \in Thread /\ Complete(r)
      BY <1>1 DEF Ask, TypeOK, Thread, Complete, Reading, Locked, Asking, Resigning
    <2>2. th' = [th EXCEPT ![x] = Idle, ![UI] = r]
      BY <1>1 DEF Ask
    <2> HIDE DEF r
    <2>3. th' \in [Actors -> Thread] /\ \A y \in Actors : Complete(th'[y])
      BY <1>0, <1>1, <2>1, <2>2, IdleType DEF TypeOK
    <2> QED
      BY <1>1, <2>3 DEF Ask, TypeOK
  <1>2. CASE Accept
    <2> DEFINE r == [th[UI] EXCEPT !.at = "acquire", !.op = "remove"]
    <2>1. r \in Thread /\ Complete(r)
      BY <1>0, <1>2 DEF Accept, Thread, Complete, Reading, Locked, Asking, Resigning
    <2>2. Goto(UI, r)
      BY <1>2 DEF Accept
    <2> HIDE DEF r
    <2>3. th[UI].host \in Hosts /\ th[UI].key \in Keys \cup {None}
      BY <1>0, <1>2, ThreadParts DEF Accept, Complete, Resigning
    <2>4. accepted' \subseteq (Hosts \X Keys)
      BY <1>2, <2>3 DEF Accept, TypeOK
    <2> QED
      BY <1>0, <1>2, <2>1, <2>2, <2>4, GotoType DEF Accept, TypeOK
  <1>3. CASE KeepBlocked
    BY <1>0, <1>3, IdleType, GotoType DEF KeepBlocked, TypeOK
  <1>4. CASE TrustFile
    <2> DEFINE r == [th[UI] EXCEPT !.at = "rewrite", !.seen = file.data]
    <2>1. r \in Thread /\ Complete(r)
      BY <1>0, <1>4 DEF TrustFile, Thread, Complete, Reading, Locked, Asking, Resigning
    <2>2. Goto(UI, r)
      BY <1>4 DEF TrustFile
    <2> HIDE DEF r
    <2>3. mixed' \in BOOLEAN
      BY <1>4 DEF TrustFile, TypeOK
    <2> QED
      BY <1>0, <1>4, <2>1, <2>2, <2>3, GotoType DEF TrustFile, TypeOK
  <1>5. CASE Rewrite
    <2> DEFINE r == [th[UI] EXCEPT !.at = "resign"]
    <2>1. r \in Thread /\ Complete(r) /\ th[UI].seen \in Contents \cup {None}
      BY <1>0, <1>5 DEF Rewrite, Thread, Complete, Reading, Locked, Asking, Resigning
    <2>2. Goto(UI, r)
      BY <1>5 DEF Rewrite
    <2> HIDE DEF r
    <2>3. file' \in [data : Contents \cup {None}, sig : Contents \cup {None}]
      BY <1>5, <2>1, FileType DEF Rewrite
    <2> QED
      BY <1>0, <1>5, <2>1, <2>2, <2>3, GotoType DEF Rewrite, TypeOK
  <1>6. CASE Resign
    <2>1. th[UI].seen \in Contents \cup {None}
      BY <1>0 DEF Thread
    <2>2. file' \in [data : Contents \cup {None}, sig : Contents \cup {None}]
      BY <1>6, <2>1, FileType DEF Resign
    <2> QED
      BY <1>0, <1>6, <2>2, IdleType, GotoType DEF Resign, TypeOK
  <1> QED
    BY <1>1, <1>2, <1>3, <1>4, <1>5, <1>6 DEF Dialogs, Trusts

\* Every step keeps the types.
LEMMA StepType == TypeOK /\ [Next]_vars => TypeOK'
  <1> SUFFICES ASSUME TypeOK, [Next]_vars PROVE TypeOK'
    OBVIOUS
  <1>1. CASE Restart
    <2>1. th' \in [Actors -> Thread] /\ \A y \in Actors : Complete(th'[y])
      BY <1>1, IdleType DEF Restart
    <2>2. cut' \in BOOLEAN
      BY <1>1 DEF Restart, TypeOK
    <2> QED
      BY <1>1, <2>1, <2>2 DEF Restart, TypeOK
  <1>2. CASE UNCHANGED vars
    BY <1>2 DEF vars, TypeOK
  <1> QED
    BY <1>1, <1>2, ReadsType, ConnectionType, RewritesType, DialogsType DEF Next, Goes

\* The program starts with the types right.
LEMMA InitType == Init => TypeOK
  <1> SUFFICES ASSUME Init PROVE TypeOK
    OBVIOUS
  <1>1. th \in [Actors -> Thread] /\ \A y \in Actors : Complete(th[y])
    BY IdleType DEF Init
  <1> QED
    BY <1>1 DEF Init, TypeOK, NoFile

\* THEOREM: whatever order the connections, dialogs and restarts come in, no
\* thread is without the host or the key its next step needs.
THEOREM TypeCorrect == Spec => []TypeOK
  BY InitType, StepType, PTL DEF Spec

\* Between two steps of rewriting or trusting the file.
Busy == Locked \cup Resigning

\* A step of threads that neither rewrite nor trust the file, before or after
\* it, keeps the order.
LEMMA QuietOrder ==
  ASSUME IInv, UNCHANGED <<file, lock, cut, mixed>>,
         \A y \in Actors : \/ th'[y] = th[y]
                           \/ /\ th[y].at \notin Busy /\ th'[y].at \notin Busy
                              /\ th'[y].at \in Asking => y = UI
  PROVE  Order'
  <1> USE DEF IInv, Order, Busy
  <1>1. LockIsHeld'
    BY DEF LockIsHeld
  <1>2. DialogsAreUIs'
    BY DEF DialogsAreUIs
  <1>3. TrustIsAlone'
    BY DEF TrustIsAlone, Actors
  <1>4. WriterHasSeen'
    BY DEF WriterHasSeen
  <1>5. SignatureFollows'
    BY DEF SignatureFollows, MidWrite, Readable, Verifies, Locked, Resigning
  <1> QED
    BY <1>1, <1>2, <1>3, <1>4, <1>5

\* Every step outside the lock, but trusting the file, is such a step.
LEMMA QuietActions ==
  ASSUME IInv,
         \/ \E x \in Actors :
               \/ \E h \in Hosts : Connect(x, h)
               \/ ReadData(x) \/ ReadSig(x) \/ Wait(x) \/ Meet(x) \/ Unreachable(x) \/ Ask(x)
         \/ Accept \/ KeepBlocked
  PROVE  Order'
  <1> USE DEF Busy, Locked, Resigning, Asking
  <1>0. UI \in Actors /\ th \in [Actors -> Thread] /\ \A y \in Actors : th[y] \in Thread
    BY DEF IInv, TypeOK, Actors
  <1>1. ASSUME NEW x \in Actors, NEW r, Goto(x, r), th[x].at \notin Busy, r.at \notin Busy,
               r.at \in Asking => x = UI, UNCHANGED <<file, lock, cut, mixed>>
        PROVE  Order'
    <2>1. th'[x] = r /\ \A y \in Actors \ {x} : th'[y] = th[y]
      BY <1>0, <1>1 DEF Goto
    <2> QED
      BY <1>1, <2>1, QuietOrder
  <1>2. ASSUME NEW x \in Actors, NEW h \in Hosts, Connect(x, h)
        PROVE  Order'
    <2>1. [Idle EXCEPT !.at = "check", !.host = h].at = "check"
      BY DEF Idle
    <2> QED
      BY <1>1, <1>2, <2>1 DEF Connect
  <1>3. ASSUME NEW x \in Actors, ReadData(x)
        PROVE  Order'
    <2> DEFINE r == [th[x] EXCEPT
                  !.seen = file.data,
                  !.at   = CASE file.data # None -> IF @ = "check" THEN "checkSig" ELSE "loadSig"
                             [] OTHER            -> IF @ = "check" THEN "wait" ELSE "meet"]
    <2>1. r.at \in {"checkSig", "loadSig", "wait", "meet"}
      BY <1>0, <1>3 DEF ReadData, Thread
    <2>2. Goto(x, r)
      BY <1>3 DEF ReadData
    <2> HIDE DEF r
    <2> QED
      BY <1>1, <1>3, <2>1, <2>2 DEF ReadData
  <1>4. ASSUME NEW x \in Actors, Tampered(x), th[x].at \notin Busy, UNCHANGED <<file, lock, cut, mixed>>
        PROVE  Order'
    <2> DEFINE r == [Idle EXCEPT !.at = IF x = UI THEN "alarm" ELSE "idle"]
    <2>1. r.at = IF x = UI THEN "alarm" ELSE "idle"
      BY DEF Idle
    <2>2. Goto(x, r)
      BY <1>4 DEF Tampered
    <2> HIDE DEF r
    <2> QED
      BY <1>1, <1>4, <2>1, <2>2
  <1>5. ASSUME NEW x \in Actors, ReadSig(x)
        PROVE  Order'
    <2>1. CASE Tampered(x)
      BY <1>4, <1>5, <2>1 DEF ReadSig
    <2>2. [th[x] EXCEPT !.at = "wait", !.seen = None].at = "wait" /\ [th[x] EXCEPT !.at = "meet"].at = "meet"
      BY <1>0 DEF Thread
    <2>3. CASE Goto(x, [th[x] EXCEPT !.at = "wait", !.seen = None])
      BY <1>1, <1>5, <2>2, <2>3 DEF ReadSig
    <2>4. CASE Goto(x, [th[x] EXCEPT !.at = "meet"])
      BY <1>1, <1>5, <2>2, <2>4 DEF ReadSig
    <2> QED
      BY <1>5, <2>1, <2>3, <2>4 DEF ReadSig
  <1>6. ASSUME NEW x \in Actors, Wait(x)
        PROVE  Order'
    <2>1. [th[x] EXCEPT !.at = "load"].at = "load"
      BY <1>0 DEF Thread
    <2> QED
      BY <1>1, <1>6, <2>1 DEF Wait
  <1>7. Idle.at = "idle"
    BY DEF Idle
  <1>8. ASSUME NEW x \in Actors, Unreachable(x)
        PROVE  Order'
    BY <1>1, <1>7, <1>8 DEF Unreachable
  <1>9. ASSUME NEW x \in Actors, Meet(x)
        PROVE  Order'
    <2>0. UNCHANGED <<file, lock, cut, mixed>> /\ th[x].at \notin Busy
      BY <1>9 DEF Meet
    <2>1. PICK h, k :
            \/ Goto(x, Idle)
            \/ Goto(x, [Idle EXCEPT !.at = "acquire", !.host = h, !.key = k])
            \/ \E new \in IF x = UI THEN {k} ELSE {k, None} :
                  Goto(x, [Idle EXCEPT !.at = IF x = UI THEN "ask" ELSE "changed",
                                       !.host = h, !.key = new])
      BY <1>9, Zenon DEF Meet
    <2>2. CASE Goto(x, Idle)
      BY <1>1, <1>7, <2>0, <2>2
    <2>3. CASE Goto(x, [Idle EXCEPT !.at = "acquire", !.host = h, !.key = k])
      <3>1. [Idle EXCEPT !.at = "acquire", !.host = h, !.key = k].at = "acquire"
        BY DEF Idle
      <3> QED
        BY <1>1, <2>0, <2>3, <3>1
    <2>4. ASSUME NEW new,
                 Goto(x, [Idle EXCEPT !.at = IF x = UI THEN "ask" ELSE "changed",
                                      !.host = h, !.key = new])
          PROVE  Order'
      <3> DEFINE r == [Idle EXCEPT !.at = IF x = UI THEN "ask" ELSE "changed",
                                   !.host = h, !.key = new]
      <3>1. r.at = IF x = UI THEN "ask" ELSE "changed"
        BY DEF Idle
      <3>2. Goto(x, r)
        BY <2>4
      <3> HIDE DEF r
      <3> QED
        BY <1>1, <2>0, <3>1, <3>2
    <2> QED
      BY <2>1, <2>2, <2>3, <2>4
  <1>10. ASSUME NEW x \in Actors, Ask(x)
         PROVE  Order'
    <2> DEFINE r == [th[x] EXCEPT !.at = "ask"]
    <2>1. r.at = "ask"
      BY <1>0 DEF Thread
    <2>2. th' = [th EXCEPT ![x] = Idle, ![UI] = r] /\ x # UI
      BY <1>10 DEF Ask
    <2> HIDE DEF r
    <2>3. /\ th'[x] = Idle /\ th'[UI] = r
          /\ \A y \in Actors \ {x, UI} : th'[y] = th[y]
      BY <1>0, <2>2
    <2> QED
      BY <1>7, <1>10, <2>1, <2>2, <2>3, QuietOrder DEF Ask
  <1>11. CASE Accept
    <2>1. [th[UI] EXCEPT !.at = "acquire", !.op = "remove"].at = "acquire"
      BY <1>0 DEF Thread
    <2> QED
      BY <1>0, <1>1, <1>11, <2>1 DEF Accept
  <1>12. CASE KeepBlocked
    BY <1>0, <1>1, <1>7, <1>12 DEF KeepBlocked
  <1> QED
    BY <1>2, <1>3, <1>5, <1>6, <1>8, <1>9, <1>10, <1>11, <1>12

\* Only one thread is busy at a time, unless the file was mixed.
LEMMA BusyAlone ==
  ASSUME IInv, ~mixed, NEW x \in Actors, th[x].at \in Busy
  PROVE  \A y \in Actors \ {x} : th[y].at \notin Busy
  <1>1. \A a, b \in Actors : th[a].at \in Locked /\ th[b].at \in Locked => a = b
    BY DEF IInv, Order, LockIsHeld
  <1>2. \A a, b \in Actors : th[a].at \in Resigning /\ th[b].at \in Resigning => a = b
    BY DEF IInv, Order, DialogsAreUIs
  <1>3. \A a, b \in Actors : ~(th[a].at \in Locked /\ th[b].at \in Resigning)
    <2> SUFFICES ASSUME NEW a \in Actors, NEW b \in Actors,
                        th[a].at \in Locked, th[b].at \in Resigning
                 PROVE  FALSE
      OBVIOUS
    <2>1. lock = a /\ b = UI
      BY DEF IInv, Order, LockIsHeld, DialogsAreUIs
    <2>2. lock = None
      BY <2>1 DEF IInv, Order, TrustIsAlone
    <2> QED
      BY <2>1, <2>2, ActorsAssumption
  <1> QED
    BY <1>1, <1>2, <1>3 DEF Busy

\* The lock changes hands as the thread that takes it, or gives it back, says.
LEMMA LockStep ==
  ASSUME IInv, NEW x \in Actors,
         \A y \in Actors \ {x} : th'[y] = th[y],
         \/ lock = None /\ lock' = x /\ th'[x].at \in Locked
         \/ lock = x /\ lock' = None /\ th'[x].at \notin Locked
         \/ lock' = lock /\ (th'[x].at \in Locked <=> th[x].at \in Locked),
         th'[x].at \in Asking \cup Resigning => x = UI
  PROVE  LockIsHeld' /\ DialogsAreUIs'
  <1>1. LockIsHeld'
    BY ActorsAssumption DEF IInv, Order, LockIsHeld
  <1>2. DialogsAreUIs'
    BY DEF IInv, Order, DialogsAreUIs
  <1> QED
    BY <1>1, <1>2

\* What a thread that gives the lock back does next, it does without it.
LEMMA ReleaseStep ==
  ASSUME IInv, NEW x \in Actors, th[x].at \in Locked, Release(x)
  PROVE  /\ th'[x].at \in {"idle", "acquire"}
         /\ \A y \in Actors \ {x} : th'[y] = th[y]
         /\ lock = x /\ lock' = None
  BY ReleaseType DEF IInv, Order, LockIsHeld

\* Taking the lock and verifying the file keep the order.
LEMMA AcquireOrder ==
  ASSUME IInv, NEW x \in Actors, Acquire(x)
  PROVE  Order'
  <1> DEFINE r == [th[x] EXCEPT !.seen = file.data,
                                !.at = IF file.data = None THEN "write" ELSE "verify"]
  <1>0. th \in [Actors -> Thread] /\ th[x] \in Thread
    BY DEF IInv, TypeOK
  <1>1. r.at \in {"write", "verify"} /\ r.seen = file.data
    BY <1>0 DEF Thread
  <1>2. th'[x] = r /\ \A y \in Actors \ {x} : th'[y] = th[y]
    BY <1>0 DEF Acquire, Goto
  <1> HIDE DEF r
  <1>3. LockIsHeld' /\ DialogsAreUIs'
    BY <1>1, <1>2, LockStep DEF Acquire, Locked, Asking, Resigning
  <1>4. TrustIsAlone'
    BY <1>1, <1>2 DEF Acquire, TrustIsAlone, Resigning, Actors
  <1>5. \A y \in Actors : th[y].at \notin Locked
    BY ActorsAssumption DEF Acquire, IInv, Order, LockIsHeld
  <1>6. WriterHasSeen'
    <2> SUFFICES ASSUME ~mixed', NEW y \in Actors, th'[y].at \in Locked \cup Resigning
                 PROVE  file'.data = th'[y].seen
      BY DEF WriterHasSeen
    <2>1. ~mixed /\ th[UI].at \notin Resigning
      BY DEF Acquire
    <2>2. y = x
      BY <1>2, <1>5, <2>1 DEF IInv, Order, DialogsAreUIs
    <2> QED
      BY <1>1, <1>2, <2>2 DEF Acquire
  <1>7. SignatureFollows'
    BY <1>1, <1>2, <1>5
       DEF Acquire, SignatureFollows, MidWrite, Readable, Verifies, IInv, Order, Locked, Resigning
  <1> QED
    BY <1>3, <1>4, <1>6, <1>7 DEF Order

\* A thread that leaves the file and its signature alone, and is not in the
\* middle of writing them, keeps the order, with the lock or giving it back.
LEMMA KeepsFile ==
  ASSUME IInv, NEW x \in Actors, th[x].at \in {"verify", "write"},
         UNCHANGED <<file, cut, mixed>>,
         \A y \in Actors \ {x} : th'[y] = th[y],
         \/ lock' = lock /\ th'[x].at \in Locked /\ th'[x].seen = th[x].seen
         \/ lock' = None /\ th'[x].at \notin Busy,
         th'[x].at \in Asking => x = UI
  PROVE  Order'
  <1>0. lock = x /\ th[x].at \in Locked /\ th[x].at \notin Resigning
    BY DEF IInv, Order, LockIsHeld, Locked, Resigning
  <1>1. th'[x].at \notin Resigning
    BY DEF Busy, Locked, Resigning
  <1>2. LockIsHeld' /\ DialogsAreUIs'
    BY <1>0, <1>1, LockStep DEF Busy
  <1>3. TrustIsAlone'
    BY <1>0, <1>1 DEF IInv, Order, TrustIsAlone, Actors
  <1>4. WriterHasSeen'
    BY <1>0 DEF IInv, Order, WriterHasSeen, Busy
  <1>5. \A y \in Actors : th[y].at \in {"sign", "resign"} => th'[y].at \in {"sign", "resign"}
    OBVIOUS
  <1>6. SignatureFollows'
    BY <1>5 DEF SignatureFollows, MidWrite, Readable, Verifies, IInv, Order
  <1> QED
    BY <1>2, <1>3, <1>4, <1>6 DEF Order

\* Verifying the contents that were read keeps the order.
LEMMA VerifyOrder ==
  ASSUME IInv, NEW x \in Actors, Verify(x)
  PROVE  Order'
  <1>0. th \in [Actors -> Thread] /\ th[x] \in Thread
    BY DEF IInv, TypeOK
  <1>1. CASE Goto(x, [th[x] EXCEPT !.at = "write"]) /\ UNCHANGED lock
    <2> DEFINE r == [th[x] EXCEPT !.at = "write"]
    <2>1. r.at = "write" /\ r.seen = th[x].seen
      BY <1>0 DEF Thread
    <2>2. th'[x] = r /\ \A y \in Actors \ {x} : th'[y] = th[y]
      BY <1>0, <1>1 DEF Goto
    <2> HIDE DEF r
    <2> QED
      BY <1>1, <2>1, <2>2, KeepsFile DEF Verify, Locked, Asking
  <1>2. CASE Tampered(x) /\ lock' = None
    <2> DEFINE r == [Idle EXCEPT !.at = IF x = UI THEN "alarm" ELSE "idle"]
    <2>1. r.at = IF x = UI THEN "alarm" ELSE "idle"
      BY DEF Idle
    <2>2. th'[x] = r /\ \A y \in Actors \ {x} : th'[y] = th[y]
      BY <1>0, <1>2 DEF Tampered, Goto
    <2> HIDE DEF r
    <2> QED
      BY <1>2, <2>1, <2>2, KeepsFile DEF Verify, Busy, Locked, Resigning, Asking
  <1> QED
    BY <1>1, <1>2 DEF Verify

\* Writing the contents keeps the order: their signature is owed by the thread
\* that holds the lock.
LEMMA WriteOrder ==
  ASSUME IInv, NEW x \in Actors, Write(x)
  PROVE  Order'
  <1>0. th \in [Actors -> Thread] /\ th[x] \in Thread /\ th[x].at = "write" /\ th[x].at \in Locked
    BY DEF IInv, TypeOK, Write, Locked
  <1>1. CASE Release(x) /\ UNCHANGED file
    <2>1. th'[x].at \notin Busy /\ th'[x].at \notin Asking
      BY <1>0, <1>1, ReleaseStep DEF Busy, Locked, Resigning, Asking
    <2> QED
      BY <1>0, <1>1, <2>1, ReleaseStep, KeepsFile DEF Write
  <1>2. CASE /\ file' = WithData(file, NewContent(x))
             /\ Goto(x, [th[x] EXCEPT !.at = "sign", !.seen = NewContent(x)])
             /\ UNCHANGED lock
    <2> DEFINE c == NewContent(x)
               r == [th[x] EXCEPT !.at = "sign", !.seen = c]
    <2>1. r.at = "sign" /\ r.seen = c
      BY <1>0 DEF Thread
    <2>2. th'[x] = r /\ \A y \in Actors \ {x} : th'[y] = th[y]
      BY <1>0, <1>2 DEF Goto
    <2>3. file'.data = c
      BY <1>2, NewContentType, FileType DEF IInv
    <2> HIDE DEF r, c
    <2>4. LockIsHeld' /\ DialogsAreUIs'
      BY <1>0, <1>2, <2>1, <2>2, LockStep DEF Locked, Asking, Resigning
    <2>5. UNCHANGED <<cut, mixed>>
      BY DEF Write
    <2>6. TrustIsAlone'
      BY <1>2, <2>1, <2>2, <2>5 DEF IInv, Order, TrustIsAlone, Actors, Resigning
    <2>7. WriterHasSeen'
      <3> SUFFICES ASSUME ~mixed', NEW y \in Actors, th'[y].at \in Busy
                   PROVE  file'.data = th'[y].seen
        BY DEF WriterHasSeen, Busy
      <3>1. y = x
        BY <1>0, <2>2, <2>5, BusyAlone DEF Busy
      <3> QED
        BY <2>1, <2>2, <2>3, <3>1
    <2>8. SignatureFollows'
      BY <2>1, <2>2 DEF SignatureFollows, MidWrite
    <2> QED
      BY <2>4, <2>6, <2>7, <2>8 DEF Order
  <1> QED
    BY <1>1, <1>2 DEF Write

\* Signing keeps the order: the signature is that of the contents.
LEMMA SignOrder ==
  ASSUME IInv, NEW x \in Actors, Sign(x)
  PROVE  Order'
  <1>0. th[x] \in Thread /\ th[x].at = "sign" /\ th[x].at \in Locked
    BY DEF IInv, TypeOK, Sign, Locked
  <1>1. /\ th'[x].at \in {"idle", "acquire"} /\ \A y \in Actors \ {x} : th'[y] = th[y]
        /\ lock = x /\ lock' = None
    BY <1>0, ReleaseStep DEF Sign
  <1>2. UNCHANGED <<cut, mixed>>
    BY DEF Sign
  <1>3. file'.data = file.data /\ file'.sig = th[x].seen
    BY <1>0, FileType DEF Sign, Thread, IInv
  <1>4. LockIsHeld' /\ DialogsAreUIs'
    BY <1>1, LockStep DEF Locked, Asking, Resigning
  <1>5. TrustIsAlone'
    BY <1>1 DEF TrustIsAlone
  <1>6. ~mixed => \A y \in Actors : th'[y].at \notin Busy
    BY <1>0, <1>1, BusyAlone DEF Busy, Locked, Resigning
  <1>7. WriterHasSeen'
    BY <1>2, <1>6 DEF WriterHasSeen, Busy
  <1>8. ~mixed => file.data = th[x].seen
    BY <1>0 DEF IInv, Order, WriterHasSeen
  <1>9. SignatureFollows'
    BY <1>2, <1>3, <1>8 DEF SignatureFollows, Readable, Verifies
  <1> QED
    BY <1>4, <1>5, <1>7, <1>9 DEF Order

\* Trusting the file as it is keeps the order, each of its three steps.
LEMMA TrustOrder ==
  ASSUME IInv, TrustFile \/ Trusts
  PROVE  Order'
  <1>0. UI \in Actors /\ th \in [Actors -> Thread] /\ th[UI] \in Thread
    BY DEF IInv, TypeOK, Actors
  <1>1. CASE TrustFile
    <2> DEFINE r == [th[UI] EXCEPT !.at = "rewrite", !.seen = file.data]
    <2>1. r.at = "rewrite" /\ r.seen = file.data
      BY <1>0 DEF Thread
    <2>2. th'[UI] = r /\ \A y \in Actors \ {UI} : th'[y] = th[y]
      BY <1>0, <1>1 DEF TrustFile, Goto
    <2> HIDE DEF r
    <2>3. LockIsHeld' /\ DialogsAreUIs'
      BY <1>0, <1>1, <2>1, <2>2, LockStep DEF TrustFile, Locked, Asking, Resigning
    <2>4. TrustIsAlone'
      BY <1>1 DEF TrustFile, TrustIsAlone
    <2>5. WriterHasSeen'
      <3> SUFFICES ASSUME ~mixed', NEW y \in Actors, th'[y].at \in Busy
                   PROVE  file'.data = th'[y].seen
        BY DEF WriterHasSeen, Busy
      <3>1. lock = None /\ UNCHANGED lock /\ UNCHANGED file
        BY <1>1 DEF TrustFile
      <3>2. y = UI
        BY <2>3, <3>1, ActorsAssumption DEF LockIsHeld, DialogsAreUIs, Busy
      <3> QED
        BY <2>1, <2>2, <3>1, <3>2
    <2>6. SignatureFollows'
      BY <1>0, <1>1, <2>1, <2>2
         DEF TrustFile, SignatureFollows, MidWrite, Readable, Verifies, IInv, Order
    <2> QED
      BY <2>3, <2>4, <2>5, <2>6 DEF Order
  <1>2. CASE Rewrite
    <2> DEFINE r == [th[UI] EXCEPT !.at = "resign"]
    <2>1. r.at = "resign" /\ r.seen = th[UI].seen
      BY <1>0 DEF Thread
    <2>2. th'[UI] = r /\ \A y \in Actors \ {UI} : th'[y] = th[y]
      BY <1>0, <1>2 DEF Rewrite, Goto
    <2> HIDE DEF r
    <2>3. file'.data = th[UI].seen /\ th[UI].at \in Resigning
      BY <1>0, <1>2, FileType DEF Rewrite, Thread, IInv, Resigning
    <2>4. LockIsHeld' /\ DialogsAreUIs'
      BY <1>0, <1>2, <2>1, <2>2, <2>3, LockStep DEF Rewrite, Locked, Asking, Resigning
    <2>5. TrustIsAlone'
      BY <1>2, <2>3 DEF Rewrite, TrustIsAlone, IInv, Order
    <2>6. WriterHasSeen'
      <3> SUFFICES ASSUME ~mixed', NEW y \in Actors, th'[y].at \in Busy
                   PROVE  file'.data = th'[y].seen
        BY DEF WriterHasSeen, Busy
      <3>1. y = UI
        BY <1>0, <1>2, <2>2, <2>3, BusyAlone DEF Rewrite, Busy
      <3> QED
        BY <2>1, <2>2, <2>3, <3>1
    <2>7. SignatureFollows'
      BY <1>0, <2>1, <2>2 DEF SignatureFollows, MidWrite
    <2> QED
      BY <2>4, <2>5, <2>6, <2>7 DEF Order
  <1>3. CASE Resign
    <2>1. th'[UI] = Idle /\ \A y \in Actors \ {UI} : th'[y] = th[y]
      BY <1>0, <1>3 DEF Resign, Goto
    <2>2. th[UI].at \in Resigning /\ th'[UI].at = "idle"
      BY <1>3, <2>1 DEF Resign, Resigning, Idle
    <2>3. file'.data = file.data /\ file'.sig = th[UI].seen /\ UNCHANGED <<lock, mixed>>
      BY <1>0, <1>3, FileType DEF Resign, Thread, IInv
    <2>4. LockIsHeld' /\ DialogsAreUIs'
      BY <1>0, <2>1, <2>2, <2>3, LockStep DEF Locked, Asking, Resigning
    <2>5. TrustIsAlone'
      BY <2>2 DEF TrustIsAlone, Resigning
    <2>6. ~mixed => \A y \in Actors : th'[y].at \notin Busy
      BY <1>0, <2>1, <2>2, BusyAlone DEF Busy, Locked, Resigning
    <2>7. WriterHasSeen'
      BY <2>3, <2>6 DEF WriterHasSeen, Busy
    <2>8. ~mixed => file.data = th[UI].seen
      BY <1>0, <2>2 DEF IInv, Order, WriterHasSeen
    <2>9. SignatureFollows'
      BY <2>3, <2>8 DEF SignatureFollows, Readable, Verifies
    <2> QED
      BY <2>4, <2>5, <2>7, <2>9 DEF Order
  <1> QED
    BY <1>1, <1>2, <1>3 DEF Trusts

\* Starting again keeps the order: if it was ended between the two writes,
\* that is recorded.
LEMMA RestartOrder ==
  ASSUME IInv, Restart
  PROVE  Order'
  <1>1. \A y \in Actors : th'[y].at = "idle"
    BY DEF Restart, Idle
  <1>2. lock' = None
    BY DEF Restart
  <1>3. LockIsHeld' /\ DialogsAreUIs' /\ TrustIsAlone' /\ WriterHasSeen'
    BY <1>1, <1>2, ActorsAssumption
       DEF LockIsHeld, DialogsAreUIs, TrustIsAlone, WriterHasSeen, Locked, Resigning, Asking
  <1>4. SignatureFollows'
    BY DEF Restart, SignatureFollows, Readable, Verifies
  <1> QED
    BY <1>3, <1>4 DEF Order

\* The invariant is inductive.
LEMMA Inductive == IInv /\ [Next]_vars => IInv'
  <1> SUFFICES ASSUME IInv, [Next]_vars PROVE IInv'
    OBVIOUS
  <1>1. TypeOK'
    BY StepType DEF IInv
  <1>2. Order'
    <2>1. CASE UNCHANGED vars
      BY <2>1, QuietOrder DEF vars
    <2> QED
      BY <2>1, QuietActions, AcquireOrder, VerifyOrder, WriteOrder, SignOrder, TrustOrder, RestartOrder
         DEF Next, Goes, Dialogs
  <1> QED
    BY <1>1, <1>2 DEF IInv

\* The program starts in the invariant.
LEMMA Initially == Init => IInv
  <1> SUFFICES ASSUME Init PROVE IInv
    OBVIOUS
  <1>1. \A y \in Actors : th[y].at = "idle"
    BY DEF Init, Idle
  <1>2. LockIsHeld /\ DialogsAreUIs /\ TrustIsAlone /\ WriterHasSeen
    BY <1>1, ActorsAssumption
       DEF Init, LockIsHeld, DialogsAreUIs, TrustIsAlone, WriterHasSeen, Locked, Resigning, Asking
  <1>3. SignatureFollows
    BY DEF Init, SignatureFollows, Readable, NoFile
  <1> QED
    BY <1>2, <1>3, InitType DEF IInv, Order

\* THEOREM: known_hosts verifies whenever no thread is between the two writes
\* of SignedFile.write, however many threads connect to however many hosts,
\* unless the program ended there or the file was trusted during a write.
THEOREM SignatureFollowsWrites == Spec => []SignatureFollows
  <1>1. IInv => SignatureFollows
    BY DEF IInv, Order
  <1> QED
    BY <1>1, Initially, Inductive, PTL DEF Spec

\* At most one host's key differs between two files' contents.
OneHost(d, e) ==
    \E h \in Hosts : \A g \in Hosts \ {h} : Content(e)[g] = Content(d)[g]

\* A step that leaves the contents alone changes no host's key.
LEMMA SameContents == \A d : OneHost(d, d)
  BY HostsAssumption DEF OneHost

\* Every step changes at most one host's key, unless the file was mixed: what
\* is written is what was read under the lock, but for one host.
LEMMA StepOneHost ==
  ASSUME IInv, [Next]_vars, ~mixed'
  PROVE  OneHost(file.data, file'.data)
  <1>1. CASE UNCHANGED file
    BY <1>1, SameContents
  <1>2. ASSUME NEW x \in Actors, Write(x), file' = WithData(file, NewContent(x))
        PROVE  OneHost(file.data, file'.data)
    <2>1. th[x] \in Thread /\ th[x].at \in Locked /\ ~mixed /\ th[x].at \notin Resigning
      BY <1>2 DEF Write, Locked, Resigning, IInv, TypeOK
    <2>2. file.data = th[x].seen
      BY <2>1 DEF IInv, Order, WriterHasSeen
    <2>3. file'.data = NewContent(x) /\ NewContent(x) \in Contents
      BY <1>2, FileType, NewContentType DEF IInv
    <2>4. Content(file'.data) = NewContent(x)
      BY <2>3, NoneAssumption DEF Content
    <2>5. th[x].host \in Hosts
      BY <2>1, ThreadParts DEF IInv, Complete, Locked, Resigning
    <2>6. Content(th[x].seen) \in [Hosts -> Keys \cup {None}]
      BY <2>1, ContentType DEF Thread, Contents
    <2>7. \A g \in Hosts \ {th[x].host} : NewContent(x)[g] = Content(th[x].seen)[g]
      BY <2>5, <2>6 DEF NewContent
    <2> QED
      BY <2>2, <2>4, <2>5, <2>7 DEF OneHost
  <1>3. ASSUME NEW x \in Actors, Sign(x)
        PROVE  OneHost(file.data, file'.data)
    <2>1. file'.data = file.data
      BY <1>3, FileType DEF Sign, IInv, TypeOK, Thread
    <2> QED
      BY <2>1, SameContents
  <1>4. CASE Rewrite
    <2>1. UI \in Actors /\ th[UI] \in Thread /\ th[UI].at \in Resigning /\ ~mixed
      BY <1>4 DEF Rewrite, Resigning, IInv, TypeOK, Actors
    <2>2. file.data = th[UI].seen /\ th[UI].seen \in Contents \cup {None}
      BY <2>1 DEF IInv, Order, WriterHasSeen, Thread
    <2>3. file'.data = file.data
      BY <1>4, <2>2, FileType DEF Rewrite, IInv
    <2> QED
      BY <2>3, SameContents
  <1>5. CASE Resign
    <2>1. file'.data = file.data
      BY <1>5, FileType DEF Resign, IInv, TypeOK, Thread, Actors
    <2> QED
      BY <2>1, SameContents
  <1>6. \/ UNCHANGED file
        \/ \E x \in Actors : Write(x) /\ file' = WithData(file, NewContent(x))
        \/ \E x \in Actors : Sign(x)
        \/ Rewrite \/ Resign
    BY DEF Next, Goes, Dialogs, Trusts, vars, Connect, ReadData, ReadSig, Wait, Meet, Unreachable,
           Acquire, Verify, Write, Ask, Accept, KeepBlocked, TrustFile, Restart
  <1> QED
    BY <1>1, <1>2, <1>3, <1>4, <1>5, <1>6

\* THEOREM: no first contact and no accepted key undoes what another thread
\* pinned meanwhile, however many threads pin however many hosts.
THEOREM PinsSurviveWrites == Spec => OneHostPerWrite
  <1>1. IInv /\ [Next]_vars => (~mixed' => OneHost(file.data, file'.data))
    BY StepOneHost
  <1>2. IInv /\ [Next]_vars =>
          [~mixed' => \E h \in Hosts : \A g \in Hosts \ {h} :
              Content(file'.data)[g] = Content(file.data)[g]]_vars
    BY <1>1 DEF OneHost
  <1> QED
    BY <1>2, Initially, Inductive, PTL DEF Spec, OneHostPerWrite

---------------------------------------------------------------------------
(* Why a key is pinned. *)

\* A key of a host has a reason to be pinned.
Reason(h, k) == <<h, k>> \in accepted \/ System[h] = k \/ (System[h] = None /\ ~strict)

\* Every key in a file's contents has one.
Reasons(d) == \A h \in Hosts : Content(d)[h] # None => Reason(h, Content(d)[h])

\* The file's keys, those a thread has read, and the one it is about to write
\* have a reason.
Pinning ==
    /\ Reasons(file.data)
    /\ \A x \in Actors : Reasons(th[x].seen)
    /\ \A x \in Actors : th[x].at \in {"acquire"} \cup Locked /\ th[x].key # None
                         => Reason(th[x].host, th[x].key)

\* Nothing pinned needs no reason.
LEMMA NothingHasReasons == Reasons(None)
  BY DEF Reasons, Content, Empty

\* What has a reason goes on having it: accepted keys stay accepted, and strict
\* mode does not change.
LEMMA PinsKept ==
  ASSUME accepted \subseteq accepted', strict' = strict,
         Reasons(file'.data), \A x \in Actors : Reasons(th'[x].seen),
         \A x \in Actors : th'[x].at \in {"acquire"} \cup Locked /\ th'[x].key # None
             => Reason(th'[x].host, th'[x].key) \/ <<th'[x].host, th'[x].key>> \in accepted'
  PROVE  Pinning'
  BY DEF Pinning, Reasons, Reason, Locked

\* One thread goes on with what has a reason.
LEMMA GotoPins ==
  ASSUME TypeOK, Pinning, NEW x \in Actors, NEW r, Goto(x, r),
         accepted \subseteq accepted', strict' = strict,
         Reasons(file'.data), Reasons(r.seen),
         r.at \in {"acquire"} \cup Locked /\ r.key # None
             => Reason(r.host, r.key) \/ <<r.host, r.key>> \in accepted'
  PROVE  Pinning'
  <1>1. \A y \in Actors : th'[y] = IF y = x THEN r ELSE th[y]
    BY DEF TypeOK, Goto
  <1>2. \A y \in Actors : Reasons(th'[y].seen)
    BY <1>1 DEF Pinning
  <1>3. \A y \in Actors : th'[y].at \in {"acquire"} \cup Locked /\ th'[y].key # None
            => Reason(th'[y].host, th'[y].key) \/ <<th'[y].host, th'[y].key>> \in accepted'
    BY <1>1 DEF Pinning
  <1> QED
    BY <1>2, <1>3, PinsKept

\* A thread that neither rewrites nor is about to, with contents it had or the
\* file's, or none.
LEMMA QuietPins ==
  ASSUME TypeOK, Pinning, NEW x \in Actors, NEW r, Goto(x, r),
         r.at \notin {"acquire"} \cup Locked, r.seen \in {None, th[x].seen, file.data},
         UNCHANGED <<file, strict, accepted>>
  PROVE  Pinning'
  <1>1. Reasons(r.seen) /\ Reasons(file'.data)
    BY NothingHasReasons DEF Pinning
  <1> QED
    BY <1>1, GotoPins

\* The steps of a connection up to the key exchange write nothing.
LEMMA ConnectionPins ==
  ASSUME TypeOK, Pinning, NEW x \in Actors,
         (\E h \in Hosts : Connect(x, h)) \/ ReadData(x) \/ ReadSig(x) \/ Wait(x) \/ Unreachable(x)
  PROVE  Pinning'
  <1>1. th[x] \in Thread
    BY DEF TypeOK
  <1>2. ASSUME NEW h \in Hosts, Connect(x, h) PROVE Pinning'
    <2> DEFINE r == [Idle EXCEPT !.at = "check", !.host = h]
    <2>1. r.at = "check" /\ r.seen = None
      BY DEF Idle
    <2> QED
      BY <1>2, <2>1, QuietPins DEF Connect, Locked
  <1>3. CASE ReadData(x)
    <2> DEFINE r == [th[x] EXCEPT
                  !.seen = file.data,
                  !.at   = CASE file.data # None -> IF @ = "check" THEN "checkSig" ELSE "loadSig"
                             [] OTHER            -> IF @ = "check" THEN "wait" ELSE "meet"]
    <2>1. r.at \in {"checkSig", "loadSig", "wait", "meet"} /\ r.seen = file.data
      BY <1>1 DEF Thread
    <2>2. Goto(x, r) /\ UNCHANGED <<file, strict, accepted>>
      BY <1>3 DEF ReadData
    <2> HIDE DEF r
    <2> QED
      BY <2>1, <2>2, QuietPins DEF Locked
  <1>4. CASE ReadSig(x)
    <2>1. CASE Tampered(x)
      <3> DEFINE r == [Idle EXCEPT !.at = IF x = UI THEN "alarm" ELSE "idle"]
      <3>1. r.at \in {"alarm", "idle"} /\ r.seen = None
        BY DEF Idle
      <3>2. Goto(x, r) /\ UNCHANGED <<file, strict, accepted>>
        BY <1>4, <2>1 DEF ReadSig, Tampered
      <3> HIDE DEF r
      <3> QED
        BY <3>1, <3>2, QuietPins DEF Locked
    <2>2. CASE Goto(x, [th[x] EXCEPT !.at = "wait", !.seen = None])
      <3> DEFINE r == [th[x] EXCEPT !.at = "wait", !.seen = None]
      <3>1. r.at = "wait" /\ r.seen = None
        BY <1>1 DEF Thread
      <3> HIDE DEF r
      <3>2. Goto(x, r) /\ UNCHANGED <<file, strict, accepted>>
        BY <1>4, <2>2 DEF ReadSig, r
      <3> QED
        BY <3>1, <3>2, QuietPins DEF Locked
    <2>3. CASE Goto(x, [th[x] EXCEPT !.at = "meet"])
      <3> DEFINE r == [th[x] EXCEPT !.at = "meet"]
      <3>1. r.at = "meet" /\ r.seen = th[x].seen
        BY <1>1 DEF Thread
      <3> HIDE DEF r
      <3>2. Goto(x, r) /\ UNCHANGED <<file, strict, accepted>>
        BY <1>4, <2>3 DEF ReadSig, r
      <3> QED
        BY <3>1, <3>2, QuietPins DEF Locked
    <2> QED
      BY <1>4, <2>1, <2>2, <2>3 DEF ReadSig
  <1>5. CASE Wait(x)
    <2> DEFINE r == [th[x] EXCEPT !.at = "load"]
    <2>1. r.at = "load" /\ r.seen = th[x].seen
      BY <1>1 DEF Thread
    <2> HIDE DEF r
    <2>2. Goto(x, r) /\ UNCHANGED <<file, strict, accepted>>
      BY <1>5 DEF Wait, r
    <2> QED
      BY <2>1, <2>2, QuietPins DEF Locked
  <1>6. CASE Unreachable(x)
    BY <1>6, QuietPins DEF Unreachable, Idle, Locked
  <1> QED
    BY <1>2, <1>3, <1>4, <1>5, <1>6

\* A key that passes at first contact has a reason.
LEMMA MeetPins ==
  ASSUME TypeOK, Pinning, NEW x \in Actors, Meet(x)
  PROVE  Pinning'
  <1>1. UNCHANGED <<file, strict, accepted>>
    BY DEF Meet
  <1>2. PICK k \in Presents[th[x].host] :
           \/ Goto(x, Idle)
           \/ /\ FirstContactPasses(th[x].host, k)
              /\ Goto(x, [Idle EXCEPT !.at = "acquire", !.host = th[x].host, !.key = k])
           \/ \E new \in {k, None} :
                 Goto(x, [Idle EXCEPT !.at = IF x = UI THEN "ask" ELSE "changed",
                                      !.host = th[x].host, !.key = new])
    BY DEF Meet
  <1>3. CASE Goto(x, Idle)
    BY <1>1, <1>3, QuietPins DEF Idle, Locked
  <1>4. CASE /\ FirstContactPasses(th[x].host, k)
             /\ Goto(x, [Idle EXCEPT !.at = "acquire", !.host = th[x].host, !.key = k])
    <2> DEFINE r == [Idle EXCEPT !.at = "acquire", !.host = th[x].host, !.key = k]
    <2>1. r.host = th[x].host /\ r.key = k /\ r.seen = None
      BY DEF Idle
    <2>2. Reason(th[x].host, k)
      BY <1>4 DEF FirstContactPasses, Reason
    <2>3. Goto(x, r)
      BY <1>4
    <2> HIDE DEF r
    <2> QED
      BY <1>1, <2>1, <2>2, <2>3, GotoPins, NothingHasReasons DEF Pinning
  <1>5. ASSUME NEW new \in {k, None},
               Goto(x, [Idle EXCEPT !.at = IF x = UI THEN "ask" ELSE "changed",
                                    !.host = th[x].host, !.key = new])
        PROVE  Pinning'
    <2> DEFINE r == [Idle EXCEPT !.at = IF x = UI THEN "ask" ELSE "changed",
                                 !.host = th[x].host, !.key = new]
    <2>1. r.at \in {"ask", "changed"} /\ r.seen = None
      BY DEF Idle
    <2>2. Goto(x, r)
      BY <1>5
    <2> HIDE DEF r
    <2> QED
      BY <1>1, <2>1, <2>2, QuietPins DEF Locked
  <1> QED
    BY <1>2, <1>3, <1>4, <1>5

\* Whoever holds the lock, or waits for it, goes on with a key that has a reason.
LEMMA ReleasePins ==
  ASSUME TypeOK, Pinning, NEW x \in Actors, th[x].at \in Locked, Release(x),
         Reasons(file'.data), UNCHANGED <<strict, accepted>>
  PROVE  Pinning'
  <1>1. th[x] \in Thread
    BY DEF TypeOK
  <1>2. CASE Goto(x, Idle)
    BY <1>2, GotoPins, NothingHasReasons DEF Idle, Locked
  <1>3. CASE Goto(x, [th[x] EXCEPT !.at = "acquire", !.op = "add", !.seen = None])
    <2> DEFINE r == [th[x] EXCEPT !.at = "acquire", !.op = "add", !.seen = None]
    <2>1. r.host = th[x].host /\ r.key = th[x].key /\ r.seen = None
      BY <1>1 DEF Thread
    <2>2. Goto(x, r)
      BY <1>3
    <2>3. th[x].key # None => Reason(th[x].host, th[x].key)
      BY DEF Pinning
    <2> HIDE DEF r
    <2> QED
      BY <2>1, <2>2, <2>3, GotoPins, NothingHasReasons
  <1> QED
    BY <1>2, <1>3 DEF Release

LEMMA LockPins ==
  ASSUME TypeOK, Pinning, NEW x \in Actors, Acquire(x) \/ Verify(x)
  PROVE  Pinning'
  <1>1. th[x] \in Thread /\ UNCHANGED <<file, strict, accepted>>
    BY DEF TypeOK, Acquire, Verify
  <1>2. th[x].key # None => Reason(th[x].host, th[x].key)
    BY DEF Acquire, Verify, Pinning, Locked
  <1>3. CASE Acquire(x)
    <2> DEFINE r == [th[x] EXCEPT !.seen = file.data,
                                  !.at = IF file.data = None THEN "write" ELSE "verify"]
    <2>1. r.host = th[x].host /\ r.key = th[x].key /\ r.seen = file.data
      BY <1>1 DEF Thread
    <2>2. Goto(x, r)
      BY <1>3 DEF Acquire
    <2> HIDE DEF r
    <2> QED
      BY <1>1, <1>2, <2>1, <2>2, GotoPins DEF Pinning
  <1>4. CASE Verify(x) /\ Goto(x, [th[x] EXCEPT !.at = "write"])
    <2> DEFINE r == [th[x] EXCEPT !.at = "write"]
    <2>1. r.host = th[x].host /\ r.key = th[x].key /\ r.seen = th[x].seen
      BY <1>1 DEF Thread
    <2>2. Goto(x, r)
      BY <1>4
    <2> HIDE DEF r
    <2> QED
      BY <1>1, <1>2, <2>1, <2>2, GotoPins DEF Pinning
  <1>5. CASE Verify(x) /\ Tampered(x)
    <2> DEFINE r == [Idle EXCEPT !.at = IF x = UI THEN "alarm" ELSE "idle"]
    <2>1. r.at \in {"alarm", "idle"} /\ r.seen = None
      BY DEF Idle
    <2>2. Goto(x, r)
      BY <1>5 DEF Tampered
    <2> HIDE DEF r
    <2> QED
      BY <1>1, <2>1, <2>2, QuietPins DEF Locked
  <1> QED
    BY <1>3, <1>4, <1>5 DEF Verify

\* What is written has reasons: what was read, and the one key.
LEMMA NewContentPins ==
  ASSUME TypeOK, Pinning, NEW x \in Actors, th[x].at = "write"
  PROVE  Reasons(NewContent(x))
  <1>1. Content(th[x].seen) \in [Hosts -> Keys \cup {None}]
    BY ContentType DEF TypeOK, Thread, Contents
  <1>2. Content(NewContent(x)) = NewContent(x)
    BY NewContentType, NoneAssumption DEF Content
  <1>3. \A h \in Hosts : NewContent(x)[h] \in {Content(th[x].seen)[h], None}
                        \/ (h = th[x].host /\ NewContent(x)[h] = th[x].key)
    BY <1>1 DEF NewContent
  <1> QED
    BY <1>2, <1>3 DEF Pinning, Reasons, Locked

LEMMA WritePins ==
  ASSUME TypeOK, Pinning, NEW x \in Actors, Write(x) \/ Sign(x)
  PROVE  Pinning'
  <1>1. th[x] \in Thread /\ UNCHANGED <<strict, accepted>>
    BY DEF TypeOK, Write, Sign
  <1>2. CASE Write(x) /\ Release(x) /\ UNCHANGED file
    BY <1>1, <1>2, ReleasePins DEF Write, Locked, Pinning
  <1>3. CASE Write(x) /\ file' = WithData(file, NewContent(x))
             /\ Goto(x, [th[x] EXCEPT !.at = "sign", !.seen = NewContent(x)])
    <2> DEFINE r == [th[x] EXCEPT !.at = "sign", !.seen = NewContent(x)]
    <2>1. r.host = th[x].host /\ r.key = th[x].key /\ r.seen = NewContent(x)
      BY <1>1 DEF Thread
    <2>2. Goto(x, r)
      BY <1>3
    <2> HIDE DEF r
    <2>3. Reasons(NewContent(x)) /\ file'.data = NewContent(x)
      BY <1>3, NewContentPins, NewContentType, FileType DEF Write
    <2>4. th[x].key # None => Reason(th[x].host, th[x].key)
      BY <1>3 DEF Write, Pinning, Locked
    <2> QED
      BY <1>1, <2>1, <2>2, <2>3, <2>4, GotoPins
  <1>4. CASE Sign(x)
    <2>1. file'.data = file.data
      BY <1>1, <1>4, FileType DEF Sign, Thread
    <2> QED
      BY <1>1, <1>4, <2>1, ReleasePins DEF Sign, Locked, Pinning
  <1> QED
    BY <1>2, <1>3, <1>4 DEF Write

\* A dialog accepts the key before it is written, or writes nothing.
LEMMA DialogPins ==
  ASSUME TypeOK, Pinning, (\E x \in Actors : Ask(x)) \/ Dialogs
  PROVE  Pinning'
  <1>0. UI \in Actors /\ th[UI] \in Thread
    BY DEF TypeOK, Actors
  <1>1. ASSUME NEW x \in Actors, Ask(x) PROVE Pinning'
    <2>1. th[x] \in Thread /\ UNCHANGED <<file, strict, accepted>>
      BY <1>1 DEF TypeOK, Ask
    <2> DEFINE r == [th[x] EXCEPT !.at = "ask"]
    <2>2. r.at = "ask" /\ r.seen = th[x].seen
      BY <2>1 DEF Thread
    <2>3. th' = [th EXCEPT ![x] = Idle, ![UI] = r]
      BY <1>1 DEF Ask
    <2> HIDE DEF r
    <2>4. \A y \in Actors : th'[y] \in {th[y], Idle, r}
      BY <2>3 DEF TypeOK
    <2>5. Idle.at = "idle" /\ Idle.seen = None
      BY DEF Idle
    <2>6. \A y \in Actors : Reasons(th'[y].seen)
      BY <2>2, <2>4, <2>5, NothingHasReasons DEF Pinning
    <2>7. \A y \in Actors : th'[y].at \in {"acquire"} \cup Locked /\ th'[y].key # None
              => Reason(th'[y].host, th'[y].key)
      BY <2>2, <2>4, <2>5 DEF Pinning, Locked
    <2> QED
      BY <2>1, <2>6, <2>7, PinsKept DEF Pinning
  <1>2. CASE Accept
    <2> DEFINE r == [th[UI] EXCEPT !.at = "acquire", !.op = "remove"]
    <2>1. r.host = th[UI].host /\ r.key = th[UI].key /\ r.seen = th[UI].seen
      BY <1>0 DEF Thread
    <2>2. Goto(UI, r) /\ UNCHANGED <<file, strict>> /\ accepted \subseteq accepted'
          /\ (th[UI].key # None => <<th[UI].host, th[UI].key>> \in accepted')
      BY <1>2 DEF Accept
    <2> HIDE DEF r
    <2> QED
      BY <1>0, <2>1, <2>2, GotoPins DEF Pinning
  <1>3. CASE KeepBlocked
    BY <1>0, <1>3, QuietPins DEF KeepBlocked, Idle, Locked
  <1>4. CASE TrustFile
    <2> DEFINE r == [th[UI] EXCEPT !.at = "rewrite", !.seen = file.data]
    <2>1. r.at = "rewrite" /\ r.seen = file.data
      BY <1>0 DEF Thread
    <2>2. Goto(UI, r) /\ UNCHANGED <<file, strict, accepted>>
      BY <1>4 DEF TrustFile
    <2> HIDE DEF r
    <2> QED
      BY <1>0, <2>1, <2>2, QuietPins DEF Locked
  <1> QED
    BY <1>1, <1>2, <1>3, <1>4 DEF Dialogs

\* Trusting the file writes what was read of it.
LEMMA TrustPins ==
  ASSUME TypeOK, Pinning, Trusts
  PROVE  Pinning'
  <1>0. UI \in Actors /\ th[UI] \in Thread
    BY DEF TypeOK, Actors
  <1>1. CASE Rewrite
    <2> DEFINE r == [th[UI] EXCEPT !.at = "resign"]
    <2>1. r.at = "resign" /\ r.seen = th[UI].seen
      BY <1>0 DEF Thread
    <2>2. Goto(UI, r) /\ UNCHANGED <<strict, accepted>> /\ file'.data = th[UI].seen
      BY <1>0, <1>1, FileType DEF Rewrite, Thread
    <2> HIDE DEF r
    <2> QED
      BY <1>0, <2>1, <2>2, GotoPins DEF Pinning, Locked
  <1>2. CASE Resign
    <2>1. file'.data = file.data /\ UNCHANGED <<strict, accepted>> /\ Goto(UI, Idle)
      BY <1>0, <1>2, FileType DEF Resign, Thread
    <2> QED
      BY <1>0, <2>1, GotoPins, NothingHasReasons DEF Pinning, Idle, Locked
  <1> QED
    BY <1>1, <1>2 DEF Trusts

LEMMA PinningStep == TypeOK /\ Pinning /\ [Next]_vars => Pinning'
  <1> SUFFICES ASSUME TypeOK, Pinning, [Next]_vars
               PROVE  Pinning'
    OBVIOUS
  <1>1. CASE UNCHANGED vars
    BY <1>1, PinsKept DEF vars, Pinning
  <1>2. CASE Restart
    <2>1. \A x \in Actors : th'[x].at = "idle" /\ th'[x].seen = None
      BY <1>2 DEF Restart, Idle
    <2> QED
      BY <1>2, <2>1, PinsKept, NothingHasReasons DEF Restart, Pinning, Locked
  <1> QED
    BY <1>1, <1>2, ConnectionPins, MeetPins, LockPins, WritePins, DialogPins, TrustPins DEF Next, Goes

LEMMA PinningInit == Init => Pinning
  <1> SUFFICES ASSUME Init PROVE Pinning
    OBVIOUS
  <1>1. file.data = None /\ \A x \in Actors : th[x].at = "idle" /\ th[x].seen = None
    BY DEF Init, NoFile, Idle
  <1> QED
    BY <1>1, NothingHasReasons DEF Pinning, Locked

\* THEOREM: a key is pinned because the user chose it, because the user's own
\* ssh knows it, or at a first contact that strict mode does not ask about and
\* ssh knows nothing of; whatever threads meet, dialogs answer and restarts
\* cut short, for any threads, hosts and keys.
THEOREM PinsHaveReasons == Spec => []PinsAreJustified
  <1>1. Pinning => PinsAreJustified
    BY DEF Pinning, Reasons, Reason, PinsAreJustified
  <1> QED
    BY <1>1, InitType, StepType, PinningInit, PinningStep, PTL DEF Spec
=============================================================================
