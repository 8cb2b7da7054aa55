---------------------------- MODULE Stores_proofs ---------------------------
(***************************************************************************)
(* Proofs about the stores of the program, which share no state.           *)
(*                                                                         *)
(* The integrity key, for any threads, files and keys: every reachable     *)
(* state is well typed, no key that signed a file is lost by a move cut    *)
(* short, what was recorded as adopted is not adopted again unless the     *)
(* record itself was cut short, and the keyring is asked by one thread at  *)
(* a time.                                                                 *)
(*                                                                         *)
(* hosts.json, for any hosts, users and connecting threads: what an edit   *)
(* saves is that edit made to the file, unless a connecting thread         *)
(* replaced the profiles under it, and no edit signs what another program  *)
(* wrote.                                                                  *)
(*                                                                         *)
(* The register of devices, for any addresses, scans and profiles: nothing *)
(* is known that nobody vouched for, nothing accepted is forgotten, and    *)
(* what is told of an address is what scans saw at it.  A scan is gone     *)
(* through host by host: what holds of the register holds after each.      *)
(*                                                                         *)
(* The log of a disk, for drives of any age read in any way: every rise is *)
(* notified and reported, nothing recorded is taken back, and where the    *)
(* formats round alike a new entry means that the drive changed.           *)
(***************************************************************************)
EXTENDS Vault, Profiles, Devices, SmartHistory, FiniteSetTheorems, SequenceTheorems,
        WellFoundedInduction, TLAPS

---------------------------------------------------------------------------
(* The vault (services/vault.py). *)

\* Where a thread holds the vault's lock.
Inside == {"load", "unlink", "adopt", "save"}

---------------------------------------------------------------------------
(* The inductive invariant. *)

\* Who is inside holds the lock.
LockIsHeld == \A t \in Askers : ask[t].at \in Inside => vlock = t

\* Between the two halves of a move the key is in both places.
MoveIsCopy == \A t \in Askers : ask[t].at = "unlink" => ring # NoKey /\ keyFile = ring

\* Files are adopted once there is a key, and only those without a record.
AdoptsWithKey == \A t \in Askers : ask[t].at \in {"adopt", "save"} => key # NoKey
AdoptsNew     == \A t \in Askers : ask[t].at = "adopt" => ask[t].todo \cap record[where] = {}

\* A record that was saved is still there, unless a write cut short lost it.
RecordsStay ==
    \A p \in Places, n \in Names :
        <<p, n>> \in recorded => n \in record[p] \/ (p = "file" /\ n \in lost)

VaultInv ==
    /\ VaultTypeOK /\ LockIsHeld /\ MoveIsCopy /\ AdoptsWithKey /\ AdoptsNew
    /\ RecordsStay /\ KeysAreKept

---------------------------------------------------------------------------
(* What the operators keep. *)

AskState == [at   : {"idle", "ask", "load", "unlink", "adopt", "save"},
             todo : SUBSET Names]

\* A thread's step is its own.
LEMMA StepIsOwn ==
    ASSUME VaultTypeOK, NEW t \in Askers, NEW at, NEW todo, Step(t, at, todo)
    PROVE  /\ ask'[t] = [at |-> at, todo |-> todo]
           /\ \A u \in Askers \ {t} : ask'[u] = ask[u]
           /\ [at |-> at, todo |-> todo] \in AskState => ask' \in [Askers -> AskState]
  BY DEF VaultTypeOK, Step, AskState

\* A thread that returns leaves the lock to anyone; nobody else was inside.
LEMMA ReturnKeeps ==
    ASSUME VaultInv, NEW t \in Askers, Return(t),
           vlock = NoKey \/ vlock = t
    PROVE  /\ ask' \in [Askers -> AskState] /\ vlock' \in Askers \cup {NoKey}
           /\ \A u \in Askers : ask'[u].at \notin Inside
  <1>1. /\ ask'[t] = [at |-> "idle", todo |-> {}]
        /\ \A u \in Askers \ {t} : ask'[u] = ask[u]
        /\ ask' \in [Askers -> AskState]
    BY StepIsOwn DEF VaultInv, Return, AskState
  <1>2. vlock' = NoKey
    BY DEF Return
  <1>3. \A u \in Askers \ {t} : ask[u].at \notin Inside
    BY VaultAssumption DEF VaultInv, LockIsHeld
  <1> QED
    BY <1>1, <1>2, <1>3 DEF Inside

\* A new session has nobody inside, and no key.
LEMMA SessionIsNew ==
    ASSUME NewSession
    PROVE  /\ keyring' \in BOOLEAN /\ key' = NoKey /\ where' \in Places /\ declined' \in {"no", "recent"}
           /\ names' \subseteq Names /\ vlock' \in Askers \cup {NoKey}
           /\ ask' \in [Askers -> AskState]
           /\ \A u \in Askers : ask'[u].at \notin Inside
  BY DEF NewSession, NotAsking, AskState, Inside, Places

\* An unlocking thread goes on to adopt; the key is typed.
LEMMA UnlockedKeeps ==
    ASSUME VaultInv, NEW t \in Askers, NEW k \in IntKeys, NEW place \in Places,
           Unlocked(t, k, place), vlock = t
    PROVE  /\ key' = k /\ where' = place /\ declined' \in {"no", "recent"} /\ keyring' = keyring
           /\ names' = names /\ vlock' = t /\ record' = record /\ disk' = disk /\ recorded' = recorded /\ lost' = lost
           /\ ask' \in [Askers -> AskState]
           /\ ask'[t] = [at |-> "adopt", todo |-> names \ record[place]]
           /\ \A u \in Askers \ {t} : ask'[u].at \notin Inside
  <1>1. names \ record[place] \in SUBSET Names
    BY DEF VaultInv, VaultTypeOK
  <1>2. /\ ask'[t] = [at |-> "adopt", todo |-> names \ record[place]]
        /\ \A u \in Askers \ {t} : ask'[u] = ask[u]
        /\ ask' \in [Askers -> AskState]
    BY <1>1, StepIsOwn DEF VaultInv, Unlocked, AskState
  <1>3. \A u \in Askers \ {t} : ask[u].at \notin Inside
    BY DEF VaultInv, LockIsHeld
  <1> QED
    BY <1>2, <1>3 DEF Unlocked

---------------------------------------------------------------------------
(* Every step keeps the invariant. *)

\* The first states hold at most the key of hmac.key.
LEMMA VaultInitHolds == VaultInit => VaultInv
  <1> SUFFICES ASSUME VaultInit PROVE VaultInv
    OBVIOUS
  <1>1. VaultTypeOK
    BY DEF VaultInit, VaultTypeOK, NotAsking, Places
  <1>2. LockIsHeld /\ MoveIsCopy /\ AdoptsWithKey /\ AdoptsNew /\ RecordsStay
    BY DEF VaultInit, NotAsking, LockIsHeld, MoveIsCopy, AdoptsWithKey, AdoptsNew, RecordsStay, Inside
  <1>3. KeysAreKept
    BY VaultAssumption DEF VaultInit, KeysAreKept
  <1> QED
    BY <1>1, <1>2, <1>3 DEF VaultInv

\* What is on the disk is left as it is, and so are key and place.
LEMMA QuietStep ==
    ASSUME VaultInv, UNCHANGED onDisk, UNCHANGED <<key, where>>,
           keyring' \in BOOLEAN, declined' \in {"no", "recent"}, names' \subseteq Names,
           vlock' \in Askers \cup {NoKey}, ask' \in [Askers -> AskState],
           LockIsHeld', AdoptsNew',
           \A t \in Askers : ask'[t].at \in Inside =>
              \/ ask'[t].at = ask[t].at
              \/ ask'[t].at = "load"
              \/ ask'[t].at = "adopt" /\ key # NoKey
    PROVE  VaultInv'
  <1>1. VaultTypeOK'
    BY DEF VaultInv, VaultTypeOK, onDisk, AskState
  <1>2. MoveIsCopy' /\ AdoptsWithKey'
    BY DEF VaultInv, MoveIsCopy, AdoptsWithKey, onDisk, Inside
  <1>3. RecordsStay' /\ KeysAreKept'
    BY DEF VaultInv, RecordsStay, KeysAreKept, onDisk
  <1> QED
    BY <1>1, <1>2, <1>3 DEF VaultInv

\* Nobody is inside after the step, and nothing that was kept is lost.
LEMMA OutsideStep ==
    ASSUME VaultInv, VaultTypeOK', KeysAreKept', RecordsStay',
           \A u \in Askers : ask'[u].at \notin Inside
    PROVE  VaultInv'
  BY DEF VaultInv, LockIsHeld, MoveIsCopy, AdoptsWithKey, AdoptsNew, Inside

LEMMA AskKeyKeeps ==
    ASSUME VaultInv, NEW t \in Askers, AskKey(t) PROVE VaultInv'
  <1>1. /\ ask'[t] = [at |-> "ask", todo |-> {}]
        /\ \A u \in Askers \ {t} : ask'[u] = ask[u]
        /\ ask' \in [Askers -> AskState]
    BY StepIsOwn DEF VaultInv, AskKey, AskState
  <1>2. UNCHANGED <<vlock, onDisk, session>>
    BY DEF AskKey
  <1>3. LockIsHeld' /\ AdoptsNew'
    BY <1>1, <1>2 DEF VaultInv, LockIsHeld, AdoptsNew, Inside, session, onDisk
  <1> QED
    BY <1>1, <1>2, <1>3, QuietStep DEF VaultInv, VaultTypeOK, session, Inside

LEMMA EnterKeeps ==
    ASSUME VaultInv, NEW t \in Askers, Enter(t) PROVE VaultInv'
  <1>1. vlock = NoKey /\ UNCHANGED <<onDisk, session>>
    BY DEF Enter
  <1>2. CASE Return(t)
    <2>1. /\ ask' \in [Askers -> AskState] /\ vlock' \in Askers \cup {NoKey}
          /\ \A u \in Askers : ask'[u].at \notin Inside
      BY <1>1, <1>2, ReturnKeeps
    <2>2. LockIsHeld' /\ AdoptsNew'
      BY <2>1 DEF LockIsHeld, AdoptsNew, Inside
    <2> QED
      BY <1>1, <2>1, <2>2, QuietStep DEF VaultInv, VaultTypeOK, session
  <1>3. CASE Step(t, "load", {}) /\ vlock' = t
    <2>1. /\ ask'[t] = [at |-> "load", todo |-> {}]
          /\ \A u \in Askers \ {t} : ask'[u] = ask[u]
          /\ ask' \in [Askers -> AskState]
      BY <1>3, StepIsOwn DEF VaultInv, AskState
    <2>2. \A u \in Askers : ask[u].at \notin Inside
      BY <1>1, VaultAssumption DEF VaultInv, LockIsHeld
    <2>3. LockIsHeld' /\ AdoptsNew'
      BY <1>3, <2>1, <2>2 DEF LockIsHeld, AdoptsNew, Inside
    <2> QED
      BY <1>1, <1>3, <2>1, <2>2, <2>3, QuietStep DEF VaultInv, VaultTypeOK, session
  <1> QED
    BY <1>2, <1>3 DEF Enter

LEMMA RegisterKeeps ==
    ASSUME VaultInv, NEW t \in Askers, NEW n \in Names, Register(t, n) PROVE VaultInv'
  <1>1. /\ vlock = NoKey /\ UNCHANGED <<keyring, key, where, declined, onDisk>>
        /\ names' = names \cup {n}
    BY DEF Register
  <1>2. names' \subseteq Names
    BY <1>1 DEF VaultInv, VaultTypeOK
  <1>3. CASE Return(t)
    <2>1. /\ ask' \in [Askers -> AskState] /\ vlock' \in Askers \cup {NoKey}
          /\ \A u \in Askers : ask'[u].at \notin Inside
      BY <1>1, <1>3, ReturnKeeps
    <2>2. LockIsHeld' /\ AdoptsNew'
      BY <2>1 DEF LockIsHeld, AdoptsNew, Inside
    <2> QED
      BY <1>1, <1>2, <2>1, <2>2, QuietStep DEF VaultInv, VaultTypeOK
  <1>4. CASE key # NoKey /\ Step(t, "adopt", names' \ record[where]) /\ vlock' = t
    <2>1. /\ ask'[t] = [at |-> "adopt", todo |-> names' \ record[where]]
          /\ \A u \in Askers \ {t} : ask'[u] = ask[u]
          /\ ask' \in [Askers -> AskState]
      BY <1>2, <1>4, StepIsOwn DEF VaultInv, AskState
    <2>2. \A u \in Askers : ask[u].at \notin Inside
      BY <1>1, VaultAssumption DEF VaultInv, LockIsHeld
    <2>3. LockIsHeld' /\ AdoptsNew'
      BY <1>1, <1>4, <2>1, <2>2 DEF LockIsHeld, AdoptsNew, Inside, onDisk
    <2> QED
      BY <1>1, <1>2, <1>4, <2>1, <2>2, <2>3, QuietStep DEF VaultInv, VaultTypeOK
  <1> QED
    BY <1>3, <1>4 DEF Register

LEMMA CooldownKeeps ==
    ASSUME VaultInv, CooldownEnds PROVE VaultInv'
  <1>1. UNCHANGED <<keyring, key, where, names, vlock, ask, onDisk>> /\ declined' = "no"
    BY DEF CooldownEnds
  <1>2. LockIsHeld' /\ AdoptsNew'
    BY <1>1 DEF VaultInv, LockIsHeld, AdoptsNew, onDisk
  <1> QED
    BY <1>1, <1>2, QuietStep DEF VaultInv, VaultTypeOK, AskState

\* A thread that has the key may unlock as long as no place loses a key.
LEMMA UnlockedStep ==
    ASSUME VaultInv, NEW t \in Askers, NEW k \in IntKeys, NEW place \in Places,
           Unlocked(t, k, place), vlock = t,
           ring' \in IntKeys \cup {NoKey}, keyFile' \in IntKeys \cup {NoKey}, unsaved' \subseteq IntKeys,
           k \in {ring', keyFile'} \cup unsaved',
           \A x \in IntKeys \cap ({ring, keyFile} \cup unsaved) : x \in {ring', keyFile'} \cup unsaved'
    PROVE  VaultInv'
  <1>1. /\ key' = k /\ where' = place /\ declined' \in {"no", "recent"} /\ keyring' = keyring
        /\ names' = names /\ vlock' = t /\ record' = record /\ disk' = disk /\ recorded' = recorded /\ lost' = lost
        /\ ask' \in [Askers -> AskState]
        /\ ask'[t] = [at |-> "adopt", todo |-> names \ record[place]]
        /\ \A u \in Askers \ {t} : ask'[u].at \notin Inside
    BY UnlockedKeeps
  <1>2. VaultTypeOK'
    BY <1>1 DEF VaultInv, VaultTypeOK, AskState
  <1>3. LockIsHeld' /\ MoveIsCopy' /\ AdoptsNew'
    BY <1>1 DEF LockIsHeld, MoveIsCopy, AdoptsNew, Inside
  <1>4. AdoptsWithKey'
    BY <1>1, VaultAssumption DEF AdoptsWithKey
  <1>5. RecordsStay'
    BY <1>1 DEF VaultInv, RecordsStay
  <1>6. KeysAreKept'
    BY <1>1 DEF VaultInv, KeysAreKept
  <1> QED
    BY <1>2, <1>3, <1>4, <1>5, <1>6 DEF VaultInv

\* A refused thread leaves; the rest stays, or the keyring was given a key.
LEMMA RefusalStep ==
    ASSUME VaultInv, NEW t \in Askers, Refusal(t), vlock = t,
           ring' \in IntKeys \cup {NoKey}, ring # NoKey => ring' = ring, UNCHANGED <<keyFile, unsaved>>
    PROVE  VaultInv'
  <1>1. /\ ask' \in [Askers -> AskState] /\ vlock' \in Askers \cup {NoKey}
        /\ \A u \in Askers : ask'[u].at \notin Inside
    BY ReturnKeeps DEF Refusal
  <1>2. declined' = "recent" /\ UNCHANGED <<keyring, key, where, names, record, disk, recorded, lost>>
    BY DEF Refusal
  <1>3. VaultTypeOK'
    BY <1>1, <1>2 DEF VaultInv, VaultTypeOK, AskState
  <1>4. KeysAreKept' /\ RecordsStay'
    BY <1>2, VaultAssumption DEF VaultInv, KeysAreKept, RecordsStay
  <1> QED
    BY <1>1, <1>3, <1>4, OutsideStep

LEMMA LoadFileKeeps ==
    ASSUME VaultInv, NEW t \in Askers, LoadFile(t) PROVE VaultInv'
  <1>1. vlock = t /\ ring' = ring
    BY DEF VaultInv, LockIsHeld, LoadFile, Inside
  <1>2. CASE keyFile # NoKey /\ Unlocked(t, keyFile, "file") /\ UNCHANGED <<keyFile, unsaved>>
    <2>1. keyFile \in IntKeys
      BY <1>2 DEF VaultInv, VaultTypeOK
    <2> QED
      BY <1>1, <1>2, <2>1, UnlockedStep DEF VaultInv, VaultTypeOK, Places
  <1>3. ASSUME NEW k \in Fresh, keyFile = NoKey, Unlocked(t, k, "file"),
               \/ keyFile' = k /\ UNCHANGED unsaved
               \/ keyFile' = NoKey /\ unsaved' = unsaved \cup {k}
        PROVE  VaultInv'
    <2>1. k \in IntKeys
      BY <1>3 DEF Fresh
    <2>2. ring' \in IntKeys \cup {NoKey} /\ keyFile' \in IntKeys \cup {NoKey} /\ unsaved' \subseteq IntKeys
      BY <1>1, <1>3, <2>1 DEF VaultInv, VaultTypeOK
    <2>3. \A x \in IntKeys \cap ({ring, keyFile} \cup unsaved) : x \in {ring', keyFile'} \cup unsaved'
      BY <1>1, <1>3, VaultAssumption
    <2> QED
      BY <1>1, <1>3, <2>1, <2>2, <2>3, UnlockedStep DEF Places
  <1> QED
    BY <1>2, <1>3 DEF LoadFile

LEMMA KeyringGivesKeeps ==
    ASSUME VaultInv, NEW t \in Askers, KeyringGives(t) PROVE VaultInv'
  <1>1. vlock = t /\ UNCHANGED <<ring, unsaved>> /\ Unlocked(t, ring, "keyring")
    BY DEF VaultInv, LockIsHeld, KeyringGives, Inside
  <1>2. ring \in IntKeys
    BY DEF VaultInv, VaultTypeOK, KeyringGives
  <1>3. keyFile' = NoKey \/ keyFile' = keyFile
    BY DEF KeyringGives
  <1>4. keyFile' # keyFile => keyFile = ring
    BY DEF KeyringGives, Leftover
  <1> QED
    BY <1>1, <1>2, <1>3, <1>4, UnlockedStep DEF VaultInv, VaultTypeOK, Places

\* A move begins, or the keyring is given a new key.
LEMMA KeyringStoresKeeps ==
    ASSUME VaultInv, NEW t \in Askers, KeyringStores(t) PROVE VaultInv'
  <1>1. vlock = t /\ ring = NoKey /\ UNCHANGED <<keyFile, unsaved>>
    BY DEF VaultInv, LockIsHeld, KeyringStores, Inside
  <1>2. CASE /\ keyFile # NoKey /\ ring' = keyFile /\ Step(t, "unlink", {})
             /\ UNCHANGED <<key, where, declined, keyring, names, vlock, record, disk, recorded, lost>>
    <2>1. /\ ask'[t] = [at |-> "unlink", todo |-> {}]
          /\ \A u \in Askers \ {t} : ask'[u] = ask[u]
          /\ ask' \in [Askers -> AskState]
      BY <1>2, StepIsOwn DEF VaultInv, AskState
    <2>2. \A u \in Askers \ {t} : ask'[u].at \notin Inside
      BY <1>1, <2>1 DEF VaultInv, LockIsHeld
    <2>3. VaultTypeOK'
      BY <1>1, <1>2, <2>1 DEF VaultInv, VaultTypeOK, AskState
    <2>4. LockIsHeld' /\ MoveIsCopy' /\ AdoptsWithKey' /\ AdoptsNew'
      BY <1>1, <1>2, <2>1, <2>2 DEF LockIsHeld, MoveIsCopy, AdoptsWithKey, AdoptsNew, Inside
    <2>5. RecordsStay' /\ KeysAreKept'
      BY <1>1, <1>2, VaultAssumption DEF VaultInv, RecordsStay, KeysAreKept
    <2> QED
      BY <2>3, <2>4, <2>5 DEF VaultInv
  <1>3. ASSUME NEW k \in Fresh, keyFile = NoKey, ring' = k, Unlocked(t, k, "keyring") \/ Refusal(t)
        PROVE  VaultInv'
    <2>1. k \in IntKeys
      BY <1>3 DEF Fresh
    <2>2. CASE Refusal(t)
      BY <1>1, <1>3, <2>1, <2>2, RefusalStep
    <2>3. CASE Unlocked(t, k, "keyring")
      <3>1. keyFile' \in IntKeys \cup {NoKey} /\ unsaved' \subseteq IntKeys
        BY <1>1 DEF VaultInv, VaultTypeOK
      <3>2. \A x \in IntKeys \cap ({ring, keyFile} \cup unsaved) : x \in {ring', keyFile'} \cup unsaved'
        BY <1>1, <1>3, VaultAssumption
      <3> QED
        BY <1>1, <1>3, <2>1, <2>3, <3>1, <3>2, UnlockedStep DEF Places
    <2> QED
      BY <1>3, <2>2, <2>3
  <1> QED
    BY <1>2, <1>3 DEF KeyringStores

LEMMA UnlinkKeeps ==
    ASSUME VaultInv, NEW t \in Askers, Unlink(t) PROVE VaultInv'
  <1>1. vlock = t /\ ring # NoKey /\ keyFile = ring
    BY DEF VaultInv, LockIsHeld, MoveIsCopy, Unlink, Inside
  <1>2. ring \in IntKeys
    BY <1>1 DEF VaultInv, VaultTypeOK
  <1>3. UNCHANGED <<ring, unsaved>> /\ keyFile' \in {NoKey, keyFile} /\ Unlocked(t, ring, "keyring")
    BY DEF Unlink
  <1> QED
    BY <1>1, <1>2, <1>3, UnlockedStep DEF VaultInv, VaultTypeOK, Places

LEMMA KeyringRefusesKeeps ==
    ASSUME VaultInv, NEW t \in Askers, KeyringRefuses(t) PROVE VaultInv'
  <1>1. vlock = t /\ UNCHANGED <<ring, keyFile, unsaved>> /\ Refusal(t)
    BY DEF VaultInv, LockIsHeld, KeyringRefuses, Inside
  <1> QED
    BY <1>1, RefusalStep DEF VaultInv, VaultTypeOK

\* A file that is adopted is signed with the key of the session.
LEMMA AdoptKeeps ==
    ASSUME VaultInv, NEW t \in Askers, NEW n \in Names, Adopt(t, n) PROVE VaultInv'
  <1>1. /\ vlock = t /\ key # NoKey /\ ask[t].todo \cap record[where] = {} /\ n \in ask[t].todo
        /\ UNCHANGED <<ring, keyFile, record, unsaved, recorded, lost, session>>
    BY DEF VaultInv, LockIsHeld, AdoptsWithKey, AdoptsNew, Adopt, Inside
  <1>2. CASE Return(t) /\ UNCHANGED disk
    <2>1. /\ ask' \in [Askers -> AskState] /\ vlock' \in Askers \cup {NoKey}
          /\ \A u \in Askers : ask'[u].at \notin Inside
      BY <1>1, <1>2, ReturnKeeps
    <2>2. VaultTypeOK'
      BY <1>1, <1>2, <2>1 DEF VaultInv, VaultTypeOK, AskState, session
    <2>3. KeysAreKept' /\ RecordsStay'
      BY <1>1, <1>2 DEF VaultInv, KeysAreKept, RecordsStay, session
    <2> QED
      BY <2>1, <2>2, <2>3, OutsideStep
  <1>3. ASSUME disk' = [disk EXCEPT ![n] = IF @ = "bare" THEN key ELSE @], UNCHANGED vlock,
               NEW at \in {"save", "adopt"}, NEW todo \in SUBSET ask[t].todo, Step(t, at, todo)
        PROVE  VaultInv'
    <2>1. [at |-> at, todo |-> todo] \in AskState
      BY DEF VaultInv, VaultTypeOK, AskState
    <2>2. /\ ask'[t] = [at |-> at, todo |-> todo]
          /\ \A u \in Askers \ {t} : ask'[u] = ask[u]
          /\ ask' \in [Askers -> AskState]
      BY <1>3, <2>1, StepIsOwn DEF VaultInv
    <2>3. \A u \in Askers \ {t} : ask'[u].at \notin Inside
      BY <1>1, <2>2 DEF VaultInv, LockIsHeld
    <2>4. VaultTypeOK'
      BY <1>1, <1>3, <2>2 DEF VaultInv, VaultTypeOK, AskState, session
    <2>5. LockIsHeld' /\ MoveIsCopy' /\ AdoptsWithKey' /\ AdoptsNew'
      BY <1>1, <1>3, <2>2, <2>3 DEF LockIsHeld, MoveIsCopy, AdoptsWithKey, AdoptsNew, Inside, session
    <2>6. RecordsStay'
      BY <1>1 DEF VaultInv, RecordsStay
    <2>7. \A m \in Names : disk'[m] \in {disk[m], key}
      BY <1>3 DEF VaultInv, VaultTypeOK
    <2>8. KeysAreKept'
      BY <1>1, <2>7 DEF VaultInv, KeysAreKept, session
    <2> QED
      BY <2>4, <2>5, <2>6, <2>8 DEF VaultInv
  <1>4. CASE /\ disk' = [disk EXCEPT ![n] = IF @ = "bare" THEN key ELSE @]
             /\ IF ask[t].todo = {n} THEN Step(t, "save", {}) ELSE Step(t, "adopt", ask[t].todo \ {n})
             /\ UNCHANGED vlock
    <2>1. {} \in SUBSET ask[t].todo /\ ask[t].todo \ {n} \in SUBSET ask[t].todo
      OBVIOUS
    <2> QED
      BY <1>3, <1>4, <2>1
  <1> QED
    BY <1>2, <1>4 DEF Adopt

LEMMA AdoptNothingKeeps ==
    ASSUME VaultInv, NEW t \in Askers, AdoptNothing(t) PROVE VaultInv'
  <1>1. vlock = t /\ Return(t) /\ UNCHANGED <<onDisk, session>>
    BY DEF VaultInv, LockIsHeld, AdoptNothing, Inside
  <1>2. /\ ask' \in [Askers -> AskState] /\ vlock' \in Askers \cup {NoKey}
        /\ \A u \in Askers : ask'[u].at \notin Inside
    BY <1>1, ReturnKeeps
  <1>3. VaultTypeOK'
    BY <1>1, <1>2 DEF VaultInv, VaultTypeOK, AskState, session, onDisk
  <1>4. KeysAreKept' /\ RecordsStay'
    BY <1>1 DEF VaultInv, KeysAreKept, RecordsStay, session, onDisk
  <1> QED
    BY <1>2, <1>3, <1>4, OutsideStep

\* A record only grows, unless the write of its file is cut short.
LEMMA SaveRecordKeeps ==
    ASSUME VaultInv, NEW t \in Askers, SaveRecord(t) PROVE VaultInv'
  <1>1. vlock = t /\ Return(t) /\ UNCHANGED <<ring, keyFile, disk, unsaved, session>>
    BY DEF VaultInv, LockIsHeld, SaveRecord, Inside
  <1>2. /\ ask' \in [Askers -> AskState] /\ vlock' \in Askers \cup {NoKey}
        /\ \A u \in Askers : ask'[u].at \notin Inside
    BY <1>1, ReturnKeeps
  <1>3. NewRecord \subseteq Names /\ record[where] \subseteq NewRecord /\ where \in Places
    BY DEF VaultInv, VaultTypeOK, NewRecord
  <1>4. record' \in [Places -> SUBSET Names] /\ recorded' \subseteq Places \X Names /\ lost' \subseteq Names
    BY <1>3 DEF VaultInv, VaultTypeOK, SaveRecord, Places
  <1>5. VaultTypeOK'
    BY <1>1, <1>2, <1>4 DEF VaultInv, VaultTypeOK, AskState, session
  <1>6. KeysAreKept'
    BY <1>1 DEF VaultInv, KeysAreKept, session
  <1>7. RecordsStay'
    <2>1. CASE record' = [record EXCEPT ![where] = NewRecord]
               /\ recorded' = recorded \cup ({where} \X NewRecord)
               /\ lost' = IF where = "file" THEN lost \ NewRecord ELSE lost
      BY <1>3, <2>1 DEF VaultInv, VaultTypeOK, RecordsStay
    <2>2. CASE UNCHANGED <<record, recorded, lost>>
      BY <2>2 DEF VaultInv, RecordsStay
    <2>3. CASE record' = [record EXCEPT !["file"] = {}] /\ lost' = lost \cup record["file"] /\ UNCHANGED recorded
      BY <2>3 DEF VaultInv, VaultTypeOK, RecordsStay, Places
    <2> QED
      BY <2>1, <2>2, <2>3 DEF SaveRecord
  <1> QED
    BY <1>2, <1>5, <1>6, <1>7, OutsideStep

\* A file is written, or spoilt from outside; the session goes on.
LEMMA FileStep ==
    ASSUME VaultInv, NEW n \in Names, NEW v \in {"none", "bare", "foreign", key},
           v = key => key # NoKey,
           disk' = [disk EXCEPT ![n] = v],
           UNCHANGED <<ring, keyFile, record, unsaved, recorded, lost, session, vlock, ask>>
    PROVE  VaultInv'
  <1>1. disk' \in [Names -> {"none", "bare", "foreign"} \cup IntKeys]
    BY DEF VaultInv, VaultTypeOK
  <1>2. VaultTypeOK'
    BY <1>1 DEF VaultInv, VaultTypeOK, session
  <1>3. LockIsHeld' /\ MoveIsCopy' /\ AdoptsWithKey' /\ AdoptsNew' /\ RecordsStay'
    BY DEF VaultInv, LockIsHeld, MoveIsCopy, AdoptsWithKey, AdoptsNew, RecordsStay, session
  <1>4. \A m \in Names : disk'[m] \in IntKeys => disk'[m] \in {disk[m], key}
    BY VaultAssumption DEF VaultInv, VaultTypeOK
  <1>5. KeysAreKept'
    BY <1>4 DEF VaultInv, KeysAreKept, session
  <1> QED
    BY <1>2, <1>3, <1>5 DEF VaultInv

LEMMA VaultSignKeeps ==
    ASSUME VaultInv, NEW n \in Names, Sign(n) PROVE VaultInv'
  BY FileStep DEF Sign

LEMMA VaultOutsideKeeps ==
    ASSUME VaultInv, NEW n \in Names, Outside(n) PROVE VaultInv'
  <1>1. PICK v \in {"none", "bare", "foreign"} : disk' = [disk EXCEPT ![n] = v]
    BY DEF Outside
  <1>2. key \in IntKeys \cup {NoKey}
    BY DEF VaultInv, VaultTypeOK
  <1>3. CASE v # key
    BY <1>1, <1>3, FileStep DEF Outside
  <1>4. CASE v = key /\ key # NoKey
    BY <1>1, <1>4, FileStep DEF Outside
  <1>5. CASE v = key /\ key = NoKey
    <2>1. VaultTypeOK'
      BY <1>1 DEF VaultInv, VaultTypeOK, Outside, session
    <2>2. LockIsHeld' /\ MoveIsCopy' /\ AdoptsWithKey' /\ AdoptsNew' /\ RecordsStay'
      BY DEF VaultInv, LockIsHeld, MoveIsCopy, AdoptsWithKey, AdoptsNew, RecordsStay, Outside, session
    <2>3. \A m \in Names : disk'[m] \in IntKeys => disk'[m] = disk[m]
      BY <1>1, VaultAssumption DEF VaultInv, VaultTypeOK
    <2>4. KeysAreKept'
      BY <2>3 DEF VaultInv, KeysAreKept, Outside, session
    <2> QED
      BY <2>1, <2>2, <2>4 DEF VaultInv
  <1> QED
    BY <1>3, <1>4, <1>5

LEMMA VaultRestartKeeps ==
    ASSUME VaultInv, RestartVault PROVE VaultInv'
  <1>1. UNCHANGED onDisk /\ NewSession
    BY DEF RestartVault
  <1>2. /\ keyring' \in BOOLEAN /\ key' = NoKey /\ where' \in Places /\ declined' \in {"no", "recent"}
        /\ names' \subseteq Names /\ vlock' \in Askers \cup {NoKey}
        /\ ask' \in [Askers -> AskState]
        /\ \A u \in Askers : ask'[u].at \notin Inside
    BY <1>1, SessionIsNew
  <1>3. VaultTypeOK'
    BY <1>1, <1>2 DEF VaultInv, VaultTypeOK, AskState, onDisk
  <1>4. KeysAreKept' /\ RecordsStay'
    BY <1>1, <1>2, VaultAssumption DEF VaultInv, KeysAreKept, RecordsStay, onDisk
  <1> QED
    BY <1>2, <1>3, <1>4, OutsideStep

LEMMA HalfWrittenKeeps ==
    ASSUME VaultInv, NEW n \in Names, HalfWritten(n) PROVE VaultInv'
  <1>1. NewSession /\ UNCHANGED <<ring, keyFile, record, unsaved, recorded, lost>>
    BY DEF HalfWritten
  <1>2. /\ keyring' \in BOOLEAN /\ key' = NoKey /\ where' \in Places /\ declined' \in {"no", "recent"}
        /\ names' \subseteq Names /\ vlock' \in Askers \cup {NoKey}
        /\ ask' \in [Askers -> AskState]
        /\ \A u \in Askers : ask'[u].at \notin Inside
    BY <1>1, SessionIsNew
  <1>3. /\ disk' \in [Names -> {"none", "bare", "foreign"} \cup IntKeys]
        /\ \A m \in Names : disk'[m] \in IntKeys => disk'[m] = disk[m]
    BY VaultAssumption DEF VaultInv, VaultTypeOK, HalfWritten
  <1>4. VaultTypeOK'
    BY <1>1, <1>2, <1>3 DEF VaultInv, VaultTypeOK, AskState
  <1>5. KeysAreKept' /\ RecordsStay'
    BY <1>1, <1>2, <1>3, VaultAssumption DEF VaultInv, KeysAreKept, RecordsStay
  <1> QED
    BY <1>2, <1>4, <1>5, OutsideStep

LEMMA VaultStutterKeeps ==
    ASSUME VaultInv, UNCHANGED vaultVars PROVE VaultInv'
  BY DEF VaultInv, VaultTypeOK, LockIsHeld, MoveIsCopy, AdoptsWithKey, AdoptsNew, RecordsStay,
         KeysAreKept, vaultVars

LEMMA VaultStepKeeps == VaultInv /\ [VaultNext]_vaultVars => VaultInv'
  <1> SUFFICES ASSUME VaultInv, VaultNext PROVE VaultInv'
    BY VaultStutterKeeps
  <1>1. ASSUME NEW t \in Askers,
               \/ AskKey(t) \/ Enter(t) \/ LoadFile(t) \/ KeyringGives(t) \/ KeyringStores(t)
               \/ Unlink(t) \/ KeyringRefuses(t) \/ AdoptNothing(t) \/ SaveRecord(t)
        PROVE  VaultInv'
    BY <1>1, AskKeyKeeps, EnterKeeps, LoadFileKeeps, KeyringGivesKeeps, KeyringStoresKeeps, UnlinkKeeps,
       KeyringRefusesKeeps, AdoptNothingKeeps, SaveRecordKeeps
  <1>2. ASSUME NEW t \in Askers, NEW n \in Names, Adopt(t, n) \/ Register(t, n) PROVE VaultInv'
    BY <1>2, AdoptKeeps, RegisterKeeps
  <1>3. ASSUME NEW n \in Names, Sign(n) \/ Outside(n) \/ HalfWritten(n) PROVE VaultInv'
    BY <1>3, VaultSignKeeps, VaultOutsideKeeps, HalfWrittenKeeps
  <1>4. CASE CooldownEnds \/ RestartVault
    BY <1>4, CooldownKeeps, VaultRestartKeeps
  <1> QED
    BY <1>1, <1>2, <1>3, <1>4 DEF VaultNext

LEMMA VaultInvariance == VaultSpec => []VaultInv
  <1>1. VaultInit => VaultInv
    BY VaultInitHolds
  <1>2. VaultInv /\ [VaultNext]_vaultVars => VaultInv'
    BY VaultStepKeeps
  <1> QED
    BY <1>1, <1>2, PTL DEF VaultSpec

---------------------------------------------------------------------------
(* The theorems. *)

\* The state of the vault is well typed, for any threads, files and keys
\* (services/vault.py).
THEOREM VaultTypeCorrect == VaultSpec => []VaultTypeOK
  <1>1. VaultInv => VaultTypeOK
    BY DEF VaultInv
  <1> QED
    BY <1>1, VaultInvariance, PTL

\* Every key that signed a file, and the one in use, can be had again: no order
\* of moves, restarts and refusals loses it (core/integrity.py, load_key).
THEOREM KeysSurvive == VaultSpec => []KeysAreKept
  <1>1. VaultInv => KeysAreKept
    BY DEF VaultInv
  <1> QED
    BY <1>1, VaultInvariance, PTL

\* With the lock held a file is signed only by adoption, and only if no record
\* of the place of the key ever named it, or the record is a file that a write
\* cut short has emptied of the name (_adopt_unsigned, _save_adopted).
THEOREM AdoptedOnce == VaultSpec => AdoptionIsOnce
  <1> DEFINE Once(n) == vlock # NoKey /\ disk[n] = "bare" /\ disk'[n] \in IntKeys
                          => (<<where, n>> \in recorded => where = "file" /\ n \in lost)
  <1>1. ASSUME VaultInv, [VaultNext]_vaultVars, NEW n \in Names PROVE Once(n)
    <2> SUFFICES ASSUME vlock # NoKey, disk[n] = "bare", disk'[n] \in IntKeys
                 PROVE  <<where, n>> \in recorded => where = "file" /\ n \in lost
      OBVIOUS
    <2>1. disk'[n] # disk[n]
      BY <1>1, VaultAssumption
    <2>2. VaultNext
      BY <1>1, <2>1 DEF vaultVars
    <2>3. ASSUME NEW t \in Askers, NEW m \in Names, Adopt(t, m)
          PROVE  <<where, n>> \in recorded => where = "file" /\ n \in lost
      <3>1. m = n
        BY <1>1, <2>1, <2>3 DEF Adopt, VaultInv, VaultTypeOK
      <3>2. n \notin record[where]
        BY <1>1, <2>3, <3>1 DEF Adopt, VaultInv, AdoptsNew
      <3> QED
        BY <1>1, <3>2 DEF VaultInv, VaultTypeOK, RecordsStay
    <2>4. ASSUME NEW m \in Names, Outside(m) PROVE FALSE
      BY <1>1, <2>1, <2>4, VaultAssumption DEF Outside, VaultInv, VaultTypeOK
    <2>5. ASSUME NEW t \in Askers, NEW m \in Names, Register(t, m) PROVE FALSE
      BY <1>1, <2>1, <2>5 DEF Register, onDisk
    <2>6. ASSUME NEW t \in Askers,
                 \/ AskKey(t) \/ Enter(t) \/ LoadFile(t) \/ KeyringGives(t) \/ KeyringStores(t)
                 \/ Unlink(t) \/ KeyringRefuses(t) \/ AdoptNothing(t) \/ SaveRecord(t)
          PROVE  FALSE
      BY <1>1, <2>1, <2>6 DEF AskKey, Enter, LoadFile, KeyringGives, KeyringStores, Unlink, KeyringRefuses,
                        AdoptNothing, SaveRecord, Unlocked, Refusal, onDisk
    <2>7. ASSUME NEW m \in Names, Sign(m) \/ HalfWritten(m) PROVE FALSE
      BY <1>1, <2>7 DEF Sign, HalfWritten
    <2>8. ~(CooldownEnds \/ RestartVault)
      BY <1>1, <2>1 DEF CooldownEnds, RestartVault, onDisk
    <2> QED
      BY <1>1, <2>2, <2>3, <2>4, <2>5, <2>6, <2>7, <2>8 DEF VaultNext
  <1>2. VaultInv /\ [VaultNext]_vaultVars => [\A n \in Names : Once(n)]_vaultVars
    BY <1>1
  <1> QED
    BY <1>2, VaultInvariance, PTL DEF VaultSpec, AdoptionIsOnce

\* A thread begins to ask the keyring only while no other is at it and no
\* refusal is recent, however many ask (Vault.key).
THEOREM OneThreadPrompts == VaultSpec => OnePrompt
  <1> DEFINE Alone(t) == ask[t].at = "ask" /\ ask'[t].at = "load"
                           => declined # "recent" /\ \A u \in Askers : ask[u].at \notin {"load", "unlink"}
  <1>1. ASSUME VaultInv, [VaultNext]_vaultVars, NEW t \in Askers PROVE Alone(t)
    <2> SUFFICES ASSUME ask[t].at = "ask", ask'[t].at = "load"
                 PROVE  declined # "recent" /\ \A u \in Askers : ask[u].at \notin {"load", "unlink"}
      OBVIOUS
    <2>1. VaultNext
      BY <1>1 DEF vaultVars
    <2>2. CASE Enter(t)
      <3>1. vlock = NoKey
        BY <1>1, <2>2 DEF Enter
      <3>2. Return(t) => ask'[t].at = "idle"
        BY <1>1 DEF Return, Step, VaultInv, VaultTypeOK
      <3>3. declined # "recent"
        BY <1>1, <2>2, <3>2 DEF Enter, Refused
      <3> QED
        BY <1>1, <3>1, <3>3, VaultAssumption DEF VaultInv, LockIsHeld, Inside
    <2>3. ASSUME NEW u \in Askers, NEW at, NEW todo, Step(u, at, todo), at # "load" PROVE FALSE
      BY <1>1, <2>3 DEF Step, VaultInv, VaultTypeOK
    <2>4. ASSUME NEW u \in Askers, Enter(u), u # t PROVE FALSE
      BY <1>1, <2>3, <2>4 DEF Enter, Return, Step, VaultInv, VaultTypeOK
    <2>5. ASSUME NEW u \in Askers,
                 \/ AskKey(u) \/ LoadFile(u) \/ KeyringGives(u) \/ KeyringStores(u)
                 \/ Unlink(u) \/ KeyringRefuses(u) \/ AdoptNothing(u) \/ SaveRecord(u)
                 \/ \E n \in Names : Adopt(u, n) \/ Register(u, n)
          PROVE  FALSE
      BY <1>1, <2>3, <2>5 DEF AskKey, LoadFile, KeyringGives, KeyringStores, Unlink, KeyringRefuses,
                        AdoptNothing, SaveRecord, Adopt, Register, Unlocked, Refusal, Return
    <2>6. ASSUME NEW n \in Names, Sign(n) \/ Outside(n) \/ HalfWritten(n) PROVE FALSE
      BY <1>1, <2>6 DEF Sign, Outside, HalfWritten, NewSession, NotAsking
    <2>7. ~(CooldownEnds \/ RestartVault)
      BY <1>1 DEF CooldownEnds, RestartVault, NewSession, NotAsking
    <2> QED
      BY <1>1, <2>1, <2>2, <2>4, <2>5, <2>6, <2>7 DEF VaultNext
  <1>2. VaultInv /\ [VaultNext]_vaultVars => [\A t \in Askers : Alone(t)]_vaultVars
    BY <1>1
  <1> QED
    BY <1>2, VaultInvariance, PTL DEF VaultSpec, OnePrompt

---------------------------------------------------------------------------
(* The profiles (core/profiles.py). *)

HostKeys == Macs \cup Ips \cup {Dash}
IsMap(P) ==
    /\ P = [k \in DOMAIN P |-> P[k]] /\ DOMAIN P \subseteq HostKeys
    /\ \A k \in DOMAIN P : P[k] \in ProfileRecords

\* No user was written by another program.
Clean(P) == \A k \in DOMAIN P : P[k].user # Edited /\ Edited \notin P[k].extras

---------------------------------------------------------------------------
(* What the edits keep. *)

LEMMA MapIsNotNone == \A P : IsMap(P) => P # None
  <1> SUFFICES ASSUME NEW P, IsMap(P) PROVE P # None
    OBVIOUS
  <1>1. P \in [DOMAIN P -> ProfileRecords] /\ DOMAIN P \in SUBSET (Macs \cup Ips \cup {Dash})
    BY DEF IsMap, HostKeys
  <1> QED
    BY <1>1, NoneIsNoMap

\* A profile that is set is the only one that changes.
LEMMA SetIsMap ==
    ASSUME NEW P, IsMap(P), NEW at \in HostKeys, NEW e \in ProfileRecords
    PROVE  /\ IsMap(Set(P, at, e)) /\ DOMAIN Set(P, at, e) = DOMAIN P \cup {at}
           /\ Set(P, at, e)[at] = e /\ \A x \in DOMAIN P \ {at} : Set(P, at, e)[x] = P[x]
  BY DEF IsMap, Set

LEMMA SetKeeps ==
    ASSUME NEW P, IsMap(P), NEW at \in HostKeys, NEW e \in ProfileRecords,
           Clean(P) => e.user # Edited /\ Edited \notin e.extras
    PROVE  IsMap(Set(P, at, e)) /\ (Clean(P) => Clean(Set(P, at, e)))
  <1> DEFINE Q == Set(P, at, e)
  <1>1. /\ IsMap(Q) /\ DOMAIN Q = DOMAIN P \cup {at}
        /\ Q[at] = e /\ \A x \in DOMAIN P \ {at} : Q[x] = P[x]
    BY SetIsMap
  <1> HIDE DEF Q
  <1>2. Clean(P) => Clean(Q)
    BY <1>1 DEF Clean
  <1> QED
    BY <1>1, <1>2 DEF Q

LEMMA RestrictIsMap ==
    ASSUME NEW P, IsMap(P), NEW D \in SUBSET DOMAIN P
    PROVE  /\ IsMap(Restrict(P, D)) /\ DOMAIN Restrict(P, D) = D
           /\ \A x \in D : Restrict(P, D)[x] = P[x]
  BY DEF IsMap, Restrict

\* One profile is exchanged for another that is under the same key.
Exchanged(P, k, e) == [P EXCEPT ![k] = e]

LEMMA ExchangeIsMap ==
    ASSUME NEW P, IsMap(P), NEW k \in DOMAIN P, NEW e \in ProfileRecords
    PROVE  /\ IsMap(Exchanged(P, k, e)) /\ DOMAIN Exchanged(P, k, e) = DOMAIN P
           /\ Exchanged(P, k, e)[k] = e /\ \A x \in DOMAIN P \ {k} : Exchanged(P, k, e)[x] = P[x]
  BY DEF IsMap, Exchanged

LEMMA PutKeeps ==
    ASSUME NEW P, IsMap(P), NEW o \in Edits, o.op = "put"
    PROVE  IsMap(Put(P, o)) /\ (Clean(P) => Clean(Put(P, o)))
  <1> DEFINE k == KeyFor(o.mac, o.ip)
             e == [user |-> o.user, extras |-> Extras(P, k), ip |-> o.ip]
  <1>1. o.mac \in Macs \cup {Dash, None} /\ o.ip \in Ips /\ o.user \in Users
    BY DEF Edits
  <1>2. k \in HostKeys
    BY <1>1 DEF KeyFor, HostKeys
  <1>3. Extras(P, k) \in SUBSET (Users \cup {Edited})
    BY DEF Extras, IsMap, ProfileRecords
  <1>4. e \in ProfileRecords
    BY <1>1, <1>3 DEF ProfileRecords
  <1>5. Clean(P) => e.user # Edited /\ Edited \notin e.extras
    BY <1>1, ProfilesAssumption DEF Clean, Extras
  <1>6. Put(P, o) = Set(P, k, e)
    BY DEF Put
  <1> HIDE DEF k, e
  <1>7. IsMap(Set(P, k, e)) /\ (Clean(P) => Clean(Set(P, k, e)))
    BY <1>2, <1>4, <1>5, SetKeeps
  <1> QED
    BY <1>6, <1>7

LEMMA DeleteKeeps ==
    ASSUME NEW P, IsMap(P), NEW o
    PROVE  IsMap(Delete(P, o)) /\ (Clean(P) => Clean(Delete(P, o)))
  <1> DEFINE D == DOMAIN P \ {ExistingKey(o.mac, o.ip)}
  <1>1. D \in SUBSET DOMAIN P /\ Delete(P, o) = Restrict(P, D)
    BY DEF Delete
  <1> HIDE DEF D
  <1> QED
    BY <1>1, RestrictIsMap DEF Clean

\* It keeps the profiles clean, and the users, if the new one does.
LEMMA ExchangeKeeps ==
    ASSUME NEW P, IsMap(P), NEW k \in DOMAIN P, NEW e \in ProfileRecords
    PROVE  /\ IsMap(Exchanged(P, k, e))
           /\ Clean(P) /\ e.user # Edited /\ Edited \notin e.extras => Clean(Exchanged(P, k, e))
           /\ {P[k].user} \cup P[k].extras \subseteq {e.user} \cup e.extras
                => UsersOf(P) \subseteq UsersOf(Exchanged(P, k, e))
  <1> DEFINE Q == Exchanged(P, k, e)
  <1>1. /\ IsMap(Q) /\ DOMAIN Q = DOMAIN P
        /\ Q[k] = e /\ \A x \in DOMAIN P \ {k} : Q[x] = P[x]
    BY ExchangeIsMap
  <1> HIDE DEF Q
  <1>2. Clean(P) /\ e.user # Edited /\ Edited \notin e.extras => Clean(Q)
    BY <1>1 DEF Clean
  <1>3. ASSUME {P[k].user} \cup P[k].extras \subseteq {e.user} \cup e.extras, NEW u \in UsersOf(P)
        PROVE  u \in UsersOf(Q)
    <2>1. PICK x \in DOMAIN P : u \in {P[x].user} \cup P[x].extras
      BY <1>3 DEF UsersOf
    <2>2. u \in {Q[x].user} \cup Q[x].extras
      BY <1>1, <1>3, <2>1
    <2> QED
      BY <1>1, <2>1, <2>2 DEF UsersOf
  <1> QED
    BY <1>1, <1>2, <1>3 DEF Q

LEMMA AddUserKeeps ==
    ASSUME NEW P, IsMap(P), NEW o \in Edits, o.op = "add"
    PROVE  /\ IsMap(AddUser(P, o)) /\ (Clean(P) => Clean(AddUser(P, o)))
           /\ UsersOf(P) \subseteq UsersOf(AddUser(P, o))
  <1> DEFINE k == ExistingKey(o.mac, o.ip)
             e == [P[k] EXCEPT !.extras = @ \cup {o.user}]
  <1>1. o.user \in Users
    BY DEF Edits
  <1>2. CASE k \in DOMAIN P /\ o.user # P[k].user
    <2>1. P[k] \in ProfileRecords
      BY <1>2 DEF IsMap
    <2>2. e \in ProfileRecords /\ e.user = P[k].user /\ e.extras = P[k].extras \cup {o.user}
      BY <1>1, <2>1 DEF ProfileRecords
    <2>3. AddUser(P, o) = Exchanged(P, k, e)
      BY <1>2 DEF AddUser, Exchanged
    <2>4. Clean(P) => e.user # Edited /\ Edited \notin e.extras
      BY <1>1, <1>2, <2>2, ProfilesAssumption DEF Clean
    <2> HIDE DEF k, e
    <2> QED
      BY <1>2, <2>2, <2>3, <2>4, ExchangeKeeps
  <1>3. CASE ~(k \in DOMAIN P /\ o.user # P[k].user)
    BY <1>3 DEF AddUser
  <1> QED
    BY <1>2, <1>3

LEMMA RemoveUserKeeps ==
    ASSUME NEW P, IsMap(P), NEW o
    PROVE  IsMap(RemoveUser(P, o)) /\ (Clean(P) => Clean(RemoveUser(P, o)))
  <1> DEFINE k == ExistingKey(o.mac, o.ip)
             e == [P[k] EXCEPT !.extras = @ \ {o.user}]
  <1>1. CASE k \in DOMAIN P
    <2>1. P[k] \in ProfileRecords
      BY <1>1 DEF IsMap
    <2>2. e \in ProfileRecords /\ e.user = P[k].user /\ e.extras = P[k].extras \ {o.user}
      BY <2>1 DEF ProfileRecords
    <2>3. RemoveUser(P, o) = Exchanged(P, k, e)
      BY <1>1 DEF RemoveUser, Exchanged
    <2>4. Clean(P) => e.user # Edited /\ Edited \notin e.extras
      BY <1>1, <2>2 DEF Clean
    <2> HIDE DEF k, e
    <2> QED
      BY <1>1, <2>2, <2>3, <2>4, ExchangeKeeps
  <1>2. CASE k \notin DOMAIN P
    BY <1>2 DEF RemoveUser
  <1> QED
    BY <1>1, <1>2

LEMMA SetPrimaryKeeps ==
    ASSUME NEW P, IsMap(P), NEW o
    PROVE  /\ IsMap(SetPrimary(P, o)) /\ (Clean(P) => Clean(SetPrimary(P, o)))
           /\ UsersOf(P) \subseteq UsersOf(SetPrimary(P, o))
  <1> DEFINE k == ExistingKey(o.mac, o.ip)
             e == [user |-> o.user, ip |-> P[k].ip, extras |-> (P[k].extras \ {o.user}) \cup {P[k].user}]
  <1>1. CASE k \in DOMAIN P /\ o.user \in Extras(P, k)
    <2>1. P[k] \in ProfileRecords /\ o.user \in P[k].extras
      BY <1>1 DEF IsMap, Extras
    <2>2. e \in ProfileRecords /\ e.user = o.user /\ e.extras = (P[k].extras \ {o.user}) \cup {P[k].user}
      BY <2>1 DEF ProfileRecords
    <2>3. SetPrimary(P, o) = Exchanged(P, k, e)
      BY <1>1 DEF SetPrimary, Exchanged
    <2>4. Clean(P) => e.user # Edited /\ Edited \notin e.extras
      BY <1>1, <2>1, <2>2 DEF Clean
    <2>5. {P[k].user} \cup P[k].extras \subseteq {e.user} \cup e.extras
      BY <2>2
    <2> HIDE DEF k, e
    <2> QED
      BY <1>1, <2>2, <2>3, <2>4, <2>5, ExchangeKeeps
  <1>2. CASE ~(k \in DOMAIN P /\ o.user \in Extras(P, k))
    BY <1>2 DEF SetPrimary
  <1> QED
    BY <1>1, <1>2

LEMMA RekeyKeeps ==
    ASSUME NEW P, IsMap(P), NEW o \in Edits, o.op = "rekey", NEW k \in DOMAIN P
    PROVE  /\ IsMap(Rekey(P, o, k)) /\ (Clean(P) => Clean(Rekey(P, o, k)))
           /\ UsersOf(P) \subseteq UsersOf(Rekey(P, o, k))
  <1>1. CASE o.mac \in DOMAIN P
    BY <1>1 DEF Rekey
  <1>2. CASE o.mac \notin DOMAIN P
    <2> DEFINE M == Set(P, o.mac, P[k])
               D == (DOMAIN P \cup {o.mac}) \ {k}
               Q == Restrict(M, D)
    <2>1. o.mac \in HostKeys /\ P[k] \in ProfileRecords
      BY DEF Edits, HostKeys, IsMap
    <2>2. /\ IsMap(M) /\ DOMAIN M = DOMAIN P \cup {o.mac}
          /\ M[o.mac] = P[k] /\ \A x \in DOMAIN P \ {o.mac} : M[x] = P[x]
      <3> HIDE DEF D, Q
      <3>1. PICK at \in HostKeys : at = o.mac
        BY <2>1
      <3>2. PICK e \in ProfileRecords : e = P[k]
        BY <2>1
      <3>3. /\ IsMap(Set(P, at, e)) /\ DOMAIN Set(P, at, e) = DOMAIN P \cup {at}
            /\ Set(P, at, e)[at] = e /\ \A x \in DOMAIN P \ {at} : Set(P, at, e)[x] = P[x]
        BY SetIsMap
      <3> QED
        BY <3>1, <3>2, <3>3
    <2>3. D \in SUBSET DOMAIN M
      BY <2>2
    <2> HIDE DEF M
    <2>4. IsMap(Q) /\ DOMAIN Q = D /\ \A x \in D : Q[x] = M[x]
      BY <2>2, <2>3, RestrictIsMap
    <2> HIDE DEF Q
    <2>5. Q[o.mac] = P[k] /\ o.mac \in D /\ \A x \in D \ {o.mac} : x \in DOMAIN P /\ Q[x] = P[x]
      BY <1>2, <2>2, <2>4
    <2>6. Clean(P) => Clean(Q)
      BY <2>4, <2>5 DEF Clean
    <2>7. ASSUME NEW u \in UsersOf(P) PROVE u \in UsersOf(Q)
      <3>1. PICK x \in DOMAIN P : u \in {P[x].user} \cup P[x].extras
        BY <2>7 DEF UsersOf
      <3>2. PICK y \in D : Q[y] = P[x]
        BY <1>2, <2>4, <2>5, <3>1
      <3> QED
        BY <2>4, <3>1, <3>2 DEF UsersOf
    <2>8. Rekey(P, o, k) = Q
      BY <1>2 DEF Rekey, Q, M
    <2> QED
      BY <2>4, <2>6, <2>7, <2>8
  <1> QED
    BY <1>1, <1>2

\* Every edit makes profiles of profiles, brings in nobody but the user it
\* names, and loses nobody if it adds, promotes or moves.
LEMMA EditKeeps ==
    ASSUME NEW P, IsMap(P), NEW o \in Edits, NEW Q \in Edit(P, o)
    PROVE  /\ IsMap(Q) /\ (Clean(P) => Clean(Q))
           /\ o.op \in {"add", "promote", "rekey"} => UsersOf(P) \subseteq UsersOf(Q)
  <1>1. o.op \in {"put", "delete", "add", "remove", "promote", "rekey"}
    BY DEF Edits
  <1>2. CASE o.op = "put"
    BY <1>2, PutKeeps DEF Edit
  <1>3. CASE o.op = "delete"
    BY <1>3, DeleteKeeps DEF Edit
  <1>4. CASE o.op = "add"
    BY <1>4, AddUserKeeps DEF Edit
  <1>5. CASE o.op = "remove"
    BY <1>5, RemoveUserKeeps DEF Edit
  <1>6. CASE o.op = "promote"
    BY <1>6, SetPrimaryKeeps DEF Edit
  <1>7. CASE o.op = "rekey"
    BY <1>7, RekeyKeeps DEF Edit, WithoutMac
  <1> QED
    BY <1>1, <1>2, <1>3, <1>4, <1>5, <1>6, <1>7

---------------------------------------------------------------------------
(* The inductive invariant. *)

IsContents(x) == x = None \/ IsMap(x)

HostsTyped ==
    /\ hosts = [data |-> hosts.data, sig |-> hosts.sig]
    /\ IsContents(hosts.data) /\ IsContents(hosts.sig) /\ IsMap(profiles)
EditTyped ==
    /\ edit = [at |-> edit.at, op |-> edit.op, data |-> edit.data]
    /\ edit.at \in {"idle", "edited", "written"}
    /\ edit.at = "edited" => edit.op \in Edits
    /\ edit.at = "written" => IsMap(edit.data)
SeenTyped ==
    /\ seen = [t \in Connectors |-> seen[t]]
    /\ \A t \in Connectors :
         /\ seen[t] = [at |-> seen[t].at, data |-> seen[t].data]
         /\ seen[t].at \in {"idle", "read", "verified"} /\ IsContents(seen[t].data)

\* There is no signature of no file.
SigNeedsData == hosts.data = None => hosts.sig = None
WrittenIsThere == edit.at = "written" => hosts.data # None

\* What is signed, verified or to be signed is clean, until the user trusts a
\* file.
SignedIsClean ==
    ~approved => /\ hosts.sig # None => Clean(hosts.sig)
                 /\ edit.at = "edited" => Clean(profiles)
                 /\ edit.at = "written" => Clean(edit.data)
                 /\ \A t \in Connectors : seen[t].at = "verified" => Clean(Parsed(seen[t].data))

\* An edit that is not saved yet is that edit made to what was signed.
EditIsOfTheFile ==
    edit.at = "edited" /\ ~replaced =>
        /\ hosts.sig # None => profiles \in Edit(hosts.sig, edit.op)
        /\ hosts.data = None => profiles \in Edit(NoHosts, edit.op)

ProfilesInv ==
    /\ HostsTyped /\ EditTyped /\ SeenTyped /\ SigNeedsData /\ WrittenIsThere
    /\ SignedIsClean /\ EditIsOfTheFile

---------------------------------------------------------------------------
(* Every step keeps the invariant. *)

LEMMA NoHostsIsMap == IsMap(NoHosts) /\ Clean(NoHosts)
  BY DEF IsMap, NoHosts, Clean

LEMMA ParsedIsMap == \A x : IsContents(x) => IsMap(Parsed(x))
  BY NoHostsIsMap DEF IsContents, Parsed

\* A file that verifies is clean.
LEMMA ReadableIsClean ==
    ASSUME NEW data, NEW sig, Readable([data |-> data, sig |-> sig]), sig # None => Clean(sig)
    PROVE  Clean(Parsed(data))
  BY NoHostsIsMap DEF Readable, Verifies, Parsed

LEMMA ProfilesInitHolds == ProfilesInit => ProfilesInv
  <1> SUFFICES ASSUME ProfilesInit PROVE ProfilesInv
    OBVIOUS
  <1>1. HostsTyped /\ SigNeedsData
    BY NoHostsIsMap DEF ProfilesInit, NoFile, HostsTyped, IsContents, SigNeedsData
  <1>2. EditTyped /\ WrittenIsThere /\ EditIsOfTheFile
    BY DEF ProfilesInit, NoEdit, EditTyped, WrittenIsThere, EditIsOfTheFile
  <1>3. SeenTyped
    BY DEF ProfilesInit, NoRead, SeenTyped, IsContents
  <1>4. SignedIsClean
    BY DEF ProfilesInit, NoFile, NoEdit, NoRead, SignedIsClean
  <1> QED
    BY <1>1, <1>2, <1>3, <1>4 DEF ProfilesInv

\* An edit is made to the file, which verifies.
LEMMA BeginKeeps ==
    ASSUME ProfilesInv, NEW o \in Edits, Begin(o) PROVE ProfilesInv'
  <1> DEFINE P == Parsed(hosts.data)
  <1>1. Readable(hosts) /\ UNCHANGED <<hosts, seen, approved>>
    BY DEF Begin, Reread
  <1>2. PICK Q \in Edit(P, o) :
          /\ profiles' = Q
          /\ edit' = IF Q = P /\ o.op # "put" THEN NoEdit ELSE [at |-> "edited", op |-> o, data |-> None]
    BY DEF Begin, Reread
  <1>3. IsMap(P)
    BY ParsedIsMap DEF ProfilesInv, HostsTyped
  <1>4. ~approved => Clean(P)
    BY <1>1, ReadableIsClean DEF ProfilesInv, SignedIsClean, HostsTyped
  <1>5. IsMap(Q) /\ (~approved => Clean(Q))
    BY <1>3, <1>4, EditKeeps
  <1>6. HostsTyped' /\ SeenTyped' /\ SigNeedsData'
    BY <1>1, <1>2, <1>5 DEF ProfilesInv, HostsTyped, SeenTyped, SigNeedsData
  <1>7. EditTyped' /\ WrittenIsThere'
    BY <1>2 DEF EditTyped, WrittenIsThere, NoEdit
  <1>8. SignedIsClean'
    BY <1>1, <1>2, <1>5 DEF ProfilesInv, SignedIsClean, NoEdit
  <1>9. EditIsOfTheFile'
    <2> SUFFICES ASSUME edit'.at = "edited"
                 PROVE  /\ hosts.sig # None => Q \in Edit(hosts.sig, o)
                        /\ hosts.data = None => Q \in Edit(NoHosts, o)
      BY <1>1, <1>2 DEF EditIsOfTheFile, NoEdit
    <2>1. hosts.sig # None => P = hosts.sig
      BY <1>1 DEF ProfilesInv, SigNeedsData, Readable, Verifies, Parsed
    <2>2. hosts.data = None => P = NoHosts
      BY DEF Parsed
    <2> QED
      BY <2>1, <2>2
  <1> QED
    BY <1>6, <1>7, <1>8, <1>9 DEF ProfilesInv

LEMMA WriteKeeps ==
    ASSUME ProfilesInv, WriteHosts PROVE ProfilesInv'
  <1>1. /\ edit.at = "edited" /\ UNCHANGED <<profiles, seen, approved, replaced>>
        /\ hosts' = [data |-> profiles, sig |-> hosts.sig]
        /\ edit' = [at |-> "written", op |-> edit.op, data |-> profiles]
    BY DEF WriteHosts, WithData, ProfilesInv, HostsTyped, EditTyped
  <1>2. IsMap(profiles) /\ profiles # None
    BY MapIsNotNone DEF ProfilesInv, HostsTyped
  <1>3. HostsTyped' /\ EditTyped' /\ SeenTyped' /\ SigNeedsData' /\ WrittenIsThere' /\ EditIsOfTheFile'
    BY <1>1, <1>2 DEF ProfilesInv, HostsTyped, EditTyped, SeenTyped, SigNeedsData, WrittenIsThere,
                      EditIsOfTheFile, IsContents
  <1>4. SignedIsClean'
    BY <1>1 DEF ProfilesInv, SignedIsClean
  <1> QED
    BY <1>3, <1>4 DEF ProfilesInv

LEMMA ProfilesSignKeeps ==
    ASSUME ProfilesInv, SignHosts PROVE ProfilesInv'
  <1>1. /\ edit.at = "written" /\ edit' = NoEdit /\ UNCHANGED <<profiles, seen, approved>>
        /\ hosts' = [data |-> hosts.data, sig |-> edit.data]
    BY DEF SignHosts, WithSig, ProfilesInv, HostsTyped
  <1>2. IsMap(edit.data) /\ hosts.data # None
    BY <1>1 DEF ProfilesInv, EditTyped, WrittenIsThere
  <1>3. HostsTyped' /\ EditTyped' /\ SeenTyped' /\ SigNeedsData' /\ WrittenIsThere' /\ EditIsOfTheFile'
    BY <1>1, <1>2 DEF ProfilesInv, HostsTyped, EditTyped, SeenTyped, SigNeedsData, WrittenIsThere,
                      EditIsOfTheFile, IsContents, NoEdit
  <1>4. SignedIsClean'
    BY <1>1 DEF ProfilesInv, SignedIsClean, NoEdit
  <1> QED
    BY <1>3, <1>4 DEF ProfilesInv

LEMMA ClearKeeps ==
    ASSUME ProfilesInv, ClearHosts PROVE ProfilesInv'
  <1>1. /\ edit.at = "idle" /\ UNCHANGED <<edit, seen, approved, replaced>>
        /\ hosts' = [data |-> None, sig |-> None] /\ profiles' = NoHosts
    BY DEF ClearHosts, NoFile
  <1>2. HostsTyped' /\ EditTyped' /\ SeenTyped' /\ SigNeedsData' /\ WrittenIsThere' /\ EditIsOfTheFile'
    BY <1>1, NoHostsIsMap DEF ProfilesInv, HostsTyped, EditTyped, SeenTyped, SigNeedsData, WrittenIsThere,
                              EditIsOfTheFile, IsContents
  <1>3. SignedIsClean'
    BY <1>1 DEF ProfilesInv, SignedIsClean
  <1> QED
    BY <1>2, <1>3 DEF ProfilesInv

LEMMA TrustKeeps ==
    ASSUME ProfilesInv, TrustHosts PROVE ProfilesInv'
  <1>1. /\ edit.at = "idle" /\ hosts.data # None /\ approved' /\ UNCHANGED <<profiles, edit, seen, replaced>>
        /\ hosts' = [data |-> hosts.data, sig |-> hosts.data]
    BY DEF TrustHosts, Readable, WithSig, ProfilesInv, HostsTyped
  <1>2. HostsTyped' /\ EditTyped' /\ SeenTyped' /\ SigNeedsData' /\ WrittenIsThere' /\ EditIsOfTheFile'
    BY <1>1 DEF ProfilesInv, HostsTyped, EditTyped, SeenTyped, SigNeedsData, WrittenIsThere,
                EditIsOfTheFile, IsContents
  <1>3. SignedIsClean'
    BY <1>1 DEF SignedIsClean
  <1> QED
    BY <1>2, <1>3 DEF ProfilesInv

\* Contents written from outside are not what was signed, which stays clean.
LEMMA ProfilesOutsideKeeps ==
    ASSUME ProfilesInv, OutsideHosts PROVE ProfilesInv'
  <1>1. hosts.data # None /\ IsMap(hosts.data) /\ UNCHANGED <<profiles, edit, seen, approved, replaced>>
    BY DEF OutsideHosts, ProfilesInv, HostsTyped, IsContents
  <1>2. PICK d, g : /\ hosts' = [data |-> d, sig |-> g]
                    /\ IsMap(d) /\ g \in {hosts.sig, None}
    <2>1. ASSUME NEW k \in DOMAIN hosts.data,
                 hosts' = WithData(hosts, [hosts.data EXCEPT ![k].user = Edited])
          PROVE  \E d, g : hosts' = [data |-> d, sig |-> g] /\ IsMap(d) /\ g \in {hosts.sig, None}
      <3> DEFINE e == [hosts.data[k] EXCEPT !.user = Edited]
      <3>1. e \in ProfileRecords
        BY <1>1 DEF IsMap, ProfileRecords
      <3>2. IsMap(Exchanged(hosts.data, k, e))
        BY <1>1, <3>1, ExchangeIsMap
      <3>3. hosts' = [data |-> Exchanged(hosts.data, k, e), sig |-> hosts.sig]
        BY <2>1 DEF WithData, Exchanged, ProfilesInv, HostsTyped
      <3> HIDE DEF e
      <3> QED
        BY <3>2, <3>3
    <2>2. CASE hosts' = WithSig(hosts, None)
      <3>1. hosts' = [data |-> hosts.data, sig |-> None]
        BY <2>2 DEF WithSig, ProfilesInv, HostsTyped
      <3> QED
        BY <1>1, <3>1
    <2> QED
      BY <2>1, <2>2 DEF OutsideHosts
  <1>3. d # None
    BY <1>2, MapIsNotNone
  <1>4. HostsTyped' /\ EditTyped' /\ SeenTyped' /\ SigNeedsData' /\ WrittenIsThere'
    BY <1>1, <1>2, <1>3 DEF ProfilesInv, HostsTyped, EditTyped, SeenTyped, SigNeedsData, WrittenIsThere,
                            IsContents
  <1>5. EditIsOfTheFile' /\ SignedIsClean'
    BY <1>1, <1>2, <1>3 DEF ProfilesInv, EditIsOfTheFile, SignedIsClean
  <1> QED
    BY <1>4, <1>5 DEF ProfilesInv

LEMMA ProfilesRestartKeeps ==
    ASSUME ProfilesInv, RestartHosts PROVE ProfilesInv'
  <1>1. /\ UNCHANGED <<hosts, approved>> /\ edit' = NoEdit /\ seen' = [t \in Connectors |-> NoRead]
        /\ profiles' = Parsed(hosts.data)
    BY DEF RestartHosts
  <1>2. IsMap(profiles')
    BY <1>1, ParsedIsMap DEF ProfilesInv, HostsTyped
  <1>3. HostsTyped' /\ EditTyped' /\ SeenTyped' /\ SigNeedsData' /\ WrittenIsThere' /\ EditIsOfTheFile'
    BY <1>1, <1>2 DEF ProfilesInv, HostsTyped, EditTyped, SeenTyped, SigNeedsData, WrittenIsThere,
                      EditIsOfTheFile, IsContents, NoEdit, NoRead
  <1>4. SignedIsClean'
    BY <1>1 DEF ProfilesInv, SignedIsClean, NoEdit, NoRead
  <1> QED
    BY <1>3, <1>4 DEF ProfilesInv

\* A connecting thread reads, and verifies what it read.
LEMMA ReadKeeps ==
    ASSUME ProfilesInv, NEW t \in Connectors, ReadHosts(t) \/ CheckHosts(t) PROVE ProfilesInv'
  <1>1. UNCHANGED <<hosts, profiles, edit, approved, replaced>>
    BY DEF ReadHosts, CheckHosts
  <1>2. PICK a \in {"idle", "read", "verified"}, d \in {None, hosts.data, seen[t].data} :
          /\ seen' = [seen EXCEPT ![t] = [at |-> a, data |-> d]]
          /\ a = "verified" => Readable([data |-> d, sig |-> hosts.sig])
    <2>1. CASE ReadHosts(t)
      BY <2>1 DEF ReadHosts
    <2>2. CASE CheckHosts(t) /\ Readable([data |-> seen[t].data, sig |-> hosts.sig])
      <3>1. seen' = [seen EXCEPT ![t] = [seen[t] EXCEPT !.at = "verified"]]
        BY <2>2 DEF CheckHosts
      <3>2. [seen[t] EXCEPT !.at = "verified"] = [at |-> "verified", data |-> seen[t].data]
        BY DEF ProfilesInv, SeenTyped
      <3> QED
        BY <2>2, <3>1, <3>2
    <2>3. CASE CheckHosts(t) /\ ~Readable([data |-> seen[t].data, sig |-> hosts.sig])
      <3>1. seen' = [seen EXCEPT ![t] = [at |-> "idle", data |-> None]]
        BY <2>3 DEF CheckHosts, NoRead, ProfilesInv, SeenTyped
      <3> QED
        BY <3>1
    <2> QED
      BY <2>1, <2>2, <2>3
  <1>3. /\ seen'[t] = [at |-> a, data |-> d] /\ \A u \in Connectors \ {t} : seen'[u] = seen[u]
        /\ seen' = [u \in Connectors |-> seen'[u]]
    BY <1>2 DEF ProfilesInv, SeenTyped
  <1>4. IsContents(d)
    BY <1>2 DEF ProfilesInv, HostsTyped, SeenTyped, IsContents
  <1>5. SeenTyped'
    BY <1>2, <1>3, <1>4 DEF ProfilesInv, SeenTyped
  <1>6. HostsTyped' /\ EditTyped' /\ SigNeedsData' /\ WrittenIsThere' /\ EditIsOfTheFile'
    BY <1>1 DEF ProfilesInv, HostsTyped, EditTyped, SigNeedsData, WrittenIsThere, EditIsOfTheFile
  <1>7. ~approved /\ a = "verified" => Clean(Parsed(d))
    BY <1>2, ReadableIsClean DEF ProfilesInv, SignedIsClean
  <1>8. SignedIsClean'
    BY <1>1, <1>3, <1>7 DEF ProfilesInv, SignedIsClean
  <1> QED
    BY <1>5, <1>6, <1>8 DEF ProfilesInv

\* What it puts under an edit is clean, though it is not the edit.
LEMMA ReplaceKeeps ==
    ASSUME ProfilesInv, NEW t \in Connectors, ReplaceProfiles(t) PROVE ProfilesInv'
  <1>1. /\ UNCHANGED <<hosts, edit, approved>> /\ seen[t].at = "verified"
        /\ profiles' = Parsed(seen[t].data) /\ seen' = [seen EXCEPT ![t] = NoRead]
        /\ replaced' = (replaced \/ edit.at = "edited")
    BY DEF ReplaceProfiles
  <1>2. IsMap(profiles') /\ (~approved => Clean(profiles'))
    BY <1>1, ParsedIsMap DEF ProfilesInv, SeenTyped, SignedIsClean
  <1>3. SeenTyped' /\ \A u \in Connectors : seen'[u] \in {seen[u], NoRead}
    BY <1>1 DEF ProfilesInv, SeenTyped, NoRead, IsContents
  <1>4. HostsTyped' /\ EditTyped' /\ SigNeedsData' /\ WrittenIsThere' /\ EditIsOfTheFile'
    BY <1>1, <1>2 DEF ProfilesInv, HostsTyped, EditTyped, SigNeedsData, WrittenIsThere, EditIsOfTheFile
  <1>5. SignedIsClean'
    BY <1>1, <1>2, <1>3 DEF ProfilesInv, SignedIsClean, NoRead
  <1> QED
    BY <1>3, <1>4, <1>5 DEF ProfilesInv

LEMMA ProfilesStutterKeeps ==
    ASSUME ProfilesInv, UNCHANGED profilesVars PROVE ProfilesInv'
  BY DEF ProfilesInv, HostsTyped, EditTyped, SeenTyped, SigNeedsData, WrittenIsThere, SignedIsClean,
         EditIsOfTheFile, profilesVars

LEMMA ProfilesStepKeeps == ProfilesInv /\ [ProfilesNext]_profilesVars => ProfilesInv'
  BY BeginKeeps, WriteKeeps, ProfilesSignKeeps, ClearKeeps, TrustKeeps, ProfilesOutsideKeeps, ProfilesRestartKeeps, ReadKeeps,
     ReplaceKeeps, ProfilesStutterKeeps DEF ProfilesNext

LEMMA ProfilesInvariance == ProfilesSpec => []ProfilesInv
  BY ProfilesInitHolds, ProfilesStepKeeps, PTL DEF ProfilesSpec

---------------------------------------------------------------------------
(* The theorems. *)

\* What another program wrote is not signed by an edit: until the user trusts a
\* file, whatever verifies is clean (every edit starts with require_verified).
THEOREM OutsideStaysUnsigned == ProfilesSpec => []OutsideIsNotSigned
  <1>1. ProfilesInv => OutsideIsNotSigned
    BY DEF ProfilesInv, SignedIsClean, OutsideIsNotSigned, UsersOf, Clean
  <1> QED
    BY <1>1, ProfilesInvariance, PTL

\* What an edit saves is that edit made to what the file held, and none of the
\* users is lost by adding, promoting or moving (ProfileStore.save).
THEOREM EditsAreSaved == ProfilesSpec => SavesAreEdits
  <1> DEFINE Saved ==
        edit.at = "edited" /\ edit'.at = "written" /\ ~replaced /\ hosts.sig = hosts.data
          => /\ hosts'.data \in Edit(Parsed(hosts.data), edit.op)
             /\ edit.op.op \in {"add", "promote", "rekey"}
                  => UsersOf(Parsed(hosts.data)) \subseteq UsersOf(hosts'.data)
  <1>1. ProfilesInv /\ [ProfilesNext]_profilesVars => Saved
    <2> SUFFICES ASSUME ProfilesInv, [ProfilesNext]_profilesVars, edit.at = "edited", edit'.at = "written",
                        ~replaced, hosts.sig = hosts.data
                 PROVE  /\ hosts'.data \in Edit(Parsed(hosts.data), edit.op)
                        /\ edit.op.op \in {"add", "promote", "rekey"}
                             => UsersOf(Parsed(hosts.data)) \subseteq UsersOf(hosts'.data)
      OBVIOUS
    <2>1. WriteHosts
      <3>1. ASSUME NEW o \in Edits, Begin(o) PROVE FALSE
        BY <3>1 DEF Begin
      <3>2. ~(SignHosts \/ ClearHosts \/ TrustHosts)
        BY DEF SignHosts, ClearHosts, TrustHosts
      <3>3. ~RestartHosts
        BY DEF RestartHosts, NoEdit
      <3>4. edit' # edit
        OBVIOUS
      <3>5. ~OutsideHosts
        BY <3>4 DEF OutsideHosts
      <3>6. ASSUME NEW t \in Connectors, ReadHosts(t) \/ CheckHosts(t) \/ ReplaceProfiles(t) PROVE FALSE
        BY <3>4, <3>6 DEF ReadHosts, CheckHosts, ReplaceProfiles
      <3> QED
        BY <3>1, <3>2, <3>3, <3>4, <3>5, <3>6 DEF ProfilesNext, profilesVars
    <2>2. hosts'.data = profiles
      BY <2>1 DEF WriteHosts, WithData, ProfilesInv, HostsTyped
    <2>3. profiles \in Edit(Parsed(hosts.data), edit.op)
      BY DEF ProfilesInv, EditIsOfTheFile, Parsed
    <2>4. IsMap(Parsed(hosts.data)) /\ edit.op \in Edits
      BY ParsedIsMap DEF ProfilesInv, HostsTyped, EditTyped
    <2> QED
      BY <2>2, <2>3, <2>4, EditKeeps
  <1> QED
    BY <1>1, ProfilesInvariance, PTL DEF ProfilesSpec, SavesAreEdits

---------------------------------------------------------------------------
(* The register of devices (core/devices.py). *)

\* The devices of a register have the addresses they were seen at; one that is
\* kept under its address has only had that.
IsDevice(d) == d.ip \in DevIps /\ d.ip \in d.ips /\ d.ips \subseteq DevIps
IsRegister(D) ==
    /\ DOMAIN D \subseteq DevMacs \cup DevIps
    /\ \A k \in DOMAIN D : IsDevice(D[k]) /\ (k \in DevIps => D[k].ips = {k})

\* Whom a register knows was vouched for in W; whom a scan saw is named in S.
VouchedIn(D, W) == \A k \in DOMAIN D : D[k].known => k \in W \/ D[k].ips \cap W # {}
SeenIn(D, sees, S) == \A k \in sees : k \in S \/ (k \in DOMAIN D /\ D[k].ips \cap S # {})
\* The device k is x in the later register E, and known there.  A register
\* continues another when that holds of all the other knew.
Stays(E, k, x) == E[x].known /\ (x = k \/ (k \in DevIps /\ x \in DevMacs /\ k \in E[x].ips))
Continues(D, E) == \A k \in DOMAIN D : D[k].known => \E x \in DOMAIN E : Stays(E, k, x)
\* The pairs in P say which MACs had which addresses.
Owns(D, P) == \A m \in DevMacs, ip \in DevIps : <<m, ip>> \in P <=> (m \in DOMAIN D /\ ip \in D[m].ips)

\* What the constructors hold.
LEMMA DeviceFacts ==
    \A ip, ips, known : /\ Device(ip, ips, known).ip = ip
                        /\ Device(ip, ips, known).ips = ips
                        /\ Device(ip, ips, known).known = known
  BY DEF Device

LEMMA NewFacts == \A h : New(h).ip = h.ip /\ New(h).ips = {} /\ ~New(h).known
  BY Zenon DEF New, Device

LEMMA WithKnownFacts ==
    ASSUME NEW D, NEW keys
    PROVE  /\ DOMAIN WithKnown(D, keys) = DOMAIN D
           /\ \A k \in DOMAIN D : /\ WithKnown(D, keys)[k].ip = D[k].ip
                                  /\ WithKnown(D, keys)[k].ips = D[k].ips
                                  /\ WithKnown(D, keys)[k].known <=> (D[k].known \/ k \in keys)
<1>1. DOMAIN WithKnown(D, keys) = DOMAIN D
  BY DEF WithKnown
<1>3. ASSUME NEW k \in DOMAIN D PROVE WithKnown(D, keys)[k].ip = D[k].ip
  BY Zenon DEF WithKnown, Device
<1>4. ASSUME NEW k \in DOMAIN D PROVE WithKnown(D, keys)[k].ips = D[k].ips
  BY Zenon DEF WithKnown, Device
<1>5. ASSUME NEW k \in DOMAIN D PROVE WithKnown(D, keys)[k].known <=> (D[k].known \/ k \in keys)
  BY Zenon DEF WithKnown, Device
<1> QED
  BY <1>1, <1>3, <1>4, <1>5

LEMMA SightFacts ==
    ASSUME NEW D, NEW k, NEW h, NEW known
    PROVE  /\ DOMAIN Sight(D, k, h, known) = Keep(D, k, h) \cup {k}
           /\ \A x \in Keep(D, k, h) : x # k => Sight(D, k, h, known)[x] = D[x]
           /\ Sight(D, k, h, known)[k].ip = h.ip
           /\ Sight(D, k, h, known)[k].ips = Earlier(D, k, h).ips \cup {h.ip}
           /\ Sight(D, k, h, known)[k].known <=> (Earlier(D, k, h).known \/ k \in known \/ h.ip \in known)
<1>1. DOMAIN Sight(D, k, h, known) = Keep(D, k, h) \cup {k}
  BY Zenon DEF Sight
<1>2. \A x \in Keep(D, k, h) : x # k => Sight(D, k, h, known)[x] = D[x]
  BY Zenon DEF Sight
<1>3. k \in Keep(D, k, h) \cup {k}
  OBVIOUS
<1>4. Sight(D, k, h, known)[k].ip = h.ip
  BY Zenon, <1>3 DEF Sight, Device
<1>5. Sight(D, k, h, known)[k].ips = Earlier(D, k, h).ips \cup {h.ip}
  BY Zenon, <1>3 DEF Sight, Device
<1>6. Sight(D, k, h, known)[k].known <=> (Earlier(D, k, h).known \/ k \in known \/ h.ip \in known)
  BY Zenon, <1>3 DEF Sight, Device
<1> QED
  BY <1>1, <1>2, <1>4, <1>5, <1>6

\* The entry that a device continues.
LEMMA EarlierFacts ==
    ASSUME NEW D, NEW k, NEW h
    PROVE  /\ k \in DOMAIN D => Earlier(D, k, h) = D[k]
           /\ k \notin DOMAIN D /\ h.ip \in DOMAIN D => Earlier(D, k, h) = D[h.ip]
           /\ k \notin DOMAIN D /\ h.ip \notin DOMAIN D => Earlier(D, k, h) = New(h)
  BY DEF Earlier

\* A host is kept under its MAC, or under its address, or is a MAC that has its
\* address.
LEMMA KeyFacts ==
    ASSUME NEW D, IsRegister(D), NEW h \in Found, NEW k \in DeviceKeys(D, h)
    PROVE  /\ h.ip \in DevIps
           /\ \/ h.mac # NoMac /\ k = h.mac /\ k \in DevMacs
              \/ h.mac = NoMac /\ k = h.ip
              \/ h.mac = NoMac /\ k \in DOMAIN D /\ k \in DevMacs /\ D[k].ip = h.ip
<1>1. h.ip \in DevIps /\ (h.mac \in DevMacs \/ h.mac = NoMac)
  BY DEF Found
<1>2. CASE h.mac # NoMac
  BY <1>1, <1>2 DEF DeviceKeys
<1>3. CASE h.mac = NoMac /\ (h.ip \in DOMAIN D \/ {x \in DOMAIN D : D[x].ip = h.ip} = {})
  BY <1>1, <1>3 DEF DeviceKeys
<1>4. CASE h.mac = NoMac /\ h.ip \notin DOMAIN D /\ {x \in DOMAIN D : D[x].ip = h.ip} # {}
  <2>1. k \in DOMAIN D /\ D[k].ip = h.ip
    BY <1>4 DEF DeviceKeys
  <2>2. k \in DevMacs
    BY <2>1, <1>4 DEF IsRegister, IsDevice
  <2> QED BY <1>1, <1>4, <2>1, <2>2
<1> QED
  BY <1>2, <1>3, <1>4

\* What a scan adds to a register at one host.
LEMMA SightStep ==
    ASSUME NEW D, IsRegister(D), NEW h \in Found, NEW k \in DeviceKeys(D, h), NEW known
    PROVE  LET N == Sight(D, k, h, known) IN
           /\ k \in DOMAIN N
           /\ \A x \in DOMAIN D : x # k => (x \in DOMAIN N \/ (x = h.ip /\ k \notin DOMAIN D /\ k \in DevMacs))
           /\ \A x \in DOMAIN N : x # k => x \in DOMAIN D /\ N[x] = D[x]
           /\ N[k].ip = h.ip
           /\ k \in DOMAIN D => N[k].ips = D[k].ips \cup {h.ip}
           /\ k \notin DOMAIN D => N[k].ips = {h.ip}
           /\ N[k].known => \/ k \in known \/ h.ip \in known
                            \/ k \in DOMAIN D /\ D[k].known
                            \/ k \notin DOMAIN D /\ h.ip \in DOMAIN D /\ D[h.ip].known
           /\ k \in DOMAIN D /\ D[k].known => N[k].known
           /\ k \notin DOMAIN D /\ h.ip \in DOMAIN D /\ D[h.ip].known => N[k].known
<1> DEFINE N == Sight(D, k, h, known)
           e == Earlier(D, k, h)
<1>1. /\ DOMAIN N = Keep(D, k, h) \cup {k}
      /\ \A x \in Keep(D, k, h) : x # k => N[x] = D[x]
      /\ N[k].ip = h.ip
      /\ N[k].ips = e.ips \cup {h.ip}
      /\ N[k].known <=> (e.known \/ k \in known \/ h.ip \in known)
  BY SightFacts
<1>2. /\ k \in DOMAIN D => e = D[k]
      /\ k \notin DOMAIN D /\ h.ip \in DOMAIN D => e = D[h.ip]
      /\ k \notin DOMAIN D /\ h.ip \notin DOMAIN D => e = New(h)
  BY EarlierFacts
<1>3. h.ip \in DevIps /\ (k \in DevMacs \/ k = h.ip)
  BY KeyFacts
<1> HIDE DEF N, e
<1>4. \A x \in DOMAIN D : x # k => (x \in DOMAIN N \/ (x = h.ip /\ k \notin DOMAIN D /\ k \in DevMacs))
  BY <1>1, <1>3 DEF Keep
<1>5. k \in DOMAIN N /\ \A x \in DOMAIN N : x # k => x \in DOMAIN D /\ N[x] = D[x]
  BY <1>1 DEF Keep
<1>6. k \notin DOMAIN D => N[k].ips = {h.ip}
  <2>1. CASE h.ip \in DOMAIN D
    BY <1>1, <1>2, <1>3, <2>1 DEF IsRegister
  <2>2. CASE h.ip \notin DOMAIN D
    BY <1>1, <1>2, <2>2, NewFacts
  <2> QED BY <2>1, <2>2
<1>7. k \in DOMAIN D => N[k].ips = D[k].ips \cup {h.ip}
  BY <1>1, <1>2
<1>8. N[k].known => \/ k \in known \/ h.ip \in known
                    \/ k \in DOMAIN D /\ D[k].known
                    \/ k \notin DOMAIN D /\ h.ip \in DOMAIN D /\ D[h.ip].known
  BY <1>1, <1>2, NewFacts
<1>9. /\ k \in DOMAIN D /\ D[k].known => N[k].known
      /\ k \notin DOMAIN D /\ h.ip \in DOMAIN D /\ D[h.ip].known => N[k].known
  BY <1>1, <1>2
<1> QED
  BY <1>1, <1>4, <1>5, <1>6, <1>7, <1>8, <1>9 DEF N

\* One sight keeps the register one, ...
LEMMA SightKeepsRegister ==
    ASSUME NEW D, IsRegister(D), NEW h \in Found, NEW k \in DeviceKeys(D, h), NEW known
    PROVE  IsRegister(Sight(D, k, h, known))
<1> DEFINE N == Sight(D, k, h, known)
<1>1. /\ \A x \in DOMAIN N : x # k => x \in DOMAIN D /\ N[x] = D[x]
      /\ N[k].ip = h.ip
      /\ k \in DOMAIN D => N[k].ips = D[k].ips \cup {h.ip}
      /\ k \notin DOMAIN D => N[k].ips = {h.ip}
  BY SightStep
<1>2. h.ip \in DevIps /\ k \in DevMacs \cup DevIps /\ (k \in DevIps => k = h.ip)
  BY KeyFacts, DevicesAssumption
<1> HIDE DEF N
<1>3. ASSUME NEW x \in DOMAIN N
      PROVE  x \in DevMacs \cup DevIps /\ IsDevice(N[x]) /\ (x \in DevIps => N[x].ips = {x})
  <2>1. CASE x # k
    BY <1>1, <2>1 DEF IsRegister
  <2>2. CASE x = k /\ k \in DOMAIN D
    <3>1. IsDevice(D[k]) /\ (k \in DevIps => D[k].ips = {k})
      BY <2>2 DEF IsRegister
    <3> QED BY <1>1, <1>2, <2>2, <3>1 DEF IsDevice
  <2>3. CASE x = k /\ k \notin DOMAIN D
    BY <1>1, <1>2, <2>3 DEF IsDevice
  <2> QED BY <2>1, <2>2, <2>3
<1>4. IsRegister(N)
  BY <1>3 DEF IsRegister
<1> QED
  BY <1>4 DEF N

\* ... knows nobody by itself: the entry moved from the address to the MAC was
\* vouched for by that address, ...
LEMMA SightKeepsVouched ==
    ASSUME NEW D, IsRegister(D), NEW h \in Found, NEW k \in DeviceKeys(D, h), NEW known,
           NEW W, known \subseteq W, VouchedIn(D, W)
    PROVE  VouchedIn(Sight(D, k, h, known), W)
<1> DEFINE N == Sight(D, k, h, known)
<1>1. /\ \A x \in DOMAIN N : x # k => x \in DOMAIN D /\ N[x] = D[x]
      /\ k \in DOMAIN D => N[k].ips = D[k].ips \cup {h.ip}
      /\ k \notin DOMAIN D => N[k].ips = {h.ip}
      /\ N[k].known => \/ k \in known \/ h.ip \in known
                       \/ k \in DOMAIN D /\ D[k].known
                       \/ k \notin DOMAIN D /\ h.ip \in DOMAIN D /\ D[h.ip].known
  BY SightStep
<1>2. h.ip \in DevIps
  BY KeyFacts
<1> HIDE DEF N
<1>3. h.ip \in N[k].ips
  BY <1>1
<1>4. ASSUME NEW x \in DOMAIN N, N[x].known PROVE x \in W \/ N[x].ips \cap W # {}
  <2>1. CASE x # k
    BY <1>1, <1>4, <2>1 DEF VouchedIn
  <2>2. CASE x = k /\ (k \in known \/ h.ip \in known)
    BY <1>3, <2>2
  <2>3. CASE x = k /\ k \in DOMAIN D /\ D[k].known
    <3>1. k \in W \/ D[k].ips \cap W # {}
      BY <2>3 DEF VouchedIn
    <3> QED BY <1>1, <2>3, <3>1
  <2>4. CASE x = k /\ k \notin DOMAIN D /\ h.ip \in DOMAIN D /\ D[h.ip].known
    <3>1. h.ip \in W \/ D[h.ip].ips \cap W # {}
      BY <2>4 DEF VouchedIn
    <3>2. D[h.ip].ips = {h.ip}
      BY <2>4, <1>2 DEF IsRegister
    <3> QED BY <1>3, <2>4, <3>1, <3>2
  <2> QED BY <1>1, <1>4, <2>1, <2>2, <2>3, <2>4
<1>5. VouchedIn(N, W)
  BY <1>4 DEF VouchedIn
<1> QED
  BY <1>5 DEF N

\* ... saw whom the scan names, also a MAC that is not in it, ...
LEMMA SightKeepsSeen ==
    ASSUME NEW D, IsRegister(D), NEW h \in Found, NEW k \in DeviceKeys(D, h), NEW known,
           NEW S, {h.ip, h.mac} \subseteq S, NEW sees, SeenIn(D, sees, S)
    PROVE  SeenIn(Sight(D, k, h, known), sees \cup {k}, S)
<1> DEFINE N == Sight(D, k, h, known)
<1>1. /\ \A x \in DOMAIN D : x # k => (x \in DOMAIN N \/ x = h.ip)
      /\ \A x \in DOMAIN N : x # k => x \in DOMAIN D /\ N[x] = D[x]
      /\ k \in DOMAIN N
      /\ k \in DOMAIN D => N[k].ips = D[k].ips \cup {h.ip}
      /\ k \notin DOMAIN D => N[k].ips = {h.ip}
  BY SightStep
<1> HIDE DEF N
<1>2. ASSUME NEW x \in sees \cup {k} PROVE x \in S \/ (x \in DOMAIN N /\ N[x].ips \cap S # {})
  <2>1. CASE x = k
    BY <1>1, <2>1
  <2>2. CASE x # k
    <3>1. x \in S \/ (x \in DOMAIN D /\ D[x].ips \cap S # {})
      BY <2>2 DEF SeenIn
    <3> QED BY <1>1, <2>2, <3>1
  <2> QED BY <2>1, <2>2
<1>4. SeenIn(N, sees \cup {k}, S)
  BY <1>2 DEF SeenIn
<1> QED
  BY <1>4 DEF N

\* ... forgets nobody, ...
LEMMA SightContinues ==
    ASSUME NEW D, IsRegister(D), NEW h \in Found, NEW k \in DeviceKeys(D, h), NEW known,
           NEW D0, Continues(D0, D)
    PROVE  Continues(D0, Sight(D, k, h, known))
<1> DEFINE N == Sight(D, k, h, known)
<1>1. /\ \A x \in DOMAIN D : x # k => (x \in DOMAIN N \/ (x = h.ip /\ k \notin DOMAIN D /\ k \in DevMacs))
      /\ \A x \in DOMAIN N : x # k => x \in DOMAIN D /\ N[x] = D[x]
      /\ k \in DOMAIN N
      /\ k \in DOMAIN D => N[k].ips = D[k].ips \cup {h.ip}
      /\ k \notin DOMAIN D => N[k].ips = {h.ip}
      /\ k \in DOMAIN D /\ D[k].known => N[k].known
      /\ k \notin DOMAIN D /\ h.ip \in DOMAIN D /\ D[h.ip].known => N[k].known
  BY SightStep
<1>2. h.ip \in DevIps
  BY KeyFacts
<1> HIDE DEF N
<1>3. ASSUME NEW y \in DOMAIN D0, D0[y].known PROVE \E x \in DOMAIN N : Stays(N, y, x)
  <2>1. PICK x \in DOMAIN D : Stays(D, y, x)
    BY <1>3 DEF Continues
  <2>2. CASE x # k /\ x \in DOMAIN N
    <3>1. N[x] = D[x]
      BY <1>1, <2>2
    <3> QED BY <2>1, <2>2, <3>1 DEF Stays
  <2>3. CASE x = k
    <3>1. k \in DOMAIN D /\ D[k].known /\ (k = y \/ (y \in DevIps /\ k \in DevMacs /\ y \in D[k].ips))
      BY <2>1, <2>3 DEF Stays
    <3>2. N[k].known /\ D[k].ips \subseteq N[k].ips
      BY <1>1, <3>1
    <3>3. Stays(N, y, k)
      BY <3>1, <3>2 DEF Stays
    <3> QED BY <1>1, <3>3
  <2>4. CASE x = h.ip /\ x # k /\ k \notin DOMAIN D /\ k \in DevMacs
    <3>1. D[h.ip].known /\ y = h.ip
      BY <1>2, <2>1, <2>4, DevicesAssumption DEF Stays
    <3>2. N[k].known /\ N[k].ips = {h.ip}
      BY <1>1, <2>1, <2>4, <3>1
    <3>3. Stays(N, y, k)
      BY <1>2, <2>4, <3>1, <3>2 DEF Stays
    <3> QED BY <1>1, <3>3
  <2> QED BY <1>1, <2>2, <2>3, <2>4
<1>4. Continues(D0, N)
  BY <1>3 DEF Continues
<1> QED
  BY <1>4 DEF N

\* What a host tells of a MAC.
Told(P, h) == P \cup (IF h.mac = NoMac THEN {} ELSE {<<h.mac, h.ip>>})

\* ... and records an address with the MAC that was seen there, and nothing else.
LEMMA SightOwns ==
    ASSUME NEW D, IsRegister(D), NEW h \in Found, NEW k \in DeviceKeys(D, h), NEW known,
           NEW P, Owns(D, P)
    PROVE  Owns(Sight(D, k, h, known), Told(P, h))
<1> DEFINE N == Sight(D, k, h, known)
<1>1. /\ \A x \in DOMAIN D : x # k => (x \in DOMAIN N \/ x = h.ip)
      /\ \A x \in DOMAIN N : x # k => x \in DOMAIN D /\ N[x] = D[x]
      /\ k \in DOMAIN N
      /\ k \in DOMAIN D => N[k].ips = D[k].ips \cup {h.ip}
      /\ k \notin DOMAIN D => N[k].ips = {h.ip}
  BY SightStep
<1>2. /\ h.ip \in DevIps
      /\ \/ h.mac # NoMac /\ k = h.mac /\ k \in DevMacs
         \/ h.mac = NoMac /\ k = h.ip
         \/ h.mac = NoMac /\ k \in DOMAIN D /\ k \in DevMacs /\ D[k].ip = h.ip
  BY KeyFacts
<1> HIDE DEF N
<1>3. ASSUME NEW m \in DevMacs, NEW ip \in DevIps
      PROVE  <<m, ip>> \in Told(P, h) <=> (m \in DOMAIN N /\ ip \in N[m].ips)
  <2>1. <<m, ip>> \in P <=> (m \in DOMAIN D /\ ip \in D[m].ips)
    BY DEF Owns
  <2>2. <<m, ip>> \in Told(P, h) <=> (<<m, ip>> \in P \/ (h.mac # NoMac /\ m = h.mac /\ ip = h.ip))
    BY DEF Told
  <2>3. m # h.ip
    BY <1>2, DevicesAssumption
  <2>4. CASE m # k
    <3>1. m \in DOMAIN N <=> m \in DOMAIN D
      BY <1>1, <2>3, <2>4
    <3>2. m \in DOMAIN N => N[m] = D[m]
      BY <1>1, <2>4
    <3>3. ~(h.mac # NoMac /\ m = h.mac)
      BY <1>2, <2>4
    <3> QED BY <2>1, <2>2, <3>1, <3>2, <3>3
  <2>5. CASE m = k /\ h.mac # NoMac
    <3>1. h.mac = k
      BY <1>2, <2>5
    <3>2. CASE k \in DOMAIN D
      BY <1>1, <2>1, <2>2, <2>5, <3>1, <3>2
    <3>3. CASE k \notin DOMAIN D
      BY <1>1, <2>1, <2>2, <2>5, <3>1, <3>3
    <3> QED BY <3>2, <3>3
  <2>6. CASE m = k /\ h.mac = NoMac
    <3>1. k \in DOMAIN D /\ D[k].ip = h.ip
      BY <1>2, <2>3, <2>6
    <3>2. h.ip \in D[k].ips
      BY <3>1 DEF IsRegister, IsDevice
    <3>3. N[k].ips = D[k].ips
      BY <1>1, <3>1, <3>2
    <3> QED BY <1>1, <2>1, <2>2, <2>6, <3>1, <3>3
  <2> QED BY <2>4, <2>5, <2>6
<1>4. Owns(N, Told(P, h))
  BY <1>3 DEF Owns
<1> QED
  BY <1>4 DEF N

\* A set of numbers that is not empty has a least one.
LEMMA LeastOf ==
    ASSUME NEW T \in SUBSET Nat, T # {}
    PROVE  \E x \in T : \A y \in T : x <= y
<1> DEFINE R == {ss \in Nat \X Nat : ss[1] < ss[2]}
<1>1. IsWellFoundedOn(R, Nat)
  BY NatLessThanWellFounded DEF OpToRel
<1>2. PICK x \in T : \A y \in T : ~ (<<y, x>> \in R)
  <2> HIDE DEF R
  <2> QED BY <1>1, WFMin
<1>3. ASSUME NEW y \in T PROVE x <= y
  <2>1. x \in Nat /\ y \in Nat
    OBVIOUS
  <2>2. <<y, x>> \in Nat \X Nat
    BY <2>1
  <2>3. <<y, x>>[1] = y /\ <<y, x>>[2] = x
    OBVIOUS
  <2>4. ~(<<y, x>> \in R)
    BY <1>2
  <2>5. ~(y < x)
    <3> SUFFICES ASSUME y < x PROVE <<y, x>> \in R
      BY <2>4
    <3> QED BY <2>2, <2>3
  <2> QED BY <2>1, <2>5
<1> QED
  BY <1>3

\* Before the first host.
First == {SoFar(devices, {})}

\* The hosts of a scan are registered one by one.
LEMMA ObservedSteps ==
    ASSUME NEW scan, Len(scan) \in Nat, NEW known
    PROVE  \E f : /\ f[0] = First /\ Observed(scan, known) = f[Len(scan)]
                  /\ \A i \in 1..Len(scan) : f[i] = WithHost(f[i - 1], scan[i], known)
  <1> DEFINE n == Len(scan)
             Follows(f, j) == f = [i \in 0..j |-> IF i = 0 THEN First ELSE WithHost(f[i - 1], scan[i], known)]
             T == {j \in Nat : ~ \E f : Follows(f, j)}
  <1>1. T = {}
    <2> SUFFICES ASSUME T # {} PROVE FALSE
      OBVIOUS
    <2>1. PICK x \in T : \A y \in T : x <= y
      <3>1. T \in SUBSET Nat
        OBVIOUS
      <3> HIDE DEF T
      <3> QED BY <3>1, LeastOf
    <2>2. x \in Nat /\ ~ \E f : Follows(f, x)
      OBVIOUS
    <2>3. CASE x = 0
      <3> DEFINE f == [i \in 0..0 |-> First]
      <3>1. f = [i \in 0..0 |-> IF i = 0 THEN First ELSE WithHost(f[i - 1], scan[i], known)]
        OBVIOUS
      <3> QED BY <2>2, <2>3, <3>1
    <2>4. CASE x # 0
      <3>1. x - 1 \in Nat /\ x - 1 \notin T
        <4>1. x - 1 \in Nat /\ ~(x <= x - 1)
          BY <2>2, <2>4
        <4> HIDE DEF T
        <4> QED BY <4>1, <2>1
      <3>2. PICK f : Follows(f, x - 1)
        BY <3>1
      <3>3. \A i \in 0..(x - 1) : f[i] = IF i = 0 THEN First ELSE WithHost(f[i - 1], scan[i], known)
        BY <3>2
      <3> DEFINE g == [i \in 0..x |-> IF i = x THEN WithHost(f[x - 1], scan[x], known) ELSE f[i]]
                 h == [i \in 0..x |-> IF i = 0 THEN First ELSE WithHost(g[i - 1], scan[i], known)]
      <3>4. ASSUME NEW i \in 0..x PROVE g[i] = h[i]
        <4>1. CASE i = 0
          <5>1. i # x /\ i \in 0..(x - 1)
            BY <2>2, <2>4, <4>1
          <5> QED BY <3>3, <4>1, <5>1
        <4>2. CASE i # 0
          <5>1. i - 1 \in 0..x /\ i - 1 # x /\ i \in Nat
            BY <2>2, <4>2
          <5>2. g[i - 1] = f[i - 1]
            BY <5>1
          <5>3. CASE i = x
            BY <4>2, <5>2, <5>3
          <5>4. CASE i # x
            <6>1. i \in 0..(x - 1)
              BY <2>2, <5>1, <5>4
            <6>2. f[i] = WithHost(f[i - 1], scan[i], known)
              BY <3>3, <4>2, <6>1
            <6> QED BY <4>2, <5>2, <5>4, <6>2
          <5> QED BY <5>3, <5>4
        <4> QED BY <4>1, <4>2
      <3>5. g = h
        BY <3>4
      <3>6. Follows(g, x)
        BY <3>5
      <3> HIDE DEF g
      <3> QED BY <2>2, <3>6
    <2> QED BY <2>3, <2>4
  <1>2. \E f : Follows(f, n)
    BY <1>1
  <1> DEFINE w == CHOOSE f : Follows(f, n)
  <1>3. Follows(w, n)
    <2> HIDE DEF Follows
    <2> QED BY <1>2
  <1>4. Observed(scan, known) = w[n]
    BY Zenon DEF Observed, First
  <1> HIDE DEF w
  <1>5. \A i \in 0..n : w[i] = IF i = 0 THEN First ELSE WithHost(w[i - 1], scan[i], known)
    BY <1>3
  <1>6. w[0] = First
    BY <1>5
  <1>7. \A i \in 1..n : w[i] = WithHost(w[i - 1], scan[i], known)
    BY <1>5
  <1> QED
    BY <1>4, <1>6, <1>7

LEMMA SoFarFacts == \A D, sees : SoFar(D, sees).devices = D /\ SoFar(D, sees).seen = sees
  BY DEF SoFar

\* What the first hosts of a scan tell.
Sightings(scan, i) == {<<scan[j].mac, scan[j].ip>> : j \in {l \in 1..i : scan[l].mac # NoMac}}

LEMMA SightingsGrow ==
    ASSUME NEW scan, NEW i \in Nat, i # 0, NEW P
    PROVE  P \cup Sightings(scan, i) = Told(P \cup Sightings(scan, i - 1), scan[i])
<1>1. 1..i = (1..(i - 1)) \cup {i} /\ i \notin 1..(i - 1)
  OBVIOUS
<1>2. CASE scan[i].mac = NoMac
  <2>1. {l \in 1..i : scan[l].mac # NoMac} = {l \in 1..(i - 1) : scan[l].mac # NoMac}
    BY <1>1, <1>2
  <2> QED BY <1>2, <2>1 DEF Sightings, Told
<1>3. CASE scan[i].mac # NoMac
  <2>1. {l \in 1..i : scan[l].mac # NoMac} = {l \in 1..(i - 1) : scan[l].mac # NoMac} \cup {i}
    BY <1>1, <1>3
  <2> DEFINE A == {l \in 1..(i - 1) : scan[l].mac # NoMac}
  <2> HIDE DEF A
  <2>2. {<<scan[j].mac, scan[j].ip>> : j \in A \cup {i}} =
            {<<scan[j].mac, scan[j].ip>> : j \in A} \cup {<<scan[i].mac, scan[i].ip>>}
    OBVIOUS
  <2>3. Sightings(scan, i) = Sightings(scan, i - 1) \cup {<<scan[i].mac, scan[i].ip>>}
    BY <2>1, <2>2 DEF Sightings, A
  <2> QED BY <1>3, <2>3 DEF Told
<1> QED
  BY <1>2, <1>3

\* What holds of a register and of what was seen after some hosts of a scan.
Holds(r, D, P, W, S) ==
    /\ IsRegister(r.devices) /\ VouchedIn(r.devices, W) /\ SeenIn(r.devices, r.seen, S)
    /\ Continues(D, r.devices)
    /\ Owns(r.devices, P)

\* Before a scan, and at each of its hosts, whichever device it is taken for.
LEMMA FirstHolds ==
    ASSUME IsRegister(devices), NEW W, VouchedIn(devices, W), NEW P, Owns(devices, P), NEW S
    PROVE  \A r \in First : Holds(r, devices, P, W, S)
<1> SUFFICES Holds(SoFar(devices, {}), devices, P, W, S)
  BY DEF First
<1>1. SoFar(devices, {}).devices = devices /\ SoFar(devices, {}).seen = {}
  BY SoFarFacts
<1>2. Continues(devices, devices)
  BY DEF Continues, Stays
<1>3. SeenIn(devices, {}, S)
  BY DEF SeenIn
<1> QED
  BY <1>1, <1>2, <1>3 DEF Holds

LEMMA HostHolds ==
    ASSUME NEW Rs, NEW h \in Found, NEW known, NEW W, known \subseteq W, NEW S, {h.ip, h.mac} \subseteq S,
           NEW D, NEW P, \A r \in Rs : Holds(r, D, P, W, S)
    PROVE  \A r \in WithHost(Rs, h, known) : Holds(r, D, Told(P, h), W, S)
<1> TAKE q \in WithHost(Rs, h, known)
<1>0. PICK r \in Rs : q \in {SoFar(Sight(r.devices, k, h, known), r.seen \cup {k}) : k \in DeviceKeys(r.devices, h)}
  BY Zenon DEF WithHost
<1>1. PICK k \in DeviceKeys(r.devices, h) : q = SoFar(Sight(r.devices, k, h, known), r.seen \cup {k})
  BY <1>0
<1>2. Holds(r, D, P, W, S)
  OBVIOUS
<1> DEFINE E == r.devices
           N == Sight(E, k, h, known)
<1>3. q.devices = N /\ q.seen = r.seen \cup {k}
  BY <1>1, SoFarFacts
<1>4. IsRegister(E) /\ VouchedIn(E, W) /\ SeenIn(E, r.seen, S) /\ Continues(D, E) /\ Owns(E, P)
  BY <1>2 DEF Holds
<1>5. k \in DeviceKeys(E, h)
  OBVIOUS
<1> HIDE DEF E
<1>6. IsRegister(N)
  BY <1>4, <1>5, SightKeepsRegister
<1>7. VouchedIn(N, W)
  BY <1>4, <1>5, SightKeepsVouched
<1>8. SeenIn(N, r.seen \cup {k}, S)
  BY <1>4, <1>5, SightKeepsSeen
<1>9. Continues(D, N)
  BY <1>4, <1>5, SightContinues
<1>10. Owns(N, Told(P, h))
  BY <1>4, <1>5, SightOwns
<1> HIDE DEF N
<1> QED
  BY <1>3, <1>6, <1>7, <1>8, <1>9, <1>10 DEF Holds

\* A whole scan.
LEMMA ObservedHolds ==
    ASSUME IsRegister(devices), NEW scan \in Seq(Found), NEW known, NEW W, known \subseteq W, VouchedIn(devices, W),
           NEW S, \A i \in DOMAIN scan : {scan[i].ip, scan[i].mac} \subseteq S,
           NEW P, Owns(devices, P)
    PROVE  \A r \in Observed(scan, known) : Holds(r, devices, P \cup Sightings(scan, Len(scan)), W, S)
<1> DEFINE n == Len(scan)
<1>1. n \in Nat /\ DOMAIN scan = 1..n /\ \A i \in 1..n : scan[i] \in Found
  OBVIOUS
<1>2. PICK f : /\ f[0] = First /\ Observed(scan, known) = f[n]
               /\ \A i \in 1..n : f[i] = WithHost(f[i - 1], scan[i], known)
  BY <1>1, ObservedSteps
<1> HIDE DEF n
<1> DEFINE G(i) == \A r \in f[i] : Holds(r, devices, P \cup Sightings(scan, i), W, S)
           T == {i \in 0..n : ~G(i)}
<1>3. G(0)
  <2>1. Sightings(scan, 0) = {}
    BY DEF Sightings
  <2>2. P \cup Sightings(scan, 0) = P
    BY <2>1
  <2> QED BY <1>2, <2>2, FirstHolds
<1>4. ASSUME NEW i \in 1..n, G(i - 1) PROVE G(i)
  <2>1. f[i] = WithHost(f[i - 1], scan[i], known)
    BY <1>2
  <2>2. scan[i] \in Found /\ {scan[i].ip, scan[i].mac} \subseteq S
    BY <1>1
  <2>3. P \cup Sightings(scan, i) = Told(P \cup Sightings(scan, i - 1), scan[i])
    <3>1. i \in Nat /\ i # 0
      BY <1>1
    <3> QED BY <3>1, SightingsGrow
  <2> DEFINE Q == P \cup Sightings(scan, i - 1)
             Rs == f[i - 1]
             h == scan[i]
  <2>4. \A r \in Rs : Holds(r, devices, Q, W, S)
    BY <1>4
  <2> HIDE DEF Q, Rs, h
  <2>5. h \in Found /\ {h.ip, h.mac} \subseteq S
    BY <2>2 DEF h
  <2>6. \A r \in WithHost(Rs, h, known) : Holds(r, devices, Told(Q, h), W, S)
    BY <2>4, <2>5, HostHolds
  <2> QED BY <2>1, <2>3, <2>6 DEF Q, Rs, h
<1>5. T = {}
  <2> SUFFICES ASSUME T # {} PROVE FALSE
    OBVIOUS
  <2>1. PICK x \in T : \A y \in T : x <= y
    <3>1. T \in SUBSET Nat
      BY <1>1
    <3> HIDE DEF T
    <3> QED BY <3>1, LeastOf
  <2>2. x \in 0..n /\ ~G(x)
    OBVIOUS
  <2>3. x # 0
    BY <1>3, <2>2
  <2>4. x \in 1..n /\ x - 1 \in 0..n /\ ~(x <= x - 1)
    BY <1>1, <2>2, <2>3
  <2>5. x - 1 \notin T
    <3> HIDE DEF T
    <3> QED BY <2>1, <2>4
  <2>6. G(x - 1)
    BY <2>4, <2>5
  <2> HIDE DEF G
  <2> QED BY <1>4, <2>2, <2>4, <2>6
<1>6. G(n)
  <2>1. n \in 0..n
    BY <1>1
  <2> HIDE DEF G
  <2> QED BY <1>5, <2>1
<1> QED
  BY <1>2, <1>6 DEF n

\* Accepting changes nothing else.
LEMMA AcceptedHolds ==
    ASSUME NEW D, NEW keys, NEW D0, NEW P, IsRegister(D)
    PROVE  /\ IsRegister(WithKnown(D, keys))
           /\ Owns(D, P) => Owns(WithKnown(D, keys), P)
           /\ Continues(D0, D) => Continues(D0, WithKnown(D, keys))
<1> DEFINE E == WithKnown(D, keys)
<1>1. /\ DOMAIN E = DOMAIN D
      /\ \A k \in DOMAIN D : /\ E[k].ip = D[k].ip
                             /\ E[k].ips = D[k].ips
                             /\ E[k].known <=> (D[k].known \/ k \in keys)
  BY WithKnownFacts
<1> HIDE DEF E
<1>2. IsRegister(E)
  BY <1>1 DEF IsRegister, IsDevice
<1>3. Owns(D, P) => Owns(E, P)
  BY <1>1 DEF Owns
<1>4. ASSUME Continues(D0, D) PROVE Continues(D0, E)
  <2>1. \A k, x : x \in DOMAIN D /\ Stays(D, k, x) => x \in DOMAIN E /\ Stays(E, k, x)
    BY <1>1 DEF Stays
  <2> QED BY <1>4, <2>1 DEF Continues
<1> QED
  BY <1>2, <1>3, <1>4 DEF E

\* Who is accepted by being seen is named by the scan.
LEMMA AcceptedIsVouched ==
    ASSUME NEW D, NEW keys, NEW W, NEW S, VouchedIn(D, W), SeenIn(D, keys, S)
    PROVE  VouchedIn(WithKnown(D, keys), W \cup S)
<1> DEFINE E == WithKnown(D, keys)
<1>1. /\ DOMAIN E = DOMAIN D
      /\ \A k \in DOMAIN D : /\ E[k].ips = D[k].ips
                             /\ E[k].known <=> (D[k].known \/ k \in keys)
  BY WithKnownFacts
<1> HIDE DEF E
<1>2. ASSUME NEW k \in DOMAIN E, E[k].known PROVE k \in W \cup S \/ E[k].ips \cap (W \cup S) # {}
  <2>1. CASE D[k].known
    <3>1. k \in W \/ D[k].ips \cap W # {}
      BY <1>1, <2>1 DEF VouchedIn
    <3> QED BY <1>1, <3>1
  <2>2. CASE k \in keys
    <3>1. k \in S \/ D[k].ips \cap S # {}
      BY <1>1, <2>2 DEF SeenIn
    <3> QED BY <1>1, <3>1
  <2> QED BY <1>1, <1>2, <2>1, <2>2
<1>3. VouchedIn(E, W \cup S)
  BY <1>2 DEF VouchedIn
<1> QED
  BY <1>3 DEF E

\* The inductive invariant: until an empty register is saved over it, the
\* register has exactly the sights there were.
DevicesInv ==
    /\ IsRegister(devices) /\ VouchedIn(devices, vouched)
    /\ sighted \subseteq DevMacs \X DevIps /\ IsFiniteSet(sighted)
    /\ ~forgotten => Owns(devices, sighted)

LEMMA NoDevicesFacts ==
    /\ IsRegister(NoDevices) /\ \A W : VouchedIn(NoDevices, W)
    /\ DOMAIN NoDevices = {}
<1>1. DOMAIN NoDevices = {}
  BY DEF NoDevices
<1> QED
  BY <1>1 DEF IsRegister, VouchedIn

LEMMA DevicesInitHolds == DevicesInit => DevicesInv
<1> SUFFICES ASSUME DevicesInit PROVE DevicesInv
  OBVIOUS
<1>1. devices = NoDevices /\ vouched = {} /\ sighted = {}
  BY DEF DevicesInit
<1>2. Owns(devices, sighted)
  BY <1>1, NoDevicesFacts DEF Owns
<1>3. IsFiniteSet(sighted)
  BY <1>1, FS_EmptySet
<1>4. sighted \subseteq DevMacs \X DevIps
  BY <1>1
<1>5. IsRegister(devices) /\ VouchedIn(devices, vouched)
  BY <1>1, NoDevicesFacts
<1> QED
  BY <1>2, <1>3, <1>4, <1>5 DEF DevicesInv

LEMMA StaysItself == \A D : Continues(D, D)
  BY DEF Continues, Stays

\* Finitely many hosts are seen at a time.
LEMMA SightingsAreFinite ==
    ASSUME NEW scan, Len(scan) \in Nat
    PROVE  IsFiniteSet(Sightings(scan, Len(scan)))
<1> DEFINE I == {l \in 1..Len(scan) : scan[l].mac # NoMac}
           T == {<<scan[j].mac, scan[j].ip>> : j \in I}
           f == [j \in I |-> <<scan[j].mac, scan[j].ip>>]
<1>1. IsFiniteSet(I)
  <2>1. IsFiniteSet(1..Len(scan))
    BY FS_Interval
  <2>2. I \in SUBSET (1..Len(scan))
    OBVIOUS
  <2> HIDE DEF I
  <2> QED BY <2>1, <2>2, FS_Subset
<1>2. f \in Surjection(I, T)
  <2> HIDE DEF I
  <2> QED BY DEF Surjection
<1>3. IsFiniteSet(T)
  <2> HIDE DEF I, T, f
  <2> QED BY <1>1, <1>2, FS_Surjection
<1> QED
  BY <1>3 DEF Sightings

\* The steps.
LEMMA ObserveKeeps ==
    ASSUME DevicesInv, NEW scan \in ScanLists, NEW known \in ProfileSets, Observe(scan, known)
    PROVE  DevicesInv' /\ Continues(devices, devices')
<1> DEFINE S == UNION {{scan[i].ip, scan[i].mac} : i \in DOMAIN scan}
           W == vouched \cup known
           n == Len(scan)
<1>1. scan \in Seq(Found) /\ n \in Nat /\ DOMAIN scan = 1..n /\ \A i \in 1..n : scan[i] \in Found
  <2>1. scan \in Seq(Found)
    BY DevicesAssumption
  <2> QED BY <2>1
<1>2. \A i \in DOMAIN scan : {scan[i].ip, scan[i].mac} \subseteq S
  OBVIOUS
<1>3. PICK r \in Observed(scan, known) : devices' = Accept(r)
  BY DEF Observe
<1>4. /\ vouched' = vouched \cup known \cup (IF baseline THEN {} ELSE S)
      /\ sighted' = sighted \cup {<<scan[i].mac, scan[i].ip>> : i \in {j \in DOMAIN scan : scan[j].mac # NoMac}}
      /\ forgotten' = forgotten
  BY DEF Observe
<1>5. sighted' = sighted \cup Sightings(scan, n)
  BY <1>1, <1>4 DEF Sightings
<1>6. VouchedIn(devices, W) /\ IsRegister(devices)
  BY DEF DevicesInv, VouchedIn
<1> DEFINE P0 == {p \in DevMacs \X DevIps : p[1] \in DOMAIN devices /\ p[2] \in devices[p[1]].ips}
           P == IF forgotten THEN P0 ELSE sighted
<1>7. Owns(devices, P)
  <2>1. Owns(devices, P0)
    <3>1. ASSUME NEW m \in DevMacs, NEW ip \in DevIps
          PROVE  <<m, ip>> \in P0 <=> (m \in DOMAIN devices /\ ip \in devices[m].ips)
      OBVIOUS
    <3> HIDE DEF P0
    <3> QED BY <3>1 DEF Owns
  <2> QED BY <2>1 DEF DevicesInv
<1> HIDE DEF S, W, P0, P
<1>8. known \subseteq W
  BY DEF W
<1>9. Holds(r, devices, P \cup Sightings(scan, n), W, S)
  BY <1>1, <1>2, <1>6, <1>7, <1>8, ObservedHolds DEF n
<1> HIDE DEF n
<1> DEFINE D == r.devices
           keys == IF baseline THEN {} ELSE r.seen
           K == IF baseline THEN {} ELSE S
           Q == P \cup Sightings(scan, n)
<1>10. devices' = WithKnown(D, keys)
  BY <1>3 DEF Accept
<1>11. IsRegister(D) /\ VouchedIn(D, W) /\ SeenIn(D, keys, K) /\ Continues(devices, D) /\ Owns(D, Q)
  <2>1. SeenIn(D, {}, {})
    BY DEF SeenIn
  <2> QED BY <1>9, <2>1 DEF Holds
<1> HIDE DEF D, keys, K, Q
<1>12. IsRegister(devices') /\ Continues(devices, devices') /\ Owns(devices', Q)
  BY <1>10, <1>11, AcceptedHolds
<1>13. VouchedIn(devices', vouched')
  <2>1. VouchedIn(WithKnown(D, keys), W \cup K)
    BY <1>11, AcceptedIsVouched
  <2>2. vouched' = W \cup K
    BY <1>4 DEF W, K
  <2> QED BY <1>10, <2>1, <2>2
<1>14. IsFiniteSet(sighted')
  <2>1. IsFiniteSet(Sightings(scan, n))
    BY <1>1, SightingsAreFinite DEF n
  <2>2. IsFiniteSet(sighted)
    BY DEF DevicesInv
  <2>3. IsFiniteSet(sighted \cup Sightings(scan, n))
    BY <2>1, <2>2, FS_Union
  <2> QED BY <1>5, <2>3
<1>15. sighted' \subseteq DevMacs \X DevIps
  <2>1. Sightings(scan, n) \subseteq DevMacs \X DevIps
    <3>1. \A i \in 1..n : scan[i].mac \in DevMacs \cup {NoMac} /\ scan[i].ip \in DevIps
      BY <1>1 DEF Found
    <3> QED BY <3>1 DEF Sightings
  <2> QED BY <1>5, <2>1 DEF DevicesInv
<1>16. ~forgotten' => Owns(devices', sighted')
  <2>1. ~forgotten' => Q = sighted'
    BY <1>4, <1>5 DEF Q, P
  <2> QED BY <1>12, <2>1
<1> QED
  BY <1>12, <1>13, <1>14, <1>15, <1>16 DEF DevicesInv

LEMMA AcknowledgeKeeps ==
    ASSUME DevicesInv, NEW keys, Acknowledge(keys)
    PROVE  DevicesInv' /\ Continues(devices, devices')
<1>1. devices' = WithKnown(devices, keys) /\ vouched' = vouched \cup keys /\ sighted' = sighted /\ forgotten' = forgotten
  BY DEF Acknowledge
<1>2. IsRegister(devices) /\ VouchedIn(devices, vouched) /\ SeenIn(devices, keys, keys) /\ Continues(devices, devices)
  BY StaysItself DEF DevicesInv, SeenIn
<1>3. IsRegister(devices') /\ Continues(devices, devices') /\ (Owns(devices, sighted) => Owns(devices', sighted))
  BY <1>1, <1>2, AcceptedHolds
<1>4. VouchedIn(devices', vouched')
  BY <1>1, <1>2, AcceptedIsVouched
<1> QED
  BY <1>1, <1>3, <1>4 DEF DevicesInv

LEMMA SameKeeps ==
    ASSUME DevicesInv, UNCHANGED <<devices, vouched, sighted, forgotten>>
    PROVE  DevicesInv' /\ Continues(devices, devices')
<1>1. Continues(devices, devices')
  BY StaysItself
<1> QED
  BY <1>1 DEF DevicesInv

\* An empty register saved before it was loaded.
LEMMA EmptiedKeeps ==
    ASSUME DevicesInv, ~loaded, AcknowledgeAll
    PROVE  DevicesInv' /\ loaded' = loaded
<1>1. /\ devices' = NoDevices /\ UNCHANGED <<loaded, vouched, sighted>>
      /\ forgotten' = (forgotten \/ devices # NoDevices)
  BY DEF AcknowledgeAll
<1>2. IsRegister(devices') /\ VouchedIn(devices', vouched')
  BY <1>1, NoDevicesFacts
<1>3. ~forgotten' => ~forgotten /\ devices = NoDevices
  BY Zenon, <1>1
<1>4. ~forgotten' => Owns(devices', sighted')
  BY <1>1, <1>3 DEF DevicesInv
<1> QED
  BY <1>1, <1>2, <1>4 DEF DevicesInv

LEMMA DevicesStepKeeps ==
    ASSUME DevicesInv, [DevicesNext]_devicesVars
    PROVE  DevicesInv' /\ (loaded' => Continues(devices, devices'))
<1>1. CASE \E scan \in ScanLists, known \in ProfileSets : Observe(scan, known)
  BY <1>1, ObserveKeeps
<1>2. CASE AcknowledgeDevice
  BY <1>2, AcknowledgeKeeps DEF AcknowledgeDevice
<1>3. CASE AcknowledgeAll /\ loaded
  BY <1>3, AcknowledgeKeeps DEF AcknowledgeAll
<1>4. CASE AcknowledgeAll /\ ~loaded
  BY <1>4, EmptiedKeeps
<1>5. CASE TamperDevices \/ TrustDevices \/ RestartDevices \/ UNCHANGED devicesVars
  <2>1. UNCHANGED <<devices, vouched, sighted, forgotten>>
    BY <1>5 DEF TamperDevices, TrustDevices, RestartDevices, devicesVars
  <2> QED BY <2>1, SameKeeps
<1> QED
  BY <1>1, <1>2, <1>3, <1>4, <1>5 DEF DevicesNext

\* What is told of an address is counted from what was seen at it.
LEMMA InvIsHistory == DevicesInv => ContextIsHistory
<1> SUFFICES ASSUME DevicesInv, ~forgotten, NEW ip \in DevIps
             PROVE  LET n == Cardinality({p \in sighted : p[2] = ip}) IN
                    KeyChange(ip) = CASE n = 0 -> "unknown" [] n = 1 -> "same" [] OTHER -> "moved"
  BY DEF ContextIsHistory
<1> DEFINE A == {p \in sighted : p[2] = ip}
           B == IpOwners(ip)
           f == [p \in A |-> p[1]]
<1>1. IsFiniteSet(A)
  <2>1. IsFiniteSet(sighted) /\ A \in SUBSET sighted
    BY DEF DevicesInv
  <2> HIDE DEF A
  <2> QED BY <2>1, FS_Subset
<1>2. B = {k \in DOMAIN devices \cap DevMacs : ip \in devices[k].ips}
  BY DEF IpOwners, DevicesInv, IsRegister, IsDevice
<1>3. sighted \subseteq DevMacs \X DevIps /\ Owns(devices, sighted)
  BY DEF DevicesInv
<1>4. \A p \in A : p[1] \in B /\ p = <<p[1], ip>>
  BY <1>2, <1>3 DEF Owns
<1>5. \A k \in B : <<k, ip>> \in A /\ <<k, ip>>[1] = k
  BY <1>2, <1>3 DEF Owns
<1> HIDE DEF A, B
<1>6. f \in Bijection(A, B)
  <2>1. f \in [A -> B]
    BY <1>4
  <2>2. \A p, q \in A : f[p] = f[q] => p = q
    BY <1>4
  <2>3. \A k \in B : \E p \in A : f[p] = k
    BY <1>5
  <2> HIDE DEF f
  <2> QED BY <2>1, <2>2, <2>3 DEF Bijection, Injection, IsInjective, Surjection
<1>7. IsFiniteSet(B) /\ Cardinality(B) = Cardinality(A)
  <2>1. ExistsBijection(A, B)
    BY <1>6 DEF ExistsBijection
  <2> QED BY <1>1, <2>1, FS_Bijection
<1>8. Cardinality(B) \in Nat /\ (Cardinality(B) = 0 <=> B = {})
  BY <1>7, FS_CardinalityType, FS_EmptySet
<1> DEFINE n == Cardinality(A)
<1>9. KeyChange(ip) = IF n > 1 THEN "moved" ELSE IF n = 0 THEN "unknown" ELSE "same"
  BY <1>7, <1>8 DEF KeyChange, B
<1>10. n \in Nat
  BY <1>7, <1>8
<1> HIDE DEF n
<1>11. KeyChange(ip) = CASE n = 0 -> "unknown" [] n = 1 -> "same" [] OTHER -> "moved"
  BY <1>9, <1>10
<1> QED
  BY <1>11 DEF n, A

LEMMA InvIsVouched == DevicesInv => RegisterIsVouched
  BY InvIsHistory DEF DevicesInv, VouchedIn, KnownIsVouched, RegisterIsVouched

\* Nothing in the register is known by itself, what a changed key is told of an
\* address is counted from the sights at it, and no scan, whatever it sees of the
\* MACs, forgets who was accepted (observe, acknowledge, key_change_context).
THEOREM RegisterStaysVouched == DevicesSpec => RegisterHolds
<1>1. DevicesInit => DevicesInv
  BY DevicesInitHolds
<1>2. DevicesInv /\ [DevicesNext]_devicesVars => DevicesInv'
  BY DevicesStepKeeps
<1>3. DevicesInv /\ [DevicesNext]_devicesVars => KnownStaysKnown
  <2> SUFFICES ASSUME DevicesInv, [DevicesNext]_devicesVars, loaded' PROVE \A k \in DOMAIN devices : devices[k].known =>
        \E x \in DOMAIN devices' : devices'[x].known /\ (x = k \/ (k \in DevIps /\ k \in devices'[x].ips))
    BY DEF KnownStaysKnown
  <2>1. Continues(devices, devices')
    BY DevicesStepKeeps
  <2> QED BY <2>1 DEF Continues, Stays
<1>4. DevicesInv => RegisterIsVouched
  BY InvIsVouched
<1> QED
  BY <1>1, <1>2, <1>3, <1>4, PTL DEF DevicesSpec, RegisterHolds

---------------------------------------------------------------------------
(* The log of a disk (core/smart_history.py, core/drive_report.py). *)

\* A drive, what one probe tells of it, and the entries that hold it.
Drives   == [serial : {Serial}, written : Nat, bad : Nat]
Counts   == Nat \cup {Unknown}
Writtens == {JsonWritten(w) : w \in Nat} \cup {TextWritten(w) : w \in Nat} \cup {Unknown}
Entries  == [first : Nat, last : Nat, of : Drives, realloc : Counts, uncorrect : Counts, written : Writtens]

\* What is kept under a key is what some way of probing tells of the drive.
ReadAs(x, d, id) ==
    \/ /\ id = Serial /\ x.realloc = d.bad /\ x.uncorrect = d.bad
       /\ x.written = JsonWritten(d.written) \/ x.written = TextWritten(d.written)
    \/ id = Dev /\ x.realloc = Unknown /\ x.uncorrect = d.bad /\ x.written = Unknown
    \/ id = Dev /\ x.realloc = Unknown /\ x.uncorrect = Unknown /\ x.written = Unknown

\* The fields that make an entry another.
Alike(e, r) == e.realloc = r.realloc /\ e.uncorrect = r.uncorrect /\ e.written = r.written

LEMMA SameIsAlike == \A e, r : Same(e, r) <=> Alike(e, r)
  BY DEF Same, ChangeKeys, Alike

\* What the constructor holds.
LEMMA EntryFacts ==
    ASSUME NEW a, NEW b, NEW c, NEW d, NEW e, NEW f
    PROVE  LET x == Entry(a, b, c, d, e, f)
           IN  /\ x.first = a /\ x.last = b /\ x.of = c
               /\ x.realloc = d /\ x.uncorrect = e /\ x.written = f
               /\ a \in Nat /\ b \in Nat /\ c \in Drives /\ d \in Counts /\ e \in Counts /\ f \in Writtens
                    => x \in Entries
  BY DEF Entry, Entries

\* What each way tells, field by field.
LEMMA FromJsonFacts ==
    ASSUME NEW d
    PROVE  /\ FromJson(d).serial = d.serial
           /\ FromJson(d).realloc = d.bad
           /\ FromJson(d).uncorrect = d.bad
           /\ FromJson(d).written = JsonWritten(d.written)
<1>1. FromJson(d).serial = d.serial
  BY Zenon DEF FromJson, Reading
<1>2. FromJson(d).realloc = d.bad
  BY Zenon DEF FromJson, Reading
<1>3. FromJson(d).uncorrect = d.bad
  BY Zenon DEF FromJson, Reading
<1>4. FromJson(d).written = JsonWritten(d.written)
  BY Zenon DEF FromJson, Reading
<1> QED
  BY <1>1, <1>2, <1>3, <1>4

LEMMA FromTextFacts ==
    ASSUME NEW d
    PROVE  /\ FromText(d).serial = d.serial
           /\ FromText(d).realloc = d.bad
           /\ FromText(d).uncorrect = d.bad
           /\ FromText(d).written = TextWritten(d.written)
<1>1. FromText(d).serial = d.serial
  BY Zenon DEF FromText, Reading
<1>2. FromText(d).realloc = d.bad
  BY Zenon DEF FromText, Reading
<1>3. FromText(d).uncorrect = d.bad
  BY Zenon DEF FromText, Reading
<1>4. FromText(d).written = TextWritten(d.written)
  BY Zenon DEF FromText, Reading
<1> QED
  BY <1>1, <1>2, <1>3, <1>4

LEMMA FromUdisksFacts ==
    ASSUME NEW d
    PROVE  /\ FromUdisks(d).serial = Unknown
           /\ FromUdisks(d).realloc = Unknown
           /\ FromUdisks(d).uncorrect = d.bad
           /\ FromUdisks(d).written = Unknown
<1>1. FromUdisks(d).serial = Unknown
  BY Zenon DEF FromUdisks, Reading
<1>2. FromUdisks(d).realloc = Unknown
  BY Zenon DEF FromUdisks, Reading
<1>3. FromUdisks(d).uncorrect = d.bad
  BY Zenon DEF FromUdisks, Reading
<1>4. FromUdisks(d).written = Unknown
  BY Zenon DEF FromUdisks, Reading
<1> QED
  BY <1>1, <1>2, <1>3, <1>4

LEMMA NoSmartFacts ==
    /\ ~NoSmart.available
    /\ NoSmart.serial = Unknown
    /\ NoSmart.realloc = Unknown
    /\ NoSmart.uncorrect = Unknown
    /\ NoSmart.written = Unknown
<1>1. ~NoSmart.available
  BY Zenon DEF NoSmart, Reading
<1>2. NoSmart.serial = Unknown
  BY Zenon DEF NoSmart, Reading
<1>3. NoSmart.realloc = Unknown
  BY Zenon DEF NoSmart, Reading
<1>4. NoSmart.uncorrect = Unknown
  BY Zenon DEF NoSmart, Reading
<1>5. NoSmart.written = Unknown
  BY Zenon DEF NoSmart, Reading
<1> QED
  BY <1>1, <1>2, <1>3, <1>4, <1>5

\* What a probe tells is kept under the key of the way, and unless SMART is not
\* available it has the count of bad sectors.
LEMMA ReadingFacts ==
    ASSUME NEW d \in Drives, NEW way \in Ways
    PROVE  LET r == ParseOneDisk(d, way)
           IN  /\ ReadAs(r, d, SmartLogKey(Dev, r)) /\ SmartLogKey(Dev, r) \in LogKeys
               /\ r.available => r.uncorrect = d.bad
               /\ r.realloc \in Counts /\ r.uncorrect \in Counts /\ r.written \in Writtens
<1> DEFINE r == ParseOneDisk(d, way)
<1>1. d.bad \in Nat /\ d.written \in Nat /\ d.serial = Serial /\ Serial # Unknown
  BY SmartAssumption DEF Drives
<1>2. /\ JsonWritten(d.written) \in Writtens /\ TextWritten(d.written) \in Writtens /\ Unknown \in Writtens
      /\ d.bad \in Counts /\ Unknown \in Counts
  BY <1>1 DEF Writtens, Counts
<1>3. CASE way \in {"json", "text"}
  <2>1. r = FromJson(d) \/ r = FromText(d)
    BY <1>3 DEF ParseOneDisk
  <2> HIDE DEF r
  <2>2. r.serial = d.serial /\ r.realloc = d.bad /\ r.uncorrect = d.bad
    BY <2>1, FromJsonFacts, FromTextFacts
  <2>3. r.written = JsonWritten(d.written) \/ r.written = TextWritten(d.written)
    BY <2>1, FromJsonFacts, FromTextFacts
  <2>4. SmartLogKey(Dev, r) = Serial
    BY <1>1, <2>2 DEF SmartLogKey
  <2>5. ReadAs(r, d, Serial)
    BY <2>2, <2>3 DEF ReadAs
  <2> QED BY <1>2, <2>2, <2>3, <2>4, <2>5 DEF r, LogKeys
<1>4. CASE way = "udisks"
  <2>1. r = FromUdisks(d)
    BY <1>4 DEF ParseOneDisk
  <2> HIDE DEF r
  <2>2. r.serial = Unknown /\ r.realloc = Unknown /\ r.uncorrect = d.bad /\ r.written = Unknown
    BY <2>1, FromUdisksFacts
  <2>3. SmartLogKey(Dev, r) = Dev
    BY <2>2 DEF SmartLogKey
  <2>4. ReadAs(r, d, Dev)
    BY <2>2 DEF ReadAs
  <2> QED BY <1>2, <2>2, <2>3, <2>4 DEF r, LogKeys
<1>5. CASE way = "none"
  <2>1. r = NoSmart
    BY <1>5 DEF ParseOneDisk
  <2> HIDE DEF r
  <2>2. ~r.available /\ r.serial = Unknown /\ r.realloc = Unknown /\ r.uncorrect = Unknown /\ r.written = Unknown
    BY <2>1, NoSmartFacts
  <2>3. SmartLogKey(Dev, r) = Dev
    BY <2>2 DEF SmartLogKey
  <2>4. ReadAs(r, d, Dev)
    BY <2>2 DEF ReadAs
  <2> QED BY <1>2, <2>2, <2>3, <2>4 DEF r, LogKeys
<1> QED
  BY <1>3, <1>4, <1>5 DEF Ways

---------------------------------------------------------------------------
\* One history of the log.
PeriodsTo(h, t) ==
    /\ \A i \in 1..Len(h) : h[i].first <= h[i].last /\ h[i].last <= t
    /\ \A i \in 1..(Len(h) - 1) : h[i].last <= h[i + 1].first
IsHistory(h, id, t) ==
    /\ h \in Seq(Entries)
    /\ \A i \in 1..Len(h) : ReadAs(h[i], h[i].of, id)
    /\ \A i \in 1..(Len(h) - 1) : ~Alike(h[i], h[i + 1])
    /\ PeriodsTo(h, t)
BoundedBy(h, n) == \A i \in 1..Len(h) : h[i].of.bad <= n

\* A reading of a drive, as the tab passes it to the log.
IsResult(c, id) ==
    /\ c.of \in Drives /\ ReadAs(c.reading, c.of, id)
    /\ c.reading.realloc \in Counts /\ c.reading.uncorrect \in Counts /\ c.reading.written \in Writtens

\* Every entry tells in g what it told in h.
SameEntries(h, g) ==
    \A i \in 1..Len(h) : g[i].of = h[i].of /\ g[i].first = h[i].first /\ Alike(g[i], h[i])

\* What is left of a history when another is read in its place.
Keeps(h, g) ==
    /\ Len(g) >= Len(h)
    /\ h # <<>> =>
         /\ SubSeq(g, 1, Len(h) - 1) = Front(h)
         /\ [g[Len(h)] EXCEPT !.last = Last(h).last] = Last(h)
         /\ g[Len(h)].last >= Last(h).last

\* An entry drawn out says the same.
LEMMA StillSoFacts ==
    ASSUME NEW e \in Entries, clock \in Nat
    PROVE  /\ StillSo(e) \in Entries /\ StillSo(e).first = e.first /\ StillSo(e).last = clock
           /\ StillSo(e).of = e.of /\ Alike(StillSo(e), e)
           /\ [StillSo(e) EXCEPT !.last = e.last] = e
<1>1. /\ e.first \in Nat /\ e.of \in Drives /\ e.realloc \in Counts /\ e.uncorrect \in Counts
      /\ e.written \in Writtens
  BY DEF Entries
<1>2. [StillSo(e) EXCEPT !.last = e.last] = e
  BY DEF StillSo, Entry, Entries
<1> QED
  BY <1>1, <1>2, EntryFacts DEF StillSo, Alike

\* A reading like the last one draws out its period.
LEMMA DrawnOut ==
    ASSUME clock \in Nat, NEW h, NEW id, IsHistory(h, id, clock), h # <<>>
    PROVE  LET g == [h EXCEPT ![Len(h)] = StillSo(@)]
           IN  /\ IsHistory(g, id, clock) /\ Keeps(h, g) /\ SameEntries(h, g)
               /\ Len(g) = Len(h)
<1> DEFINE n == Len(h)
           g == [h EXCEPT ![Len(h)] = StillSo(@)]
<1>1. h \in Seq(Entries) /\ n \in Nat /\ n # 0 /\ DOMAIN h = 1..n /\ \A i \in 1..n : h[i] \in Entries
  BY DEF IsHistory
<1>2. StillSo(h[n]) \in Entries
  BY <1>1, StillSoFacts
<1>3. g \in Seq(Entries) /\ Len(g) = n
  BY <1>1, <1>2
<1>4. g[n] = StillSo(h[n]) /\ \A i \in 1..n : i # n => g[i] = h[i]
  BY <1>1
<1> HIDE DEF g, n
<1>5. /\ g[n].first = h[n].first /\ g[n].last = clock /\ g[n].of = h[n].of /\ Alike(g[n], h[n])
      /\ [g[n] EXCEPT !.last = h[n].last] = h[n]
  BY <1>1, <1>4, StillSoFacts
<1>6. SameEntries(h, g)
  <2>1. ASSUME NEW i \in 1..n PROVE g[i].of = h[i].of /\ g[i].first = h[i].first /\ Alike(g[i], h[i])
    BY <1>4, <1>5 DEF Alike
  <2> QED BY <2>1 DEF SameEntries, n
<1>7. \A i \in 1..n : ReadAs(g[i], g[i].of, id)
  <2>1. ASSUME NEW i \in 1..n PROVE ReadAs(g[i], g[i].of, id)
    <3>1. ReadAs(h[i], h[i].of, id)
      BY DEF IsHistory, n
    <3>2. g[i].of = h[i].of /\ Alike(g[i], h[i])
      BY <1>6 DEF SameEntries, n
    <3> QED BY <3>1, <3>2 DEF Alike, ReadAs
  <2> QED BY <2>1
<1>8. \A i \in 1..(n - 1) : ~Alike(g[i], g[i + 1])
  <2>1. ASSUME NEW i \in 1..(n - 1) PROVE ~Alike(g[i], g[i + 1])
    <3>1. i \in 1..n /\ i + 1 \in 1..n
      BY <1>1
    <3>2. ~Alike(h[i], h[i + 1])
      BY DEF IsHistory, n
    <3>3. Alike(g[i], h[i]) /\ Alike(g[i + 1], h[i + 1])
      BY <1>6, <3>1 DEF SameEntries, n
    <3> QED BY <3>2, <3>3 DEF Alike
  <2> QED BY <2>1
<1>9. PeriodsTo(g, clock)
  <2>1. /\ \A i \in 1..n : h[i].first <= h[i].last /\ h[i].last <= clock /\ h[i].first \in Nat /\ h[i].last \in Nat
        /\ \A i \in 1..(n - 1) : h[i].last <= h[i + 1].first
    BY <1>1 DEF IsHistory, PeriodsTo, n, Entries
  <2>2. ASSUME NEW i \in 1..n PROVE g[i].first <= g[i].last /\ g[i].last <= clock
    <3>1. CASE i = n
      BY <1>5, <2>1, <3>1
    <3>2. CASE i # n
      BY <1>4, <2>1, <3>2
    <3> QED BY <3>1, <3>2
  <2>3. ASSUME NEW i \in 1..(n - 1) PROVE g[i].last <= g[i + 1].first
    <3>1. i \in 1..n /\ i + 1 \in 1..n /\ i # n
      BY <1>1
    <3>2. g[i].last = h[i].last
      BY <1>4, <3>1
    <3>3. g[i + 1].first = h[i + 1].first
      BY <1>6, <3>1 DEF SameEntries, n
    <3> QED BY <2>1, <3>2, <3>3
  <2> QED BY <1>3, <2>2, <2>3 DEF PeriodsTo
<1>10. Keeps(h, g)
  <2>1. SubSeq(g, 1, n - 1) = Front(h)
    <3>1. Front(h) = SubSeq(h, 1, n - 1)
      BY DEF Front, n
    <3>2. SubSeq(g, 1, n - 1) = [i \in 1..(n - 1) |-> g[i]] /\ SubSeq(h, 1, n - 1) = [i \in 1..(n - 1) |-> h[i]]
      BY <1>1, <1>3, SubSeqProperties
    <3>3. \A i \in 1..(n - 1) : g[i] = h[i]
      BY <1>1, <1>4
    <3> QED BY <3>1, <3>2, <3>3
  <2>2. Last(h) = h[n]
    BY DEF Last, n
  <2>3. h[n].last <= clock
    BY <1>1 DEF IsHistory, PeriodsTo, n
  <2> QED BY <1>1, <1>3, <1>5, <2>1, <2>2, <2>3 DEF Keeps, n
<1> QED
  BY <1>1, <1>3, <1>6, <1>7, <1>8, <1>9, <1>10 DEF IsHistory, g, n

\* Another reading begins an entry.
LEMMA Appended ==
    ASSUME clock \in Nat, NEW h, NEW id, IsHistory(h, id, clock), NEW c, IsResult(c, id),
           h = <<>> \/ ~Same(Last(h), c.reading)
    PROVE  LET g == Append(h, NewEntry(c))
           IN  /\ IsHistory(g, id, clock) /\ Keeps(h, g) /\ SameEntries(h, g)
               /\ Len(g) = Len(h) + 1
               /\ g[Len(h) + 1].of = c.of /\ Alike(g[Len(h) + 1], c.reading)
<1> DEFINE n == Len(h)
           e == NewEntry(c)
           g == Append(h, e)
<1>1. h \in Seq(Entries) /\ n \in Nat /\ DOMAIN h = 1..n /\ \A i \in 1..n : h[i] \in Entries
  BY DEF IsHistory
<1>2. e \in Entries /\ e.first = clock /\ e.last = clock /\ e.of = c.of /\ Alike(e, c.reading)
  BY EntryFacts DEF NewEntry, IsResult, Alike
<1>3. ReadAs(e, c.of, id)
  <2>1. ReadAs(c.reading, c.of, id)
    BY DEF IsResult
  <2> HIDE DEF e
  <2> QED BY <1>2, <2>1 DEF Alike, ReadAs
<1> HIDE DEF e
<1>4. g \in Seq(Entries) /\ Len(g) = n + 1 /\ g[n + 1] = e /\ \A i \in 1..n : g[i] = h[i]
  BY <1>1, <1>2
<1> HIDE DEF g, n
<1>5. SameEntries(h, g)
  BY <1>4 DEF SameEntries, n, Alike
<1>6. ASSUME NEW i \in 1..(n + 1) PROVE ReadAs(g[i], g[i].of, id)
  <2>1. CASE i = n + 1
    BY <1>2, <1>3, <1>4, <2>1
  <2>2. CASE i # n + 1
    <3>1. i \in 1..n
      BY <1>1, <2>2
    <3> QED BY <1>4, <3>1 DEF IsHistory, n
  <2> QED BY <2>1, <2>2
<1>7. ASSUME NEW i \in 1..n PROVE ~Alike(g[i], g[i + 1])
  <2>1. CASE i = n
    <3>1. h # <<>>
      BY <1>1 DEF n
    <3>2. ~Alike(h[n], c.reading)
      BY <3>1, SameIsAlike DEF Last, n
    <3> QED BY <1>2, <1>4, <2>1, <3>2 DEF Alike
  <2>2. CASE i # n
    <3>1. i \in 1..(n - 1) /\ i + 1 \in 1..n
      BY <1>1, <2>2
    <3> QED BY <1>4, <3>1 DEF IsHistory, n
  <2> QED BY <2>1, <2>2
<1>8. PeriodsTo(g, clock)
  <2>1. /\ \A i \in 1..n : h[i].first <= h[i].last /\ h[i].last <= clock
        /\ \A i \in 1..(n - 1) : h[i].last <= h[i + 1].first
    BY DEF IsHistory, PeriodsTo, n
  <2>2. ASSUME NEW i \in 1..(n + 1) PROVE g[i].first <= g[i].last /\ g[i].last <= clock
    <3>1. CASE i = n + 1
      BY <1>2, <1>4, <3>1
    <3>2. CASE i # n + 1
      <4>1. i \in 1..n
        BY <1>1, <3>2
      <4> QED BY <1>4, <2>1, <4>1
    <3> QED BY <3>1, <3>2
  <2>3. ASSUME NEW i \in 1..n PROVE g[i].last <= g[i + 1].first
    <3>1. CASE i = n
      BY <1>2, <1>4, <2>1, <3>1
    <3>2. CASE i # n
      <4>1. i \in 1..(n - 1) /\ i + 1 \in 1..n
        BY <1>1, <3>2
      <4> QED BY <1>4, <2>1, <4>1
    <3> QED BY <3>1, <3>2
  <2>4. Len(g) - 1 = n
    BY <1>1, <1>4
  <2> QED BY <1>4, <2>2, <2>3, <2>4 DEF PeriodsTo
<1>9. Keeps(h, g)
  <2>1. CASE h = <<>>
    BY <1>1, <1>4, <2>1 DEF Keeps, n
  <2>2. CASE h # <<>>
    <3>0. n # 0 /\ n \in 1..n
      BY <1>1, <2>2 DEF n
    <3>1. SubSeq(g, 1, n - 1) = Front(h)
      <4>1. Front(h) = SubSeq(h, 1, n - 1)
        BY DEF Front, n
      <4>2. SubSeq(g, 1, n - 1) = [i \in 1..(n - 1) |-> g[i]] /\ SubSeq(h, 1, n - 1) = [i \in 1..(n - 1) |-> h[i]]
        BY <1>1, <1>4, <3>0, SubSeqProperties
      <4>3. \A i \in 1..(n - 1) : g[i] = h[i]
        BY <1>1, <1>4
      <4> QED BY <4>1, <4>2, <4>3
    <3>2. Last(h) = h[n] /\ g[n] = h[n] /\ h[n] \in Entries
      BY <1>1, <1>4, <3>0 DEF Last, n
    <3>3. [h[n] EXCEPT !.last = h[n].last] = h[n] /\ h[n].last >= h[n].last
      BY <3>2 DEF Entries
    <3> QED BY <1>1, <1>4, <3>1, <3>2, <3>3 DEF Keeps, n
  <2> QED BY <2>1, <2>2
<1>10. IsHistory(g, id, clock)
  <2>1. Len(g) - 1 = n
    BY <1>1, <1>4
  <2> QED BY <1>4, <1>6, <1>7, <1>8, <2>1 DEF IsHistory
<1> QED
  BY <1>2, <1>4, <1>5, <1>9, <1>10 DEF g, n, e

\* A counter rose from the entry before.
Damage == {"realloc", "uncorrect"}
Rose(h, n, k) == Unknown \notin {h[n - 1][k], h[n][k]} /\ h[n][k] > h[n - 1][k]

\* A whole log: of drives with at most so many bad sectors.
LogIs(L, t, m) ==
    /\ L \in [LogKeys -> Seq(Entries)]
    /\ \A id \in LogKeys : IsHistory(L[id], id, t) /\ BoundedBy(L[id], m)

\* The notifications are of rises, and of all of them.
IsRise(a, L) ==
    \E id \in LogKeys, n \in Nat :
        /\ a = <<id, n>> /\ n >= 2 /\ n <= Len(L[id])
        /\ \E k \in Damage : Rose(L[id], n, k)
AlertsIn(A, L) == \A a \in A : IsRise(a, L)
RisesIn(A, L) ==
    \A id \in LogKeys : \A i \in 1..(Len(L[id]) - 1), k \in Damage :
        Rose(L[id], i + 1, k) => <<id, i + 1>> \in A
AlertsPast(A) == \A a \in A : a[1] \in LogKeys /\ a[2] \in Nat /\ a[2] >= 2

LEMMA AlikeFacts == \A e, r : Alike(e, r) => \A k \in Damage : e[k] = r[k]
  BY DEF Alike, Damage

\* A result brings one history up to date, ...
LEMMA RecordedFacts ==
    ASSUME clock \in Nat, NEW h, NEW id, IsHistory(h, id, clock), NEW c, IsResult(c, id)
    PROVE  LET g == Recorded(h, c)
           IN  /\ IsHistory(g, id, clock) /\ Keeps(h, g) /\ SameEntries(h, g)
               /\ \/ Len(g) = Len(h) /\ h # <<>> /\ Same(Last(h), c.reading)
                  \/ /\ Len(g) = Len(h) + 1 /\ (h = <<>> \/ ~Same(Last(h), c.reading))
                     /\ g[Len(h) + 1].of = c.of /\ Alike(g[Len(h) + 1], c.reading)
<1>1. CASE h # <<>> /\ Same(Last(h), c.reading)
  <2>1. Recorded(h, c) = [h EXCEPT ![Len(h)] = StillSo(@)]
    BY <1>1 DEF Recorded
  <2> QED BY <1>1, <2>1, DrawnOut
<1>2. CASE h = <<>> \/ ~Same(Last(h), c.reading)
  <2>1. Recorded(h, c) = Append(h, NewEntry(c))
    BY <1>2 DEF Recorded
  <2> QED BY <1>2, <2>1, Appended
<1> QED
  BY <1>1, <1>2

\* ... of drives no worse than the result's, ...
LEMMA RecordedBound ==
    ASSUME NEW h, NEW g, NEW c, NEW m, SameEntries(h, g), BoundedBy(h, m), Len(h) \in Nat,
           Len(g) = Len(h) \/ (Len(g) = Len(h) + 1 /\ g[Len(h) + 1].of = c.of), c.of.bad <= m
    PROVE  BoundedBy(g, m)
<1> SUFFICES ASSUME NEW i \in 1..Len(g) PROVE g[i].of.bad <= m
  BY DEF BoundedBy
<1>1. CASE i \in 1..Len(h)
  BY <1>1 DEF BoundedBy, SameEntries
<1>2. CASE i \notin 1..Len(h)
  <2>1. i = Len(h) + 1 /\ Len(g) = Len(h) + 1
    BY <1>2
  <2> QED BY <2>1
<1> QED
  BY <1>1, <1>2

\* ... its rises are those there were and the one that is notified.
LEMMA RisesStay ==
    ASSUME NEW h, NEW g, SameEntries(h, g), NEW i \in 1..Len(h), i - 1 \in 1..Len(h), NEW k \in Damage
    PROVE  Rose(h, i, k) <=> Rose(g, i, k)
<1>1. Alike(g[i], h[i]) /\ Alike(g[i - 1], h[i - 1])
  BY DEF SameEntries
<1>2. g[i][k] = h[i][k] /\ g[i - 1][k] = h[i - 1][k]
  BY <1>1, AlikeFacts
<1> QED
  BY <1>2 DEF Rose

LEMMA NewRise ==
    ASSUME NEW h, NEW g, NEW c, SameEntries(h, g), Len(h) \in Nat, h # <<>>, Len(h) # 0,
           Alike(g[Len(h) + 1], c.reading)
    PROVE  Worsened(Last(h), c.reading) # {} <=> \E k \in Damage : Rose(g, Len(h) + 1, k)
<1> DEFINE n == Len(h)
<1>1. Alike(g[n], h[n])
  BY DEF SameEntries
<1>2. \A k \in Damage : g[n][k] = h[n][k] /\ g[n + 1][k] = c.reading[k]
  BY <1>1, AlikeFacts
<1>3. Last(h) = h[n]
  BY DEF Last
<1>4. AlertKeys = Damage
  BY DEF AlertKeys, ChangeKeys, Damage
<1> HIDE DEF n
<1>5. (n + 1) - 1 = n
  BY DEF n
<1>6. \A k \in Damage : k \in Worsened(Last(h), c.reading) <=> Rose(g, n + 1, k)
  BY <1>2, <1>3, <1>4, <1>5 DEF Worsened, Rose
<1>7. Worsened(Last(h), c.reading) \subseteq Damage
  BY <1>4 DEF Worsened
<1> QED
  BY <1>6, <1>7 DEF n

\* A history that stays is kept.
LEMMA KeepsItself ==
    ASSUME NEW l \in Seq(Entries)
    PROVE  Keeps(l, l)
<1>1. Len(l) \in Nat /\ Len(l) >= Len(l)
  OBVIOUS
<1>2. ASSUME l # <<>>
      PROVE  /\ SubSeq(l, 1, Len(l) - 1) = Front(l)
             /\ [l[Len(l)] EXCEPT !.last = Last(l).last] = Last(l)
             /\ l[Len(l)].last >= Last(l).last
  <2>1. l[Len(l)] \in Entries
    BY <1>2
  <2>2. Last(l) = l[Len(l)] /\ Front(l) = SubSeq(l, 1, Len(l) - 1)
    BY DEF Last, Front
  <2>3. l[Len(l)].last \in Nat /\ [l[Len(l)] EXCEPT !.last = l[Len(l)].last] = l[Len(l)]
    BY <2>1 DEF Entries
  <2> QED BY <2>2, <2>3
<1> QED
  BY <1>1, <1>2 DEF Keeps

\* A record keeps the log one, takes nothing back, and notifies what rose.
LEMMA RecordStep ==
    ASSUME clock \in Nat, NEW m, LogIs(Loaded, clock, m),
           NEW c, NEW id \in LogKeys, id = SmartLogKey(Dev, c.reading), IsResult(c, id), c.of.bad <= m,
           NEW A, A = {a \in alerted : a[2] <= Len(Loaded[a[1]])}, AlertsIn(A, Loaded), RisesIn(A, Loaded),
           Record(c)
    PROVE  /\ LogIs(logFile', clock, m) /\ \A k \in LogKeys : Keeps(Loaded[k], logFile'[k])
           /\ AlertsIn(alerted', logFile') /\ RisesIn(alerted', logFile')
<1> DEFINE L == Loaded
           h == L[id]
           g == Recorded(h, c)
           N == logFile'
           B == alerted'
<1>1. N = [L EXCEPT ![id] = g] /\ B = A \cup Notified(id, h, c)
  BY DEF Record
<1>2. /\ L \in [LogKeys -> Seq(Entries)] /\ Len(h) \in Nat
      /\ \A k \in LogKeys : IsHistory(L[k], k, clock) /\ BoundedBy(L[k], m)
  BY DEF LogIs
<1>3. /\ IsHistory(g, id, clock) /\ Keeps(h, g) /\ SameEntries(h, g)
      /\ \/ Len(g) = Len(h) /\ h # <<>> /\ Same(Last(h), c.reading)
         \/ /\ Len(g) = Len(h) + 1 /\ (h = <<>> \/ ~Same(Last(h), c.reading))
            /\ g[Len(h) + 1].of = c.of /\ Alike(g[Len(h) + 1], c.reading)
  BY <1>2, RecordedFacts
<1> HIDE DEF L, g, N, B
<1>4. BoundedBy(g, m)
  BY <1>2, <1>3, RecordedBound
<1>5. /\ N[id] = g /\ \A k \in LogKeys : k # id => N[k] = L[k]
      /\ N \in [LogKeys -> Seq(Entries)]
  BY <1>1, <1>2, <1>3 DEF IsHistory
<1>6. LogIs(N, clock, m)
  BY <1>2, <1>3, <1>4, <1>5 DEF LogIs
<1>7. \A k \in LogKeys : Keeps(L[k], N[k])
  <2>1. \A k \in LogKeys : Keeps(L[k], L[k])
    <3>1. ASSUME NEW k \in LogKeys PROVE Keeps(L[k], L[k])
      BY <1>2, KeepsItself
    <3> QED BY <3>1
  <2> QED BY <1>3, <1>5, <2>1
<1>8. A \subseteq B /\ \A a \in B : a \in A \/ a \in Notified(id, h, c)
  BY <1>1
<1>9. ASSUME NEW a \in A PROVE IsRise(a, N)
  <2>1. PICK q \in LogKeys, n \in Nat :
          /\ a = <<q, n>> /\ n >= 2 /\ n <= Len(L[q])
          /\ \E k \in Damage : Rose(L[q], n, k)
    BY DEF AlertsIn, IsRise, L
  <2>2. CASE q # id
    <3>1. N[q] = L[q]
      BY <1>5, <2>2
    <3> QED BY <2>1, <3>1 DEF IsRise
  <2>3. CASE q = id
    <3>1. n \in 1..Len(h) /\ n - 1 \in 1..Len(h) /\ Len(g) >= Len(h)
      BY <1>2, <1>3, <2>1, <2>3
    <3>2. \E k \in Damage : Rose(g, n, k)
      BY <1>3, <2>1, <2>3, <3>1, RisesStay
    <3>3. n <= Len(N[q])
      BY <1>2, <1>3, <1>5, <2>1, <2>3, <3>1
    <3> QED BY <1>5, <2>1, <2>3, <3>2, <3>3 DEF IsRise
  <2> QED BY <2>2, <2>3
<1>10. ASSUME NEW a \in Notified(id, h, c) PROVE IsRise(a, N)
  <2>1. h # <<>> /\ ~Same(Last(h), c.reading) /\ Worsened(Last(h), c.reading) # {} /\ a = <<id, Len(h) + 1>>
    BY DEF Notified
  <2>2. Len(g) = Len(h) + 1 /\ Alike(g[Len(h) + 1], c.reading)
    BY <1>3, <2>1
  <2>3. Len(h) # 0
    BY <1>2, <2>1
  <2>4. \E k \in Damage : Rose(g, Len(h) + 1, k)
    BY <1>2, <1>3, <2>1, <2>2, <2>3, NewRise
  <2>5. Len(h) + 1 \in Nat /\ Len(h) + 1 >= 2 /\ Len(h) + 1 <= Len(N[id])
    BY <1>2, <1>5, <2>2, <2>3
  <2> QED BY <1>5, <2>1, <2>4, <2>5 DEF IsRise
<1>11. AlertsIn(B, N)
  BY <1>8, <1>9, <1>10 DEF AlertsIn
<1>12. RisesIn(B, N)
  <2> SUFFICES ASSUME NEW q \in LogKeys, NEW i \in 1..(Len(N[q]) - 1), NEW k \in Damage, Rose(N[q], i + 1, k)
               PROVE  <<q, i + 1>> \in B
    BY DEF RisesIn
  <2>1. CASE q # id
    <3>1. N[q] = L[q]
      BY <1>5, <2>1
    <3> QED BY <1>8, <3>1 DEF RisesIn, L
  <2>2. CASE q = id /\ i \in 1..(Len(h) - 1)
    <3>1. i + 1 \in 1..Len(h) /\ (i + 1) - 1 \in 1..Len(h)
      BY <1>2, <2>2
    <3>2. Rose(h, i + 1, k)
      BY <1>3, <1>5, <2>2, <3>1, RisesStay
    <3> QED BY <1>8, <2>2, <3>2 DEF RisesIn, L
  <2>3. CASE q = id /\ i \notin 1..(Len(h) - 1)
    <3>1. i = Len(h) /\ Len(g) = Len(h) + 1 /\ Len(h) # 0
      BY <1>2, <1>3, <1>5, <2>3
    <3>2. h # <<>> /\ ~Same(Last(h), c.reading) /\ Alike(g[Len(h) + 1], c.reading)
      BY <1>2, <1>3, <3>1
    <3>3. Rose(g, Len(h) + 1, k)
      BY <1>5, <2>3, <3>1
    <3>4. Worsened(Last(h), c.reading) # {}
      BY <1>2, <1>3, <3>1, <3>2, <3>3, NewRise
    <3>5. <<id, Len(h) + 1>> \in Notified(id, h, c)
      BY <3>2, <3>4 DEF Notified
    <3> QED BY <1>1, <2>3, <3>1, <3>5
  <2> QED BY <2>1, <2>2, <2>3
<1> QED
  BY <1>6, <1>7, <1>11, <1>12 DEF N, B, L

\* A result of a probe.
Probed(c) == c.of \in Drives /\ \E way \in Ways : c.reading = ParseOneDisk(c.of, way)

\* The inductive invariant: what is kept of the last result is not older than the log.
HistoryInv ==
    /\ clock \in Nat /\ drive \in Drives
    /\ LogIs(Loaded, clock, drive.bad)
    /\ AlertsPast(alerted)
    /\ logFile # Cut => AlertsIn(alerted, logFile) /\ RisesIn(alerted, logFile)
    /\ cache # Unknown =>
         /\ Probed(cache) /\ cache.of.bad <= drive.bad
         /\ LogIs(Loaded, clock, cache.of.bad)

\* It can be recorded.
LEMMA ProbedFacts ==
    ASSUME NEW c, Probed(c)
    PROVE  /\ SmartLogKey(Dev, c.reading) \in LogKeys /\ IsResult(c, SmartLogKey(Dev, c.reading))
           /\ c.reading.available => c.reading.uncorrect = c.of.bad
<1>1. c.of \in Drives
  BY DEF Probed
<1>2. PICK way \in Ways : c.reading = ParseOneDisk(c.of, way)
  BY DEF Probed
<1> DEFINE d == c.of
           r == ParseOneDisk(d, way)
<1>3. /\ ReadAs(r, d, SmartLogKey(Dev, r)) /\ SmartLogKey(Dev, r) \in LogKeys
      /\ r.available => r.uncorrect = d.bad
      /\ r.realloc \in Counts /\ r.uncorrect \in Counts /\ r.written \in Writtens
  BY <1>1, ReadingFacts
<1> QED
  BY <1>1, <1>2, <1>3 DEF IsResult

\* A log that was cut short counts as empty.
LEMMA EmptyIsLog == \A t, m : LogIs(EmptyLog, t, m)
<1>1. \A id \in LogKeys : EmptyLog[id] = <<>>
  BY DEF EmptyLog
<1>2. EmptyLog \in [LogKeys -> Seq(Entries)]
  BY DEF EmptyLog
<1>3. \A id, t, m : IsHistory(<<>>, id, t) /\ BoundedBy(<<>>, m)
  BY DEF IsHistory, BoundedBy, PeriodsTo
<1> QED
  BY <1>1, <1>2, <1>3 DEF LogIs

\* A log stays one as time passes and the drive wears.
LEMMA LogStays ==
    ASSUME NEW L, NEW t \in Nat, NEW m \in Nat, LogIs(L, t, m), NEW s \in Nat, NEW n \in Nat, t <= s, m <= n
    PROVE  LogIs(L, s, n)
<1> SUFFICES ASSUME NEW id \in LogKeys PROVE IsHistory(L[id], id, s) /\ BoundedBy(L[id], n)
  BY DEF LogIs
<1> DEFINE h == L[id]
<1>1. IsHistory(h, id, t) /\ BoundedBy(h, m)
  BY DEF LogIs
<1> HIDE DEF h
<1>2. ASSUME NEW i \in 1..Len(h) PROVE h[i].last \in Nat /\ h[i].of.bad \in Nat
  <2>1. h \in Seq(Entries)
    BY <1>1 DEF IsHistory
  <2>2. h[i] \in Entries
    BY <2>1
  <2> QED BY <2>2 DEF Entries, Drives
<1>3. PeriodsTo(h, s)
  <2>1. PeriodsTo(h, t)
    BY <1>1 DEF IsHistory
  <2>2. ASSUME NEW i \in 1..Len(h) PROVE h[i].first <= h[i].last /\ h[i].last <= s
    <3>1. h[i].first <= h[i].last /\ h[i].last <= t
      BY <2>1 DEF PeriodsTo
    <3> QED BY <1>2, <3>1
  <2> QED BY <2>1, <2>2 DEF PeriodsTo
<1>4. BoundedBy(h, n)
  BY <1>1, <1>2 DEF BoundedBy
<1> QED
  BY <1>1, <1>3, <1>4 DEF IsHistory, h

\* A record taken of a log that was cut short begins it anew.
LEMMA RecordKeeps ==
    ASSUME HistoryInv, NEW c, Probed(c), c.of.bad <= drive.bad, LogIs(Loaded, clock, c.of.bad),
           Record(c), UNCHANGED <<drive, clock>>, cache' = c
    PROVE  HistoryInv' /\ HistoryIsKept
<1> DEFINE A == {a \in alerted : a[2] <= Len(Loaded[a[1]])}
           id == SmartLogKey(Dev, c.reading)
           m == drive.bad
           w == c.of.bad
<1>1. clock \in Nat /\ LogIs(Loaded, clock, m) /\ drive \in Drives
  BY DEF HistoryInv
<1>2. id \in LogKeys /\ IsResult(c, id)
  BY ProbedFacts
<1>3. AlertsIn(A, Loaded) /\ RisesIn(A, Loaded)
  <2>1. CASE logFile = Cut
    <3>1. Loaded = EmptyLog /\ \A q \in LogKeys : Len(Loaded[q]) = 0
      BY <2>1 DEF Loaded, EmptyLog
    <3>2. A = {}
      BY <3>1 DEF HistoryInv, AlertsPast
    <3> HIDE DEF A
    <3> QED BY <3>1, <3>2 DEF AlertsIn, RisesIn
  <2>2. CASE logFile # Cut
    <3>1. Loaded = logFile /\ AlertsIn(alerted, logFile) /\ RisesIn(alerted, logFile)
      BY <2>2 DEF Loaded, HistoryInv
    <3>2. ASSUME NEW a \in alerted PROVE a[2] <= Len(Loaded[a[1]])
      <4>1. PICK q \in LogKeys, n \in Nat : a = <<q, n>> /\ n <= Len(logFile[q])
        BY <3>1 DEF AlertsIn, IsRise
      <4> QED BY <3>1, <4>1
    <3>3. A = alerted
      BY <3>2
    <3> HIDE DEF A
    <3> QED BY <3>1, <3>3
  <2> QED BY <2>1, <2>2
<1>4. m \in Nat /\ w \in Nat /\ w <= m
  BY <1>1 DEF Probed, Drives
<1> DEFINE N == logFile'
           B == alerted'
<1> HIDE DEF m, w
<1>5. /\ LogIs(N, clock, m) /\ \A k \in LogKeys : Keeps(Loaded[k], N[k])
      /\ AlertsIn(B, N) /\ RisesIn(B, N)
  <2>1. c.of.bad <= m
    BY <1>4 DEF w
  <2> HIDE DEF A, id, N, B
  <2>2. A = {a \in alerted : a[2] <= Len(Loaded[a[1]])} /\ id = SmartLogKey(Dev, c.reading)
    BY DEF A, id
  <2> QED BY <1>1, <1>2, <1>3, <2>1, <2>2, RecordStep DEF N, B
<1>6. LogIs(N, clock, w)
  <2>1. c.of.bad <= w
    BY <1>4 DEF w
  <2>2. LogIs(Loaded, clock, w)
    BY DEF w
  <2> HIDE DEF A, id, N
  <2>3. A = {a \in alerted : a[2] <= Len(Loaded[a[1]])} /\ id = SmartLogKey(Dev, c.reading)
    BY DEF A, id
  <2> QED BY <1>1, <1>2, <1>3, <2>1, <2>2, <2>3, RecordStep DEF N
<1>7. HistoryIsKept
  <2>1. CASE logFile = Cut
    BY <2>1 DEF HistoryIsKept
  <2>2. CASE logFile # Cut
    <3>1. Loaded = logFile
      BY <2>2 DEF Loaded
    <3>2. \A k \in LogKeys : Keeps(logFile[k], logFile'[k])
      BY <1>5, <3>1 DEF N
    <3> QED BY <3>2 DEF HistoryIsKept, Keeps
  <2> QED BY <2>1, <2>2
<1>8. /\ LogIs(Loaded, clock, m)' /\ LogIs(Loaded, clock, w)'
  <2>1. Loaded' = N \/ Loaded' = EmptyLog
    BY DEF Loaded, EmptyLog
  <2>2. clock' = clock /\ m' = m /\ drive' = drive
    BY DEF m
  <2> HIDE DEF N
  <2> QED BY <1>5, <1>6, <2>1, <2>2, EmptyIsLog
<1>9. AlertsPast(B)
  <2>1. ASSUME NEW a \in B PROVE a[1] \in LogKeys /\ a[2] \in Nat /\ a[2] >= 2
    <3>1. PICK q \in LogKeys, n \in Nat : a = <<q, n>> /\ n >= 2
      BY <1>5 DEF AlertsIn, IsRise
    <3> QED BY <3>1
  <2> QED BY <2>1 DEF AlertsPast
<1> QED
  BY <1>1, <1>4, <1>5, <1>7, <1>8, <1>9 DEF HistoryInv, m, w, N, B

LEMMA HistoryInitHolds == HistoryInit => HistoryInv
<1> SUFFICES ASSUME HistoryInit PROVE HistoryInv
  OBVIOUS
<1>1. /\ drive = [serial |-> Serial, written |-> WrittenSteps[1], bad |-> 0]
      /\ clock = 0 /\ logFile = EmptyLog /\ cache = Unknown /\ alerted = {}
  BY DEF HistoryInit
<1>2. drive \in Drives
  <2>1. WrittenSteps[1] \in Nat
    BY SmartAssumption
  <2> QED BY <1>1, <2>1 DEF Drives
<1>3. Loaded = EmptyLog
  BY <1>1 DEF Loaded
<1>4. LogIs(Loaded, clock, drive.bad)
  BY <1>3, EmptyIsLog
<1>5. AlertsPast(alerted) /\ AlertsIn(alerted, logFile)
  BY <1>1 DEF AlertsPast, AlertsIn
<1>6. RisesIn(alerted, logFile)
  <2>1. \A q \in LogKeys : Len(EmptyLog[q]) = 0
    BY DEF EmptyLog
  <2> QED BY <1>1, <2>1 DEF RisesIn
<1> QED
  BY <1>1, <1>2, <1>4, <1>5, <1>6 DEF HistoryInv

\* Where the log stays, the drive may wear and time may pass.
LEMMA QuietKeeps ==
    ASSUME HistoryInv, UNCHANGED <<logFile, alerted>>, drive' \in Drives, drive.bad <= drive'.bad,
           clock' \in Nat, clock <= clock',
           cache' # Unknown => \/ cache' = cache
                               \/ Probed(cache') /\ cache'.of = drive
    PROVE  HistoryInv' /\ HistoryIsKept
<1>1. clock \in Nat /\ drive \in Drives /\ drive.bad \in Nat /\ drive'.bad \in Nat /\ LogIs(Loaded, clock, drive.bad)
  BY DEF HistoryInv, Drives
<1>2. Loaded' = Loaded
  BY DEF Loaded, EmptyLog
<1>3. LogIs(Loaded, clock', drive'.bad)
  BY <1>1, LogStays
<1>4. cache' # Unknown => Probed(cache') /\ cache'.of.bad <= drive'.bad /\ LogIs(Loaded, clock', cache'.of.bad)
  <2>1. CASE cache' # Unknown /\ cache' = cache
    <3>1. Probed(cache) /\ cache.of.bad <= drive.bad /\ LogIs(Loaded, clock, cache.of.bad) /\ cache.of.bad \in Nat
      BY <2>1 DEF HistoryInv, Probed, Drives
    <3>2. LogIs(Loaded, clock', cache.of.bad)
      BY <1>1, <3>1, LogStays
    <3> QED BY <1>1, <2>1, <3>1, <3>2
  <2>2. CASE cache' # Unknown /\ Probed(cache') /\ cache'.of = drive
    <3>1. LogIs(Loaded, clock', drive.bad)
      BY <1>1, LogStays
    <3> QED BY <1>1, <2>2, <3>1
  <2> QED BY <2>1, <2>2
<1>5. HistoryInv'
  BY <1>1, <1>2, <1>3, <1>4 DEF HistoryInv
<1>6. HistoryIsKept
  <2>1. CASE logFile = Cut
    BY <2>1 DEF HistoryIsKept
  <2>2. CASE logFile # Cut
    <3>1. Loaded = logFile
      BY <2>2 DEF Loaded
    <3>2. \A k \in LogKeys : Keeps(logFile[k], logFile[k])
      BY <1>1, <3>1, KeepsItself DEF LogIs
    <3> QED BY <3>2 DEF HistoryIsKept, Keeps
  <2> QED BY <2>1, <2>2
<1> QED
  BY <1>5, <1>6

\* The steps.
LEMMA ProbeKeeps ==
    ASSUME HistoryInv, NEW way \in Ways, Probe(way)
    PROVE  HistoryInv' /\ HistoryIsKept
<1> DEFINE c == [reading |-> ParseOneDisk(drive, way), of |-> drive]
<1>1. OnResult(c, row) /\ UNCHANGED <<drive, clock, row>>
  BY DEF Probe
<1>2. c.reading = ParseOneDisk(drive, way) /\ c.of = drive
  OBVIOUS
<1> HIDE DEF c
<1>3. Probed(c) /\ drive \in Drives /\ drive.bad \in Nat /\ clock \in Nat /\ LogIs(Loaded, clock, drive.bad)
  BY <1>2 DEF Probed, HistoryInv, Drives
<1>4. cache' = c
  BY <1>1 DEF OnResult
<1>5. CASE row
  <2>1. Record(c)
    BY <1>1, <1>5 DEF OnResult
  <2>2. c.of.bad <= drive.bad /\ LogIs(Loaded, clock, c.of.bad)
    BY <1>2, <1>3
  <2> QED BY <1>1, <1>3, <1>4, <2>1, <2>2, RecordKeeps
<1>6. CASE ~row
  <2>1. UNCHANGED <<logFile, alerted>>
    BY <1>1, <1>6 DEF OnResult
  <2>2. Probed(cache') /\ cache'.of = drive
    BY <1>2, <1>3, <1>4
  <2> QED BY <1>1, <1>3, <2>1, <2>2, QuietKeeps
<1> QED
  BY <1>5, <1>6

LEMMA ShowKeeps ==
    ASSUME HistoryInv, ShowRow
    PROVE  HistoryInv' /\ HistoryIsKept
<1>1. drive' = drive /\ clock' = clock /\ drive \in Drives /\ drive.bad \in Nat /\ clock \in Nat
  BY DEF ShowRow, HistoryInv, Drives
<1>2. CASE cache = Unknown
  <2>1. UNCHANGED <<logFile, cache, alerted>>
    BY <1>2 DEF ShowRow
  <2> QED BY <1>1, <2>1, QuietKeeps
<1>3. CASE cache # Unknown
  <2>1. Record(cache) /\ cache' = cache
    BY <1>3 DEF ShowRow, OnResult
  <2>2. Probed(cache) /\ cache.of.bad <= drive.bad /\ LogIs(Loaded, clock, cache.of.bad)
    BY <1>3 DEF HistoryInv
  <2> QED BY <1>1, <2>1, <2>2, RecordKeeps
<1> QED
  BY <1>2, <1>3

LEMMA RestartKeeps ==
    ASSUME HistoryInv, RestartTab
    PROVE  HistoryInv' /\ HistoryIsKept
<1>1. /\ UNCHANGED <<drive, clock, alerted>> /\ drive \in Drives /\ drive.bad \in Nat /\ clock \in Nat
      /\ cache' = Unknown /\ (logFile' = logFile \/ logFile' = Cut)
  BY DEF RestartTab, HistoryInv, Drives
<1>2. CASE logFile' = logFile
  BY <1>1, <1>2, QuietKeeps
<1>3. CASE logFile' = Cut
  <2>1. Loaded' = EmptyLog
    BY <1>3 DEF Loaded, EmptyLog
  <2>2. LogIs(Loaded, clock, drive.bad)'
    BY <1>1, <2>1, EmptyIsLog
  <2>3. HistoryInv'
    BY <1>1, <1>3, <2>2 DEF HistoryInv
  <2> QED BY <1>3, <2>3 DEF HistoryIsKept
<1> QED
  BY <1>1, <1>2, <1>3

LEMMA WearKeeps ==
    ASSUME HistoryInv, Wear
    PROVE  HistoryInv' /\ HistoryIsKept
<1>1. UNCHANGED <<clock, logFile, cache, row, alerted>> /\ clock \in Nat /\ drive \in Drives
  BY DEF Wear, HistoryInv
<1>2. drive' \in Drives /\ drive.bad <= drive'.bad
  <2>1. CASE drive' = [drive EXCEPT !.bad = @ + 1]
    BY <1>1, <2>1 DEF Drives
  <2>2. CASE \E i \in 1..(Len(WrittenSteps) - 1) : drive' = [drive EXCEPT !.written = WrittenSteps[i + 1]]
    <3>1. PICK i \in 1..(Len(WrittenSteps) - 1) : drive' = [drive EXCEPT !.written = WrittenSteps[i + 1]]
      BY <2>2
    <3>2. WrittenSteps[i + 1] \in Nat
      BY SmartAssumption
    <3> QED BY <1>1, <3>1, <3>2 DEF Drives
  <2> QED BY <2>1, <2>2 DEF Wear
<1> QED
  BY <1>1, <1>2, QuietKeeps

LEMMA HistoryStepKeeps == HistoryInv /\ [HistoryNext]_historyVars => HistoryInv' /\ HistoryIsKept
<1> SUFFICES ASSUME HistoryInv, [HistoryNext]_historyVars PROVE HistoryInv' /\ HistoryIsKept
  OBVIOUS
<1>0. clock \in Nat /\ drive \in Drives /\ drive.bad \in Nat
  BY DEF HistoryInv, Drives
<1>1. CASE \E way \in Ways : Probe(way)
  BY <1>1, ProbeKeeps
<1>2. CASE HideRow \/ UNCHANGED historyVars
  <2>1. UNCHANGED <<drive, clock, logFile, cache, alerted>>
    BY <1>2 DEF HideRow, historyVars
  <2> QED BY <1>0, <2>1, QuietKeeps
<1>3. CASE ShowRow
  BY <1>3, ShowKeeps
<1>4. CASE RestartTab
  BY <1>4, RestartKeeps
<1>5. CASE Wear
  BY <1>5, WearKeeps
<1>6. CASE Second
  <2>1. UNCHANGED <<drive, logFile, cache, row, alerted>> /\ clock' = clock + 1
    BY <1>6 DEF Second
  <2> QED BY <1>0, <2>1, QuietKeeps
<1> QED
  BY <1>1, <1>2, <1>3, <1>4, <1>5, <1>6 DEF HistoryNext

\* A rise of a counter makes it more than nothing.
LEMMA RiseCounts ==
    ASSUME NEW h, NEW id, NEW t, IsHistory(h, id, t), NEW m \in Nat, BoundedBy(h, m),
           NEW n \in Nat, n >= 2, n <= Len(h), NEW k \in Damage, Rose(h, n, k)
    PROVE  m > 0
<1>1. n \in 1..Len(h) /\ n - 1 \in 1..Len(h) /\ h \in Seq(Entries)
  BY DEF IsHistory
<1>2. /\ h[n].of \in Drives /\ h[n].of.bad \in Nat /\ h[n - 1].of \in Drives /\ h[n - 1].of.bad \in Nat
      /\ ReadAs(h[n], h[n].of, id) /\ ReadAs(h[n - 1], h[n - 1].of, id) /\ h[n].of.bad <= m
  <2>1. h[n] \in Entries /\ h[n - 1] \in Entries
    BY <1>1
  <2> QED BY <1>1, <2>1 DEF IsHistory, BoundedBy, Entries, Drives
<1>3. /\ h[n][k] # Unknown => h[n][k] = h[n].of.bad
      /\ h[n - 1][k] # Unknown => h[n - 1][k] = h[n - 1].of.bad
  BY <1>2 DEF ReadAs, Damage
<1>4. h[n].of.bad > h[n - 1].of.bad
  BY <1>3 DEF Rose
<1> QED
  BY <1>2, <1>4

\* The report finds a rise that was notified, ...
LEMMA RiseIsSeen ==
    ASSUME NEW h, NEW n \in Nat, n >= 2, n <= Len(h), Len(h) \in Nat, NEW k, Rose(h, n, k)
    PROVE  Rises(h, k)
<1> DEFINE i == n - 1
           j == n
<1>1. i \in 1..Len(h) /\ j \in 1..Len(h) /\ i < j
  OBVIOUS
<1>2. \A between \in (i + 1)..(j - 1) : h[between][k] = Unknown
  OBVIOUS
<1>3. Unknown \notin {h[i][k], h[j][k]} /\ h[j][k] > h[i][k]
  BY DEF Rose
<1> QED
  BY <1>1, <1>2, <1>3 DEF Rises

\* ... so it calls a disk worse whose reading it has.
LEMMA InvIsReported ==
    ASSUME HistoryInv, cache # Unknown
    PROVE  Reported
<1> DEFINE r == cache.reading
           own == SmartLogKey(Dev, r)
           disks == DisksForHost(<<r>>, <<own>>, Loaded)
<1> SUFFICES ASSUME NEW a \in alerted, Loaded[a[1]] # <<>>
             PROVE  \E d \in disks : /\ d.key = a[1]
                                     /\ d.reading = Unknown \/ RuleView(r, d.history) \in {"worse", "unavailable"}
  BY DEF Reported
<1>1. a[1] \in LogKeys
  BY DEF HistoryInv, AlertsPast
<1>2. logFile # Cut
  BY <1>1 DEF Loaded, EmptyLog
<1>3. Loaded = logFile
  BY <1>2 DEF Loaded
<1>4. PICK id \in LogKeys, n \in Nat :
        /\ a = <<id, n>> /\ n >= 2 /\ n <= Len(Loaded[id])
        /\ \E k \in Damage : Rose(Loaded[id], n, k)
  BY <1>2, <1>3 DEF HistoryInv, AlertsIn, IsRise
<1>5. a[1] = id /\ DOMAIN Loaded = LogKeys
  BY <1>4 DEF HistoryInv, LogIs
<1> HIDE DEF r, own
<1>6. DOMAIN <<r>> = {1} /\ <<r>>[1] = r /\ <<own>>[1] = own /\ Range(<<own>>) = {own}
  BY DEF Range
<1>7. CASE id # own
  <2> DEFINE d == [key |-> id, reading |-> Unknown, history |-> Loaded[id]]
  <2>1. id \in {k \in DOMAIN Loaded : Loaded[k] # <<>>} \ Range(<<own>>)
    BY <1>5, <1>6, <1>7
  <2>2. d \in disks
    BY Zenon, <2>1 DEF DisksForHost
  <2>3. d.key = a[1] /\ d.reading = Unknown
    BY <1>5
  <2> HIDE DEF d, disks
  <2> QED BY <2>2, <2>3
<1>8. CASE id = own
  <2> DEFINE h == Loaded[own]
             d == [key |-> own, reading |-> r, history |-> h]
  <2>1. d \in disks
    <3>1. own \in DOMAIN Loaded
      BY <1>4, <1>5, <1>8
    <3>2. d = [key |-> <<own>>[1], reading |-> <<r>>[1],
               history |-> IF <<own>>[1] \in DOMAIN Loaded THEN Loaded[<<own>>[1]] ELSE <<>>]
      BY <1>6, <3>1
    <3>3. 1 \in DOMAIN <<r>>
      BY <1>6
    <3> HIDE DEF d
    <3> QED BY Zenon, <3>2, <3>3 DEF DisksForHost
  <2>2. d.key = a[1] /\ d.history = h
    BY <1>5, <1>8
  <2>3. RuleView(r, h) \in {"worse", "unavailable"}
    <3>1. CASE ~r.available
      BY <3>1 DEF RuleView
    <3>2. CASE r.available
      <4>1. Probed(cache) /\ cache.of.bad \in Nat /\ LogIs(Loaded, clock, cache.of.bad)
        BY DEF HistoryInv, Probed, Drives
      <4>2. r.uncorrect = cache.of.bad
        BY <3>2, <4>1, ProbedFacts DEF r
      <4>3. IsHistory(h, id, clock) /\ BoundedBy(h, cache.of.bad) /\ Len(h) \in Nat
        BY <1>8, <4>1 DEF LogIs
      <4>4. PICK k \in Damage : Rose(h, n, k)
        BY <1>4, <1>8
      <4>5. n \in Nat /\ n >= 2 /\ n <= Len(h)
        BY <1>4, <1>8
      <4> HIDE DEF h
      <4>6. cache.of.bad > 0
        BY <4>1, <4>3, <4>4, <4>5, RiseCounts
      <4>7. Rises(h, k)
        BY <4>3, <4>4, <4>5, RiseIsSeen
      <4>8. r["uncorrect"] \notin {0, Unknown}
        BY <4>1, <4>2, <4>6, UnknownIsNoNumber
      <4>9. "uncorrect" \in Bad(r)
        BY <4>8 DEF Bad
      <4>10. Bad(r) # {} /\ \E x \in {"realloc", "uncorrect"} : Rises(h, x)
        BY <4>7, <4>9 DEF Damage
      <4>11. RuleView(r, h) = "worse"
        BY Zenon, <3>2, <4>10 DEF RuleView
      <4> QED BY <4>11
    <3> QED BY <3>1, <3>2
  <2> HIDE DEF d, disks, h
  <2> QED BY <2>1, <2>2, <2>3
<1> QED
  BY <1>7, <1>8

\* The units, apart from their digits.
LEMMA Sizes == GB \in Nat /\ TB \in Nat /\ GB < TB
  BY SMT DEF GB, TB

\* Where the formats meet, two entries of one drive would be alike.
LEMMA InvOnlyChanges == HistoryInv => OnlyChanges(Loaded[Serial])
<1> SUFFICES ASSUME HistoryInv, NEW i \in 1..(Len(Loaded[Serial]) - 1),
                    Loaded[Serial][i].of = Loaded[Serial][i + 1].of
             PROVE  ~FormatsMeet(Loaded[Serial][i].of)
  BY DEF OnlyChanges
<1> DEFINE h == Loaded[Serial]
           d == h[i].of
<1>1. IsHistory(h, Serial, clock)
  BY DEF HistoryInv, LogIs, LogKeys
<1>2. h \in Seq(Entries) /\ Len(h) \in Nat /\ i \in 1..Len(h) /\ i + 1 \in 1..Len(h)
  BY <1>1 DEF IsHistory
<1> HIDE DEF h
<1>3. h[i + 1].of = d /\ i \in 1..(Len(h) - 1)
  BY DEF h
<1>4. h[i] \in Entries
  BY <1>2
<1>5. d.written \in Nat
  BY <1>4 DEF Entries, Drives
<1>6. ReadAs(h[i], d, Serial) /\ ReadAs(h[i + 1], d, Serial) /\ ~Alike(h[i], h[i + 1])
  BY <1>1, <1>2, <1>3 DEF IsHistory
<1>7. Serial # Dev
  BY SmartAssumption
<1>8. JsonWritten(d.written) # TextWritten(d.written)
  BY <1>6, <1>7 DEF ReadAs, Alike
<1>9. ASSUME FormatsMeet(d) PROVE FALSE
  <2>1. d.written >= TB /\ d.written < PB
    BY <1>9 DEF FormatsMeet
  <2>2. JsonWritten(d.written) = Sig3(d.written)
    BY <2>1 DEF JsonWritten
  <2>3. ~(d.written < GB) /\ d.written \notin GB..(TB - 1)
    BY <1>5, <2>1, Sizes
  <2>4. TextWritten(d.written) = Sig3(d.written)
    BY <2>3 DEF TextWritten
  <2> QED BY <1>8, <2>2, <2>4
<1> QED
  BY <1>9 DEF h

LEMMA InvIsSound == HistoryInv => HistoryIsSound
<1> SUFFICES ASSUME HistoryInv PROVE HistoryIsSound
  OBVIOUS
<1>1. ASSUME NEW id \in LogKeys PROVE Periods(Loaded[id]) /\ RisesNotified(id, Loaded[id])
  <2>1. Periods(Loaded[id])
    <3>1. PeriodsTo(Loaded[id], clock)
      BY DEF HistoryInv, LogIs, IsHistory
    <3> QED BY <3>1 DEF Periods, PeriodsTo
  <2>2. CASE logFile = Cut
    <3>1. Len(Loaded[id]) = 0
      BY <2>2 DEF Loaded, EmptyLog
    <3>2. RisesNotified(id, Loaded[id])
      BY <3>1 DEF RisesNotified
    <3> QED BY <2>1, <3>2
  <2>3. CASE logFile # Cut
    <3> DEFINE h == Loaded[id]
    <3>1. Loaded = logFile /\ RisesIn(alerted, logFile)
      BY <2>3 DEF Loaded, HistoryInv
    <3>2. Len(h) \in Nat
      BY DEF HistoryInv, LogIs
    <3>3. ASSUME NEW i \in 1..(Len(h) - 1), NEW k \in Damage,
                 Unknown \notin {h[i][k], h[i + 1][k]}, h[i + 1][k] > h[i][k]
          PROVE  <<id, i + 1>> \in alerted
      <4>1. (i + 1) - 1 = i
        BY <3>2
      <4>2. Rose(h, i + 1, k)
        BY <3>3, <4>1 DEF Rose
      <4> QED BY <3>1, <4>2 DEF RisesIn
    <3>4. RisesNotified(id, Loaded[id])
      BY <3>3 DEF RisesNotified, Damage
    <3> QED BY <2>1, <3>4
  <2> QED BY <2>2, <2>3
<1> QED
  BY <1>1, InvOnlyChanges, InvIsReported DEF HistoryIsSound

\* However a disk is read, and whenever its row is hidden or the program ends
\* while it writes: every rise is notified, no entry is made of a change of
\* format where both round alike, what was recorded is not taken back, and the
\* report tells of every disk that got worse (record, _record_disk, rule_view,
\* disks_for_host).
THEOREM HistoryStaysSound == HistorySpec => HistoryHolds
<1>1. HistoryInit => HistoryInv
  BY HistoryInitHolds
<1>2. HistoryInv /\ [HistoryNext]_historyVars => HistoryInv' /\ HistoryIsKept
  BY HistoryStepKeeps
<1>3. HistoryInv => HistoryIsSound
  BY InvIsSound
<1> QED
  BY <1>1, <1>2, <1>3, PTL DEF HistorySpec, HistoryHolds
=============================================================================
