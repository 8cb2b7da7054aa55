------------------------------- MODULE Vault -------------------------------
(***************************************************************************)
(* The integrity key (services/vault.py, core/integrity.py): one key signs *)
(* every configuration file.  It lives in the desktop keyring, or in the   *)
(* file hmac.key when a session has no keyring, and is moved from the file *)
(* to the keyring the first time there is one.  Files of an older version  *)
(* have no signature; each is signed once, without asking, and its name is *)
(* recorded beside the key so that it is never done again.                 *)
(*                                                                         *)
(* Threads ask for the key at any time.  The vault's lock is held over the *)
(* keyring's prompt, the move of the key and the adoption of the files;    *)
(* the program may end between any two of those steps.                     *)
(***************************************************************************)
EXTENDS FiniteSets

CONSTANTS
    Askers,     \* threads that ask for the key or register a file
    Names,      \* the files the program signs
    IntKeys,    \* the keys it may draw; their number bounds what a run draws
    NoKey

ASSUME VaultAssumption == NoKey \notin IntKeys \cup Askers /\ IntKeys \cap {"none", "bare", "foreign"} = {}

VARIABLES
    ring,       \* the key in the keyring
    keyFile,    \* the key in hmac.key
    record,     \* the names adopted, beside the key in either place
    disk,       \* each file: absent, without a signature, with one that
                \* verifies with no key, or signed with a key
    keyring,    \* this session has a keyring
    key, where, \* the key of this session and the place it came from
    declined,   \* the keyring refused within the cooldown, or not
    names,      \* the files registered in this session
    vlock, ask, \* who holds the lock; what each thread is doing
    unsaved,    \* history: keys that could not be written to hmac.key
    recorded,   \* history: the names saved in each record
    lost        \* history: the names that a write of the record cut short has lost

vaultVars == <<ring, keyFile, record, disk, keyring, key, where, declined,
               names, vlock, ask, unsaved, recorded, lost>>
onDisk  == <<ring, keyFile, record, disk, unsaved, recorded, lost>>
session == <<keyring, key, where, declined, names>>

Places == {"keyring", "file"}
NotAsking == [at |-> "idle", todo |-> {}]

VaultTypeOK ==
    /\ ring \in IntKeys \cup {NoKey} /\ keyFile \in IntKeys \cup {NoKey}
    /\ record \in [Places -> SUBSET Names]
    /\ disk \in [Names -> {"none", "bare", "foreign"} \cup IntKeys]
    /\ keyring \in BOOLEAN /\ key \in IntKeys \cup {NoKey} /\ where \in Places
    /\ declined \in {"no", "recent"}
    /\ names \subseteq Names
    /\ vlock \in Askers \cup {NoKey}
    /\ ask \in [Askers -> [at   : {"idle", "ask", "load", "unlink", "adopt", "save"},
                           todo : SUBSET Names]]
    /\ unsaved \subseteq IntKeys /\ recorded \subseteq Places \X Names /\ lost \subseteq Names

\* A first session: files of an older version, with its key file or without.
NewSession ==
    /\ keyring' \in BOOLEAN /\ key' = NoKey /\ where' = "file" /\ declined' = "no"
    /\ names' = {} /\ vlock' = NoKey /\ ask' = [t \in Askers |-> NotAsking]

VaultInit ==
    /\ ring = NoKey /\ record = [p \in Places |-> {}]
    /\ \/ keyFile = NoKey /\ disk \in [Names -> {"none", "bare"}]
       \/ keyFile \in IntKeys /\ disk \in [Names -> {"none", "bare", keyFile}]
    /\ keyring \in BOOLEAN /\ key = NoKey /\ where = "file" /\ declined = "no"
    /\ names = {} /\ vlock = NoKey /\ ask = [t \in Askers |-> NotAsking]
    /\ unsaved = {} /\ recorded = {} /\ lost = {}

\* A key that is nowhere yet.
Fresh == IntKeys \ ({ring, keyFile, key} \cup unsaved \cup {disk[n] : n \in Names})

Step(t, at, todo) == ask' = [ask EXCEPT ![t] = [at |-> at, todo |-> todo]]
Return(t) == Step(t, "idle", {}) /\ vlock' = NoKey

---------------------------------------------------------------------------
\* key(): the cached key, or a refusal that is not older than the cooldown,
\* ends it; both are looked at with the lock held.

AskKey(t) ==
    /\ ask[t].at = "idle"
    /\ Step(t, "ask", {})
    /\ UNCHANGED <<vlock, onDisk, session>>

RefusedMutant == FALSE
Refused == key = NoKey /\ declined = "recent"

Enter(t) ==
    /\ ask[t].at = "ask" /\ vlock = NoKey
    /\ IF key # NoKey \/ Refused THEN Return(t)
       ELSE Step(t, "load", {}) /\ vlock' = t
    /\ UNCHANGED <<onDisk, session>>

\* The key is had: adoption goes through the registered files that its place
\* has no record of.
Unlocked(t, k, place) ==
    /\ key' = k /\ where' = place /\ declined' = "no"
    /\ Step(t, "adopt", names \ record[place])
    /\ UNCHANGED <<keyring, names, vlock, record, disk, recorded, lost>>

\* A new key that cannot be written to hmac.key is used all the same.
LoadFile(t) ==
    /\ ask[t].at = "load" /\ ~keyring
    /\ UNCHANGED ring
    /\ \/ keyFile # NoKey /\ Unlocked(t, keyFile, "file") /\ UNCHANGED <<keyFile, unsaved>>
       \/ keyFile = NoKey /\ \E k \in Fresh :
            /\ Unlocked(t, k, "file")
            /\ \/ keyFile' = k /\ UNCHANGED unsaved
               \/ keyFile' = NoKey /\ unsaved' = unsaved \cup {k}

\* hmac.key that holds the keyring's key is left from a move cut short.
LeftoverMutant(k) == keyFile # NoKey
Leftover(k) == keyFile = k

KeyringGives(t) ==
    /\ ask[t].at = "load" /\ keyring /\ ring # NoKey
    /\ keyFile' = IF Leftover(ring) THEN NoKey ELSE keyFile
    /\ Unlocked(t, ring, "keyring")
    /\ UNCHANGED <<ring, unsaved>>

Refusal(t) ==
    /\ declined' = "recent" /\ Return(t)
    /\ UNCHANGED <<keyring, key, where, names, record, disk, recorded, lost>>

\* An empty keyring is given the key of hmac.key, or a new one.
KeyringStores(t) ==
    /\ ask[t].at = "load" /\ keyring /\ ring = NoKey
    /\ \/ /\ keyFile # NoKey /\ ring' = keyFile
          /\ Step(t, "unlink", {})
          /\ UNCHANGED <<key, where, declined, keyring, names, vlock, record, disk, recorded, lost>>
       \/ /\ keyFile = NoKey
          /\ \E k \in Fresh : ring' = k /\ (Unlocked(t, k, "keyring") \/ Refusal(t))
    /\ UNCHANGED <<keyFile, unsaved>>

\* The key was read back; hmac.key is removed, or cannot be.
Unlink(t) ==
    /\ ask[t].at = "unlink"
    /\ keyFile' \in {NoKey, keyFile}
    /\ Unlocked(t, ring, "keyring")
    /\ UNCHANGED <<ring, unsaved>>

\* The prompt was dismissed, the keyring failed, or the key it was given is
\* not the one it returns.
KeyringRefuses(t) ==
    /\ ask[t].at \in {"load", "unlink"} /\ keyring
    /\ Refusal(t) /\ UNCHANGED <<ring, keyFile, unsaved>>

CooldownEnds ==
    /\ declined = "recent" /\ declined' = "no"
    /\ UNCHANGED <<keyring, key, where, names, vlock, ask, onDisk>>

---------------------------------------------------------------------------
\* Adoption, with the lock held.

\* _adopt_unsigned(): one file after the other; a disk error ends it.
Adopt(t, n) ==
    /\ ask[t].at = "adopt" /\ n \in ask[t].todo
    /\ \/ /\ disk' = [disk EXCEPT ![n] = IF @ = "bare" THEN key ELSE @]
          /\ IF ask[t].todo = {n} THEN Step(t, "save", {}) ELSE Step(t, "adopt", ask[t].todo \ {n})
          /\ UNCHANGED vlock
       \/ /\ disk[n] = "bare" /\ Return(t) /\ UNCHANGED disk
    /\ UNCHANGED <<ring, keyFile, record, unsaved, recorded, lost, session>>

\* Nothing to adopt, or the record cannot be read.
AdoptNothing(t) ==
    /\ ask[t].at = "adopt" /\ (ask[t].todo = {} \/ ask[t].todo = names \ record[where])
    /\ Return(t)
    /\ UNCHANGED <<onDisk, session>>

\* Only the files of this session are recorded.
NewRecordMutant == names
NewRecord == record[where] \cup names

\* The keyring takes the record whole.  Its file is emptied and written again:
\* a full disk, or the end of the program, may leave it cut short, and what is
\* cut short reads as an empty record.
SaveRecord(t) ==
    /\ ask[t].at = "save" /\ Return(t)
    /\ \/ /\ record' = [record EXCEPT ![where] = NewRecord]
          /\ recorded' = recorded \cup ({where} \X NewRecord)
          /\ lost' = IF where = "file" THEN lost \ NewRecord ELSE lost
       \/ UNCHANGED <<record, recorded, lost>>
       \/ /\ where = "file" /\ record' = [record EXCEPT !["file"] = {}]
          /\ lost' = lost \cup record["file"] /\ UNCHANGED recorded
    /\ UNCHANGED <<ring, keyFile, disk, unsaved, session>>

\* signed_file(): at startup, and again each time the settings are used.
Register(t, n) ==
    /\ ask[t].at = "idle" /\ vlock = NoKey
    /\ names' = names \cup {n}
    /\ IF key = NoKey THEN Return(t)
       ELSE Step(t, "adopt", names' \ record[where]) /\ vlock' = t
    /\ UNCHANGED <<keyring, key, where, declined, onDisk>>

\* A file is written with its signature, or the user trusts it as it is.
Sign(n) ==
    /\ key # NoKey /\ vlock = NoKey /\ n \in names
    /\ disk' = [disk EXCEPT ![n] = key]
    /\ UNCHANGED <<ring, keyFile, record, unsaved, recorded, lost, session, vlock, ask>>

---------------------------------------------------------------------------
\* What happens outside: a file or its signature is removed or replaced; the
\* program ends and starts again, with the keyring running or not.
Outside(n) ==
    /\ disk[n] # "none"
    /\ disk' \in {[disk EXCEPT ![n] = x] : x \in {"none", "bare", "foreign"}}
    /\ UNCHANGED <<ring, keyFile, record, unsaved, recorded, lost, session, vlock, ask>>

RestartVault == NewSession /\ UNCHANGED onDisk

\* The program ends between the contents of a file and its signature.
HalfWritten(n) ==
    /\ key # NoKey /\ vlock = NoKey /\ n \in names
    /\ disk' = [disk EXCEPT ![n] = IF @ \in {"none", "bare"} THEN "bare" ELSE "foreign"]
    /\ NewSession
    /\ UNCHANGED <<ring, keyFile, record, unsaved, recorded, lost>>

VaultNext ==
    \/ \E t \in Askers :
         \/ AskKey(t) \/ Enter(t) \/ LoadFile(t) \/ KeyringGives(t) \/ KeyringStores(t)
         \/ Unlink(t) \/ KeyringRefuses(t) \/ AdoptNothing(t) \/ SaveRecord(t)
         \/ \E n \in Names : Adopt(t, n) \/ Register(t, n)
    \/ \E n \in Names : Sign(n) \/ Outside(n) \/ HalfWritten(n)
    \/ CooldownEnds \/ RestartVault

VaultSpec == VaultInit /\ [][VaultNext]_vaultVars

---------------------------------------------------------------------------
\* The key a file was signed with, and the one in use, can be had again in a
\* later session, whatever step of a move from hmac.key to the keyring was the
\* last one and whether or not a keyring was running: only a key hmac.key could
\* not be written with is gone (load_key).
KeysAreKept ==
    {k \in {key} \cup {disk[n] : n \in Names} : k \in IntKeys} \subseteq {ring, keyFile} \cup unsaved

\* A name recorded in a place is never signed without asking again by a session
\* that has its key from there, however the threads, the moves of the key and
\* the sessions follow each other (_adopt_unsigned, "never re-trusted
\* automatically").  Only a record in a file can lose a name again, when a write
\* of it is cut short, and that write names it no more.
AdoptionIsOnce ==
    [][\A n \in Names : vlock # NoKey /\ disk[n] = "bare" /\ disk'[n] \in IntKeys
         => (<<where, n>> \in recorded => where = "file" /\ n \in lost)]_vaultVars

\* However many threads ask, the keyring is asked by one of them at a time, and
\* not within the cooldown of a refusal (Vault.key).
OnePrompt ==
    [][\A t \in Askers : ask[t].at = "ask" /\ ask'[t].at = "load"
         => declined # "recent" /\ \A u \in Askers : ask[u].at \notin {"load", "unlink"}]_vaultVars
=============================================================================
