------------------------------ MODULE MCStores ------------------------------
(***************************************************************************)
(* The stores that share no state, checked one at a time: a behaviour is   *)
(* one of the vault, of the profiles, of the device register or of the     *)
(* SMART log, while the other three stay in an initial state.  Parts says  *)
(* which of them a run checks.                                             *)
(***************************************************************************)
EXTENDS Vault, Profiles, Devices, SmartHistory, TLC

CONSTANTS Parts, thread1, thread2, ip1, ip2, mac1, mac2, user1, user2, k1, k2

VARIABLE part
storesVars == <<part, vaultVars, profilesVars, devicesVars, historyVars>>

MCAskers == {thread1, thread2}
MCKeys   == {k1, k2}
MCUsers  == {user1, user2}
Symmetric == Permutations(MCAskers) \cup Permutations(MCKeys) \cup Permutations(MCUsers)

MCFound == [mac : {mac1, mac2, NoMac}, ip : {ip1, ip2}]
MCScanLists ==
    {<<h>> : h \in MCFound} \cup {s \in {<<g, h>> : g \in MCFound, h \in MCFound} : s[1].ip # s[2].ip}
MCProfileSets == {{}, {mac1, ip1}}

\* A drive that has written half a terabyte, or 58.
MCWritten == <<513456, 58123456>>

StoresInit ==
    /\ part \in Parts
    /\ VaultInit /\ ProfilesInit /\ DevicesInit /\ HistoryInit
    /\ part # "vault" => keyFile = NoKey /\ keyring /\ \A n \in Names : disk[n] = "none"

StoresNext ==
    /\ UNCHANGED part
    /\ \/ part = "vault"    /\ VaultNext    /\ UNCHANGED <<profilesVars, devicesVars, historyVars>>
       \/ part = "profiles" /\ ProfilesNext /\ UNCHANGED <<vaultVars, devicesVars, historyVars>>
       \/ part = "devices"  /\ DevicesNext  /\ UNCHANGED <<vaultVars, profilesVars, historyVars>>
       \/ part = "history"  /\ HistoryNext  /\ UNCHANGED <<vaultVars, profilesVars, devicesVars>>

StoresSpec == StoresInit /\ [][StoresNext]_storesVars
=============================================================================
