SPECIFICATION StoresSpec
CONSTANTS
  Parts = {"vault", "profiles", "devices", "history"}
  thread1 = thread1 thread2 = thread2 ip1 = ip1 ip2 = ip2 mac1 = mac1 mac2 = mac2
  user1 = user1 user2 = user2 k1 = k1 k2 = k2
  Askers <- MCAskers
  Names = {hosts_json, known_hosts}
  IntKeys <- MCKeys
  NoKey = NoKey
  Macs = {mac1}
  Ips = {ip1}
  Users <- MCUsers
  Dash = Dash
  Edited = Edited
  Connectors = {thread1}
  MaxUsers = 2
  None = None
  DevMacs = {mac1, mac2}
  DevIps = {ip1, ip2}
  NoMac = NoMac
  ScanLists <- MCScanLists
  ProfileSets <- MCProfileSets
  Unknown = Unknown
  Serial = Serial
  Dev = Dev
  Cut = Cut
  WrittenSteps <- MCWritten
  MaxBad = 1
  MaxNow = 1
  MaxEntries = 3
SYMMETRY Symmetric
INVARIANTS  OutsideIsNotSigned
PROPERTIES AdoptionIsOnce OnePrompt SavesAreEdits RegisterHolds HistoryHolds
