SPECIFICATION TabsFairSpec
CONSTANTS
  Parts = {"scans", "table", "ai", "probes", "clock", "subnet", "inspector", "plan", "server"}
  mac1 = mac1
  mac2 = mac2
  Scanner = scanner
  Inspector = inspector
  MaxScans = 2
  Installed <- MCInstalled
  TabMacs = {mac1, mac2}
  TabIps = {1, 2}
  Dash = Dash
  Founds <- MCFounds
  MaxSaved = 1
  MaxPings = 2
  Localhost = 9
  ProbeIps = {1}
  MaxAsking = 2
  DayLen = 4
  HourLen = 2
  Horizon = 34
  ClockTriggers <- MCClockTriggers
  Nets <- MCNets
  Fallback <- MCFallback
  HandTexts <- MCHandTexts
  Addresses <- MCAddresses
  Entries <- MCEntries
  MaxEntered = 2
  MaxSweeps = 2
  Padding = " "
  PortTexts <- MCPortTexts
  NoAlias = NoAlias
  Junk = Junk
  HostTables <- MCHostTables
  Nameless = "nameless"
  Bracketed = "disk (old)"
  Inner = "old"
  Here = "127.0.0.1"
  Blank = " "
  Forbidden = {"bad"}
  PlanForms <- MCForms
  ListTriggers <- MCListTriggers
  OldFiles <- MCOldFiles
  MaxLists = 2
  MaxListed = 1
  s1 = s1
  s2 = s2
  m1 = m1
  Servers = {s1, s2}
  Ollamas = {s1}
  InClear = {s1}
  NoKey = NoKey
  NoModel = NoModel
  Models = {m1}
  ModelAnswers <- MCModelAnswers
  Limits = {0, 8192}
  Prompts = {1000, 5000}
  MaxDoublings = 1
  MaxAsks = 1
INVARIANTS PermissionIsDropped ListIsCurrent RunningIsHeld FiresAtItsSlots ScansAreMeant PlansAreKept RequestsAreMeant
PROPERTIES TableHolds RowsAreAnswered
CHECK_DEADLOCK FALSE
