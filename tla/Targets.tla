------------------------------ MODULE Targets -------------------------------
(***************************************************************************)
(* What a scan is given: the subnet field of the scanner, which follows    *)
(* the network until the user types in it; the editable host list of the   *)
(* inspector, filled from the profiles whenever the tab is shown; the      *)
(* arguments made of both for nmap, and the check they pass before the     *)
(* user is asked for permission (core/nmap_scan.py, core/privilege.py).    *)
(*                                                                         *)
(* A text is a sequence: <<address>>, or <<alias, address>> for the label  *)
(* of a profile with an alias; <<>> is an empty field, and a text that     *)
(* begins with Padding has white space about it.                           *)
(***************************************************************************)
EXTENDS Integers, SequencesExt

CONSTANTS
    Nets,           \* the networks this machine may be on, as the field has them
    Fallback,       \* the field's network without one
    HandTexts,      \* bound: what the user may type in either field
    Addresses,      \* the texts of HandTexts that are an address or a network
    Entries,        \* bound: the profiles, records of ip and alias
    MaxEntered,     \* bound: profiles, and entries of the list
    MaxSweeps,      \* bound: scans of the subnet at a time
    PortTexts,      \* bound: custom ports, sequences of <<first, last>>, or Junk
    NoAlias, Junk, Padding

\* str.strip()
Strip(text) == IF text # <<>> /\ Head(text) = Padding THEN Tail(text) ELSE text

ASSUME TargetsAssumption ==
    /\ Addresses \subseteq HandTexts /\ Nets \cup {Fallback} \subseteq Addresses
    /\ \A net \in Nets \cup {Fallback} : Strip(net) = net
    /\ MaxEntered \in Nat /\ MaxSweeps \in Nat /\ {e.ip : e \in Entries} \subseteq Addresses

VARIABLES
    online,     \* the network this machine is on, or <<>>
    filled,     \* _filled_subnet: what the program last put in the field
    field,      \* the subnet field
    sweeps,     \* scans of the subnet that run
    sweeping,   \* the button to cancel one is shown
    hand,       \* history: what the user typed last, and that it stands
    seen,       \* history: the network the field was last brought up to
    sweep,      \* history: the scan of the subnet this step starts, if any
    moved,      \* history: in this step the timer changed the field
    crowded,    \* history: of the scans that run, one was started beside another
    profs,      \* the profiles, in their order
    items,      \* the list of hosts: label and data of each entry
    index,      \* its current entry, or 0
    label,      \* the text it shows
    look        \* history: the scan of the inspector this step starts, if any

subnetVars == <<online, filled, field, sweeps, sweeping, hand, seen, sweep, moved, crowded>>
lookVars   == <<profs, items, index, label, look>>
targetsVars == <<subnetVars, lookVars>>

NoHand == [text |-> <<>>, stands |-> FALSE]
NothingLaunched == [label |-> <<>>, target |-> <<>>, mode |-> "none", args |-> <<>>, privileged |-> FALSE]

TargetsInit ==
    /\ online \in Nets \cup {<<>>}
    /\ filled = (IF online = <<>> THEN Fallback ELSE online)
    /\ field = filled /\ seen = filled /\ hand = NoHand
    /\ sweeps = 0 /\ sweeping = FALSE /\ sweep = NothingLaunched /\ moved = FALSE /\ crowded = FALSE
    /\ profs \in {<<>>} \cup {<<e>> : e \in Entries}
    /\ items = <<>> /\ index = 0 /\ label = <<>> /\ look = NothingLaunched

---------------------------------------------------------------------------
\* nmap's arguments: options, numbers, seconds, ports and the target.

Opt(x)    == [opt |-> x]
Num(n)    == [num |-> n]
Secs(n)   == [secs |-> n]
PortArg(p) == [ports |-> p]
Target(t) == [target |-> t]
Xml       == <<Opt("-oX"), Opt("-")>>

SweptPorts == <<<<22, 22>>, <<80, 80>>, <<8080, 8080>>>>
ASSUME JunkAssumption == Junk # SweptPorts

SubnetScanArgs(target, privileged, thorough) ==
    LET ports == <<Opt("-p"), PortArg(SweptPorts)>>
        pace  == IF thorough
                 THEN <<Opt("-T3"), Opt("--max-retries"), Num(3), Opt("--host-timeout"), Secs(30)>>
                 ELSE <<Opt("-T4"), Opt("--host-timeout"), Secs(15)>>
    IN  (IF privileged THEN <<Opt("-sS")>> \o ports \o <<Opt("-PR")>> ELSE <<Opt("-sT")>> \o ports)
        \o pace \o Xml \o <<Target(target)>>

HostScanArgs(ip, mode, privileged, ports) ==
    <<IF privileged THEN Opt("-sS") ELSE Opt("-sT"), Opt("-sV"), Opt("--version-intensity"), Num(5)>>
    \o (CASE mode = "quick"  -> <<Opt("--top-ports"), Num(1000)>>
          [] mode = "full"   -> <<Opt("-p-")>>
          [] mode = "custom" -> <<Opt("-p"), PortArg(ports)>>)
    \o <<Opt("-T4")>> \o Xml \o <<Target(ip)>>

---------------------------------------------------------------------------
\* validate(): the options are gone through, each with the value it takes.

ScanTypes == {"-sS", "-sT"}
FlagsMutant == ScanTypes \cup {"-sV", "-PR", "-T3", "-T4"}
Flags == ScanTypes \cup {"-sV", "-PR", "-p-", "-T3", "-T4"}
Valued == {"-p", "--top-ports", "--version-intensity", "--max-retries", "--host-timeout", "-oX"}

\* Ports are numbers of up to five digits, and ranges of them.
PortsOk(p) ==
    /\ p \notin {Junk, <<>>}
    /\ \A i \in DOMAIN p : 1 <= p[i][1] /\ p[i][1] <= p[i][2] /\ p[i][2] <= 65535

TargetOk(t) == t \in Addresses

IntIn(a, low, high) == "num" \in DOMAIN a /\ low <= a.num /\ a.num <= high

ValueOk(option, a) ==
    CASE option = "-p"                  -> "ports" \in DOMAIN a /\ PortsOk(a.ports)
      [] option = "--top-ports"         -> IntIn(a, 1, 65535)
      [] option = "--version-intensity" -> IntIn(a, 0, 9)
      [] option = "--max-retries"       -> IntIn(a, 0, 10)
      [] option = "--host-timeout"      -> "secs" \in DOMAIN a /\ a.secs \in 1..3600
      [] option = "-oX"                 -> a = Opt("-")

\* How far the arguments were gone through: the option whose value is awaited,
\* "" between two options; how many types of scan and outputs were met.
State(wants, types, outputs) == [wants |-> wants, types |-> types, outputs |-> outputs]
NotWalked == State("", 0, 0)
Refused   == State("refused", 0, 0)

Walked(s, a) ==
    LET known(options) == "opt" \in DOMAIN a /\ a.opt \in options
        one(holds) == IF holds THEN 1 ELSE 0
    IN  CASE s = Refused -> s
          [] s # Refused /\ s.wants # "" ->
               IF ValueOk(s.wants, a) THEN State("", s.types, s.outputs + one(s.wants = "-oX")) ELSE Refused
          [] s.wants = "" /\ known(Flags)  -> State("", s.types + one(a.opt \in ScanTypes), s.outputs)
          [] s.wants = "" /\ known(Valued) -> State(a.opt, s.types, s.outputs)
          [] s.wants = "" /\ ~known(Flags \cup Valued) -> Refused

Walk(args) ==
    LET walked[i \in 0..Len(args)] == IF i = 0 THEN NotWalked ELSE Walked(walked[i - 1], args[i])
    IN  walked

ValidArgs(args) ==
    LET w == Walk(args)[Len(args) - 1]
    IN  TargetOk(Last(args).target) /\ w.wants = "" /\ w.types = 1 /\ w.outputs > 0

---------------------------------------------------------------------------
\* The subnet field.

scanning == <<sweeps, sweeping, crowded>>
Quiet == sweep' = NothingLaunched /\ moved' = FALSE /\ UNCHANGED lookVars

\* The machine joins or leaves a network.
JoinNetwork ==
    /\ online' \in Nets \cup {<<>>}
    /\ Quiet /\ UNCHANGED <<filled, field, hand, seen, scanning>>

\* Typing the program's own text over again is not taken for the user's.
TypeSubnet ==
    /\ field' \in HandTexts
    /\ hand' = [text |-> field', stands |-> Strip(field') # filled]
    /\ seen' = IF Strip(field') = filled THEN filled ELSE seen
    /\ Quiet /\ UNCHANGED <<online, filled, scanning>>

\* refresh_subnet(), the button.
RefreshSubnetMutant ==
    /\ online # <<>>
    /\ IF Strip(field) = online THEN UNCHANGED <<field, filled>> ELSE field' = online /\ filled' = online
    /\ hand' = NoHand /\ seen' = online
    /\ Quiet /\ UNCHANGED <<online, scanning>>
RefreshSubnet ==
    /\ online # <<>> /\ filled' = online
    /\ field' = IF Strip(field) = online THEN field ELSE online
    /\ hand' = NoHand /\ seen' = online
    /\ Quiet /\ UNCHANGED <<online, scanning>>

\* _follow_network(), every five seconds.
FollowNetworkMutant ==
    /\ online # <<>> /\ Strip(field) = filled /\ filled # online
    /\ field' = online /\ filled' = online /\ seen' = online
    /\ moved' = TRUE /\ sweep' = NothingLaunched
    /\ UNCHANGED <<online, hand, scanning>> /\ UNCHANGED lookVars
FollowNetwork ==
    /\ ~sweeping /\ online # <<>> /\ Strip(field) = filled /\ filled # online
    /\ field' = online /\ filled' = online /\ seen' = online
    /\ moved' = TRUE /\ sweep' = NothingLaunched
    /\ UNCHANGED <<online, hand, scanning>> /\ UNCHANGED lookVars

\* _launch_scan(), from the buttons or the shortcuts, beside a scan that runs or
\* not; the end of any of them hides the button to cancel.
LaunchSweep(privileged, thorough) ==
    /\ sweeps < MaxSweeps
    /\ sweeps' = sweeps + 1 /\ sweeping' = TRUE /\ crowded' = (crowded \/ sweeps > 0)
    /\ sweep' = [label |-> <<>>, target |-> field, mode |-> "subnet", privileged |-> privileged,
                 args |-> SubnetScanArgs(field, privileged, thorough)]
    /\ moved' = FALSE /\ UNCHANGED <<online, filled, field, hand, seen>> /\ UNCHANGED lookVars
SweepEnds ==
    /\ sweeps > 0
    /\ sweeps' = sweeps - 1 /\ sweeping' = FALSE /\ crowded' = (crowded /\ sweeps' > 0)
    /\ Quiet /\ UNCHANGED <<online, filled, field, hand, seen>>

SubnetNext ==
    \/ JoinNetwork \/ TypeSubnet \/ RefreshSubnet \/ FollowNetwork \/ SweepEnds
    \/ \E privileged, thorough \in BOOLEAN : LaunchSweep(privileged, thorough)

---------------------------------------------------------------------------
\* The host list.  Filling an empty list makes its first entry the current one;
\* a text that is set or typed leaves the current entry alone, unless it is an
\* entry's own.

LabelOf(e) == IF e.alias = NoAlias THEN e.ip ELSE <<e.alias>> \o e.ip
Find(list, text) == SelectInSeq(list, LAMBDA e : e.label = text)

\* put() and delete(), from another tab: the profile of a key is written over in
\* its place, or added; a key, not an address, tells the profiles apart.
SaveProfile(i, e) ==
    /\ i <= MaxEntered
    /\ profs' = IF i \in DOMAIN profs THEN [profs EXCEPT ![i] = e] ELSE Append(profs, e)
    /\ look' = NothingLaunched /\ UNCHANGED <<items, index, label>> /\ UNCHANGED subnetVars
DropProfile(i) ==
    /\ profs' = RemoveAt(profs, i)
    /\ look' = NothingLaunched /\ UNCHANGED <<items, index, label>> /\ UNCHANGED subnetVars

\* _refresh_host_list(), when the tab is shown: the text is put back.
RefreshHostList ==
    LET list == [i \in DOMAIN profs |-> [label |-> LabelOf(profs[i]), data |-> profs[i].ip]]
        i    == Find(list, label)
    IN  /\ items' = list
        /\ index' = IF i # 0 THEN i ELSE IF list = <<>> THEN 0 ELSE 1
        /\ label' = IF label # <<>> \/ list = <<>> THEN label ELSE list[1].label
        /\ look' = NothingLaunched /\ UNCHANGED profs /\ UNCHANGED subnetVars

SelectHost(i) ==
    /\ index' = i /\ label' = items[i].label
    /\ look' = NothingLaunched /\ UNCHANGED <<profs, items>> /\ UNCHANGED subnetVars

TypeHost(text) ==
    /\ label' = text
    /\ index' \in {index, IF Find(items, text) # 0 THEN Find(items, text) ELSE index}
    /\ look' = NothingLaunched /\ UNCHANGED <<profs, items>> /\ UNCHANGED subnetVars

\* Return adds the text to the list, without data.
EnterHost ==
    /\ label # <<>>
    /\ IF Find(items, label) # 0 THEN index' = Find(items, label) /\ UNCHANGED items
       ELSE /\ Len(items) < MaxEntered
            /\ items' = Append(items, [label |-> label, data |-> <<>>]) /\ index' = Len(items')
    /\ look' = NothingLaunched /\ UNCHANGED <<profs, label>> /\ UNCHANGED subnetVars

\* _resolved_ip()
ResolvedIp == IF index # 0 /\ items[index].data # <<>> THEN items[index].data ELSE Strip(label)

\* _start_scan(): custom ports are checked before the user is asked for
\* permission, the whole of the arguments after it.
TypedArgs(ports, ip) == <<Opt("-sS"), Opt("-p"), PortArg(ports)>> \o Xml \o <<Target(ip)>>
StartScan(mode, ports, privileged) ==
    /\ ResolvedIp # <<>>
    /\ mode = "custom" => ValidArgs(TypedArgs(ports, ResolvedIp))
    /\ look' = [label |-> label, target |-> ResolvedIp, mode |-> mode, privileged |-> privileged,
                args |-> HostScanArgs(ResolvedIp, mode, privileged, ports)]
    /\ UNCHANGED <<profs, items, index, label>> /\ UNCHANGED subnetVars

LookNext ==
    \/ \E e \in Entries, i \in 1..(Len(profs) + 1) : SaveProfile(i, e)
    \/ \E i \in DOMAIN profs : DropProfile(i)
    \/ \E i \in DOMAIN items : SelectHost(i)
    \/ \E text \in HandTexts : TypeHost(text)
    \/ \E privileged \in BOOLEAN :
         \/ \E mode \in {"quick", "full"} : StartScan(mode, <<>>, privileged)
         \/ \E ports \in PortTexts : StartScan("custom", ports, privileged)
    \/ RefreshHostList \/ EnterHost

TargetsSpec == TargetsInit /\ [][SubnetNext \/ LookNext]_targetsVars

---------------------------------------------------------------------------
\* Whatever ports were typed and whichever pace or mode was chosen, the arguments
\* of a privileged scan are the ones the thread's check lets pass, so that the
\* user is asked for permission in vain exactly when the text is not an address:
\* only custom ports are checked with it before the question (core/privilege.py,
\* "the shapes LanScanMan itself generates").
AskedIsAccepted ==
    \A s \in {sweep, look} : s.privileged => (ValidArgs(s.args) <=> TargetOk(s.target))

\* The subnet field is what the user typed, or else, but for white space, the
\* network it was last brought up to, which the timer then takes for its own and
\* goes on following, in every order of typing, networks, scans and the button;
\* and the timer does not change it while a scan runs, unless one was started
\* beside another, the end of which hides the button the timer looks at
\* (_follow_network, "never over one the user typed, and not while a scan runs").
SubnetIsFollowed == IF hand.stands THEN field = hand.text ELSE Strip(field) = seen /\ filled = seen
FollowsBetweenScans == moved => sweeps = 0 \/ crowded
ScansAreMeant == AskedIsAccepted /\ SubnetIsFollowed /\ FollowsBetweenScans

\* host_inspector_tab.py, _resolved_ip: "Get IP from combo - either from profile
\* userData or raw typed text".  A scan is of the host the list shows.
ScanIsOfTheShown == look # NothingLaunched => look.label # <<>> /\ look.target = <<Last(look.label)>>
=============================================================================
