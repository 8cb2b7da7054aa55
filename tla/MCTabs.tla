------------------------------- MODULE MCTabs -------------------------------
(***************************************************************************)
(* What lies on and behind the tabs, checked one part at a time: a         *)
(* behaviour is one of the scans of the two tabs that share a permission,  *)
(* of the scanner's table, of that table and the AI tab beside it, of a    *)
(* tab of probes, of the clock of a list, of the fields a scan is given,   *)
(* of a transfer on its way to a command, or of the server of a chat; the  *)
(* others stay in an initial state.  Beside the AI tab the table only      *)
(* gains and loses rows.                                                   *)
(***************************************************************************)
EXTENDS Scans, AITab, ProbeTab, ListClock, Targets, TransferPlan, ChatServer

CONSTANTS mac1, mac2, s1, s2, m1,
    Parts       \* the parts that are checked

VARIABLE part
aiTabVars == <<tableVars, aiVars>>
restVars  == <<clockVars, targetsVars, planVars, serverVars>>
tabsVars  == <<part, scansVars, aiTabVars, probeVars, restVars>>

\* Everything installed, no pkexec, nmap alone, no sudo.
MCInstalled == {Programs, {"nmap", "sudo"}, {"nmap"}, {"nmap", "pkexec"}}

\* One host at two addresses, and one whose MAC is not known beside another.
MCFounds == {{[mac |-> mac1, ip |-> 1], [mac |-> mac1, ip |-> 2]}, {[mac |-> Dash, ip |-> 1], [mac |-> mac2, ip |-> 2]}}

\* Two networks, two hosts, and texts that are neither.
MCFallback  == <<"net0">>
MCNets      == {<<"net1">>, <<"net2">>}
MCAddresses == MCNets \cup {MCFallback, <<"ip1">>, <<"ip2">>}
MCHandTexts == MCAddresses \cup {<<>>, <<"text">>, <<" ", "net1">>, <<" ", "net2">>}
MCEntries   == {[ip |-> <<"ip1">>, alias |-> a] : a \in {NoAlias, "pc"}} \cup {[ip |-> <<"ip2">>, alias |-> "pc"]}
MCPortTexts == {Junk, <<<<22, 22>>, <<80, 90>>>>, <<<<90, 80>>>>, <<<<0, 0>>>>, <<<<65535, 65536>>>>}

MCClockTriggers ==
    {Interval(v, u) : v \in {1, 2}, u \in {"minutes", "hours", "days"}}
    \cup {Scheduled(ds, at) : ds \in {{0}, {1}, {0, 1}, {0, 3}, {5, 6}}, at \in 0..(DayLen - 1)}
    \cup {Manual}

\* A host with a profile and one without, two accounts of one host beside a
\* host with parentheses in its alias, two hosts.
Listed(ip, alias, primary, extras) == [ip |-> ip, alias |-> alias, primary |-> primary, extras |-> extras]
MCHostTables ==
    {<<Listed("ip1", "nas", "ann", <<>>), Listed("ip2", Nameless, "bob", <<>>)>>,
     <<Listed("ip1", "nas", "ann", <<"bob">>), Listed("ip2", Bracketed, "", <<"ann">>)>>,
     <<Listed("ip1", "nas", "ann", <<>>), Listed("ip2", "pc", "bob", <<>>)>>}

Form(ends, kind, dir, texts, flags) ==
    [from |-> ends[1], to |-> ends[2], kind |-> kind, dir |-> dir, path |-> texts[1], dest |-> texts[2], flags |-> flags]
MCForms ==
    {Form(ends, "directory", "", <<"src", "dst">>, {"-r"}) : ends \in {<<0, 0>>, <<1, 2>>, <<2, 0>>}}
    \cup {Form(ends, "wildcard", d, <<"*.c", "dst">>, {"-v"}) : ends \in {<<1, 0>>, <<2, 1>>, <<0, 1>>}, d \in {"dir", Blank}}
    \cup {Form(<<0, 1>>, "file", "", texts, {"-v"}) : texts \in {<<"", "dst">>, <<"src", "bad">>}}

SetTo(type, value, unit, days, time) ==
    [type |-> type, value |-> value, unit |-> unit, days |-> days, time |-> time]
MCListTriggers ==
    {SetTo("manual", 24, "hours", {}, 2), SetTo("interval", 9999, "days", {}, 2),
     SetTo("scheduled", 24, "hours", {}, 3), SetTo("scheduled", 24, "hours", {0, 5}, 3)}

\* A file of the version that counted hours, one with lists that are not
\* valid, and one with an interval longer than the dialog shows.
Copy(args) ==
    [sender_ip |-> Here, sender_user |-> NoUser, receiver_ip |-> Here, src_path |-> <<"src">>, dst_path |-> <<"dst">>,
     args |-> args, full_source |-> EndAt(Here, NoUser, <<"src">>), full_dest |-> EndAt(Here, NoUser, <<"dst">>)]
MCOldFiles ==
    {<<[name |-> "old", trigger |-> [type |-> "interval", hours |-> 6], transfers |-> <<Copy({"-r"})>>]>>,
     <<[name |-> "", trigger |-> [type |-> "manual"]], [trigger |-> [type |-> "interval", value |-> 0]],
       [name |-> "odd", missed |-> "later"], [name |-> "args", transfers |-> <<Copy({"-r", "bad"})>>], [name |-> "zero", trigger |-> [type |-> "interval", hours |-> 0]]>>,
     <<[name |-> "new", enabled |-> FALSE, trigger |-> SetTo("interval", 90, "minutes", {}, 2)],
       [name |-> "long", trigger |-> SetTo("interval", 10000, "minutes", {}, 2)]>>}

MCModelAnswers == {<<>>, <<m1>>}

TabsInit ==
    /\ part \in Parts
    /\ ScansInit   /\ (part # "scans" => caps = {"nmap"} /\ scanMode = "polkit")
    /\ TableInit   /\ (part # "table" => saved = <<>>)
    /\ AIInit /\ ProbeInit
    /\ ClockInit   /\ (part # "clock" => trigger = Manual)
    /\ TargetsInit /\ (part # "subnet" => online = <<>>) /\ (part # "inspector" => profs = <<>>)
    /\ PlanInit    /\ (part # "plan" => Len(table[1].extras) = 0 /\ table[2].alias = "pc" /\ listFile = <<>>)
    /\ ServerInit  /\ (part # "server" => server = s1 /\ keyring[s1] = NoKey)

TabsNext ==
    /\ UNCHANGED part
    /\ \/ part = "scans"  /\ ScansNext /\ UNCHANGED <<aiTabVars, probeVars, restVars>>
       \/ part = "table"  /\ (HostsChange \/ HostsStay) /\ UNCHANGED <<scansVars, aiVars, probeVars, restVars>>
       \/ part = "ai"     /\ HostsChange /\ MarkStale /\ UNCHANGED <<scansVars, probeVars, restVars>>
       \/ part = "ai"     /\ (\E found \in Founds : KeepResults(found)) /\ UNCHANGED <<scansVars, aiVars, probeVars, restVars>>
       \/ part = "ai"     /\ AIStep /\ UNCHANGED <<scansVars, probeVars, restVars>>
       \/ part = "probes" /\ ProbeNext /\ UNCHANGED <<scansVars, aiTabVars, restVars>>
       \/ /\ UNCHANGED <<scansVars, aiTabVars, probeVars>>
          /\ \/ part = "clock"     /\ ClockNext  /\ UNCHANGED <<targetsVars, planVars, serverVars>>
             \/ part = "subnet"    /\ SubnetNext /\ UNCHANGED <<clockVars, planVars, serverVars>>
             \/ part = "inspector" /\ LookNext   /\ UNCHANGED <<clockVars, planVars, serverVars>>
             \/ part = "plan"      /\ PlanNext   /\ UNCHANGED <<clockVars, targetsVars, serverVars>>
             \/ part = "server"    /\ ServerNext /\ UNCHANGED <<clockVars, targetsVars, planVars>>

TabsSpec == TabsInit /\ [][TabsNext]_tabsVars

\* Threads run, and their signals are delivered; the user does as they like.
TabsFairness ==
    \A ip \in ProbeIps, t \in Threads :
        WF_tabsVars(part = "probes" /\ ProbeSignals(ip, t) /\ UNCHANGED <<part, scansVars, aiTabVars, restVars>>)
TabsFairSpec == TabsSpec /\ TabsFairness
=============================================================================
