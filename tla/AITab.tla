-------------------------------- MODULE AITab --------------------------------
(***************************************************************************)
(* The AI tab (ui/tabs/ai_tab.py, workers/ai.py) beside the scanner's      *)
(* table: the hosts of the table are asked for AI servers when the tab is  *)
(* shown after they changed, or when the user says so; a server can be     *)
(* added by its address.  One discovery runs at a time, and its answers    *)
(* come one by one while the table goes on changing.                       *)
(***************************************************************************)
EXTENDS ScanTable

CONSTANT Localhost      \* this machine's address

VARIABLES
    stale,      \* the hosts changed since they were last asked
    discovery,  \* the discovery under way: the hosts it has still to ask
    services,   \* the hosts of the servers listed
    asked       \* history: the hosts asked since the list was last emptied

aiVars == <<stale, discovery, services, asked>>

NoDiscovery == [on |-> FALSE, left |-> {}]

AIInit == stale = TRUE /\ discovery = NoDiscovery /\ services = {} /\ asked = {}

\* _hosts(): current_hosts() of the table, and this machine.
AskedHosts == {Localhost} \cup {rows[i].ip : i \in DOMAIN rows}

\* discover() of every host empties the list and takes the hosts as fresh.
Discover ==
    /\ ~discovery.on
    /\ discovery' = [on |-> TRUE, left |-> AskedHosts]
    /\ asked' = AskedHosts /\ services' = {} /\ stale' = FALSE
    /\ UNCHANGED tableVars

\* The button asks at any time, showing the tab only if the hosts changed.
FindServers == Discover
ShowTab == stale /\ Discover

\* _add_server(): discover() of one host, which does nothing while another
\* discovery runs.
AddServer(host) ==
    /\ ~discovery.on
    /\ discovery' = [on |-> TRUE, left |-> {host}] /\ asked' = asked \cup {host}
    /\ UNCHANGED <<stale, services>> /\ UNCHANGED tableVars

\* _probe() and identify() of one host, and _add_service() if it answered: a
\* server is listed once, however often it answers.
Asked(host) ==
    /\ host \in discovery.left
    /\ discovery' = [discovery EXCEPT !.left = @ \ {host}]
    /\ services' \in {services, services \cup {host}}
    /\ UNCHANGED <<stale, asked>> /\ UNCHANGED tableVars

DiscoveryDoneMutant ==
    /\ discovery.on /\ discovery.left = {} /\ discovery' = NoDiscovery
    /\ stale' = FALSE /\ UNCHANGED <<services, asked>> /\ UNCHANGED tableVars
DiscoveryDone ==
    /\ discovery.on /\ discovery.left = {} /\ discovery' = NoDiscovery
    /\ UNCHANGED <<stale, services, asked>> /\ UNCHANGED tableVars

AIStep ==
    \/ FindServers \/ ShowTab \/ DiscoveryDone
    \/ \E host \in TabIps \cup {Localhost} : AddServer(host) \/ Asked(host)

\* hosts_changed is connected to mark_stale.
MarkStale == stale' = TRUE /\ UNCHANGED <<discovery, services, asked>>

\* The tab beside the table.
AITabNext ==
    \/ HostsChange /\ MarkStale
    \/ HostsStay /\ UNCHANGED aiVars
    \/ AIStep
AITabSpec == TableInit /\ AIInit /\ [][AITabNext]_<<tableVars, aiVars>>

---------------------------------------------------------------------------
\* While the tab takes its hosts as fresh, every host of the scanner's table was
\* asked since the list was emptied, though the table went on changing during
\* the discovery; and no server is listed that was not asked (mark_stale,
\* discover, _discovery_done).
ListIsCurrent ==
    /\ ~stale => AskedHosts \subseteq asked
    /\ services \subseteq asked /\ discovery.left \subseteq asked
=============================================================================
