---------------------------- MODULE MCKnownHosts ----------------------------
(* Two hosts: h1 may present either key and is in the user's own           *)
(* known_hosts with the first; h2 presents one, which nobody has seen yet. *)
EXTENDS KnownHosts

CONSTANTS h1, h2, k1, k2

MCPresents == [h \in Hosts |-> IF h = h1 THEN {k1, k2} ELSE {k1}]
MCSystem   == [h \in Hosts |-> IF h = h1 THEN k1 ELSE None]
=============================================================================
