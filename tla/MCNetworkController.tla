------------------------ MODULE MCNetworkController ------------------------
(* Instances of NetworkController for TLC. *)
EXTENDS NetworkController

CONSTANTS p1, p2, k1, k2, nosite

(* A port that is forwarded, bridged by podman, or terminated by caddy. *)
Plain(i, mapped) == [int |-> i, forward |-> TRUE, tls |-> FALSE, upnp |-> mapped]
Bridged(i) == [int |-> i, forward |-> FALSE, tls |-> FALSE, upnp |-> TRUE]
Terminated(i) == [int |-> i, forward |-> TRUE, tls |-> TRUE, upnp |-> FALSE]

Pair(a, b) == [p \in {p1, p2} |-> IF p = p1 THEN a ELSE b]

TwoPorts == {p1, p2}

(* p1 moves to another internal port and gives up its mapping, p2 is        *)
(* terminated for one internal port, then for another.                      *)
Moves == {Pair(Plain(1, TRUE), Terminated(1)), Pair(Plain(2, FALSE), Terminated(2))}

(* p1 changes between forwarded and bridged, p2 turns TLS on and off. *)
Flips == {Pair(Plain(1, TRUE), Plain(2, FALSE)), Pair(Bridged(1), Terminated(2))}

SiteSets == {{<<p2, 1>>}, {<<p2, 2>>}}
=============================================================================
