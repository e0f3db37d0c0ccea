---------------------------- MODULE MCIperfControl ----------------------------
(* Clients as model values, for the instances of IperfControl. *)
EXTENDS IperfControl, TLC

CONSTANTS c1, c2

MCClients == {c1, c2}

\* Everybody is disturbed, or one client and no one else.
Everybody == {MCClients \cup {Server}} \cup {{i} : i \in MCClients}

\* One client is disturbed, and perhaps the server.
AllButOne == {{c1}, {c1, Server}}
OneClient == {{c1}}

Symmetric == Permutations(MCClients)
=============================================================================
