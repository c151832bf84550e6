------------------------- MODULE MCSocketDatagrams -------------------------
(* One client of a server, and one that asks it through the group. *)
EXTENDS SocketDatagrams

CONSTANTS c1, c2, s1

MCClients == {c1, c2}
MCServers == {s1}
MCInterruptible == {c1, s1}
MCTargets == [c \in MCClients |-> IF c = c1 THEN {s1} ELSE {Group}]
=============================================================================
