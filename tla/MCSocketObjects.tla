-------------------------- MODULE MCSocketObjects --------------------------
(* A client and a listener, each of two types, over two descriptors. *)
EXTENDS SocketObjects, TLC

CONSTANTS a1, p1

MCActive == {a1}
MCPassive == {p1}

(* socket() refuses Tcp6. *)
MCTypes == [o \in Objs |-> IF o = p1 THEN {"Tcp", "Udp"} ELSE {"Tcp", "Tcp6"}]

MCErrnos == {"EOTHER"}

(* Descriptor numbers are interchangeable. *)
MCSymmetry == Permutations(Fds)
=============================================================================
