-------------------------- MODULE MCSocketConnect --------------------------
(* Two addresses, the timeouts of the application and its use of Open. *)
EXTENDS SocketConnect

(* The default of the constructor, SetConnectTimeout(1, 0). *)
MCConnectTimeout == [sec |-> 1, usec |-> 0]

(* Select() without and with a timeout. *)
MCSelectTimeouts == {[sec |-> 0, usec |-> 0], [sec |-> 0, usec |-> 1]}

(* As documented: only datagram sockets are opened more than once. *)
MCReopenDatagrams ==
    [type \in {"Tcp", "Udp"} |->
        IF type = "Udp" THEN {"failure", "success"} ELSE {}]

MCReopenAfterFailure == [type \in {"Tcp", "Udp"} |-> {"failure"}]

MCReopenAlways == [type \in {"Tcp", "Udp"} |-> {"failure", "success"}]
=============================================================================
