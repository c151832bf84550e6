-------------------------- MODULE MCSocketTransfer --------------------------
(* One thread that does both, or a sender and a receiver on one object. *)
EXTENDS SocketTransfer

CONSTANTS t1, t2

MCNone == {}
MCOne  == {t1}
MCLast == {t2}
MCTwo  == {t1, t2}
=============================================================================
