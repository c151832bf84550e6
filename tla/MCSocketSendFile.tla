-------------------------- MODULE MCSocketSendFile --------------------------
(* Threads that copy files of a few blocks at the same time. *)
EXTENDS SocketSendFile, TLC

CONSTANTS c1, c2

MCTwo == {c1, c2}

MCSymmetry == Permutations(MCTwo)
=============================================================================
