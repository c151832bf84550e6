------------------------------- MODULE MCEcho -------------------------------
(* A payload longer, as long and shorter than what the connection holds. *)
EXTENDS Echo

MCCapacities == 1..(nTotalPayloadSize + 1)
=============================================================================
