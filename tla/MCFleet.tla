------------------------------ MODULE MCFleet -------------------------------
(* A blaster of each kind beside the ingest process. *)
EXTENDS Fleet

CONSTANTS b1, b2, i

MCBaseline == {b1}
MCBurstOnly == {b2}
=============================================================================
