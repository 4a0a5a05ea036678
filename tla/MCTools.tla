------------------------------ MODULE MCTools ------------------------------
(* Five rows, which do not divide evenly among two workers; nine reads,    *)
(* two for each thread of two workers and one left over.                   *)
EXTENDS Tools

CONSTANTS k1, k2

MCRows == <<k1, k1, k2, k1, k2>>
MCInvocations == {<<"loadgen", 2>>, <<"bench", 2>>}
MCLoadGenOnly == {<<"loadgen", 2>>}
=============================================================================
