----------------------------- MODULE MCServing -----------------------------
(* Two fills, the second of which opens a new minute and stays in the hour *)
(* of the first, and a flush after the first; and a coin that trades the   *)
(* same volume every minute, into a second hour.                           *)
EXTENDS Serving

MCOrder == <<"1m", "1h">>

MCStream == <<[sec |-> 59, volume |-> 1], [sec |-> 60, volume |-> 1]>>

MCFlushes == {1}

SteadyStream == [i \in 1..61 |-> [sec |-> 60 * (i - 1), volume |-> 1]]

SteadyFlushes == 1..61
=============================================================================
