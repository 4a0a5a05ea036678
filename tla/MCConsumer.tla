----------------------------- MODULE MCConsumer -----------------------------
(* One position updated twice, in two buckets: every row of the first fill *)
(* but its window is written again by the second, which closes the window; *)
(* both fills have their own raw row.                                      *)
EXTENDS Consumer

CONSTANTS a1, c1

MCStream == <<[addr |-> a1, coin |-> c1, ms |-> 59999, bucket |-> 0],
              [addr |-> a1, coin |-> c1, ms |-> 60000, bucket |-> 60]>>
=============================================================================
