----------------------------- MODULE MCIngest -----------------------------
(* Fills at once, close together and with a pause longer than a flush. *)
EXTENDS Ingest

MCTimes == <<0, 1, 1, 4, 5>>
=============================================================================
