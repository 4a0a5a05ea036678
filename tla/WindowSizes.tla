---------------------------- MODULE WindowSizes ----------------------------
(* WINDOWS of src/feature_store/features.py, in seconds. *)

Windows == {"1m", "5m", "1h"}
Size(w) == CASE w = "1m" -> 60 [] w = "5m" -> 300 [] w = "1h" -> 3600
=============================================================================
