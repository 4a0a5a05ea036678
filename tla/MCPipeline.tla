----------------------------- MODULE MCPipeline -----------------------------
(* Pipeline on small instances; the configurations give the constants. *)
EXTENDS Pipeline
=============================================================================
