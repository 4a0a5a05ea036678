-------------------------- MODULE MCFreshnessProbe --------------------------
(* A cluster of four nodes, so three replicas. *)
EXTENDS FreshnessProbe, TLC

Symmetry == Permutations(Replicas)
=============================================================================
