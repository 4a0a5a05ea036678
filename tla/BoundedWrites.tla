--------------------------- MODULE BoundedWrites ---------------------------
(***************************************************************************)
(* What the write path promises its caller, with no semaphore, no callback *)
(* and no lock in sight: at most Limit writes are outstanding at any time, *)
(* and the barrier `drain' returns only when none is.                      *)
(* Pipeline.tla (src/feature_store/writer.py) implements this module.      *)
(***************************************************************************)
EXTENDS Integers, FiniteSets

CONSTANTS Limit,      \* the most writes that may be outstanding
          Requests    \* the identities writes can have

VARIABLES issued,     \* the writes handed to the driver so far
          pending,    \* those whose outcome is still unknown to the caller
          drained     \* the barrier has returned

vars == <<issued, pending, drained>>

Init ==
    /\ issued = {}
    /\ pending = {}
    /\ drained = FALSE

Issue(r) ==
    /\ ~drained
    /\ r \notin issued
    /\ Cardinality(pending) < Limit
    /\ issued' = issued \cup {r}
    /\ pending' = pending \cup {r}
    /\ UNCHANGED drained

Complete(r) ==
    /\ r \in pending
    /\ pending' = pending \ {r}
    /\ UNCHANGED <<issued, drained>>

Drain ==
    /\ ~drained
    /\ pending = {}
    /\ drained' = TRUE
    /\ UNCHANGED <<issued, pending>>

Next ==
    \/ \E r \in Requests : Issue(r) \/ Complete(r)
    \/ Drain

Spec == Init /\ [][Next]_vars
=============================================================================
