--------------------------- MODULE FreshnessProbe ---------------------------
(***************************************************************************)
(* The dashboard's freshness probe: the reader thread writes a sentinel    *)
(* row, reads it back at once and publishes the time this took as the      *)
(* store's write-to-visible latency (dashboard.py, _reader_thread). How    *)
(* many replicas a write and a read wait for comes from make_cluster       *)
(* (config.py): one each when 'tuned', a quorum each when 'default'. The   *)
(* probe itself is always 'tuned'; with 'default' the same steps stand for *)
(* a feature written by the consumer --tuning default and then read by an  *)
(* API started with FS_TUNING=default.                                     *)
(*                                                                         *)
(* The store is external: a write goes to every replica of its key, each   *)
(* applies it in its own time, and the write is acknowledged once enough   *)
(* have; a read returns the newest version enough replicas hold.           *)
(***************************************************************************)
EXTENDS Integers, FiniteSetsExt

CONSTANTS Nodes,       \* the nodes of the cluster the schema was applied to
          Replicas,    \* those that hold the sentinel's partition
          Tuning,      \* "tuned" or "default"
          MaxProbes    \* bound: probes in a behaviour

(* apply_schema: the local node and its peers, but no more than three.     *)
ReplicationFactor == Min({3, Cardinality(Nodes)})

ASSUME ProbeAssumption ==
    /\ IsFiniteSet(Nodes) /\ Nodes # {}
    /\ Replicas \subseteq Nodes /\ Cardinality(Replicas) = ReplicationFactor
    /\ Tuning \in {"tuned", "default"}
    /\ MaxProbes \in Nat

(* LOCAL_ONE or LOCAL_QUORUM, in replicas to wait for.                     *)
Quorum == (Cardinality(Replicas) \div 2) + 1
WriteNeeds == IF Tuning = "tuned" THEN 1 ELSE Quorum
ReadOne == 1          \* mutant: reads at LOCAL_ONE
ReadNeeds == IF Tuning = "tuned" THEN 1 ELSE Quorum

VARIABLES pc,         \* the reader thread: "idle", "writing", "reading", "dead"
          token,      \* the sentinel last written; tokens are times, so they grow
          replica,    \* the version of the row each replica holds
          underway,   \* replicas the current or an earlier write has yet to reach
          results     \* what the read of each finished probe returned

vars == <<pc, token, replica, underway, results>>

Init ==
    /\ pc = "idle"
    /\ token = 0
    /\ replica = [r \in Replicas |-> 0]
    /\ underway = {}
    /\ results = [p \in {} |-> 0]

(* session.execute of the upsert.                                          *)
ProbeWrite ==
    /\ pc = "idle"
    /\ token < MaxProbes
    /\ token' = token + 1
    /\ underway' = underway \cup {<<token', r>> : r \in Replicas}
    /\ pc' = "writing"
    /\ UNCHANGED <<replica, results>>

(* A replica applies a write; an older one does not displace a newer one.  *)
Deliver(v, r) ==
    /\ <<v, r>> \in underway
    /\ underway' = underway \ {<<v, r>>}
    /\ replica' = IF v > replica[r] THEN [replica EXCEPT ![r] = v] ELSE replica
    /\ UNCHANGED <<pc, token, results>>

Reached(v) == {r \in Replicas : <<v, r>> \notin underway}

WriteAcked ==
    /\ pc = "writing"
    /\ Cardinality(Reached(token)) >= WriteNeeds
    /\ pc' = "reading"
    /\ UNCHANGED <<token, replica, underway, results>>

(* The read-back. Its value is thrown away by the probe.                   *)
ProbeRead ==
    /\ pc = "reading"
    /\ \E asked \in SUBSET Replicas :
          /\ Cardinality(asked) = ReadNeeds
          /\ results' = [p \in DOMAIN results \cup {token} |->
                            IF p = token THEN Max({replica[r] : r \in asked})
                            ELSE results[p]]
    /\ pc' = "idle"
    /\ UNCHANGED <<token, replica, underway>>

(* Either request may time out; nothing catches it, the thread ends.       *)
RequestFails ==
    /\ pc \in {"writing", "reading"}
    /\ pc' = "dead"
    /\ UNCHANGED <<token, replica, underway, results>>

Next ==
    \/ ProbeWrite
    \/ \E v \in 1..MaxProbes, r \in Replicas : Deliver(v, r)
    \/ WriteAcked
    \/ ProbeRead
    \/ RequestFails

Spec == Init /\ [][Next]_vars

-----------------------------------------------------------------------------
TypeOK ==
    /\ pc \in {"idle", "writing", "reading", "dead"}
    /\ token \in 0..MaxProbes
    /\ replica \in [Replicas -> 0..MaxProbes]
    /\ underway \subseteq (1..MaxProbes) \X Replicas
    /\ DOMAIN results \subseteq 1..token
    /\ \A p \in DOMAIN results : results[p] \in 0..MaxProbes

(* "the write->visible round trip": when the probe stops its clock the     *)
(* feature it wrote is what a read returns.                                *)
ProbeSeesItsWrite == \A p \in DOMAIN results : results[p] = p
=============================================================================
