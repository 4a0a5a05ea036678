----------------------- MODULE FreshnessProbe_proofs -----------------------
(***************************************************************************)
(* Theorems about FreshnessProbe, for any cluster and any number of        *)
(* probes: a read that waits for enough replicas meets one the write has   *)
(* reached, because replicas never give up a newer version for an older.   *)
(***************************************************************************)
EXTENDS FreshnessProbe, FiniteSetTheorems, TLAPS

(* The replicas a request of each kind waits for overlap.                  *)
Overlap == WriteNeeds + ReadNeeds > Cardinality(Replicas)

(* No version is newer than the token, and a replica a write has reached   *)
(* holds it or a newer one.                                                *)
ReplicasFollow ==
    /\ underway \subseteq (1..token) \X Replicas
    /\ \A r \in Replicas : replica[r] <= token
    /\ \A r \in Replicas : \A v \in 1..token : <<v, r>> \notin underway => v <= replica[r]

(* A request underway is for a token, and the read of a probe begins once  *)
(* its write was acknowledged.                                             *)
ReadAfterAck ==
    /\ pc \in {"writing", "reading"} => token > 0
    /\ pc = "reading" => Cardinality(Reached(token)) >= WriteNeeds

ProbeInv == TypeOK /\ ReplicasFollow /\ ReadAfterAck /\ ProbeSeesItsWrite

-----------------------------------------------------------------------------
LEMMA ReplicasFinite == IsFiniteSet(Replicas) /\ Cardinality(Replicas) \in Nat
  BY ProbeAssumption, FS_Subset, FS_CardinalityType

LEMMA ReachedFinite ==
    ASSUME NEW v
    PROVE  /\ Reached(v) \subseteq Replicas
           /\ IsFiniteSet(Reached(v))
           /\ Cardinality(Reached(v)) \in Nat
  <1>1. Reached(v) \subseteq Replicas
    BY DEF Reached
  <1> QED
    BY <1>1, ReplicasFinite, FS_Subset, FS_CardinalityType

LEMMA NeedsType == WriteNeeds \in Nat /\ ReadNeeds \in Nat
  BY ReplicasFinite DEF WriteNeeds, ReadNeeds, Quorum

(* The largest of a set of versions that has one.                          *)
LEMMA MaxIsLargest ==
    ASSUME NEW S \in SUBSET Nat, NEW m \in S, \A x \in S : x <= m
    PROVE  Max(S) = m
  <1>1. \E x \in S : \A y \in S : x >= y
    <2>1. \A y \in S : m >= y
      OBVIOUS
    <2> QED
      BY <2>1
  <1>2. Max(S) \in S /\ \A y \in S : Max(S) >= y
    BY <1>1 DEF Max
  <1>3. Max(S) \in Nat /\ m \in Nat
    BY <1>2
  <1>4. Max(S) <= m /\ Max(S) >= m
    BY <1>2
  <1> QED
    BY <1>3, <1>4

(* What is asked of a read and what a write waited for have a replica in   *)
(* common.                                                                 *)
LEMMA ReadMeetsWrite ==
    ASSUME Overlap, NEW written \in SUBSET Replicas, Cardinality(written) >= WriteNeeds,
           NEW asked \in SUBSET Replicas, Cardinality(asked) = ReadNeeds
    PROVE  asked \cap written # {}
  <1>1. /\ IsFiniteSet(written) /\ IsFiniteSet(asked)
        /\ Cardinality(written) \in Nat /\ Cardinality(asked) \in Nat
    BY ReplicasFinite, FS_Subset, FS_CardinalityType
  <1>2. Cardinality(asked) + Cardinality(written) > Cardinality(Replicas)
    BY <1>1, ReplicasFinite, NeedsType DEF Overlap
  <1> QED
    BY <1>2, ReplicasFinite, FS_MajoritiesIntersect

-----------------------------------------------------------------------------
LEMMA InvInit == Init => ProbeInv
  BY ProbeAssumption
     DEF Init, ProbeInv, TypeOK, ReplicasFollow, ReadAfterAck, ProbeSeesItsWrite

(* A replica that applies a write keeps the newer of two versions.         *)
LEMMA DeliverKeepsInv ==
    ASSUME ProbeInv, NEW v \in 1..MaxProbes, NEW s \in Replicas, Deliver(v, s)
    PROVE  ProbeInv'
  <1> USE ProbeAssumption DEF ProbeInv, TypeOK, Deliver
  <1>1. TypeOK'
    OBVIOUS
  <1>2. v \in 1..token /\ replica[s] <= token
    BY DEF ReplicasFollow
  <1>3. \A r \in Replicas : replica'[r] <= token /\ replica[r] <= replica'[r]
    BY <1>2 DEF ReplicasFollow
  <1>4. v <= replica'[s]
    BY <1>2
  <1>5. ReplicasFollow'
    BY <1>2, <1>3, <1>4 DEF ReplicasFollow
  <1>6. ReadAfterAck'
    <2> SUFFICES ASSUME pc = "reading"
                 PROVE  Cardinality(Reached(token)') >= WriteNeeds
      BY DEF ReadAfterAck
    <2>1. Reached(token) \subseteq Reached(token)'
      BY DEF Reached
    <2>2. Reached(token)' \subseteq Replicas
      BY DEF Reached
    <2>3. Cardinality(Reached(token)) <= Cardinality(Reached(token)')
      BY <2>1, <2>2, ReplicasFinite, FS_Subset
    <2>4. Cardinality(Reached(token)') \in Nat
      BY <2>2, ReplicasFinite, FS_Subset, FS_CardinalityType
    <2> QED
      BY <2>3, <2>4, ReachedFinite, NeedsType DEF ReadAfterAck
  <1>7. ProbeSeesItsWrite'
    BY DEF ProbeSeesItsWrite
  <1> QED
    BY <1>1, <1>5, <1>6, <1>7

(* The read meets a replica that holds the probe's own version, and none   *)
(* holds a newer one.                                                      *)
LEMMA ProbeReadKeepsInv ==
    ASSUME Overlap, ProbeInv, ProbeRead
    PROVE  ProbeInv'
  <1> USE DEF ProbeInv
  <1>1. PICK asked \in SUBSET Replicas :
            /\ Cardinality(asked) = ReadNeeds
            /\ results' = [p \in DOMAIN results \cup {token} |->
                              IF p = token THEN Max({replica[r] : r \in asked})
                              ELSE results[p]]
    BY DEF ProbeRead
  <1>2. token \in 1..MaxProbes /\ Cardinality(Reached(token)) >= WriteNeeds
    BY DEF ProbeRead, ReadAfterAck, TypeOK
  <1>3. PICK s \in asked : s \in Reached(token)
    BY <1>1, <1>2, ReadMeetsWrite, ReachedFinite
  <1>4. replica[s] = token
    BY <1>2, <1>3 DEF Reached, ReplicasFollow, TypeOK
  <1>5. Max({replica[r] : r \in asked}) = token
    <2>1. {replica[r] : r \in asked} \in SUBSET Nat /\ token \in {replica[r] : r \in asked}
      BY <1>3, <1>4 DEF TypeOK
    <2>2. \A x \in {replica[r] : r \in asked} : x <= token
      BY DEF ReplicasFollow
    <2> QED
      BY <2>1, <2>2, MaxIsLargest
  <1>6. TypeOK' /\ ProbeSeesItsWrite'
    BY <1>1, <1>2, <1>5 DEF ProbeRead, TypeOK, ProbeSeesItsWrite
  <1>7. ReplicasFollow' /\ ReadAfterAck'
    BY DEF ProbeRead, ReplicasFollow, ReadAfterAck
  <1> QED
    BY <1>6, <1>7

LEMMA InvStep ==
    ASSUME Overlap PROVE ProbeInv /\ [Next]_vars => ProbeInv'
  <1> SUFFICES ASSUME ProbeInv, [Next]_vars PROVE ProbeInv'
    OBVIOUS
  <1> USE ProbeAssumption DEF ProbeInv, TypeOK, ProbeSeesItsWrite
  <1>1. CASE ProbeWrite
    <2>1. TypeOK' /\ ProbeSeesItsWrite'
      BY <1>1 DEF ProbeWrite
    <2>2. ReplicasFollow'
      BY <1>1 DEF ProbeWrite, ReplicasFollow
    <2>3. ReadAfterAck'
      BY <1>1 DEF ProbeWrite, ReadAfterAck
    <2> QED
      BY <2>1, <2>2, <2>3
  <1>2. ASSUME NEW v \in 1..MaxProbes, NEW r \in Replicas, Deliver(v, r)
        PROVE  ProbeInv'
    BY <1>2, DeliverKeepsInv
  <1>3. CASE WriteAcked
    <2>1. TypeOK' /\ ProbeSeesItsWrite'
      BY <1>3 DEF WriteAcked
    <2>2. ReplicasFollow'
      BY <1>3 DEF WriteAcked, ReplicasFollow
    <2>3. ReadAfterAck'
      BY <1>3 DEF WriteAcked, ReadAfterAck, Reached
    <2> QED
      BY <2>1, <2>2, <2>3
  <1>4. CASE ProbeRead
    BY <1>4, ProbeReadKeepsInv
  <1>5. CASE RequestFails
    <2>1. TypeOK' /\ ProbeSeesItsWrite'
      BY <1>5 DEF RequestFails
    <2>2. ReplicasFollow' /\ ReadAfterAck'
      BY <1>5 DEF RequestFails, ReplicasFollow, ReadAfterAck
    <2> QED
      BY <2>1, <2>2
  <1>6. CASE UNCHANGED vars
    BY <1>6 DEF vars, ReplicasFollow, ReadAfterAck, Reached
  <1> QED
    BY <1>1, <1>2, <1>3, <1>4, <1>5, <1>6 DEF Next

(* Whenever the replicas a write and a read wait for overlap, the probe    *)
(* reads back what it wrote, however late the other replicas apply this    *)
(* write and the earlier ones, and in whatever order.                      *)
THEOREM OverlapMakesProbeHonest ==
    ASSUME Overlap PROVE Spec => []ProbeSeesItsWrite
  <1>1. ProbeInv => ProbeSeesItsWrite
    BY DEF ProbeInv
  <1> QED
    BY <1>1, InvInit, InvStep, PTL DEF Spec

(* Two quorums overlap: with FS_TUNING=default on both sides the measured  *)
(* time is that of the probe's own write, on any cluster.                  *)
THEOREM DefaultTuningSeesItsWrite ==
    ASSUME Tuning = "default" PROVE Spec => []ProbeSeesItsWrite
  <1>1. Overlap
    BY ReplicasFinite DEF Overlap, WriteNeeds, ReadNeeds, Quorum
  <1> QED
    BY <1>1, OverlapMakesProbeHonest

(* The probe's own tuning waits for one replica each: enough on a cluster  *)
(* of one node, for which apply_schema makes one replica.                  *)
THEOREM SingleNodeSeesItsWrite ==
    ASSUME Cardinality(Nodes) = 1 PROVE Spec => []ProbeSeesItsWrite
  <1>1. ReplicationFactor = 1
    BY DEF ReplicationFactor, Min
  <1>2. Overlap
    BY <1>1, ProbeAssumption DEF Overlap, WriteNeeds, ReadNeeds, Quorum
  <1> QED
    BY <1>2, OverlapMakesProbeHonest
=============================================================================
