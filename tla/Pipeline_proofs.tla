-------------------------- MODULE Pipeline_proofs --------------------------
(***************************************************************************)
(* Theorems about Pipeline, for every number of permits and of requests.   *)
(* The invariant is built in layers, each proved with the ones before it:  *)
(* types, where the phases stand relative to n, the permits, the barrier,  *)
(* and the counters under _lock. The refinement of BoundedWrites follows.  *)
(***************************************************************************)
EXTENDS Pipeline, FiniteSetTheorems, TLAPS

(* Requests are numbered in the order they are sent: those before n have   *)
(* been sent, those after it have not, and n itself has unless the caller  *)
(* stands between _n += 1 and execute_async.                               *)
SentInOrder ==
    /\ \A r \in Requests : r > n => phase[r] = "new"
    /\ \A r \in Requests : r < n => phase[r] # "new"
    /\ pc = "send" => n \in Requests /\ phase[n] = "new"
    /\ pc = "register" => n \in Requests /\ phase[n] \in {"sent", "resolved"}
    /\ pc \notin {"send"} /\ n \in Requests => phase[n] # "new"

(* drain holds permits only while it runs, and fewer than all of them      *)
(* until it turns to giving them back.                                     *)
HeldByDrain ==
    /\ held > 0 => pc \in {"drain", "undrain"}
    /\ pc = "undrain" => held > 0
    /\ pc = "drain" => held < MaxInflight

(* Exactly the callback inside the with block holds _lock, and what it     *)
(* read of its counter is still what the counter holds.                    *)
LockProtects ==
    /\ \A r \in Requests : phase[r] = "counting" <=> lock = r
    /\ \A r \in Requests : lock = r => seen[r] = IF ok[r] THEN count ELSE errors

-----------------------------------------------------------------------------
LEMMA RequestsFinite == IsFiniteSet(Requests)
  BY ConstantsAssumption, FS_Interval DEF Requests

LEMMA OutstandingFinite ==
    /\ IsFiniteSet(Outstanding)
    /\ Cardinality(Outstanding) \in Nat
  <1>1. Outstanding \subseteq Requests
    BY DEF Outstanding, InPhase
  <1> QED
    BY <1>1, RequestsFinite, FS_Subset, FS_CardinalityType

-----------------------------------------------------------------------------
(* A bounded deque stays a sequence of the same elements.                  *)
LEMMA PushType ==
    ASSUME NEW S, NEW dq \in Seq(S), NEW x \in S
    PROVE  Push(dq, x) \in Seq(S)
  <1>1. CASE MaxSamples = 0
    BY <1>1 DEF Push
  <1>2. CASE MaxSamples # 0 /\ Len(dq) < MaxSamples
    <2>1. Push(dq, x) = Append(dq, x)
      BY <1>2 DEF Push
    <2> QED
      BY <2>1
  <1>3. CASE MaxSamples # 0 /\ ~(Len(dq) < MaxSamples)
    <2>1. Push(dq, x) = Append(Tail(dq), x)
      BY <1>3 DEF Push
    <2>2. dq # <<>>
      BY <1>3, ConstantsAssumption
    <2>3. Tail(dq) \in Seq(S)
      BY <2>2
    <2> QED
      BY <2>1, <2>3
  <1> QED
    BY <1>1, <1>2, <1>3

-----------------------------------------------------------------------------
(* Type correctness, with the drain bookkeeping that keeps `held' natural. *)
TypeInv == TypeOK /\ HeldByDrain

LEMMA TypeInit == Init => TypeInv
  BY ConstantsAssumption DEF Init, TypeInv, TypeOK, HeldByDrain, Phases, Requests, NoOne

LEMMA TypeStep == TypeInv /\ [Next]_vars => TypeInv'
  <1> SUFFICES ASSUME TypeInv, [Next]_vars PROVE TypeInv'
    OBVIOUS
  <1> USE ConstantsAssumption DEF TypeInv, TypeOK, HeldByDrain
  <1>1. CASE Acquire
    BY <1>1 DEF Acquire, GateOpen
  <1>2. CASE Send
    BY <1>2 DEF Send, Phases
  <1>3. CASE AddCallbacks
    BY <1>3 DEF AddCallbacks
  <1>4. CASE CallbackReturns
    BY <1>4 DEF CallbackReturns
  <1>5. CASE StartDrain
    BY <1>5 DEF StartDrain
  <1>6. CASE DrainAcquire
    BY <1>6 DEF DrainAcquire, GateOpen, DrainPermits
  <1>7. CASE DrainRelease
    BY <1>7 DEF DrainRelease
  <1>8. CASE ReadTotals
    BY <1>8 DEF ReadTotals
  <1>9. ASSUME NEW r \in Requests, Respond(r) PROVE TypeInv'
    BY <1>9 DEF Respond, Phases
  <1>10. ASSUME NEW r \in Requests, CbRelease(r) PROVE TypeInv'
    BY <1>10 DEF CbRelease, Phases, Returned
  <1>11. ASSUME NEW r \in Requests, CbLock(r) PROVE TypeInv'
    BY <1>11 DEF CbLock, Phases
  <1>12. ASSUME NEW r \in Requests, CbCount(r) PROVE TypeInv'
    <2>1. Push(latencies, r) \in Seq(Requests)
      BY PushType
    <2>2. latencies' \in Seq(Requests)
      BY <1>12, <2>1 DEF CbCount
    <2> QED
      BY <1>12, <2>2 DEF CbCount, Phases
  <1>13. CASE UNCHANGED vars
    BY <1>13 DEF vars
  <1> QED
    BY <1>1, <1>2, <1>3, <1>4, <1>5, <1>6, <1>7, <1>8, <1>9, <1>10, <1>11, <1>12, <1>13
       DEF Next, Caller, Callback, Terminated

(* Type correctness of the pipeline for every number of permits, sampling  *)
(* period, deque length and number of requests.                            *)
THEOREM TypeCorrect == Spec => []TypeOK
  <1>1. TypeInv => TypeOK
    BY DEF TypeInv
  <1> QED
    BY <1>1, TypeInit, TypeStep, PTL DEF Spec

-----------------------------------------------------------------------------
(* The permits and the barrier.                                            *)
PermitInv == TypeInv /\ SentInOrder /\ PermitsConserved /\ DrainIsQuiescent

LEMMA PermitInit == Init => PermitInv
  <1> SUFFICES ASSUME Init PROVE PermitInv
    OBVIOUS
  <1>1. Outstanding = {}
    BY DEF Init, Outstanding, InPhase
  <1>2. SentInOrder
    BY ConstantsAssumption DEF Init, SentInOrder, Requests
  <1>3. PermitsConserved
    BY <1>1, FS_EmptySet, ConstantsAssumption DEF Init, PermitsConserved
  <1>4. DrainIsQuiescent
    BY <1>1 DEF DrainIsQuiescent
  <1> QED
    BY TypeInit, <1>2, <1>3, <1>4 DEF PermitInv

LEMMA SentInOrderStep == TypeInv /\ SentInOrder /\ [Next]_vars => SentInOrder'
  <1> SUFFICES ASSUME TypeInv, SentInOrder, [Next]_vars PROVE SentInOrder'
    OBVIOUS
  <1> USE ConstantsAssumption DEF TypeInv, TypeOK, SentInOrder, Requests
  <1>1. CASE Acquire
    BY <1>1 DEF Acquire
  <1>2. CASE Send
    BY <1>2 DEF Send
  <1>3. CASE AddCallbacks
    BY <1>3 DEF AddCallbacks
  <1>4. CASE CallbackReturns
    BY <1>4 DEF CallbackReturns
  <1>5. CASE StartDrain \/ DrainAcquire \/ DrainRelease \/ ReadTotals
    BY <1>5 DEF StartDrain, DrainAcquire, DrainRelease, ReadTotals
  <1>6. ASSUME NEW r \in Requests, Respond(r) PROVE SentInOrder'
    BY <1>6 DEF Respond
  <1>7. ASSUME NEW r \in Requests, CbRelease(r) PROVE SentInOrder'
    BY <1>7 DEF CbRelease, Registered
  <1>8. ASSUME NEW r \in Requests, CbLock(r) PROVE SentInOrder'
    BY <1>8 DEF CbLock
  <1>9. ASSUME NEW r \in Requests, CbCount(r) PROVE SentInOrder'
    BY <1>9 DEF CbCount
  <1>10. CASE UNCHANGED vars
    BY <1>10 DEF vars
  <1> QED
    BY <1>1, <1>2, <1>3, <1>4, <1>5, <1>6, <1>7, <1>8, <1>9, <1>10
       DEF Next, Caller, Callback, Terminated

(* What each action does to the set of requests that own a permit.         *)
LEMMA OutstandingSteps ==
    ASSUME TypeInv, SentInOrder
    PROVE  /\ Send => /\ n \in Requests \ Outstanding
                      /\ Outstanding' = Outstanding \cup {n}
           /\ \A r \in Requests :
                /\ Respond(r) => Outstanding' = Outstanding
                /\ CbRelease(r) => /\ r \in Outstanding
                                   /\ Outstanding' = Outstanding \ {r}
                /\ CbLock(r) \/ CbCount(r) => Outstanding' = Outstanding
           /\ phase' = phase => Outstanding' = Outstanding
  <1> USE DEF TypeInv, TypeOK, SentInOrder, Outstanding, InPhase
  <1>1. ASSUME Send
        PROVE  n \in Requests \ Outstanding /\ Outstanding' = Outstanding \cup {n}
    BY <1>1 DEF Send
  <1>2. ASSUME NEW r \in Requests, Respond(r) PROVE Outstanding' = Outstanding
    BY <1>2 DEF Respond
  <1>3. ASSUME NEW r \in Requests, CbRelease(r)
        PROVE  r \in Outstanding /\ Outstanding' = Outstanding \ {r}
    BY <1>3 DEF CbRelease
  <1>4. ASSUME NEW r \in Requests, CbLock(r) PROVE Outstanding' = Outstanding
    BY <1>4 DEF CbLock
  <1>5. ASSUME NEW r \in Requests, CbCount(r) PROVE Outstanding' = Outstanding
    BY <1>5 DEF CbCount
  <1>6. phase' = phase => Outstanding' = Outstanding
    OBVIOUS
  <1> QED
    BY ONLY <1>1, <1>2, <1>3, <1>4, <1>5, <1>6

LEMMA PermitsStep ==
    TypeInv /\ SentInOrder /\ PermitsConserved /\ [Next]_vars => PermitsConserved'
  <1> SUFFICES ASSUME TypeInv, SentInOrder, PermitsConserved, [Next]_vars
               PROVE  PermitsConserved'
    OBVIOUS
  <1> DEFINE owners == Cardinality(Outstanding)
  <1>t. gate \in Nat /\ held \in Nat /\ owners \in Nat /\ n \in Nat
    BY OutstandingFinite DEF TypeInv, TypeOK
  <1>p. gate + owners + held + (IF pc = "send" THEN 1 ELSE 0) = MaxInflight
    BY DEF PermitsConserved
  <1>s. SUFFICES
          gate' + owners' + held' + (IF pc' = "send" THEN 1 ELSE 0) = MaxInflight
    BY DEF PermitsConserved
  <1>same. phase' = phase => owners' = owners
    BY OutstandingSteps
  <1> HIDE DEF owners
  <1>1. CASE Acquire
    BY <1>1, <1>t, <1>p, <1>same DEF Acquire
  <1>2. CASE Send
    <2>1. owners' = owners + 1
      BY <1>2, OutstandingSteps, OutstandingFinite, FS_AddElement DEF owners
    <2> QED
      BY <2>1, <1>2, <1>t, <1>p DEF Send
  <1>3. CASE AddCallbacks \/ CallbackReturns \/ StartDrain \/ ReadTotals
    BY <1>3, <1>t, <1>p, <1>same DEF AddCallbacks, CallbackReturns, StartDrain, ReadTotals
  <1>4. CASE DrainAcquire \/ DrainRelease
    BY <1>4, <1>t, <1>p, <1>same DEF DrainAcquire, DrainRelease
  <1>5. ASSUME NEW r \in Requests, CbRelease(r)
        PROVE  gate' + owners' + held' + (IF pc' = "send" THEN 1 ELSE 0) = MaxInflight
    <2>1. owners' = owners - 1
      BY <1>5, OutstandingSteps, OutstandingFinite, FS_RemoveElement DEF owners
    <2> QED
      BY <2>1, <1>5, <1>t, <1>p DEF CbRelease, Returned
  <1>6. ASSUME NEW r \in Requests, Respond(r) \/ CbLock(r) \/ CbCount(r)
        PROVE  gate' + owners' + held' + (IF pc' = "send" THEN 1 ELSE 0) = MaxInflight
    <2>1. owners' = owners
      BY <1>6, OutstandingSteps DEF owners
    <2> QED
      BY <2>1, <1>6, <1>t, <1>p DEF Respond, CbLock, CbCount
  <1>7. CASE UNCHANGED vars
    BY <1>7, <1>p, <1>same DEF vars
  <1> QED
    BY <1>1, <1>2, <1>3, <1>4, <1>5, <1>6, <1>7 DEF Next, Caller, Callback, Terminated

(* The permit count closes the barrier: when drain holds all of them, none *)
(* is left for a request; and after drain nothing is sent any more.        *)
LEMMA BarrierStep == PermitInv /\ [Next]_vars => DrainIsQuiescent'
  <1> SUFFICES ASSUME PermitInv, [Next]_vars, pc' \in {"undrain", "drained", "reported"}
               PROVE  Outstanding' = {}
    BY DEF DrainIsQuiescent
  <1> USE DEF PermitInv
  <1>1. CASE pc \in {"undrain", "drained", "reported"}
    <2>1. Outstanding = {}
      BY <1>1 DEF DrainIsQuiescent
    <2>2. ~Send
      BY <1>1 DEF Send
    <2>3. Outstanding' = Outstanding \/ \E r \in Requests : CbRelease(r)
      BY <2>2, OutstandingSteps
         DEF Next, Caller, Callback, Terminated, Acquire, AddCallbacks, CallbackReturns,
             StartDrain, DrainAcquire, DrainRelease, ReadTotals, vars
    <2> QED
      BY <2>1, <2>3, OutstandingSteps
  <1>2. CASE pc \notin {"undrain", "drained", "reported"}
    <2>1. DrainAcquire /\ held' = MaxInflight
      BY <1>2 DEF Next, Caller, Callback, Terminated, Acquire, Send, AddCallbacks,
             CallbackReturns, StartDrain, DrainAcquire, DrainRelease, ReadTotals,
             Respond, CbRelease, CbLock, CbCount, DrainPermits, vars
    <2>2. gate' \in Nat /\ pc' # "send" /\ Outstanding' = Outstanding
      BY <2>1, TypeStep, OutstandingSteps DEF DrainAcquire, TypeInv, TypeOK
    <2>3. gate' + Cardinality(Outstanding) + MaxInflight = MaxInflight
      BY <2>1, <2>2, PermitsStep, OutstandingFinite, ConstantsAssumption DEF PermitsConserved
    <2>4. Cardinality(Outstanding) = 0
      BY <2>2, <2>3, OutstandingFinite, ConstantsAssumption
    <2> QED
      BY <2>2, <2>4, OutstandingFinite, FS_EmptySet
  <1> QED
    BY <1>1, <1>2

LEMMA PermitStep == PermitInv /\ [Next]_vars => PermitInv'
  BY TypeStep, SentInOrderStep, PermitsStep, BarrierStep DEF PermitInv

LEMMA PermitInvariant == Spec => []PermitInv
  BY PermitInit, PermitStep, PTL DEF Spec

(* No permit is ever lost or invented, however requests, callbacks and     *)
(* drain interleave.                                                       *)
THEOREM PermitsAreConserved == Spec => []PermitsConserved
  <1>1. PermitInv => PermitsConserved
    BY DEF PermitInv
  <1> QED
    BY <1>1, PermitInvariant, PTL

(* drain returns only when every request sent before it has its outcome    *)
(* and its callback has begun.                                             *)
THEOREM DrainIsABarrier == Spec => []DrainIsQuiescent
  <1>1. PermitInv => DrainIsQuiescent
    BY DEF PermitInv
  <1> QED
    BY <1>1, PermitInvariant, PTL

-----------------------------------------------------------------------------
(* The counters.                                                           *)
Acked == {r \in Finished : ok[r]}
Failed == {r \in Finished : ~ok[r]}

CounterInv == TypeInv /\ SentInOrder /\ LockProtects /\ CountersExact

LEMMA CounterSetsFinite ==
    /\ IsFiniteSet(Acked) /\ Cardinality(Acked) \in Nat
    /\ IsFiniteSet(Failed) /\ Cardinality(Failed) \in Nat
  <1>1. Acked \subseteq Requests /\ Failed \subseteq Requests
    BY DEF Acked, Failed, Finished, InPhase
  <1> QED
    BY <1>1, RequestsFinite, FS_Subset, FS_CardinalityType

LEMMA CounterInit == Init => CounterInv
  <1> SUFFICES ASSUME Init PROVE CounterInv
    OBVIOUS
  <1>1. Acked = {} /\ Failed = {}
    BY DEF Init, Acked, Failed, Finished, InPhase
  <1>2. CountersExact
    BY <1>1, FS_EmptySet DEF Init, CountersExact, Acked, Failed
  <1>3. LockProtects
    BY DEF Init, LockProtects, Requests, NoOne
  <1> QED
    BY TypeInit, PermitInit, <1>2, <1>3 DEF CounterInv, PermitInv

LEMMA LockStep == TypeInv /\ SentInOrder /\ LockProtects /\ [Next]_vars => LockProtects'
  <1> SUFFICES ASSUME TypeInv, SentInOrder, LockProtects, [Next]_vars PROVE LockProtects'
    OBVIOUS
  <1> USE ConstantsAssumption DEF TypeInv, TypeOK, LockProtects, Requests, NoOne
  <1>1. CASE Acquire \/ AddCallbacks \/ CallbackReturns \/ StartDrain
             \/ DrainAcquire \/ DrainRelease \/ ReadTotals
    BY <1>1 DEF Acquire, AddCallbacks, CallbackReturns, StartDrain, DrainAcquire,
                DrainRelease, ReadTotals
  <1>2. CASE Send
    BY <1>2 DEF Send, SentInOrder
  <1>3. ASSUME NEW r \in Requests, Respond(r) PROVE LockProtects'
    BY <1>3 DEF Respond
  <1>4. ASSUME NEW r \in Requests, CbRelease(r) PROVE LockProtects'
    BY <1>4 DEF CbRelease
  <1>5. ASSUME NEW r \in Requests, CbLock(r) PROVE LockProtects'
    BY <1>5 DEF CbLock, LockFree
  <1>6. ASSUME NEW r \in Requests, CbCount(r) PROVE LockProtects'
    BY <1>6 DEF CbCount
  <1>7. CASE UNCHANGED vars
    BY <1>7 DEF vars
  <1> QED
    BY <1>1, <1>2, <1>3, <1>4, <1>5, <1>6, <1>7 DEF Next, Caller, Callback, Terminated

LEMMA CountersStep == CounterInv /\ [Next]_vars => CountersExact'
  <1> SUFFICES ASSUME CounterInv, [Next]_vars PROVE CountersExact'
    OBVIOUS
  <1>c. count = Cardinality(Acked) /\ errors = Cardinality(Failed)
    BY DEF CounterInv, CountersExact, Acked, Failed
  <1>s. SUFFICES count' = Cardinality(Acked') /\ errors' = Cardinality(Failed')
    BY DEF CountersExact, Acked, Failed
  <1>t. TypeInv /\ SentInOrder /\ LockProtects
    BY DEF CounterInv
  <1>1. ASSUME NEW r \in Requests, CbCount(r)
        PROVE  count' = Cardinality(Acked') /\ errors' = Cardinality(Failed')
    <2>1. seen[r] = IF ok[r] THEN count ELSE errors
      BY <1>1, <1>t DEF CbCount, LockProtects
    <2>2. CASE ok[r]
      <3>1. r \notin Acked /\ Acked' = Acked \cup {r} /\ Failed' = Failed
        BY <1>1, <1>t, <2>2 DEF CbCount, TypeInv, TypeOK, Acked, Failed, Finished, InPhase
      <3>2. count' = count + 1 /\ errors' = errors
        BY <1>1, <2>1, <2>2 DEF CbCount
      <3> QED
        BY <3>1, <3>2, <1>c, CounterSetsFinite, FS_AddElement
    <2>3. CASE ~ok[r]
      <3>1. r \notin Failed /\ Failed' = Failed \cup {r} /\ Acked' = Acked
        BY <1>1, <1>t, <2>3 DEF CbCount, TypeInv, TypeOK, Acked, Failed, Finished, InPhase
      <3>2. count' = count /\ errors' = errors + 1
        BY <1>1, <2>1, <2>3 DEF CbCount
      <3> QED
        BY <3>1, <3>2, <1>c, CounterSetsFinite, FS_AddElement
    <2> QED
      BY <2>2, <2>3
  <1>2. ASSUME ~\E r \in Requests : CbCount(r)
        PROVE  UNCHANGED <<count, errors, Acked, Failed>>
    <2> USE <1>t DEF TypeInv, TypeOK, Acked, Failed, Finished, InPhase
    <2>1. CASE Send
      BY <2>1 DEF Send, SentInOrder
    <2>2. CASE \E r \in Requests : Respond(r)
      BY <2>2 DEF Respond
    <2>3. CASE \E r \in Requests : CbRelease(r)
      BY <2>3 DEF CbRelease
    <2>4. CASE \E r \in Requests : CbLock(r)
      BY <2>4 DEF CbLock
    <2>5. CASE UNCHANGED <<phase, ok, count, errors>>
      BY <2>5
    <2> QED
      BY <1>2, <2>1, <2>2, <2>3, <2>4, <2>5
         DEF Next, Caller, Callback, Terminated, Acquire, AddCallbacks, CallbackReturns,
             StartDrain, DrainAcquire, DrainRelease, ReadTotals, vars
  <1> QED
    BY <1>1, <1>2, <1>c

LEMMA CounterStep == CounterInv /\ [Next]_vars => CounterInv'
  BY TypeStep, SentInOrderStep, LockStep, CountersStep DEF CounterInv

(* No callback's increment is lost, whatever the order in which callbacks  *)
(* of the driver and of the caller's thread run.                           *)
THEOREM CountersAreExact == Spec => []CountersExact
  <1>1. CounterInv => CountersExact
    BY DEF CounterInv
  <1> QED
    BY <1>1, CounterInit, CounterStep, PTL DEF Spec

-----------------------------------------------------------------------------
(* The samples. The deque keeps each sampled acknowledgement once, and     *)
(* only a full deque has dropped any.                                      *)
SampledAcks == {r \in Finished : ok[r] /\ Sampled(r)}
KeptIn(dq) == {dq[i] : i \in DOMAIN dq}
Once(dq) == \A i, j \in DOMAIN dq : dq[i] = dq[j] => i = j

SamplesInv ==
    /\ Len(latencies) <= MaxSamples
    /\ Once(latencies)
    /\ KeptIn(latencies) \subseteq SampledAcks
    /\ Len(latencies) = MaxSamples \/ KeptIn(latencies) = SampledAcks

(* Appending to a sequence a value it does not have.                       *)
LEMMA AppendOnce ==
    ASSUME NEW S, NEW dq \in Seq(S), NEW x \in S, Once(dq), x \notin KeptIn(dq)
    PROVE  /\ Append(dq, x) \in Seq(S)
           /\ Len(Append(dq, x)) = Len(dq) + 1
           /\ Once(Append(dq, x))
           /\ KeptIn(Append(dq, x)) = KeptIn(dq) \cup {x}
  <1> DEFINE new == Append(dq, x)
  <1>1. /\ new \in Seq(S) /\ Len(new) = Len(dq) + 1 /\ Len(dq) \in Nat
        /\ DOMAIN new = 1..(Len(dq) + 1) /\ DOMAIN dq = 1..Len(dq)
        /\ new[Len(dq) + 1] = x
        /\ \A i \in DOMAIN dq : new[i] = dq[i]
    OBVIOUS
  <1> HIDE DEF new
  <1>2. Once(new)
    <2> SUFFICES ASSUME NEW i \in DOMAIN new, NEW j \in DOMAIN new, new[i] = new[j]
                 PROVE  i = j
      BY DEF Once
    <2>1. CASE i \in DOMAIN dq /\ j \in DOMAIN dq
      BY <1>1, <2>1 DEF Once
    <2>2. CASE i \notin DOMAIN dq \/ j \notin DOMAIN dq
      BY <1>1, <2>2 DEF KeptIn
    <2>3. QED
      BY <2>1, <2>2
  <1>3. KeptIn(new) = KeptIn(dq) \cup {x}
    <2>1. ASSUME NEW y \in KeptIn(new) PROVE y \in KeptIn(dq) \cup {x}
      BY <1>1 DEF KeptIn
    <2>2. ASSUME NEW y \in KeptIn(dq) PROVE y \in KeptIn(new)
      BY <1>1 DEF KeptIn
    <2>3. x \in KeptIn(new)
      BY <1>1 DEF KeptIn
    <2> QED
      BY <2>1, <2>2, <2>3
  <1> QED
    BY <1>1, <1>2, <1>3 DEF new

(* Dropping the oldest value.                                              *)
LEMMA TailOnce ==
    ASSUME NEW S, NEW dq \in Seq(S), dq # <<>>, Once(dq)
    PROVE  /\ Tail(dq) \in Seq(S)
           /\ Len(Tail(dq)) = Len(dq) - 1
           /\ Once(Tail(dq))
           /\ KeptIn(Tail(dq)) \subseteq KeptIn(dq)
  <1>1. /\ Tail(dq) \in Seq(S) /\ Len(Tail(dq)) = Len(dq) - 1 /\ Len(dq) \in Nat
        /\ DOMAIN Tail(dq) = 1..(Len(dq) - 1) /\ DOMAIN dq = 1..Len(dq)
        /\ \A i \in 1..(Len(dq) - 1) : Tail(dq)[i] = dq[i + 1]
    OBVIOUS
  <1>2. \A i \in 1..(Len(dq) - 1) : i + 1 \in DOMAIN dq
    BY <1>1
  <1> QED
    BY <1>1, <1>2 DEF Once, KeptIn

(* What a bounded deque holds after an append.                             *)
LEMMA PushFacts ==
    ASSUME NEW S, NEW dq \in Seq(S), NEW x \in S,
           Once(dq), x \notin KeptIn(dq), Len(dq) <= MaxSamples
    PROVE  /\ Len(Push(dq, x)) <= MaxSamples
           /\ Once(Push(dq, x))
           /\ KeptIn(Push(dq, x)) \subseteq KeptIn(dq) \cup {x}
           /\ \/ Len(Push(dq, x)) = MaxSamples
              \/ Len(dq) # MaxSamples /\ KeptIn(Push(dq, x)) = KeptIn(dq) \cup {x}
  <1>0. MaxSamples \in Nat /\ Len(dq) \in Nat
    BY ConstantsAssumption
  <1>1. CASE MaxSamples = 0
    <2>1. Push(dq, x) = <<>>
      BY <1>1 DEF Push
    <2>2. Len(<<>>) = 0 /\ DOMAIN <<>> = {}
      OBVIOUS
    <2> QED
      BY <1>1, <2>1, <2>2 DEF Once, KeptIn
  <1>2. CASE MaxSamples # 0 /\ Len(dq) < MaxSamples
    <2>1. Push(dq, x) = Append(dq, x)
      BY <1>2 DEF Push
    <2> QED
      BY <1>0, <1>2, <2>1, AppendOnce
  <1>3. CASE MaxSamples # 0 /\ ~(Len(dq) < MaxSamples)
    <2>1. Push(dq, x) = Append(Tail(dq), x) /\ Len(dq) = MaxSamples
      BY <1>0, <1>3 DEF Push
    <2>2. dq # <<>>
      BY <1>0, <1>3
    <2>3. /\ Tail(dq) \in Seq(S) /\ Len(Tail(dq)) = Len(dq) - 1 /\ Once(Tail(dq))
          /\ KeptIn(Tail(dq)) \subseteq KeptIn(dq)
      BY <2>2, TailOnce
    <2>4. /\ Len(Append(Tail(dq), x)) = Len(Tail(dq)) + 1
          /\ Once(Append(Tail(dq), x))
          /\ KeptIn(Append(Tail(dq), x)) = KeptIn(Tail(dq)) \cup {x}
      BY <2>3, AppendOnce
    <2> QED
      BY <1>0, <2>1, <2>3, <2>4
  <1> QED
    BY <1>0, <1>1, <1>2, <1>3

LEMMA SamplesInit == Init => SamplesInv
  <1> SUFFICES ASSUME Init PROVE SamplesInv
    OBVIOUS
  <1>1. latencies = <<>> /\ SampledAcks = {}
    BY DEF Init, SampledAcks, Finished, InPhase
  <1>2. Len(<<>>) = 0 /\ DOMAIN <<>> = {}
    OBVIOUS
  <1> QED
    BY <1>1, <1>2, ConstantsAssumption DEF SamplesInv, Once, KeptIn

LEMMA SamplesStep == CounterInv /\ SamplesInv /\ [Next]_vars => SamplesInv'
  <1> SUFFICES ASSUME CounterInv, SamplesInv, [Next]_vars PROVE SamplesInv'
    OBVIOUS
  <1>t. TypeInv /\ SentInOrder
    BY DEF CounterInv
  <1>1. ASSUME NEW r \in Requests, CbCount(r) PROVE SamplesInv'
    <2>1. /\ r \notin SampledAcks
          /\ SampledAcks' = IF ok[r] /\ Sampled(r) THEN SampledAcks \cup {r}
                                                  ELSE SampledAcks
      BY <1>1, <1>t DEF CbCount, TypeInv, TypeOK, SampledAcks, Finished, InPhase, Sampled
    <2>2. CASE ok[r] /\ Sampled(r)
      <3>1. latencies' = Push(latencies, r) /\ SampledAcks' = SampledAcks \cup {r}
        BY <1>1, <2>1, <2>2 DEF CbCount, Timed
      <3>2. latencies \in Seq(Requests) /\ r \notin KeptIn(latencies)
        BY <1>t, <2>1 DEF TypeInv, TypeOK, SamplesInv
      <3>3. /\ Len(latencies') <= MaxSamples
            /\ Once(latencies')
            /\ KeptIn(latencies') \subseteq KeptIn(latencies) \cup {r}
            /\ \/ Len(latencies') = MaxSamples
               \/ /\ Len(latencies) # MaxSamples
                  /\ KeptIn(latencies') = KeptIn(latencies) \cup {r}
        BY <3>1, <3>2, PushFacts DEF SamplesInv
      <3> QED
        BY <3>1, <3>3 DEF SamplesInv
    <2>3. CASE ~(ok[r] /\ Sampled(r))
      <3>1. latencies' = latencies /\ SampledAcks' = SampledAcks
        BY <1>1, <2>1, <2>3 DEF CbCount, Timed
      <3> QED
        BY <3>1 DEF SamplesInv
    <2> QED
      BY <2>2, <2>3
  <1>2. ASSUME ~\E r \in Requests : CbCount(r)
        PROVE  UNCHANGED <<latencies, SampledAcks>>
    <2> USE <1>t DEF TypeInv, TypeOK, SampledAcks, Finished, InPhase, Sampled
    <2>1. CASE Send
      BY <2>1 DEF Send, SentInOrder
    <2>2. CASE \E r \in Requests : Respond(r)
      BY <2>2 DEF Respond
    <2>3. CASE \E r \in Requests : CbRelease(r)
      BY <2>3 DEF CbRelease
    <2>4. CASE \E r \in Requests : CbLock(r)
      BY <2>4 DEF CbLock
    <2>5. CASE UNCHANGED <<phase, ok, latencies>>
      BY <2>5
    <2> QED
      BY <1>2, <2>1, <2>2, <2>3, <2>4, <2>5
         DEF Next, Caller, Callback, Terminated, Acquire, AddCallbacks, CallbackReturns,
             StartDrain, DrainAcquire, DrainRelease, ReadTotals, vars
  <1> QED
    BY <1>1, <1>2 DEF SamplesInv

(* The latencies reported are those of sampled writes that were            *)
(* acknowledged, each once, and all of them unless the deque is full:      *)
(* _done appends under _lock, once for each write.                         *)
THEOREM LatenciesAreExact == Spec => []LatenciesExact
  <1>1. TypeInv /\ SamplesInv => LatenciesExact
    <2> SUFFICES ASSUME TypeInv, SamplesInv PROVE LatenciesExact
      OBVIOUS
    <2>1. /\ latencies \in Seq(Requests) /\ Len(latencies) \in Nat
          /\ DOMAIN latencies = 1..Len(latencies)
      BY DEF TypeInv, TypeOK
    <2>2. latencies \in Bijection(1..Len(latencies), KeptIn(latencies))
      BY <2>1 DEF SamplesInv, Once, KeptIn, Bijection, Injection, Surjection, IsInjective
    <2>3. Cardinality(KeptIn(latencies)) = Len(latencies)
      <3>1. ExistsBijection(1..Len(latencies), KeptIn(latencies))
        BY <2>2 DEF ExistsBijection
      <3>2. IsFiniteSet(1..Len(latencies)) /\ Cardinality(1..Len(latencies)) = Len(latencies)
        BY <2>1, FS_Interval
      <3> QED
        BY <3>1, <3>2, FS_Bijection
    <2> QED
      BY <2>3 DEF LatenciesExact, SamplesInv, KeptIn, SampledAcks
  <1>2. CounterInv => TypeInv
    BY DEF CounterInv
  <1> QED
    BY <1>1, <1>2, CounterInit, CounterStep, SamplesInit, SamplesStep, PTL DEF Spec

-----------------------------------------------------------------------------
(* Refinement: the initial state is an initial state of BoundedWrites, and *)
(* every step is one of its steps or leaves its variables alone.           *)
Sent == {r \in Requests : phase[r] # "new"}
Barrier == pc \in {"undrain", "drained", "reported"}
AbstractVars == <<Sent, Outstanding, Barrier>>

LEMMA SameCardinality == \A S : Contract!Cardinality(S) = Cardinality(S)
  BY DEF Contract!Cardinality, Cardinality

LEMMA RefinesInit == Init => Contract!Init
  BY DEF Init, Contract!Init, Outstanding, InPhase

LEMMA RefinesStep ==
    PermitInv /\ [Next]_vars => [Contract!Next]_(Contract!vars)
  <1> SUFFICES ASSUME PermitInv, [Next]_vars
               PROVE  Contract!Next \/ UNCHANGED AbstractVars
    BY DEF Contract!vars, AbstractVars, Sent, Barrier
  <1>t. TypeInv /\ SentInOrder /\ PermitsConserved /\ DrainIsQuiescent
    BY DEF PermitInv
  <1>p. TypeInv' /\ DrainIsQuiescent'
    BY PermitStep DEF PermitInv
  <1> USE DEF TypeInv, TypeOK
  <1>1. CASE Send
    <2>1. PICK r \in Requests : r = n
      BY <1>1, <1>t DEF Send, SentInOrder
    <2>2. /\ r \notin Sent
          /\ Sent' = Sent \cup {r}
          /\ Outstanding' = Outstanding \cup {r}
          /\ ~Barrier
          /\ Barrier' = Barrier
      BY <2>1, <1>1, <1>t, OutstandingSteps DEF Send, SentInOrder, Sent, Barrier
    <2>3. Cardinality(Outstanding) < MaxInflight
      BY <1>1, <1>t, OutstandingFinite, ConstantsAssumption DEF Send, PermitsConserved
    <2>4. Contract!Issue(r)
      BY <2>2, <2>3, SameCardinality DEF Contract!Issue, Sent, Barrier
    <2> QED
      BY <2>4 DEF Contract!Next
  <1>2. ASSUME NEW r \in Requests, CbRelease(r) PROVE Contract!Next
    <2>1. /\ r \in Outstanding
          /\ Outstanding' = Outstanding \ {r}
          /\ Sent' = Sent
          /\ Barrier' = Barrier
      BY <1>2, <1>t, OutstandingSteps DEF CbRelease, Sent, Barrier
    <2>2. Contract!Complete(r)
      BY <2>1 DEF Contract!Complete, Sent, Barrier
    <2> QED
      BY <2>2 DEF Contract!Next
  <1>3. CASE DrainAcquire
    <2>1. Sent' = Sent /\ Outstanding' = Outstanding /\ ~Barrier
      BY <1>3, <1>t, OutstandingSteps DEF DrainAcquire, Sent, Barrier
    <2>2. CASE Barrier'
      <3>1. Outstanding = {}
        BY <2>1, <2>2, <1>p DEF DrainIsQuiescent, Barrier
      <3>2. Contract!Drain
        BY <2>1, <2>2, <3>1 DEF Contract!Drain, Sent, Barrier
      <3> QED
        BY <3>2 DEF Contract!Next
    <2>3. CASE ~Barrier'
      BY <2>1, <2>3 DEF AbstractVars, Barrier
    <2> QED
      BY <2>2, <2>3
  <1>4. ASSUME NEW r \in Requests, Respond(r) \/ CbLock(r) \/ CbCount(r)
        PROVE  UNCHANGED AbstractVars
    <2>1. Outstanding' = Outstanding /\ Barrier' = Barrier
      BY <1>4, <1>t, OutstandingSteps DEF Respond, CbLock, CbCount, Barrier
    <2>2. Sent' = Sent
      BY <1>4, <1>t DEF Respond, CbLock, CbCount, Sent
    <2> QED
      BY <2>1, <2>2 DEF AbstractVars
  <1>5. CASE \/ Acquire \/ AddCallbacks \/ CallbackReturns \/ StartDrain
             \/ DrainRelease \/ ReadTotals \/ UNCHANGED vars
    <2>1. phase' = phase /\ Barrier' = Barrier
      BY <1>5 DEF Acquire, AddCallbacks, CallbackReturns, StartDrain, DrainRelease,
                  ReadTotals, vars, Barrier
    <2> QED
      BY <2>1, <1>t, OutstandingSteps DEF AbstractVars, Sent
  <1> QED
    BY <1>1, <1>2, <1>3, <1>4, <1>5 DEF Next, Caller, Callback, Terminated

(* The semaphore, the callbacks and drain together implement the abstract  *)
(* contract of bounded writes with a barrier.                              *)
THEOREM PipelineRefinesBoundedWrites == Spec => ImplementsContract
  BY RefinesInit, RefinesStep, PermitInvariant, PTL
     DEF Spec, ImplementsContract, Contract!Spec
=============================================================================
