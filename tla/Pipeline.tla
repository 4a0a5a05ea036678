------------------------------ MODULE Pipeline ------------------------------
(***************************************************************************)
(* The pipelined write path, src/feature_store/writer.py, driven the way   *)
(* consumer.py and the loadgen workers drive it: one caller thread issues  *)
(* writes, drains, and then reads the totals it reports.                   *)
(*                                                                         *)
(* Three parties touch the object: the caller, the driver (which resolves  *)
(* a future, with a result or with an error), and the callbacks `_done'    *)
(* and `_err', which run on a driver thread, or on the caller's own        *)
(* thread when the future is already resolved as they are registered.      *)
(* Request r is the r-th call of `execute' (the value of _n).              *)
(***************************************************************************)
EXTENDS Integers, Sequences, FiniteSets

CONSTANTS MaxInflight,   \* permits of the semaphore
          SampleEvery,   \* every SampleEvery-th request is timed
          MaxSamples,    \* maxlen of the latency deque (200_000)
          MaxRequests    \* bound: calls of `execute' in a behaviour

ASSUME ConstantsAssumption ==
    /\ MaxInflight \in Nat \ {0}
    /\ SampleEvery \in Nat \ {0}
    /\ MaxSamples \in Nat
    /\ MaxRequests \in Nat

Requests == 1..MaxRequests
NoOne == 0

(* The life of a request: its future is created (sent), resolved by the    *)
(* driver, its callback has released the permit (released), holds _lock    *)
(* (counting) and has left it (done).                                      *)
Phases == {"new", "sent", "resolved", "released", "counting", "done"}

VARIABLES
    gate,       \* value of the semaphore
    n,          \* _n
    phase,      \* phase of every request
    ok,         \* the outcome its future resolved to
    seen,       \* the counter value a callback read before adding 1 to it
    lock,       \* holder of _lock, NoOne when free
    count,      \* Pipeline.count
    errors,     \* Pipeline.errors
    latencies,  \* the deque of sampled latencies, as the requests they time
    pc,         \* where the caller is
    held,       \* permits `drain' has taken and not given back
    report      \* the totals the caller read after `drain'

vars == <<gate, n, phase, ok, seen, lock, count, errors, latencies, pc, held, report>>

InPhase(P) == {r \in Requests : phase[r] \in P}
Outstanding == InPhase({"sent", "resolved"})   \* requests that own a permit
Finished == InPhase({"done"})
Sampled(r) == r % SampleEvery = 0

Init ==
    /\ gate = MaxInflight
    /\ n = 0
    /\ phase = [r \in Requests |-> "new"]
    /\ ok = [r \in Requests |-> FALSE]
    /\ seen = [r \in Requests |-> 0]
    /\ lock = NoOne
    /\ count = 0
    /\ errors = 0
    /\ latencies = <<>>
    /\ pc = "idle"
    /\ held = 0
    /\ report = [writes |-> 0, errors |-> 0]

-----------------------------------------------------------------------------
(* The caller: execute                                                     *)

(* gate.acquire(), then _n += 1.                                           *)
GateNeverBlocks == TRUE                \* mutant: an acquire that does not wait
GateOpen == gate > 0

Acquire ==
    /\ pc = "idle"
    /\ n < MaxRequests
    /\ GateOpen
    /\ gate' = gate - 1
    /\ n' = n + 1
    /\ pc' = "send"
    /\ UNCHANGED <<phase, ok, seen, lock, count, errors, latencies, held, report>>

(* session.execute_async: from here the driver may resolve the future.     *)
Send ==
    /\ pc = "send"
    /\ phase' = [phase EXCEPT ![n] = "sent"]
    /\ pc' = "register"
    /\ UNCHANGED <<gate, n, ok, seen, lock, count, errors, latencies, held, report>>

(* fut.add_callbacks: a future already resolved calls back at once, on     *)
(* this thread, and `execute' returns only after that.                     *)
AddCallbacks ==
    /\ pc = "register"
    /\ pc' = IF phase[n] = "resolved" THEN "callback" ELSE "idle"
    /\ UNCHANGED <<gate, n, phase, ok, seen, lock, count, errors, latencies, held, report>>

CallbackReturns ==
    /\ pc = "callback"
    /\ phase[n] = "done"
    /\ pc' = "idle"
    /\ UNCHANGED <<gate, n, phase, ok, seen, lock, count, errors, latencies, held, report>>

-----------------------------------------------------------------------------
(* The driver resolves a future: a result, or an error (a server error or  *)
(* the request timeout, which make_cluster sets to 15 s).                  *)
Respond(r) ==
    /\ phase[r] = "sent"
    /\ phase' = [phase EXCEPT ![r] = "resolved"]
    /\ \E outcome \in BOOLEAN : ok' = [ok EXCEPT ![r] = outcome]
    /\ UNCHANGED <<gate, n, seen, lock, count, errors, latencies, pc, held, report>>

-----------------------------------------------------------------------------
(* The callbacks. Both release the permit first, then take _lock to count. *)

Registered(r) == ~(pc = "register" /\ r = n)

(* Mutants: the errback forgets its release; a callback releases twice.    *)
ReturnedOnSuccess(r) == IF ok[r] THEN 1 ELSE 0
ReturnedTwice(r) == 2

(* Permits a callback gives back: `_done' and `_err' give one each.        *)
Returned(r) == 1

Unlocked == TRUE                       \* mutant: counting without _lock
LockFree == lock = NoOne

CbRelease(r) ==
    /\ phase[r] = "resolved"
    /\ Registered(r)
    /\ phase' = [phase EXCEPT ![r] = "released"]
    /\ gate' = gate + Returned(r)
    /\ UNCHANGED <<n, ok, seen, lock, count, errors, latencies, pc, held, report>>

(* with self._lock: ... and the read half of `+= 1'.                       *)
CbLock(r) ==
    /\ phase[r] = "released"
    /\ LockFree
    /\ phase' = [phase EXCEPT ![r] = "counting"]
    /\ lock' = r
    /\ seen' = [seen EXCEPT ![r] = IF ok[r] THEN count ELSE errors]
    /\ UNCHANGED <<gate, n, ok, count, errors, latencies, pc, held, report>>

(* deque(maxlen=...).append drops the oldest sample when it is full.       *)
Push(dq, x) ==
    IF MaxSamples = 0 THEN <<>>
    ELSE IF Len(dq) < MaxSamples THEN Append(dq, x)
    ELSE Append(Tail(dq), x)

(* t0 is not None                                                          *)
AlwaysTimed(r) == TRUE                 \* mutant: the `if' is missing
Timed(r) == Sampled(r)

(* The write half, the sample, and the end of the with block.              *)
CbCount(r) ==
    /\ phase[r] = "counting"
    /\ phase' = [phase EXCEPT ![r] = "done"]
    /\ lock' = NoOne
    /\ IF ok[r]
       THEN /\ count' = seen[r] + 1
            /\ latencies' = IF Timed(r) THEN Push(latencies, r) ELSE latencies
            /\ UNCHANGED errors
       ELSE /\ errors' = seen[r] + 1
            /\ UNCHANGED <<count, latencies>>
    /\ UNCHANGED <<gate, n, ok, seen, pc, held, report>>

-----------------------------------------------------------------------------
(* The caller: drain, and the totals read after it                         *)

(* Every caller passes drain the max_inflight it built the pipeline with.  *)
DrainAllButOne == MaxInflight - 1      \* mutant: range(max_inflight - 1)
DrainPermits == MaxInflight

StartDrain ==
    /\ pc = "idle"
    /\ pc' = "drain"
    /\ UNCHANGED <<gate, n, phase, ok, seen, lock, count, errors, latencies, held, report>>

DrainAcquire ==
    /\ pc = "drain"
    /\ GateOpen
    /\ gate' = gate - 1
    /\ held' = held + 1
    /\ pc' = IF held + 1 = DrainPermits THEN "undrain" ELSE "drain"
    /\ UNCHANGED <<n, phase, ok, seen, lock, count, errors, latencies, report>>

DrainRelease ==
    /\ pc = "undrain"
    /\ gate' = gate + 1
    /\ held' = held - 1
    /\ pc' = IF held = 1 THEN "drained" ELSE "undrain"
    /\ UNCHANGED <<n, phase, ok, seen, lock, count, errors, latencies, report>>

(* pipe.count and pipe.errors are read without _lock.                      *)
ReadTotals ==
    /\ pc = "drained"
    /\ report' = [writes |-> count, errors |-> errors]
    /\ pc' = "reported"
    /\ UNCHANGED <<gate, n, phase, ok, seen, lock, count, errors, latencies, held>>

(* Nothing is left to do: the run is over.                                 *)
Terminated ==
    /\ pc = "reported"
    /\ InPhase({"new", "done"}) = Requests
    /\ UNCHANGED vars

Caller == Acquire \/ Send \/ AddCallbacks \/ CallbackReturns
          \/ StartDrain \/ DrainAcquire \/ DrainRelease \/ ReadTotals

(* Mutant: only `_done' is registered.                                     *)
CallbackWithoutErrback(r) == (ok[r] /\ CbRelease(r)) \/ CbLock(r) \/ CbCount(r)
Callback(r) == CbRelease(r) \/ CbLock(r) \/ CbCount(r)

Next ==
    \/ Caller
    \/ \E r \in Requests : Respond(r) \/ Callback(r)
    \/ Terminated

Spec == Init /\ [][Next]_vars

(* The caller runs, the driver resolves every future (at the latest when   *)
(* its timeout fires) and runs the callbacks it owes.                      *)
Fairness ==
    /\ WF_vars(Caller)
    /\ \A r \in Requests : WF_vars(Respond(r)) /\ WF_vars(Callback(r))

FairSpec == Spec /\ Fairness

-----------------------------------------------------------------------------
TypeOK ==
    /\ gate \in Nat
    /\ n \in 0..MaxRequests
    /\ phase \in [Requests -> Phases]
    /\ ok \in [Requests -> BOOLEAN]
    /\ seen \in [Requests -> Nat]
    /\ lock \in Requests \cup {NoOne}
    /\ count \in Nat
    /\ errors \in Nat
    /\ latencies \in Seq(Requests)
    /\ pc \in {"idle", "send", "register", "callback", "drain", "undrain", "drained", "reported"}
    /\ held \in Nat
    /\ report \in [writes : Nat, errors : Nat]

(* No permit is lost or invented: those in the semaphore, those owned by   *)
(* requests, the one the caller has taken for the request it is about to   *)
(* send and those drain holds add up to max_inflight. A callback path that *)
(* forgot its release would starve the pipeline for good.                  *)
PermitsConserved ==
    gate + Cardinality(Outstanding) + held + (IF pc = "send" THEN 1 ELSE 0) = MaxInflight

(* drain is a barrier: once it holds all its permits, no request sent      *)
(* before it still waits for its outcome or for its callback to start.     *)
DrainIsQuiescent ==
    pc \in {"undrain", "drained", "reported"} => Outstanding = {}

(* The counters are exact whatever the interleaving of callbacks: outside  *)
(* the read-modify-write under _lock no increment is ever lost or doubled. *)
CountersExact ==
    /\ count = Cardinality({r \in Finished : ok[r]})
    /\ errors = Cardinality({r \in Finished : ~ok[r]})

(* The sampled latencies are those of acknowledged, timed requests, each   *)
(* once, and none is dropped before the deque is full.                     *)
LatenciesExact ==
    LET timed == {r \in Finished : ok[r] /\ Sampled(r)}
        kept == {latencies[i] : i \in DOMAIN latencies}
    IN  /\ kept \subseteq timed
        /\ Cardinality(kept) = Len(latencies)
        /\ \/ Len(latencies) = MaxSamples
           \/ kept = timed

(* drain always returns, so the caller always gets to report.              *)
DrainTerminates == pc = "drain" ~> pc = "reported"

(* Every write handed to the driver ends up in exactly one counter.        *)
EveryWriteCounted == \A r \in Requests : phase[r] = "sent" ~> r \in Finished

(* The write path implements the abstract bounded-writes contract: a       *)
(* permit is what an outstanding write is, and drain is the barrier.       *)
Contract == INSTANCE BoundedWrites WITH
    Limit <- MaxInflight,
    issued <- {r \in Requests : phase[r] # "new"},
    pending <- Outstanding,
    drained <- pc \in {"undrain", "drained", "reported"}

ImplementsContract == Contract!Spec

(* drain's docstring: "Block until all in-flight requests have completed." *)
(* so the totals a caller reads after it account for every request.        *)
ReportCountsEveryRequest ==
    pc = "reported" => report.writes + report.errors = n
=============================================================================
