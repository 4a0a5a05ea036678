------------------------------- MODULE Bench -------------------------------
(***************************************************************************)
(* The workers of the read benchmark, src/feature_store/bench.py: each     *)
(* warms up, then runs threads that read their share of --n and add their  *)
(* own counts to the worker's under a lock; the worker joins them and puts *)
(* the sums on the queue of ResultQueue.tla.                               *)
(***************************************************************************)
EXTENDS ResultQueue

CONSTANTS Reads,         \* --n
          Threads        \* --threads, per worker

ASSUME BenchAssumption == Reads \in Nat /\ Threads \in Nat \ {0}

VARIABLES
    thread,    \* worker -> thread -> "ready", "read", "merging", "finished"
    local,     \* worker -> thread -> what it counted itself
    counts,    \* worker -> parts, miss and err, which its threads share
    seen       \* worker -> thread -> miss and err as it read them

benchVars == <<thread, local, counts, seen>>

ThreadIds == 1..Threads

(* Remainders of both divisions are dropped.                               *)
PerThread == (Reads \div procs) \div Threads

NoCounts == [lat |-> 0, miss |-> 0, err |-> 0]
ForThreads(x) == [w \in Workers |-> [t \in ThreadIds |-> x]]

BenchInit ==
    /\ thread = ForThreads("ready")
    /\ local = ForThreads(NoCounts)
    /\ counts = [w \in Workers |-> NoCounts]
    /\ seen = ForThreads(NoCounts)

-----------------------------------------------------------------------------
(* Connecting and the warm-up reads, whose errors nothing catches.         *)
Warm(w) ==
    /\ phase[w] = "loading"
    /\ Goes(w, "running")
    /\ UNCHANGED <<command, benchVars, sending, pipe, results, parent>>

Moves(w, t, to) == thread' = [thread EXCEPT ![w][t] = to]

(* The reads of one thread, each timed, missing its row, or failed.        *)
ReadShare(w, t) ==
    /\ phase[w] = "running"
    /\ thread[w][t] = "ready"
    /\ \E err \in 0..PerThread : \E miss \in 0..(PerThread - err) :
          local' = [local EXCEPT ![w][t] =
                       [lat |-> PerThread - err, miss |-> miss, err |-> err]]
    /\ Moves(w, t, "read")
    /\ UNCHANGED <<queueVars, counts, seen>>

Unlocked(w) == TRUE         \* mutant: no lock around the sums
LockFree(w) == \A t \in ThreadIds : thread[w][t] # "merging"

(* miss[0] += m and err[0] += e: the read and the write of the sums, and   *)
(* parts.append, which adds the thread's latencies.                        *)
TakeLock(w, t) ==
    /\ phase[w] = "running"
    /\ thread[w][t] = "read"
    /\ LockFree(w)
    /\ Moves(w, t, "merging")
    /\ seen' = [seen EXCEPT ![w][t] = counts[w]]
    /\ UNCHANGED <<queueVars, local, counts>>

Merge(w, t) ==
    /\ phase[w] = "running"
    /\ thread[w][t] = "merging"
    /\ counts' = [counts EXCEPT ![w] =
                     [lat |-> @.lat + local[w][t].lat,
                      miss |-> seen[w][t].miss + local[w][t].miss,
                      err |-> seen[w][t].err + local[w][t].err]]
    /\ Moves(w, t, "finished")
    /\ seen' = [seen EXCEPT ![w][t] = NoCounts]
    /\ UNCHANGED <<queueVars, local>>

Joined(w) == \A t \in ThreadIds : thread[w][t] = "finished"

(* The threads are joined and their sums put on the queue.                 *)
PutSums(w) ==
    /\ phase[w] = "running"
    /\ Joined(w)
    /\ PutResult(w, [worker |-> w, lat |-> counts[w].lat, miss |-> counts[w].miss,
                     err |-> counts[w].err])
    /\ UNCHANGED benchVars

BenchWork(w) ==
    \/ Warm(w)
    \/ \E t \in ThreadIds : ReadShare(w, t) \/ TakeLock(w, t) \/ Merge(w, t)
    \/ PutSums(w)

-----------------------------------------------------------------------------
(* A printed report accounts for every read each thread was given: timed   *)
(* or failed, none twice and none lost in the sums of a worker, and its    *)
(* misses and errors are those the threads met.                            *)
ReadsAccounted ==
    tool = "bench" /\ parent = "reported" =>
        LET met(field) == MapThenSumSet(LAMBDA w :
                              MapThenSumSet(LAMBDA t : local[w][t][field], ThreadIds), Workers)
        IN  /\ EveryoneReported
            /\ TotalOf("lat") + TotalOf("err") = procs * Threads * PerThread
            /\ TotalOf("lat") = met("lat")
            /\ TotalOf("miss") = met("miss")
            /\ TotalOf("err") = met("err")
=============================================================================
