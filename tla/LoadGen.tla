------------------------------ MODULE LoadGen ------------------------------
(***************************************************************************)
(* The workers of the write load generator, src/feature_store/loadgen.py:  *)
(* each loads every procs-th row of the files, all meet at a barrier, each *)
(* writes its rows and puts its totals on the queue of ResultQueue.tla.    *)
(* A write is issued, answered and, by the pipeline of Pipeline.tla,       *)
(* counted: its callback returns the permit before it counts.              *)
(***************************************************************************)
EXTENDS ResultQueue

CONSTANTS Rows,          \* the (addr, coin) keys of the fills, in file order
          Mode,          \* --mode: "pipeline" or "concurrent"
          MaxInflight,   \* --max-inflight, per worker
          MaxErrors      \* bound: writes that fail, in a behaviour

ASSUME LoadGenAssumption ==
    /\ DOMAIN Rows = 1..Len(Rows) /\ Len(Rows) \in Nat
    /\ Mode \in {"pipeline", "concurrent"}
    /\ MaxInflight \in Nat \ {0}
    /\ MaxErrors \in Nat

VARIABLES
    arrived,   \* workers the barrier has counted
    issued,    \* worker -> the rows it has written, by index
    answered,  \* worker -> those of them whose request has ended
    failed,    \* worker -> those of them whose request failed
    counted    \* worker -> those its pipeline's callbacks have counted

writeVars == <<issued, answered, failed, counted>>
loadVars == <<arrived, writeVars>>

(* Mutant: a contiguous share of gi \div (rows \div procs).                 *)
BlockShard(w) == {i \in DOMAIN Rows : (i - 1) \div (Len(Rows) \div procs) = w}

(* gi % procs == wid, gi counting the rows of all files from 0.            *)
Shard(w) == {i \in DOMAIN Rows : (i - 1) % procs = w}

RowsOf(rows) == UNION {rows[w] : w \in Workers}

LoadInit ==
    /\ arrived = {}
    /\ issued = [w \in Workers |-> {}]
    /\ answered = [w \in Workers |-> {}]
    /\ failed = [w \in Workers |-> {}]
    /\ counted = [w \in Workers |-> {}]

-----------------------------------------------------------------------------
(* The shard is in memory and the session is open: barrier.wait().         *)
Arrive(w) ==
    /\ phase[w] = "loading"
    /\ Goes(w, "waiting")
    /\ arrived' = arrived \cup {w}
    /\ UNCHANGED <<command, writeVars, sending, pipe, results, parent>>

AnyoneArrived == arrived # {}      \* mutant: a barrier of one party
BarrierOpen == Cardinality(arrived) = procs

Start(w) ==
    /\ phase[w] = "waiting"
    /\ BarrierOpen
    /\ Goes(w, "running")
    /\ UNCHANGED <<command, loadVars, sending, pipe, results, parent>>

Extends(rows, w, row) == rows' = [rows EXCEPT ![w] = @ \cup {row}]

(* The next row of the shard, once the in-flight window has room for it.   *)
WriteRow(w) ==
    /\ phase[w] = "running"
    /\ Shard(w) # issued[w]
    /\ Cardinality(issued[w] \ answered[w]) < MaxInflight
    /\ Extends(issued, w, Min(Shard(w) \ issued[w]))
    /\ UNCHANGED <<queueVars, arrived, answered, failed, counted>>

(* A request ends, in any order. Its result is yielded by the concurrent   *)
(* helper; the pipeline's callback returns the permit.                     *)
Answer(w) ==
    /\ phase[w] = "running"
    /\ \E row \in issued[w] \ answered[w] :
          /\ Extends(answered, w, row)
          /\ \/ UNCHANGED failed
             \/ Cardinality(RowsOf(failed)) < MaxErrors /\ Extends(failed, w, row)
    /\ UNCHANGED <<queueVars, arrived, issued, counted>>

(* The callback takes _lock and counts, any time after it returned its     *)
(* permit. Once the totals are read it changes nothing that is printed.    *)
Count(w) ==
    /\ Mode = "pipeline"
    /\ phase[w] = "running"
    /\ \E row \in answered[w] \ counted[w] : Extends(counted, w, row)
    /\ UNCHANGED <<queueVars, arrived, issued, answered, failed>>

NotDrained(w) == TRUE       \* mutant: the totals are read without pipe.drain

(* drain takes every permit; the results generator ends with the last row. *)
Drained(w) == issued[w] \subseteq answered[w]

(* What a worker's totals are made of. The loop over the results takes     *)
(* every row for a write, failed or not; the counters of the pipeline lack *)
(* whatever a callback has not counted yet. They are read one after the    *)
(* other, with what callbacks could count in one read.                     *)
InTotals(w) == IF Mode = "concurrent" THEN answered[w] ELSE counted[w]

WritesOf(w) == IF Mode = "concurrent" THEN answered[w] ELSE counted[w] \ failed[w]

Totals(w) ==
    [worker |-> w,
     writes |-> Cardinality(WritesOf(w)),
     errors |-> Cardinality(InTotals(w) \cap failed[w])]

PutTotals(w) ==
    /\ phase[w] = "running"
    /\ issued[w] = Shard(w)
    /\ Drained(w)
    /\ PutResult(w, Totals(w))
    /\ UNCHANGED loadVars

LoadWork(w) == Arrive(w) \/ Start(w) \/ WriteRow(w) \/ Answer(w) \/ Count(w) \/ PutTotals(w)

-----------------------------------------------------------------------------
LoadTypeOK ==
    /\ phase \in [Workers -> {"loading", "waiting", "running", "exiting", "exited", "dead"}]
    /\ arrived \subseteq Workers
    /\ \A w \in Workers :
          /\ failed[w] \cup counted[w] \subseteq answered[w]
          /\ answered[w] \subseteq issued[w] /\ issued[w] \subseteq Shard(w)
    /\ \A w \in Workers : Len(sending[w]) <= 1
    /\ Len(pipe) <= PipeCap
    /\ parent \in {"getting", "joining", "reported"}

(* "All workers finish loading (and connecting) before any starts writing" *)
(* and if one of them dies loading, none ever writes: the timed window     *)
(* never overlaps a load.                                                  *)
BarrierHolds ==
    (\E w \in Workers : issued[w] # {}) =>
        arrived = Workers /\ \A w \in Workers : phase[w] # "loading"

(* A printed report is complete: every worker is in it, once, and every    *)
(* row of the files was written by one worker.                             *)
ReportComplete ==
    tool = "loadgen" /\ parent = "reported" =>
        /\ EveryoneReported
        /\ \A i \in DOMAIN Rows : \E w \in Workers :
              \A v \in Workers : i \in issued[v] <=> v = w

(* When it is printed every row's request has ended, and its totals are    *)
(* those of the rows that were counted, each once: a row is missing from   *)
(* them only if its callback, having returned its permit, had yet to count *)
(* when its worker read the counters. Any number of callbacks may.         *)
TotalsComplete ==
    tool = "loadgen" /\ parent = "reported" =>
        LET inTotals == IF Mode = "concurrent" THEN RowsOf(answered) ELSE RowsOf(counted)
            writes == IF Mode = "concurrent" THEN inTotals ELSE inTotals \ RowsOf(failed)
        IN  /\ RowsOf(answered) = DOMAIN Rows
            /\ TotalOf("writes") = Cardinality(writes)
            /\ TotalOf("errors") = Cardinality(inTotals \cap RowsOf(failed))

(* The report's "writes acked" are writes the store acknowledged.          *)
AckedWereAcknowledged ==
    tool = "loadgen" /\ parent = "reported" =>
        TotalOf("writes") <= Len(Rows) - Cardinality(RowsOf(failed))
=============================================================================
