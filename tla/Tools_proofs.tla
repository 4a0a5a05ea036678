---------------------------- MODULE Tools_proofs ----------------------------
(***************************************************************************)
(* Theorems about the command-line tools, for any number of workers, rows, *)
(* threads and results the pipe takes: the barrier, what a printed report  *)
(* is made of, and that its totals lose nothing the workers counted. They  *)
(* rest on Spec alone: no process need make progress.                      *)
(***************************************************************************)
EXTENDS Tools, FiniteSetTheorems, SequenceTheorems, WellFoundedInduction, TLAPS

Phases == {"loading", "waiting", "running", "exiting", "exited", "dead"}

TypeInv ==
    /\ tool \in {"loadgen", "bench"} /\ procs \in Nat \ {0}
    /\ phase \in [Workers -> Phases]
    /\ parent \in {"getting", "joining", "reported"}
    /\ arrived \subseteq Workers
    /\ issued \in [Workers -> SUBSET (DOMAIN Rows)]
    /\ tool = "bench" => \A w \in Workers : issued[w] = {}

(* Who has arrived is past loading, and who is past the barrier of the     *)
(* load generator went through it when all had.                            *)
BarrierPassed ==
    /\ \A w \in arrived : phase[w] # "loading"
    /\ \A w \in Workers :
          \/ tool = "loadgen" /\ phase[w] \in {"running", "exiting", "exited"}
          \/ issued[w] # {}
          => arrived = Workers

(* A worker writes rows of its share, and all of them before it puts its   *)
(* totals on the queue.                                                    *)
ShareWritten ==
    \A w \in Workers :
        /\ issued[w] \subseteq Shard(w)
        /\ tool = "loadgen" /\ phase[w] \in {"exiting", "exited"} => issued[w] = Shard(w)

(* What the workers put on the queue.                                      *)
Counts == [lat : Int, miss : Int, err : Int]
Result ==
    [worker : Nat, writes : Int, errors : Int]
        \cup [worker : Nat, lat : Int, miss : Int, err : Int]

ResultTyped ==
    /\ answered \in [Workers -> SUBSET (DOMAIN Rows)]
    /\ failed \in [Workers -> SUBSET (DOMAIN Rows)]
    /\ counted \in [Workers -> SUBSET (DOMAIN Rows)]
    /\ counts \in [Workers -> Counts]
    /\ local \in [Workers -> [ThreadIds -> Counts]]
    /\ seen \in [Workers -> [ThreadIds -> Counts]]
    /\ sending \in [Workers -> Seq(Result)]
    /\ pipe \in Seq(Result) /\ results \in Seq(Result)

(* Who has handed a result over to the queue.                              *)
Finished ==
    {w \in Workers : phase[w] \in {"exiting", "exited"} /\ sending[w] = <<>>}

(* A worker's one result is with its feeder, in the pipe or taken.         *)
OneResultEach ==
    /\ \A w \in Workers :
          sending[w] # <<>> =>
              phase[w] = "exiting" /\ Len(sending[w]) = 1 /\ sending[w][1].worker = w
    /\ \A i \in 1..Len(results) : results[i].worker \in Finished
    /\ \A i \in 1..Len(pipe) : pipe[i].worker \in Finished
    /\ \A i, j \in 1..Len(results) : results[i].worker = results[j].worker => i = j
    /\ \A i, j \in 1..Len(pipe) : pipe[i].worker = pipe[j].worker => i = j
    /\ \A i \in 1..Len(results), j \in 1..Len(pipe) : results[i].worker # pipe[j].worker
    /\ parent # "getting" => Len(results) = procs

-----------------------------------------------------------------------------
LEMMA WorkersFinite ==
    ASSUME procs \in Nat \ {0}
    PROVE  /\ IsFiniteSet(Workers) /\ Cardinality(Workers) = procs
           /\ Workers \subseteq Nat
  <1>1. IsFiniteSet(Workers) /\ Cardinality(Workers) = procs - 1 - 0 + 1
    BY FS_Interval DEF Workers
  <1> QED
    BY <1>1 DEF Workers

LEMMA CommandFixed == [Next]_vars => tool' = tool /\ procs' = procs
  BY DEF Next, Work, ToolWork, QueueWork, LoadWork, BenchWork, ParentWork, Terminated,
         Arrive, Start, WriteRow, Answer, Count, PutTotals, PutResult, Warm, ReadShare, TakeLock, Merge,
         PutSums, Feed, Exit, Die, Parent, Get, StartJoin, Report, vars, queueVars, command

LEMMA TypeInit == Init => TypeInv
  BY QueueAssumption DEF Init, QueueInit, LoadInit, TypeInv, Phases

(* Every non-empty set of natural numbers has a least element.             *)
LEMMA LeastNatural ==
    ASSUME NEW S \in SUBSET Nat, S # {}
    PROVE  \E s \in S : \A x \in S : s <= x
  <1> DEFINE T == {0..x : x \in S}
  <1>1. T \in SUBSET FiniteSubsetsOf(Nat) /\ T # {}
    <2>1. \A x \in S : IsFiniteSet(0..x) /\ 0..x \in SUBSET Nat
      BY FS_Interval
    <2> QED
      BY <2>1 DEF FiniteSubsetsOf
  <1>2. IsWellFoundedOn(StrictSubsetOrdering(Nat), FiniteSubsetsOf(Nat))
    BY FS_StrictSubsetOrderingWellFounded
  <1>3. PICK t \in T : \A u \in T : ~(<<u, t>> \in StrictSubsetOrdering(Nat))
    <2> HIDE DEF T
    <2> QED
      BY <1>1, <1>2, WFMin
  <1>4. PICK s \in S : t = 0..s
    BY <1>3
  <1>5. ASSUME NEW y \in S, y < s PROVE FALSE
    <2>1. 0..y \in SUBSET Nat /\ 0..s \in SUBSET Nat /\ 0..y \subseteq 0..s
      BY <1>5
    <2>2. s \in 0..s /\ s \notin 0..y
      BY <1>5
    <2>3. 0..y # 0..s
      BY <2>2
    <2>4. <<0..y, 0..s>> \in StrictSubsetOrdering(Nat)
      BY <2>1, <2>3, Zenon DEF StrictSubsetOrdering
    <2> QED
      BY <1>3, <1>4, <2>4
  <1> QED
    BY <1>5

(* The row a worker writes next is one of its share.                       *)
LEMMA NextRow ==
    ASSUME NEW w, Shard(w) # issued[w], issued[w] \subseteq Shard(w)
    PROVE  Min(Shard(w) \ issued[w]) \in Shard(w) \ issued[w]
  <1> DEFINE left == Shard(w) \ issued[w]
  <1>1. left \in SUBSET Nat /\ left # {}
    BY LoadGenAssumption DEF Shard
  <1>2. \E s \in left : \A x \in left : s <= x
    BY <1>1, LeastNatural
  <1> HIDE DEF left
  <1>3. Min(left) \in left
    BY <1>2 DEF Min
  <1> QED
    BY <1>3 DEF left

LEMMA WriteRowStep ==
    ASSUME NEW w \in Workers, issued[w] \subseteq Shard(w), WriteRow(w)
    PROVE  \E row \in Shard(w) : issued' = [issued EXCEPT ![w] = @ \cup {row}]
  <1> DEFINE row == Min(Shard(w) \ issued[w])
  <1>1. issued' = [issued EXCEPT ![w] = @ \cup {row}]
    BY DEF WriteRow, Extends
  <1>2. row \in Shard(w)
    BY NextRow DEF WriteRow
  <1> QED
    BY <1>1, <1>2

-----------------------------------------------------------------------------
(* Types, shares and the barrier, by the steps of the tools' workers.      *)
LoadInv == TypeInv /\ ShareWritten /\ BarrierPassed

LEMMA LoadInvInit == Init => LoadInv
  <1> SUFFICES ASSUME Init PROVE LoadInv
    OBVIOUS
  <1>1. TypeInv
    BY TypeInit
  <1>2. ShareWritten /\ BarrierPassed
    BY DEF Init, QueueInit, LoadInit, ShareWritten, BarrierPassed
  <1> QED
    BY <1>1, <1>2 DEF LoadInv

(* The shares depend on the command alone.                                 *)
LEMMA SharesFixed ==
    ASSUME tool' = tool, procs' = procs
    PROVE  Workers' = Workers /\ \A w : Shard(w)' = Shard(w)
  BY DEF Workers, Shard

LEMMA LoadWorkStep ==
    ASSUME LoadInv, tool = "loadgen", tool' = tool, procs' = procs,
           NEW w \in Workers, LoadWork(w)
    PROVE  LoadInv'
  <1> USE SharesFixed DEF LoadInv, TypeInv, ShareWritten, BarrierPassed, Phases, Goes,
                          command, loadVars, writeVars
  <1> HIDE DEF Workers, Shard
  <1>1. CASE Arrive(w)
    BY <1>1 DEF Arrive
  <1>2. CASE Start(w)
    <2>1. arrived = Workers
      BY <1>2, WorkersFinite, FS_Subset DEF Start, BarrierOpen
    <2> QED
      BY <2>1, <1>2 DEF Start
  <1>3. CASE WriteRow(w)
    <2>1. PICK row \in Shard(w) : issued' = [issued EXCEPT ![w] = @ \cup {row}]
      BY <1>3, WriteRowStep
    <2>2. row \in DOMAIN Rows
      BY DEF Shard
    <2>3. arrived = Workers /\ UNCHANGED <<phase, arrived, parent>> /\ phase[w] = "running"
      BY <1>3 DEF WriteRow, queueVars
    <2> QED
      BY <2>1, <2>2, <2>3
  <1>4. CASE Answer(w) \/ Count(w)
    BY <1>4 DEF Answer, Count, queueVars
  <1>5. CASE PutTotals(w)
    BY <1>5 DEF PutTotals, PutResult
  <1> QED
    BY <1>1, <1>2, <1>3, <1>4, <1>5 DEF LoadWork

(* No other step writes a row, arrives at the barrier or passes it.        *)
LEMMA OtherStep ==
    ASSUME LoadInv, [Next]_vars, tool' = tool, procs' = procs,
           ~\E w \in Workers : tool = "loadgen" /\ LoadWork(w)
    PROVE  LoadInv'
  <1> USE SharesFixed DEF LoadInv, TypeInv, ShareWritten, BarrierPassed, Phases, Goes,
                          command, loadVars, writeVars, toolVars
  <1> HIDE DEF Workers, Shard
  <1>1. ASSUME NEW w \in Workers, tool = "bench", BenchWork(w), UNCHANGED loadVars
        PROVE  LoadInv'
    BY <1>1 DEF BenchWork, Warm, ReadShare, TakeLock, Merge, PutSums, PutResult, queueVars
  <1>2. ASSUME NEW w \in Workers, QueueWork(w) \/ (Die(w) /\ UNCHANGED toolVars)
        PROVE  LoadInv'
    BY <1>2 DEF QueueWork, Feed, Exit, Die
  <1>3. CASE ParentWork
    BY <1>3 DEF ParentWork, Parent, Get, StartJoin, Report
  <1>4. CASE UNCHANGED vars
    BY <1>4 DEF vars, queueVars
  <1> QED
    BY <1>1, <1>2, <1>3, <1>4 DEF Next, Work, ToolWork, Terminated

LEMMA LoadStep == LoadInv /\ [Next]_vars => LoadInv'
  <1> SUFFICES ASSUME LoadInv, [Next]_vars PROVE LoadInv'
    OBVIOUS
  <1>1. tool' = tool /\ procs' = procs
    BY CommandFixed
  <1> QED
    BY <1>1, LoadWorkStep, OtherStep

LEMMA LoadInvariant == Spec => []LoadInv
  BY LoadInvInit, LoadStep, PTL DEF Spec

(* No worker of the load generator writes a row before all have loaded and *)
(* arrived, and if one dies loading none ever does.                        *)
THEOREM BarrierSeparatesLoads == Spec => []BarrierHolds
  <1>1. LoadInv => BarrierHolds
    BY DEF LoadInv, BarrierPassed, BarrierHolds
  <1> QED
    BY <1>1, LoadInvariant, PTL

-----------------------------------------------------------------------------
(* The queue.                                                              *)
ReportInv == LoadInv /\ ResultTyped /\ OneResultEach

LEMMA RowsFinite ==
    ASSUME NEW S \in SUBSET (DOMAIN Rows)
    PROVE  IsFiniteSet(S) /\ Cardinality(S) \in Nat
  <1>1. IsFiniteSet(DOMAIN Rows)
    BY LoadGenAssumption, FS_Interval
  <1> QED
    BY <1>1, FS_Subset, FS_CardinalityType

(* The totals a worker of the load generator puts on the queue.            *)
LEMMA TotalsType ==
    ASSUME TypeInv, ResultTyped, NEW w \in Workers
    PROVE  /\ Totals(w) \in [worker : Nat, writes : Int, errors : Int]
           /\ Totals(w) \in Result /\ Totals(w).worker = w
  <1>1. w \in Nat
    BY WorkersFinite DEF TypeInv
  <1>2. /\ WritesOf(w) \in SUBSET (DOMAIN Rows)
        /\ InTotals(w) \cap failed[w] \in SUBSET (DOMAIN Rows)
    BY DEF WritesOf, InTotals, ResultTyped
  <1>3. Cardinality(WritesOf(w)) \in Int /\ Cardinality(InTotals(w) \cap failed[w]) \in Int
    BY <1>2, RowsFinite
  <1> QED
    BY <1>1, <1>3 DEF Totals, Result

(* The steps of a write extend what they change by one row.                *)
Grows(rows, new, w, row) == new \in {rows, [rows EXCEPT ![w] = @ \cup {row}]}

LEMMA GrowsTyped ==
    ASSUME NEW R, NEW f \in [Workers -> SUBSET R], NEW w, NEW row \in R, NEW g,
           Grows(f, g, w, row)
    PROVE  g \in [Workers -> SUBSET R]
  BY DEF Grows

LEMMA RowStep ==
    ASSUME LoadInv, ResultTyped, NEW w \in Workers, WriteRow(w) \/ Answer(w) \/ Count(w)
    PROVE  /\ phase[w] = "running" /\ UNCHANGED <<queueVars, arrived>>
           /\ \E row \in DOMAIN Rows :
                 /\ Grows(issued, issued', w, row) /\ Grows(answered, answered', w, row)
                 /\ Grows(failed, failed', w, row) /\ Grows(counted, counted', w, row)
  <1>t. /\ issued[w] \subseteq DOMAIN Rows /\ answered[w] \subseteq DOMAIN Rows
        /\ issued[w] \subseteq Shard(w)
    BY DEF LoadInv, TypeInv, ShareWritten, ResultTyped
  <1>1. CASE WriteRow(w)
    <2>1. PICK row \in Shard(w) : issued' = [issued EXCEPT ![w] = @ \cup {row}]
      BY <1>t, <1>1, WriteRowStep
    <2>2. row \in DOMAIN Rows
      BY DEF Shard
    <2> QED
      BY <1>1, <2>1, <2>2 DEF WriteRow, Grows
  <1>2. CASE Answer(w)
    BY <1>t, <1>2 DEF Answer, Extends, Grows
  <1>3. CASE Count(w)
    BY <1>t, <1>3 DEF Count, Extends, Grows
  <1> QED
    BY <1>1, <1>2, <1>3

(* Every result keeps its type on its way, and the readers' counts theirs. *)
LEMMA WorkTyped ==
    ASSUME LoadInv, ResultTyped, tool' = tool, procs' = procs, NEW w \in Workers, ToolWork(w)
    PROVE  ResultTyped'
  <1> USE SharesFixed DEF LoadInv, TypeInv, ResultTyped, command, loadVars, writeVars, benchVars
  <1> HIDE DEF Workers, Shard
  <1>w. w \in Nat
    BY WorkersFinite
  <1>1. ASSUME LoadWork(w), UNCHANGED benchVars PROVE ResultTyped'
    <2>1. CASE Arrive(w) \/ Start(w)
      BY <1>1, <2>1 DEF Arrive, Start
    <2>2. CASE WriteRow(w) \/ Answer(w) \/ Count(w)
      <3>1. /\ UNCHANGED queueVars
            /\ \E row \in DOMAIN Rows :
                  /\ Grows(answered, answered', w, row)
                  /\ Grows(failed, failed', w, row) /\ Grows(counted, counted', w, row)
        BY <2>2, RowStep
      <3>2. /\ answered' \in [Workers -> SUBSET (DOMAIN Rows)]
            /\ failed' \in [Workers -> SUBSET (DOMAIN Rows)]
            /\ counted' \in [Workers -> SUBSET (DOMAIN Rows)]
        BY <3>1, GrowsTyped
      <3> QED
        BY <1>1, <3>1, <3>2 DEF queueVars
    <2>3. CASE PutTotals(w)
      <3>1. PutResult(w, Totals(w))
        BY <2>3 DEF PutTotals
      <3>2. <<Totals(w)>> \in Seq(Result)
        BY TotalsType
      <3> QED
        BY <1>1, <2>3, <3>1, <3>2 DEF PutTotals, PutResult
    <2> QED
      BY <1>1, <2>1, <2>2, <2>3 DEF LoadWork
  <1>2. ASSUME BenchWork(w), UNCHANGED loadVars PROVE ResultTyped'
    <2>1. CASE Warm(w)
      BY <1>2, <2>1 DEF Warm
    <2>2. ASSUME NEW t \in ThreadIds, ReadShare(w, t) PROVE ResultTyped'
      <3>1. \E c \in Counts : local' = [local EXCEPT ![w][t] = c]
        <4>1. PICK e \in 0..PerThread : \E m \in 0..(PerThread - e) :
                  local' = [local EXCEPT ![w][t] =
                               [lat |-> PerThread - e, miss |-> m, err |-> e]]
          BY <2>2 DEF ReadShare
        <4>2. PICK m \in 0..(PerThread - e) :
                  local' = [local EXCEPT ![w][t] =
                               [lat |-> PerThread - e, miss |-> m, err |-> e]]
          BY <4>1
        <4>3. PerThread \in Int
          BY BenchAssumption DEF PerThread
        <4>4. [lat |-> PerThread - e, miss |-> m, err |-> e] \in Counts
          BY <4>3 DEF Counts
        <4> QED
          BY <4>2, <4>4
      <3> QED
        BY <1>2, <2>2, <3>1 DEF ReadShare, queueVars
    <2>3. ASSUME NEW t \in ThreadIds, TakeLock(w, t) PROVE ResultTyped'
      BY <1>2, <2>3 DEF TakeLock, queueVars
    <2>4. ASSUME NEW t \in ThreadIds, Merge(w, t) PROVE ResultTyped'
      <3> DEFINE c == [lat |-> counts[w].lat + local[w][t].lat,
                       miss |-> seen[w][t].miss + local[w][t].miss,
                       err |-> seen[w][t].err + local[w][t].err]
      <3>1. counts' = [counts EXCEPT ![w] = c] /\ seen' = [seen EXCEPT ![w][t] = NoCounts]
        BY <2>4 DEF Merge
      <3>2. counts[w] \in Counts /\ local[w][t] \in Counts /\ seen[w][t] \in Counts
        BY <2>4
      <3>3. c \in Counts /\ NoCounts \in Counts
        BY <3>2 DEF Counts, NoCounts
      <3> HIDE DEF c
      <3> QED
        BY <1>2, <2>4, <3>1, <3>3 DEF Merge, queueVars
    <2>5. CASE PutSums(w)
      <3> DEFINE r == [worker |-> w, lat |-> counts[w].lat, miss |-> counts[w].miss,
                       err |-> counts[w].err]
      <3>1. r \in Result
        BY <1>w DEF Counts, Result
      <3>2. PutResult(w, r)
        BY <2>5 DEF PutSums
      <3> HIDE DEF r
      <3>3. <<r>> \in Seq(Result)
        BY <3>1
      <3> QED
        BY <1>2, <2>5, <3>2, <3>3 DEF PutSums, PutResult
    <2> QED
      BY <1>2, <2>1, <2>2, <2>3, <2>4, <2>5 DEF BenchWork
  <1> QED
    BY <1>1, <1>2 DEF ToolWork

LEMMA QueueTyped ==
    ASSUME LoadInv, ResultTyped, tool' = tool, procs' = procs, [Next]_vars,
           ~\E w \in Workers : ToolWork(w)
    PROVE  ResultTyped'
  <1> USE SharesFixed DEF LoadInv, TypeInv, ResultTyped, command, loadVars, writeVars, benchVars,
                          toolVars
  <1> HIDE DEF Workers
  <1>1. ASSUME NEW w \in Workers, Feed(w), UNCHANGED toolVars PROVE ResultTyped'
    BY <1>1 DEF Feed
  <1>2. ASSUME NEW w \in Workers, Exit(w) \/ Die(w), UNCHANGED toolVars PROVE ResultTyped'
    BY <1>2 DEF Exit, Die
  <1>3. CASE ParentWork
    <2>1. CASE Get /\ pipe # <<>>
      <3>1. Head(pipe) \in Result /\ Tail(pipe) \in Seq(Result)
        BY <2>1
      <3>2. /\ results' = Append(results, Head(pipe)) /\ pipe' = Tail(pipe)
            /\ UNCHANGED <<answered, failed, counted, counts, local, seen, sending>>
        BY <1>3, <2>1 DEF ParentWork, Get
      <3>3. results' \in Seq(Result) /\ pipe' \in Seq(Result)
        BY <3>1, <3>2
      <3> QED
        BY <3>2, <3>3
    <2>2. CASE Get /\ pipe = <<>>
      <3>1. PICK w \in Workers :
                /\ results' = results \o sending[w]
                /\ sending' = [sending EXCEPT ![w] = <<>>]
        BY <2>2 DEF Get
      <3>2. results' \in Seq(Result)
        BY <3>1
      <3> QED
        BY <1>3, <2>2, <3>1, <3>2 DEF ParentWork, Get
    <2>3. CASE StartJoin \/ Report
      BY <1>3, <2>3 DEF ParentWork, StartJoin, Report
    <2> QED
      BY <1>3, <2>1, <2>2, <2>3 DEF ParentWork, Parent, Get
  <1>4. CASE UNCHANGED vars
    BY <1>4 DEF vars, queueVars
  <1> QED
    BY <1>1, <1>2, <1>3, <1>4 DEF Next, Work, QueueWork, Terminated

(* A worker that has put nothing on the queue is in none of its results.   *)
LEMMA WorkKeepsResults ==
    ASSUME ReportInv, tool' = tool, procs' = procs, NEW w \in Workers, ToolWork(w)
    PROVE  OneResultEach'
  <1> USE SharesFixed DEF ReportInv, LoadInv, TypeInv, Phases, ResultTyped, OneResultEach,
                          Finished
  <1> HIDE DEF Workers
  <1>1. ASSUME NEW r, r.worker = w, phase[w] = "running", PutResult(w, r)
        PROVE  OneResultEach'
    <2>1. /\ sending' = [sending EXCEPT ![w] = <<r>>] /\ UNCHANGED <<pipe, results, parent>>
          /\ phase' = [phase EXCEPT ![w] = "exiting"]
      BY <1>1 DEF PutResult, Goes
    <2>2. Finished' = Finished /\ <<r>> # <<>> /\ Len(<<r>>) = 1 /\ <<r>>[1] = r
      BY <1>1, <2>1
    <2>3. \A v \in Workers : sending'[v] # <<>> =>
              phase'[v] = "exiting" /\ Len(sending'[v]) = 1 /\ sending'[v][1].worker = v
      BY <1>1, <2>1, <2>2
    <2> HIDE DEF Finished
    <2> QED
      BY <2>1, <2>2, <2>3
  <1>2. ASSUME phase[w] \notin {"exiting", "exited"},
               phase' = phase \/ \E to : phase' = [phase EXCEPT ![w] = to],
               UNCHANGED <<sending, pipe, results, parent>>
        PROVE  OneResultEach'
    <2>1. /\ Finished \subseteq Finished'
          /\ \A v \in Workers : phase[v] = "exiting" => phase'[v] = phase[v]
      BY <1>2
    <2>2. \A v \in Workers : sending'[v] # <<>> =>
              phase'[v] = "exiting" /\ Len(sending'[v]) = 1 /\ sending'[v][1].worker = v
      BY <1>2, <2>1
    <2> HIDE DEF Finished
    <2> QED
      BY <1>2, <2>1, <2>2
  <1>3. CASE PutTotals(w)
    <2> DEFINE r == Totals(w)
    <2>1. PutResult(w, r) /\ r.worker = w /\ phase[w] = "running"
      BY <1>3, TotalsType DEF PutTotals
    <2> HIDE DEF r
    <2> QED
      BY <1>1, <2>1
  <1>4. CASE PutSums(w)
    <2> DEFINE r == [worker |-> w, lat |-> counts[w].lat, miss |-> counts[w].miss,
                     err |-> counts[w].err]
    <2>1. PutResult(w, r) /\ r.worker = w /\ phase[w] = "running"
      BY <1>4 DEF PutSums
    <2> HIDE DEF r
    <2> QED
      BY <1>1, <2>1
  <1>5. CASE Arrive(w) \/ Start(w) \/ Warm(w)
    BY <1>2, <1>5 DEF Arrive, Start, Warm, Goes
  <1>6. CASE \/ WriteRow(w) \/ Answer(w) \/ Count(w)
             \/ \E t \in ThreadIds : ReadShare(w, t) \/ TakeLock(w, t) \/ Merge(w, t)
    <2>1. phase[w] = "running" /\ UNCHANGED <<phase, sending, pipe, results, parent>>
      BY <1>6, RowStep DEF ReadShare, TakeLock, Merge, queueVars
    <2> HIDE DEF OneResultEach, Finished
    <2> QED
      BY <1>2, <2>1
  <1> QED
    BY <1>3, <1>4, <1>5, <1>6 DEF ToolWork, LoadWork, BenchWork

LEMMA ConcatOne ==
    ASSUME NEW S, NEW s \in Seq(S), NEW t \in Seq(S), Len(t) = 1
    PROVE  /\ Len(s \o t) = Len(s) + 1
           /\ (s \o t)[Len(s) + 1] = t[1]
           /\ \A i \in 1..Len(s) : (s \o t)[i] = s[i]
  <1>1. Len(s) \in Nat /\ 1..Len(s) \subseteq 1..(Len(s) + Len(t))
    OBVIOUS
  <1>2. Len(s) + 1 \in 1..(Len(s) + Len(t)) /\ Len(s) + 1 - Len(s) = 1
    BY <1>1
  <1>3. /\ Len(s \o t) = Len(s) + Len(t)
        /\ \A i \in 1..(Len(s) + Len(t)) :
              (s \o t)[i] = IF i <= Len(s) THEN s[i] ELSE t[i - Len(s)]
    BY ConcatProperties
  <1> DEFINE c == s \o t
  <1> HIDE DEF c
  <1>4. c[Len(s) + 1] = t[1]
    BY <1>1, <1>2, <1>3 DEF c
  <1>5. \A i \in 1..Len(s) : c[i] = s[i]
    BY <1>1, <1>3 DEF c
  <1> QED
    BY <1>3, <1>4, <1>5 DEF c

(* A result goes from its feeder to the pipe, or straight to the parent.   *)
LEMMA HandOverKeepsResults ==
    ASSUME ReportInv, procs' = procs, UNCHANGED <<phase, parent>>,
           NEW w \in Workers, sending[w] # <<>>, sending' = [sending EXCEPT ![w] = <<>>],
           \/ pipe' = pipe \o sending[w] /\ UNCHANGED results
           \/ results' = results \o sending[w] /\ UNCHANGED pipe /\ parent = "getting"
    PROVE  OneResultEach'
  <1>s. /\ sending \in [Workers -> Seq(Result)] /\ pipe \in Seq(Result)
        /\ results \in Seq(Result)
    BY DEF ReportInv, ResultTyped
  <1>1. /\ phase[w] = "exiting" /\ Len(sending[w]) = 1 /\ sending[w] \in Seq(Result)
        /\ sending[w][1].worker = w
    BY <1>s DEF ReportInv, OneResultEach
  <1>2. w \notin Finished
    BY DEF Finished
  <1>3. Workers' = Workers
    BY DEF Workers
  <1>4. Finished' = Finished \cup {w}
    BY <1>1, <1>3, <1>s DEF Finished
  <1>5. /\ \A i \in 1..Len(results) : results[i].worker \in Finished
        /\ \A i \in 1..Len(pipe) : pipe[i].worker \in Finished
        /\ \A i, j \in 1..Len(results) : results[i].worker = results[j].worker => i = j
        /\ \A i, j \in 1..Len(pipe) : pipe[i].worker = pipe[j].worker => i = j
        /\ \A i \in 1..Len(results), j \in 1..Len(pipe) : results[i].worker # pipe[j].worker
        /\ parent # "getting" => Len(results) = procs
    BY DEF ReportInv, OneResultEach
  <1>6. \A v \in Workers : sending'[v] # <<>> =>
            phase'[v] = "exiting" /\ Len(sending'[v]) = 1 /\ sending'[v][1].worker = v
    BY <1>s DEF ReportInv, OneResultEach
  <1>7. CASE pipe' = pipe \o sending[w] /\ UNCHANGED results
    <2>1. /\ Len(pipe') = Len(pipe) + 1 /\ pipe'[Len(pipe) + 1].worker = w
          /\ \A i \in 1..Len(pipe) : pipe'[i] = pipe[i]
          /\ Len(pipe) \in Nat
      BY <1>s, <1>1, <1>7, ConcatOne
    <2>2. \A i \in 1..Len(pipe') : i \in 1..Len(pipe) \/ i = Len(pipe) + 1
      BY <2>1
    <2>3. /\ \A i \in 1..Len(results) : results[i].worker \in Finished'
          /\ \A i \in 1..Len(pipe') : pipe'[i].worker \in Finished'
      BY <1>4, <1>5, <2>1, <2>2
    <2>4. \A i, j \in 1..Len(pipe') : pipe'[i].worker = pipe'[j].worker => i = j
      BY <1>2, <1>5, <2>1, <2>2
    <2>5. \A i \in 1..Len(results), j \in 1..Len(pipe') : results[i].worker # pipe'[j].worker
      BY <1>2, <1>5, <2>1, <2>2
    <2> QED
      BY <1>3, <1>5, <1>6, <1>7, <2>3, <2>4, <2>5 DEF OneResultEach
  <1>8. CASE results' = results \o sending[w] /\ UNCHANGED pipe /\ parent = "getting"
    <2>1. /\ Len(results') = Len(results) + 1 /\ results'[Len(results) + 1].worker = w
          /\ \A i \in 1..Len(results) : results'[i] = results[i]
          /\ Len(results) \in Nat
      BY <1>s, <1>1, <1>8, ConcatOne
    <2>2. \A i \in 1..Len(results') : i \in 1..Len(results) \/ i = Len(results) + 1
      BY <2>1
    <2>3. /\ \A i \in 1..Len(results') : results'[i].worker \in Finished'
          /\ \A i \in 1..Len(pipe) : pipe[i].worker \in Finished'
      BY <1>4, <1>5, <2>1, <2>2
    <2>4. \A i, j \in 1..Len(results') : results'[i].worker = results'[j].worker => i = j
      BY <1>2, <1>5, <2>1, <2>2
    <2>5. \A i \in 1..Len(results'), j \in 1..Len(pipe) : results'[i].worker # pipe[j].worker
      BY <1>2, <1>5, <2>1, <2>2
    <2> QED
      BY <1>3, <1>5, <1>6, <1>8, <2>3, <2>4, <2>5 DEF OneResultEach
  <1> QED
    BY <1>7, <1>8

(* ... and from the pipe to the parent.                                    *)
LEMMA TakeKeepsResults ==
    ASSUME ReportInv, procs' = procs, UNCHANGED <<phase, parent, sending>>,
           parent = "getting", pipe # <<>>,
           results' = Append(results, Head(pipe)), pipe' = Tail(pipe)
    PROVE  OneResultEach'
  <1>s. pipe \in Seq(Result) /\ results \in Seq(Result)
    BY DEF ReportInv, ResultTyped
  <1>1. /\ Len(results') = Len(results) + 1 /\ Len(results) \in Nat
        /\ results'[Len(results) + 1] = pipe[1]
        /\ \A i \in 1..Len(results) : results'[i] = results[i]
    BY <1>s
  <1>2. /\ 1 \in 1..Len(pipe)
        /\ \A i \in 1..Len(pipe') : /\ pipe'[i] = pipe[i + 1]
                                    /\ i + 1 \in 1..Len(pipe) /\ i + 1 # 1
                                    /\ i \in Int
    BY <1>s
  <1>3. Workers' = Workers /\ Finished' = Finished
    BY DEF Finished, Workers
  <1>4. \A i \in 1..Len(results') : i \in 1..Len(results) \/ i = Len(results) + 1
    BY <1>1
  <1>5. /\ \A v \in Workers : sending[v] # <<>> =>
              phase[v] = "exiting" /\ Len(sending[v]) = 1 /\ sending[v][1].worker = v
        /\ \A i \in 1..Len(results) : results[i].worker \in Finished
        /\ \A i \in 1..Len(pipe) : pipe[i].worker \in Finished
        /\ \A i, j \in 1..Len(results) : results[i].worker = results[j].worker => i = j
        /\ \A i, j \in 1..Len(pipe) : pipe[i].worker = pipe[j].worker => i = j
        /\ \A i \in 1..Len(results), j \in 1..Len(pipe) : results[i].worker # pipe[j].worker
    BY DEF ReportInv, OneResultEach
  <1>6. /\ \A i \in 1..Len(results') : results'[i].worker \in Finished
        /\ \A i \in 1..Len(pipe') : pipe'[i].worker \in Finished
    BY <1>1, <1>2, <1>4, <1>5
  <1>7. \A i, j \in 1..Len(results') : results'[i].worker = results'[j].worker => i = j
    BY <1>1, <1>2, <1>4, <1>5
  <1>8. \A i, j \in 1..Len(pipe') : pipe'[i].worker = pipe'[j].worker => i = j
    <2>1. \A i, j \in 1..Len(pipe') : pipe'[i].worker = pipe'[j].worker => i + 1 = j + 1
      BY <1>2, <1>5
    <2> QED
      BY <1>2, <2>1
  <1>9. \A i \in 1..Len(results'), j \in 1..Len(pipe') : results'[i].worker # pipe'[j].worker
    BY <1>1, <1>2, <1>4, <1>5
  <1> QED
    BY <1>3, <1>5, <1>6, <1>7, <1>8, <1>9 DEF OneResultEach

LEMMA QueueKeepsResults ==
    ASSUME ReportInv, tool' = tool, procs' = procs, [Next]_vars,
           ~\E w \in Workers : ToolWork(w)
    PROVE  OneResultEach'
  <1>1. ASSUME NEW w \in Workers, Feed(w) PROVE OneResultEach'
    BY <1>1, HandOverKeepsResults DEF Feed
  <1>2. ASSUME NEW w \in Workers, Exit(w) \/ Die(w) PROVE OneResultEach'
    <2>1. Workers' = Workers /\ UNCHANGED <<sending, pipe, results, parent>>
      BY <1>2 DEF Exit, Die, Workers
    <2>2. phase' = [phase EXCEPT ![w] = IF phase[w] = "exiting" THEN "exited" ELSE "dead"]
          /\ phase \in [Workers -> Phases]
          /\ (phase[w] = "exiting" => sending[w] = <<>>)
      BY <1>2 DEF Exit, Die, Goes, ReportInv, LoadInv, TypeInv
    <2>3. phase[w] = "exiting" \/ phase[w] \in {"loading", "running"}
      BY <1>2 DEF Exit, Die
    <2>4. Finished' = Finished
      BY <2>1, <2>2, <2>3 DEF Finished
    <2>5. \A v \in Workers : sending[v] # <<>> => phase'[v] = phase[v]
      BY <2>2, <2>3 DEF ReportInv, OneResultEach
    <2> QED
      BY <2>1, <2>4, <2>5 DEF ReportInv, OneResultEach
  <1>3. CASE Get
    <2>1. UNCHANGED <<phase, parent>> /\ parent = "getting"
      BY <1>3 DEF Get
    <2>2. \/ /\ pipe # <<>> /\ results' = Append(results, Head(pipe))
             /\ pipe' = Tail(pipe) /\ UNCHANGED sending
          \/ \E w \in Workers : /\ sending[w] # <<>>
                                /\ results' = results \o sending[w]
                                /\ sending' = [sending EXCEPT ![w] = <<>>]
                                /\ UNCHANGED pipe
      BY <1>3 DEF Get
    <2> QED
      BY <2>1, <2>2, TakeKeepsResults, HandOverKeepsResults
  <1>4. CASE StartJoin \/ Report \/ UNCHANGED vars
    <2>1. /\ Workers' = Workers /\ Finished' = Finished
          /\ UNCHANGED <<phase, sending, pipe, results>>
      BY <1>4 DEF StartJoin, Report, vars, queueVars, Workers, Finished
    <2>2. parent' # "getting" => Len(results) = procs
      BY <1>4 DEF StartJoin, Report, AllCollected, vars, queueVars, ReportInv, OneResultEach
    <2> QED
      BY <2>1, <2>2 DEF ReportInv, OneResultEach
  <1> QED
    BY <1>1, <1>2, <1>3, <1>4 DEF Next, Work, QueueWork, ParentWork, Parent, Terminated

LEMMA ReportInvInit == Init => ReportInv
  <1> SUFFICES ASSUME Init PROVE ReportInv
    OBVIOUS
  <1>1. LoadInv
    BY LoadInvInit
  <1>2. ResultTyped
    <2>1. /\ pipe \in Seq(Result) /\ results \in Seq(Result)
          /\ sending \in [Workers -> Seq(Result)]
      BY DEF Init, QueueInit
    <2>2. NoCounts \in Counts
      BY DEF NoCounts, Counts
    <2> QED
      BY <2>1, <2>2 DEF Init, LoadInit, BenchInit, ForThreads, ResultTyped
  <1>3. OneResultEach
    BY DEF Init, QueueInit, OneResultEach
  <1> QED
    BY <1>1, <1>2, <1>3 DEF ReportInv

LEMMA ReportInvStep == ReportInv /\ [Next]_vars => ReportInv'
  <1> SUFFICES ASSUME ReportInv, [Next]_vars PROVE ReportInv'
    OBVIOUS
  <1>1. tool' = tool /\ procs' = procs
    BY CommandFixed
  <1>2. LoadInv'
    BY LoadStep DEF ReportInv
  <1>3. ResultTyped'
    BY <1>1, WorkTyped, QueueTyped DEF ReportInv
  <1>4. OneResultEach'
    BY <1>1, WorkKeepsResults, QueueKeepsResults
  <1> QED
    BY <1>2, <1>3, <1>4 DEF ReportInv

LEMMA ReportInvariant == Spec => []ReportInv
  BY ReportInvInit, ReportInvStep, PTL DEF Spec

(* As many results as workers, and no worker in two of them: every worker  *)
(* is in one.                                                              *)
LEMMA AllInReport ==
    ASSUME ReportInv, parent = "reported"
    PROVE  EveryoneReported /\ \A w \in Workers : phase[w] \in {"exiting", "exited"}
  <1>1. /\ procs \in Nat \ {0} /\ results \in Seq(Result) /\ Len(results) = procs
    BY DEF ReportInv, LoadInv, TypeInv, ResultTyped, OneResultEach
  <1> DEFINE f == [i \in 1..procs |-> results[i].worker]
  <1>2. f \in Injection(1..procs, Workers)
    <2>1. \A i \in 1..procs : results[i].worker \in Workers
      BY <1>1 DEF ReportInv, OneResultEach, Finished
    <2>2. \A i, j \in 1..procs : results[i].worker = results[j].worker => i = j
      BY <1>1 DEF ReportInv, OneResultEach
    <2> QED
      BY <2>1, <2>2 DEF Injection, IsInjective
  <1>3. Cardinality(1..procs) = Cardinality(Workers) /\ IsFiniteSet(Workers)
    BY <1>1, WorkersFinite, FS_Interval
  <1>4. f \in Surjection(1..procs, Workers)
    <2> HIDE DEF f
    <2> QED
      BY <1>2, <1>3, FS_Injection
  <1>5. \A w \in Workers : \E i \in 1..procs : results[i].worker = w
    BY <1>4 DEF Surjection
  <1>6. \A w \in Workers : phase[w] \in {"exiting", "exited"}
    BY <1>1, <1>5 DEF ReportInv, OneResultEach, Finished
  <1>7. Dead = {}
    BY <1>6 DEF Dead
  <1>8. {results[i].worker : i \in DOMAIN results} = Workers
    <2>1. DOMAIN results = 1..procs
      BY <1>1
    <2> QED
      BY <1>5, <2>1, <1>1 DEF ReportInv, OneResultEach, Finished
  <1> QED
    BY <1>1, <1>6, <1>7, <1>8 DEF EveryoneReported

(* Both tools: the report is made of one result of every worker, and is    *)
(* not printed when one died.                                              *)
THEOREM ReportIsOfEveryone == Spec => [](parent = "reported" => EveryoneReported)
  <1>1. ReportInv => (parent = "reported" => EveryoneReported)
    BY AllInReport
  <1> QED
    BY <1>1, ReportInvariant, PTL

(* A row is in the share of one worker: its index modulo their number.     *)
LEMMA ShardsPartition ==
    ASSUME procs \in Nat \ {0}, NEW i \in DOMAIN Rows
    PROVE  (i - 1) % procs \in Workers /\ \A w \in Workers : i \in Shard(w) <=> w = (i - 1) % procs
  <1>1. i - 1 \in Nat
    BY LoadGenAssumption
  <1>2. (i - 1) % procs \in 0..(procs - 1)
    BY <1>1
  <1> QED
    BY <1>2 DEF Workers, Shard

(* The load generator's report is printed only when every row of the files *)
(* was written, each by one worker.                                        *)
THEOREM ReportsAreComplete == Spec => []ReportComplete
  <1>1. ReportInv => ReportComplete
    <2> SUFFICES ASSUME ReportInv, tool = "loadgen", parent = "reported"
                 PROVE  /\ EveryoneReported
                        /\ \A i \in DOMAIN Rows : \E w \in Workers :
                              \A v \in Workers : i \in issued[v] <=> v = w
      BY DEF ReportComplete
    <2>1. EveryoneReported /\ \A w \in Workers : issued[w] = Shard(w)
      BY AllInReport DEF ReportInv, LoadInv, ShareWritten
    <2> QED
      BY <2>1, ShardsPartition DEF ReportInv, LoadInv, TypeInv
  <1> QED
    BY <1>1, ReportInvariant, PTL
-----------------------------------------------------------------------------
(* Sums. The totals of a report are folds over its results, and what the   *)
(* threads met a fold over threads and workers. A fold is evaluated along  *)
(* a recursive function over the subsets of a set; what is known of a sum  *)
(* follows from that function, as for the windows in Replay_proofs.        *)

Pick(s) == CHOOSE x \in s : TRUE

(* F gives for each set of SS what f adds up to over it.                   *)
IsSumOver(F, f, SS) ==
    F = [s \in SS |-> IF s = {} THEN 0 ELSE f[Pick(s)] + F[s \ {Pick(s)}]]

(* Of the finite sets that violate something one is minimal: the induction *)
(* over finite sets the proofs below use.                                  *)
LEMMA MinimalSet ==
    ASSUME NEW S, IsFiniteSet(S), NEW Bad \in SUBSET (SUBSET S), Bad # {}
    PROVE  \E t \in Bad : \A u \in Bad : u \subseteq t => u = t
  <1>1. Bad \in SUBSET FiniteSubsetsOf(S)
    BY FS_Subset DEF FiniteSubsetsOf
  <1>2. PICK t \in Bad : \A u \in Bad : ~(<<u, t>> \in StrictSubsetOrdering(S))
    BY <1>1, FS_StrictSubsetOrderingWellFounded, WFMin
  <1>3. ASSUME NEW u \in Bad, u \subseteq t, u # t
        PROVE  FALSE
    BY <1>2, <1>3, Zenon DEF StrictSubsetOrdering
  <1> QED
    BY <1>3

LEMMA PickFacts ==
    ASSUME NEW s, s # {}
    PROVE  Pick(s) \in s
  BY DEF Pick

(* The function a fold is evaluated along exists: it is built set size by  *)
(* set size.                                                               *)
LEMMA SumExists ==
    ASSUME NEW S, IsFiniteSet(S), NEW f
    PROVE  \E F : IsSumOver(F, f, SUBSET S)
  <1> DEFINE Sized(n) == {s \in SUBSET S : Cardinality(s) <= n}
             Missing == {n \in Nat : ~\E F : IsSumOver(F, f, Sized(n))}
  <1>1. \A s \in SUBSET S : IsFiniteSet(s) /\ Cardinality(s) \in Nat
    BY FS_Subset, FS_CardinalityType
  <1>2. ASSUME NEW n \in Nat, n > 0, NEW s \in Sized(n), s # {}
        PROVE  s \ {Pick(s)} \in Sized(n - 1)
    <2>1. Cardinality(s \ {Pick(s)}) = Cardinality(s) - 1
      BY <1>1, <1>2, PickFacts, FS_RemoveElement
    <2> QED
      BY <1>1, <1>2, <2>1
  <1>3. \A s \in Sized(0) : s = {}
    BY <1>1, FS_EmptySet
  <1>4. Missing = {}
    <2> SUFFICES ASSUME Missing # {} PROVE FALSE
      OBVIOUS
    <2>1. PICK n \in Missing : \A m \in Missing : n <= m
      <3>1. Missing \in SUBSET Nat
        OBVIOUS
      <3> HIDE DEF Missing
      <3> QED
        BY <3>1, LeastNatural
    <2>2. CASE n = 0
      <3>1. IsSumOver([s \in Sized(0) |-> 0], f, Sized(0))
        <4> HIDE DEF Sized
        <4> QED
          BY <1>3 DEF IsSumOver
      <3> QED
        BY <2>1, <2>2, <3>1
    <2>3. CASE n # 0
      <3>1. n \in Nat /\ n - 1 \in Nat /\ n > 0 /\ n - 1 \notin Missing
        <4>1. n \in Nat
          OBVIOUS
        <4> HIDE DEF Missing
        <4> QED
          BY <2>1, <2>3, <4>1
      <3>2. PICK F : IsSumOver(F, f, Sized(n - 1))
        BY <3>1
      <3> DEFINE G == [s \in Sized(n) |->
                          IF s = {} THEN 0 ELSE f[Pick(s)] + F[s \ {Pick(s)}]]
      <3>3. \A s \in Sized(n - 1) : s \in Sized(n)
        BY <1>1, <3>1
      <3>4. \A s \in Sized(n) : s # {} => s \ {Pick(s)} \in Sized(n - 1)
        BY <1>2, <3>1
      <3> HIDE DEF Sized
      <3>5. \A s \in Sized(n - 1) : G[s] = F[s]
        BY <3>2, <3>3 DEF IsSumOver
      <3>6. \A s \in Sized(n) : s # {} => G[s \ {Pick(s)}] = F[s \ {Pick(s)}]
        BY <3>4, <3>5
      <3>7. IsSumOver(G, f, Sized(n))
        BY <3>6 DEF IsSumOver
      <3> QED
        BY <2>1, <3>7
    <2> QED
      BY <2>2, <2>3
  <1>5. Cardinality(S) \in Nat
    BY FS_CardinalityType
  <1>6. SUBSET S = Sized(Cardinality(S))
    BY FS_Subset
  <1>7. PICK F : IsSumOver(F, f, Sized(Cardinality(S)))
    BY <1>4, <1>5
  <1> QED
    <2> HIDE DEF Sized
    <2> QED
      BY <1>6, <1>7

(* The function of a sum, unfolded once.                                   *)
Unfolds(F, f, S) ==
    \A s \in SUBSET S :
        s # {} => Pick(s) \in s /\ F[s] = f[Pick(s)] + F[s \ {Pick(s)}]

LEMMA SumUnfolds ==
    ASSUME NEW S, NEW f, NEW F, IsSumOver(F, f, SUBSET S)
    PROVE  F[{}] = 0 /\ Unfolds(F, f, S)
  <1>1. \A s \in SUBSET S :
           F[s] = IF s = {} THEN 0 ELSE f[Pick(s)] + F[s \ {Pick(s)}]
    BY DEF IsSumOver
  <1> QED
    BY <1>1, PickFacts DEF Unfolds

Integral(F, S) == \A s \in SUBSET S : F[s] \in Int

LEMMA SumType ==
    ASSUME NEW S, IsFiniteSet(S), NEW f, \A x \in S : f[x] \in Int,
           NEW F, IsSumOver(F, f, SUBSET S)
    PROVE  Integral(F, S)
  <1> DEFINE Bad == {s \in SUBSET S : F[s] \notin Int}
  <1> SUFFICES ASSUME Bad # {} PROVE FALSE
    BY DEF Integral
  <1>1. PICK t \in Bad : \A u \in Bad : u \subseteq t => u = t
    <2>1. Bad \in SUBSET (SUBSET S)
      OBVIOUS
    <2> HIDE DEF Bad
    <2> QED
      BY <2>1, MinimalSet
  <1>2. t \in SUBSET S /\ F[t] \notin Int
    OBVIOUS
  <1>3. F[{}] = 0 /\ Unfolds(F, f, S)
    BY SumUnfolds
  <1>4. ASSUME t = {} PROVE FALSE
    <2>1. F[t] = 0
      BY <1>3, <1>4
    <2> QED
      BY <1>2, <2>1
  <1>5. Pick(t) \in t /\ F[t] = f[Pick(t)] + F[t \ {Pick(t)}]
    BY <1>2, <1>3, <1>4 DEF Unfolds
  <1>6. t \ {Pick(t)} \notin Bad
    <2> HIDE DEF Bad
    <2> QED
      BY <1>1, <1>5
  <1>7. F[t \ {Pick(t)}] \in Int
    BY <1>6
  <1> QED
    BY <1>2, <1>5, <1>7

(* The order in which a sum takes its terms does not matter.               *)
TakesAny(F, f, S) == \A s \in SUBSET S : \A x \in s : F[s] = f[x] + F[s \ {x}]

LEMMA SumTakes ==
    ASSUME NEW S, IsFiniteSet(S), NEW f, \A x \in S : f[x] \in Int,
           NEW F, IsSumOver(F, f, SUBSET S)
    PROVE  TakesAny(F, f, S)
  <1> DEFINE Bad == {s \in SUBSET S : ~\A x \in s : F[s] = f[x] + F[s \ {x}]}
  <1> SUFFICES ASSUME Bad # {} PROVE FALSE
    BY DEF TakesAny
  <1>1. PICK t \in Bad : \A u \in Bad : u \subseteq t => u = t
    <2>1. Bad \in SUBSET (SUBSET S)
      OBVIOUS
    <2> HIDE DEF Bad
    <2> QED
      BY <2>1, MinimalSet
  <1>2. PICK x \in t : F[t] # f[x] + F[t \ {x}]
    OBVIOUS
  <1>3. t \in SUBSET S /\ t # {}
    BY <1>2
  <1>4. PICK c \in t : F[t] = f[c] + F[t \ {c}]
    <2>1. Unfolds(F, f, S)
      BY SumUnfolds
    <2>2. Pick(t) \in t /\ F[t] = f[Pick(t)] + F[t \ {Pick(t)}]
      BY <1>3, <2>1 DEF Unfolds
    <2> QED
      BY <2>2
  <1>5. c # x /\ t \ {c} \notin Bad /\ t \ {x} \notin Bad
    <2> HIDE DEF Bad
    <2> QED
      BY <1>1, <1>2, <1>4
  <1>6. /\ F[t \ {c}] = f[x] + F[(t \ {c}) \ {x}]
        /\ F[t \ {x}] = f[c] + F[(t \ {x}) \ {c}]
    BY <1>3, <1>5
  <1>7. (t \ {c}) \ {x} = (t \ {x}) \ {c} /\ (t \ {x}) \ {c} \in SUBSET S
    OBVIOUS
  <1>8. f[c] \in Int /\ f[x] \in Int /\ F[(t \ {x}) \ {c}] \in Int
    <2>1. Integral(F, S)
      BY SumType
    <2>2. c \in S /\ x \in S
      BY <1>3
    <2> QED
      BY <1>7, <2>1, <2>2 DEF Integral
  <1>9. F[t] = f[x] + F[t \ {x}]
    <2> HIDE DEF Bad
    <2>1. F[t] = f[c] + (f[x] + F[(t \ {x}) \ {c}])
      BY <1>4, <1>6, <1>7
    <2> QED
      BY <1>6, <1>8, <2>1
  <1> QED
    BY <1>2, <1>9

(* Two sums agree on a set on which their terms do.                        *)
Agree(f, F, S, g, G, T, A) ==
    /\ IsFiniteSet(A) /\ A \subseteq S /\ A \subseteq T
    /\ \A x \in A : f[x] = g[x]
    /\ IsSumOver(F, f, SUBSET S) /\ IsSumOver(G, g, SUBSET T)

LEMMA SumAgrees ==
    ASSUME NEW S, NEW T, NEW A, NEW f, NEW F, NEW g, NEW G, Agree(f, F, S, g, G, T, A)
    PROVE  F[A] = G[A]
  <1> DEFINE Bad == {s \in SUBSET A : F[s] # G[s]}
  <1> SUFFICES ASSUME Bad # {} PROVE FALSE
    OBVIOUS
  <1>1. PICK t \in Bad : \A u \in Bad : u \subseteq t => u = t
    <2>1. Bad \in SUBSET (SUBSET A) /\ IsFiniteSet(A)
      BY DEF Agree
    <2> HIDE DEF Bad
    <2> QED
      BY <2>1, MinimalSet
  <1>2. t \in SUBSET S /\ t \in SUBSET T /\ t \in SUBSET A /\ F[t] # G[t]
    BY DEF Agree
  <1>3. /\ F[{}] = 0 /\ Unfolds(F, f, S)
        /\ G[{}] = 0 /\ Unfolds(G, g, T)
    BY SumUnfolds DEF Agree
  <1>4. t # {}
    BY <1>2, <1>3
  <1>5. /\ Pick(t) \in t
        /\ F[t] = f[Pick(t)] + F[t \ {Pick(t)}]
        /\ G[t] = g[Pick(t)] + G[t \ {Pick(t)}]
    BY <1>2, <1>3, <1>4 DEF Unfolds
  <1>6. t \ {Pick(t)} \notin Bad
    <2> HIDE DEF Bad
    <2> QED
      BY <1>1, <1>5
  <1>7. F[t \ {Pick(t)}] = G[t \ {Pick(t)}]
    BY <1>2, <1>6
  <1>8. f[Pick(t)] = g[Pick(t)]
    BY <1>2, <1>5 DEF Agree
  <1> QED
    BY <1>2, <1>5, <1>7, <1>8

(* The terms f, a function with a finite domain, add up to v.              *)
Terms(f) == IsFiniteSet(DOMAIN f) /\ \A x \in DOMAIN f : f[x] \in Int

AddsUp(f, v) == \E F : IsSumOver(F, f, SUBSET DOMAIN f) /\ v = F[DOMAIN f]

LEMMA SumOfNothing ==
    ASSUME NEW f, DOMAIN f = {}, NEW v, AddsUp(f, v)
    PROVE  v = 0
  BY SumUnfolds DEF AddsUp

LEMMA SumIsUnique ==
    ASSUME NEW f, Terms(f), NEW v, AddsUp(f, v), NEW w, AddsUp(f, w)
    PROVE  v = w
  <1> DEFINE S == DOMAIN f
  <1>1. PICK F : IsSumOver(F, f, SUBSET S) /\ v = F[S]
    BY DEF AddsUp
  <1>2. PICK G : IsSumOver(G, f, SUBSET S) /\ w = G[S]
    BY DEF AddsUp
  <1>3. Agree(f, F, S, f, G, S, S)
    BY <1>1, <1>2 DEF Terms, Agree
  <1>4. F[S] = G[S]
    <2> HIDE DEF S
    <2> QED
      BY <1>3, SumAgrees
  <1> QED
    BY <1>1, <1>2, <1>4

(* A sum of which one term is new, or changes.                             *)
Becomes(f, g, x) ==
    /\ DOMAIN g = DOMAIN f \cup {x}
    /\ \A y \in DOMAIN f \ {x} : g[y] = f[y]

(* One term is new, or changes.                                            *)
LEMMA SumChanges ==
    ASSUME NEW f, Terms(f), NEW v, AddsUp(f, v),
           NEW g, Terms(g), NEW w, AddsUp(g, w),
           NEW x, DOMAIN g = DOMAIN f \cup {x},
           \A y \in DOMAIN f \ {x} : g[y] = f[y]
    PROVE  /\ v \in Int
           /\ w = v + g[x] - (IF x \in DOMAIN f THEN f[x] ELSE 0)
  <1> DEFINE S == DOMAIN f
             T == DOMAIN g
             A == S \ {x}
  <1>1. PICK F : IsSumOver(F, f, SUBSET S) /\ v = F[S]
    BY DEF AddsUp
  <1>2. PICK G : IsSumOver(G, g, SUBSET T) /\ w = G[T]
    BY DEF AddsUp
  <1>3. F[A] = G[A]
    <2>1. IsFiniteSet(A)
      BY FS_Subset DEF Terms
    <2>2. Agree(f, F, S, g, G, T, A)
      BY <1>1, <1>2, <2>1 DEF Agree
    <2> HIDE DEF A, S, T
    <2> QED
      BY <2>2, SumAgrees
  <1>4. TakesAny(F, f, S) /\ TakesAny(G, g, T) /\ Integral(F, S)
    BY <1>1, <1>2, SumTakes, SumType DEF Terms
  <1>5. w = g[x] + G[A]
    <2>1. T \ {x} = A /\ x \in T
      OBVIOUS
    <2>2. G[T] = g[x] + G[T \ {x}]
      BY <1>4, <2>1 DEF TakesAny
    <2> HIDE DEF A, S, T
    <2> QED
      BY <1>2, <2>1, <2>2
  <1>6. v = F[A] + (IF x \in S THEN f[x] ELSE 0) /\ F[A] \in Int /\ v \in Int
    <2>1. F[A] \in Int /\ F[S] \in Int
      BY <1>4 DEF Integral
    <2>2. CASE x \in S
      <3>1. F[S] = f[x] + F[A]
        BY <1>4, <2>2 DEF TakesAny
      <3>2. f[x] \in Int
        BY <2>2 DEF Terms
      <3> HIDE DEF A
      <3> QED
        BY <1>1, <2>1, <2>2, <3>1, <3>2
    <2>3. CASE x \notin S
      <3>1. A = S
        BY <2>3
      <3> QED
        BY <1>1, <2>1, <2>3, <3>1
    <2> QED
      BY <2>2, <2>3
  <1>7. g[x] \in Int /\ (x \in S => f[x] \in Int)
    BY DEF Terms
  <1> HIDE DEF A
  <1> QED
    BY <1>3, <1>5, <1>6, <1>7

LEMMA SumFollows ==
    ASSUME NEW f, Terms(f), NEW v, AddsUp(f, v),
           NEW g, Terms(g), NEW x, Becomes(f, g, x)
    PROVE  AddsUp(g, v + g[x] - (IF x \in DOMAIN f THEN f[x] ELSE 0))
  <1>1. PICK G : IsSumOver(G, g, SUBSET DOMAIN g)
    BY SumExists DEF Terms
  <1>2. AddsUp(g, G[DOMAIN g])
    BY <1>1 DEF AddsUp
  <1> DEFINE w == G[DOMAIN g]
  <1> HIDE DEF w
  <1>3. w = v + g[x] - (IF x \in DOMAIN f THEN f[x] ELSE 0)
    BY <1>2, SumChanges DEF Becomes, w
  <1> QED
    BY <1>2, <1>3 DEF w

LEMMA SumOfNoTerms ==
    ASSUME NEW f, DOMAIN f = {}
    PROVE  AddsUp(f, 0)
  <1>1. PICK F : IsSumOver(F, f, SUBSET {})
    BY SumExists, FS_EmptySet
  <1>2. F[{}] = 0
    BY <1>1, SumUnfolds
  <1> QED
    BY <1>1, <1>2 DEF AddsUp

LEMMA SumIsIntegral ==
    ASSUME NEW f, Terms(f), NEW v, AddsUp(f, v)
    PROVE  v \in Int
  <1>1. PICK F : IsSumOver(F, f, SUBSET DOMAIN f) /\ v = F[DOMAIN f]
    BY DEF AddsUp
  <1>2. Integral(F, DOMAIN f)
    BY <1>1, SumType DEF Terms
  <1> QED
    BY <1>1, <1>2 DEF Integral

(* A sum over indices is the sum over what they index, if each is indexed  *)
(* once.                                                                   *)
Indexes(h, I, R) ==
    /\ R = {h[i] : i \in I}
    /\ \A i, j \in I : h[i] = h[j] => i = j

LEMMA SumReindexed ==
    ASSUME NEW f, Terms(f), NEW v, AddsUp(f, v),
           NEW g, Terms(g), NEW w, AddsUp(g, w),
           NEW h, Indexes(h, DOMAIN f, DOMAIN g), \A i \in DOMAIN f : f[i] = g[h[i]]
    PROVE  v = w
  <1> DEFINE S == DOMAIN f
             T == DOMAIN g
             img(s) == {h[i] : i \in s}
  <1>1. PICK F : IsSumOver(F, f, SUBSET S) /\ v = F[S]
    BY DEF AddsUp
  <1>2. PICK G : IsSumOver(G, g, SUBSET T) /\ w = G[T]
    BY DEF AddsUp
  <1>3. T = img(S) /\ \A i, j \in S : h[i] = h[j] => i = j
    BY DEF Indexes
  <1> DEFINE Bad == {s \in SUBSET S : F[s] # G[img(s)]}
  <1> SUFFICES ASSUME Bad # {} PROVE FALSE
    BY <1>1, <1>2, <1>3
  <1>4. PICK t \in Bad : \A u \in Bad : u \subseteq t => u = t
    <2>1. Bad \in SUBSET (SUBSET S) /\ IsFiniteSet(S)
      BY DEF Terms
    <2> HIDE DEF Bad, S
    <2> QED
      BY <2>1, MinimalSet
  <1>5. t \in SUBSET S /\ F[t] # G[img(t)]
    OBVIOUS
  <1>6. F[{}] = 0 /\ Unfolds(F, f, S) /\ G[{}] = 0 /\ TakesAny(G, g, T)
    BY <1>1, <1>2, SumUnfolds, SumTakes DEF Terms
  <1>7. t # {}
    <2> SUFFICES ASSUME t = {} PROVE F[t] = G[img(t)]
      BY <1>5
    <2>1. img(t) = {}
      OBVIOUS
    <2> HIDE DEF Bad, img
    <2> QED
      BY <1>6, <2>1
  <1> DEFINE p == Pick(t)
             u == t \ {p}
  <1>8. p \in t /\ F[t] = f[p] + F[u]
    BY <1>5, <1>6, <1>7 DEF Unfolds
  <1>9. F[u] = G[img(u)]
    <2>1. u \in SUBSET S /\ u # t /\ u \subseteq t
      BY <1>5, <1>8
    <2>2. u \notin Bad
      <3> HIDE DEF Bad, u
      <3> QED
        BY <1>4, <2>1
    <2> QED
      BY <2>1, <2>2
  <1>10. img(u) = img(t) \ {h[p]} /\ h[p] \in img(t) /\ img(t) \in SUBSET T
    BY <1>3, <1>5, <1>8
  <1> HIDE DEF Bad, img, p, u
  <1>11. G[img(t)] = g[h[p]] + G[img(t) \ {h[p]}]
    BY <1>6, <1>10 DEF TakesAny
  <1>12. f[p] = g[h[p]]
    BY <1>5, <1>8
  <1> QED
    BY <1>5, <1>8, <1>9, <1>10, <1>11, <1>12

(* Terms that are sums of two others.                                      *)
LEMMA SumOfBoth ==
    ASSUME NEW f, Terms(f), NEW v, AddsUp(f, v),
           NEW g, Terms(g), NEW w, AddsUp(g, w), DOMAIN g = DOMAIN f,
           NEW h, h = [x \in DOMAIN f |-> f[x] + g[x]]
    PROVE  Terms(h) /\ AddsUp(h, v + w)
  <1> DEFINE S == DOMAIN f
  <1>1. PICK F : IsSumOver(F, f, SUBSET S) /\ v = F[S]
    BY DEF AddsUp
  <1>2. PICK G : IsSumOver(G, g, SUBSET S) /\ w = G[S]
    BY DEF AddsUp
  <1>3. Terms(h) /\ DOMAIN h = S /\ IsFiniteSet(S)
    BY DEF Terms
  <1>4. PICK H : IsSumOver(H, h, SUBSET S)
    BY <1>3, SumExists
  <1> DEFINE Bad == {s \in SUBSET S : H[s] # F[s] + G[s]}
  <1>5. Bad = {}
    <2> SUFFICES ASSUME Bad # {} PROVE FALSE
      OBVIOUS
    <2>1. PICK t \in Bad : \A u \in Bad : u \subseteq t => u = t
      <3>1. Bad \in SUBSET (SUBSET S)
        OBVIOUS
      <3> HIDE DEF Bad, S
      <3> QED
        BY <1>3, <3>1, MinimalSet
    <2>2. t \in SUBSET S /\ H[t] # F[t] + G[t]
      OBVIOUS
    <2> HIDE DEF Bad
    <2>3. /\ F[{}] = 0 /\ G[{}] = 0 /\ H[{}] = 0
          /\ Unfolds(F, f, S) /\ Unfolds(G, g, S) /\ Unfolds(H, h, S)
      BY <1>1, <1>2, <1>4, SumUnfolds
    <2>4. t # {}
      BY <2>2, <2>3
    <2> DEFINE p == Pick(t)
               u == t \ {p}
    <2>5. /\ p \in t /\ F[t] = f[p] + F[u] /\ G[t] = g[p] + G[u] /\ H[t] = h[p] + H[u]
      BY <2>2, <2>3, <2>4 DEF Unfolds
    <2>6. u \in SUBSET S /\ u \notin Bad
      BY <2>1, <2>2, <2>5
    <2>7. H[u] = F[u] + G[u]
      BY <2>6 DEF Bad
    <2>8. Integral(F, S) /\ Integral(G, S)
      <3>1. (\A x \in S : f[x] \in Int) /\ (\A x \in S : g[x] \in Int)
        BY DEF Terms
      <3> QED
        BY <1>1, <1>2, <1>3, <3>1, SumType
    <2>9. /\ F[u] \in Int /\ G[u] \in Int /\ f[p] \in Int /\ g[p] \in Int
          /\ h[p] = f[p] + g[p]
      BY <2>2, <2>5, <2>6, <2>8 DEF Integral, Terms
    <2> HIDE DEF p, u
    <2> QED
      BY <2>2, <2>5, <2>7, <2>9
  <1>6. H[S] = F[S] + G[S]
    BY <1>5
  <1> QED
    BY <1>1, <1>2, <1>3, <1>4, <1>6 DEF AddsUp

(* Equal terms.                                                            *)
LEMMA SumOfEqual ==
    ASSUME NEW f, Terms(f), NEW v, AddsUp(f, v),
           NEW c \in Int, \A x \in DOMAIN f : f[x] = c
    PROVE  v = Cardinality(DOMAIN f) * c
  <1> DEFINE S == DOMAIN f
  <1>1. PICK F : IsSumOver(F, f, SUBSET S) /\ v = F[S]
    BY DEF AddsUp
  <1>2. IsFiniteSet(S)
    BY DEF Terms
  <1> DEFINE Bad == {s \in SUBSET S : F[s] # Cardinality(s) * c}
  <1> SUFFICES ASSUME Bad # {} PROVE FALSE
    BY <1>1
  <1>3. PICK t \in Bad : \A u \in Bad : u \subseteq t => u = t
    <2>1. Bad \in SUBSET (SUBSET S)
      OBVIOUS
    <2> HIDE DEF Bad, S
    <2> QED
      BY <1>2, <2>1, MinimalSet
  <1>4. t \in SUBSET S /\ F[t] # Cardinality(t) * c
    OBVIOUS
  <1> HIDE DEF Bad
  <1>5. F[{}] = 0 /\ Unfolds(F, f, S)
    BY <1>1, SumUnfolds
  <1>6. t # {}
    <2>1. Cardinality({}) = 0 /\ 0 * c = 0
      BY FS_EmptySet
    <2> QED
      BY <1>4, <1>5, <2>1
  <1> DEFINE p == Pick(t)
             u == t \ {p}
  <1>7. p \in t /\ F[t] = f[p] + F[u]
    BY <1>4, <1>5, <1>6 DEF Unfolds
  <1>8. u \in SUBSET S /\ u \notin Bad
    BY <1>3, <1>4, <1>7
  <1>9. F[u] = Cardinality(u) * c /\ f[p] = c
    BY <1>4, <1>7, <1>8 DEF Bad
  <1>10. IsFiniteSet(t) /\ Cardinality(t) \in Nat /\ Cardinality(u) = Cardinality(t) - 1
    BY <1>2, <1>4, <1>7, FS_Subset, FS_CardinalityType, FS_RemoveElement
  <1> DEFINE n == Cardinality(t)
  <1> HIDE DEF p, u, n
  <1>11. F[t] = c + (n - 1) * c /\ n \in Int
    BY <1>7, <1>9, <1>10 DEF n
  <1>12. c + (n - 1) * c = n * c
    BY <1>11
  <1> QED
    BY <1>4, <1>11, <1>12 DEF n

(* Terms that are each short, by no more than L, of the size of a set of   *)
(* their own.                                                              *)
Apart(U) == \A x, y \in DOMAIN U : x # y => U[x] \cap U[y] = {}
AllOf(U, D) == UNION {U[x] : x \in D}
Short(f, U, L) ==
    \A x \in DOMAIN f :
        /\ IsFiniteSet(U[x])
        /\ Cardinality(U[x]) - L <= f[x] /\ f[x] <= Cardinality(U[x])

LEMMA SumOfShort ==
    ASSUME NEW f, Terms(f), NEW v, AddsUp(f, v), NEW L \in Nat,
           NEW U, DOMAIN U = DOMAIN f, Apart(U), Short(f, U, L)
    PROVE  /\ Cardinality(AllOf(U, DOMAIN f)) - Cardinality(DOMAIN f) * L <= v
           /\ v <= Cardinality(AllOf(U, DOMAIN f))
  <1> DEFINE S == DOMAIN f
             All(s) == AllOf(U, s)
             Fine(s, y) == /\ IsFiniteSet(All(s))
                           /\ Cardinality(All(s)) - Cardinality(s) * L <= y
                           /\ y <= Cardinality(All(s))
  <1>1. PICK F : IsSumOver(F, f, SUBSET S) /\ v = F[S]
    BY DEF AddsUp
  <1>2. IsFiniteSet(S)
    BY DEF Terms
  <1> DEFINE Bad == {s \in SUBSET S : ~Fine(s, F[s])}
  <1>b. ASSUME Bad # {} PROVE FALSE
    <2>1. PICK t \in Bad : \A u \in Bad : u \subseteq t => u = t
      <3>1. Bad \in SUBSET (SUBSET S)
        OBVIOUS
      <3> HIDE DEF Bad, S
      <3> QED
        BY <1>2, <1>b, <3>1, MinimalSet
    <2>2. t \in SUBSET S /\ ~Fine(t, F[t])
      OBVIOUS
    <2> HIDE DEF Bad
    <2>3. F[{}] = 0 /\ Unfolds(F, f, S)
      BY <1>1, SumUnfolds
    <2>4. t # {}
      <3> SUFFICES ASSUME t = {} PROVE Fine(t, F[t])
        BY <2>2
      <3>1. All(t) = {}
        BY DEF AllOf
      <3> HIDE DEF All
      <3> QED
        BY <2>3, <3>1, FS_EmptySet
    <2> DEFINE p == Pick(t)
               u == t \ {p}
    <2>5. p \in t /\ F[t] = f[p] + F[u]
      BY <2>2, <2>3, <2>4 DEF Unfolds
    <2>6. u \in SUBSET S /\ u \notin Bad
      BY <2>1, <2>2, <2>5
    <2>7. Fine(u, F[u])
      BY <2>6 DEF Bad
    <2>8. All(t) = All(u) \cup U[p] /\ All(u) \cap U[p] = {}
      <3>1. \A x \in u : U[x] \cap U[p] = {}
        BY <2>2, <2>5 DEF Apart
      <3> QED
        BY <2>5, <3>1 DEF AllOf
    <2>9. /\ IsFiniteSet(U[p]) /\ f[p] \in Int
          /\ Cardinality(U[p]) - L <= f[p] /\ f[p] <= Cardinality(U[p])
      BY <2>2, <2>5 DEF Short, Terms
    <2>10. /\ IsFiniteSet(t) /\ Cardinality(t) \in Nat
           /\ Cardinality(u) = Cardinality(t) - 1
      BY <1>2, <2>2, <2>5, FS_Subset, FS_CardinalityType, FS_RemoveElement
    <2>11. F[u] \in Int
      <3>1. Integral(F, S)
        BY <1>1, SumType DEF Terms
      <3> QED
        BY <2>6, <3>1 DEF Integral
    <2> DEFINE a == All(u)
               b == U[p]
    <2> HIDE DEF All, p, u
    <2>12. /\ IsFiniteSet(All(t)) /\ Cardinality(a) \in Nat /\ Cardinality(b) \in Nat
           /\ Cardinality(All(t)) = Cardinality(a) + Cardinality(b)
      <3>1. IsFiniteSet(a) /\ IsFiniteSet(b) /\ a \cap b = {} /\ All(t) = a \cup b
        BY <2>7, <2>8, <2>9
      <3> HIDE DEF a, b
      <3>2. Cardinality(a \cap b) = 0
        BY <3>1, FS_EmptySet
      <3>3. /\ IsFiniteSet(a \cup b) /\ Cardinality(a) \in Nat /\ Cardinality(b) \in Nat
            /\ Cardinality(a \cup b) = Cardinality(a) + Cardinality(b) - Cardinality(a \cap b)
        BY <3>1, FS_Union, FS_CardinalityType
      <3> QED
        BY <3>1, <3>2, <3>3
    <2> DEFINE n == Cardinality(t)
    <2>n. n \in Int
      BY <2>10
    <2> HIDE DEF n
    <2>13. (n - 1) * L + L = n * L /\ n * L \in Int /\ (n - 1) * L \in Int
      BY <2>n
    <2>14. Cardinality(a) - (n - 1) * L <= F[u] /\ F[u] <= Cardinality(a)
      BY <2>7, <2>10 DEF n
    <2>15. Cardinality(All(t)) - n * L <= F[t] /\ F[t] <= Cardinality(All(t))
      BY <2>5, <2>9, <2>11, <2>12, <2>13, <2>14
    <2> QED
      BY <2>2, <2>12, <2>15 DEF n
  <1>3. Fine(S, F[S])
    BY <1>b
  <1> QED
    BY <1>1, <1>3

-----------------------------------------------------------------------------
(* What a result says. A result of the load generator is what its worker's *)
(* counters stood at, and they stand still once it is on the queue; one of *)
(* the benchmark is the sums of its worker, which no thread changes any    *)
(* more.                                                                   *)
LoadFits(r) == r.worker \in Workers /\ r = Totals(r.worker)

BenchFits(r) ==
    /\ r \in [worker : Workers, lat : Int, miss : Int, err : Int]
    /\ r.lat = counts[r.worker].lat
    /\ r.miss = counts[r.worker].miss
    /\ r.err = counts[r.worker].err

Fits(r) == IF tool = "loadgen" THEN LoadFits(r) ELSE BenchFits(r)

Items(s) == {s[i] : i \in DOMAIN s}
Queued == Items(results) \cup Items(pipe) \cup UNION {Items(sending[w]) : w \in Workers}

ResultsFit == \A r \in Queued : Fits(r)

(* The sums of a worker: those of the threads that finished, which merged  *)
(* one at a time, each into the sums it had seen.                          *)
ThreadStates == {"ready", "read", "merging", "finished"}
Fields == {"lat", "miss", "err"}
Done(w) == {t \in ThreadIds : thread[w][t] = "finished"}
Met(w, field) == [t \in Done(w) |-> local[w][t][field]]

WorkerSums(w) ==
    /\ \A t \in ThreadIds :
          thread[w][t] # "ready" => local[w][t].lat + local[w][t].err = PerThread
    /\ \A t, u \in ThreadIds :
          thread[w][t] = "merging" /\ thread[w][u] = "merging" => t = u
    /\ \A t \in ThreadIds : thread[w][t] = "merging" =>
          seen[w][t].miss = counts[w].miss /\ seen[w][t].err = counts[w].err
    /\ \A field \in Fields : AddsUp(Met(w, field), counts[w][field])
    /\ tool = "bench" /\ phase[w] \in {"exiting", "exited"} => Joined(w)

SumsInv ==
    /\ thread \in [Workers -> [ThreadIds -> ThreadStates]]
    /\ \A w \in Workers : WorkerSums(w)

(* A row is counted, or has failed, after its request ended, and all have  *)
(* ended before a worker puts its totals on the queue.                     *)
RowsInOrder ==
    \A w \in Workers :
        /\ failed[w] \subseteq answered[w] /\ counted[w] \subseteq answered[w]
        /\ answered[w] \subseteq issued[w]
        /\ tool = "loadgen" /\ phase[w] \in {"exiting", "exited"} => answered[w] = issued[w]

AccountInv == ReportInv /\ RowsInOrder /\ ResultsFit /\ SumsInv

LEMMA AccountInvInit == Init => AccountInv
  <1> SUFFICES ASSUME Init PROVE AccountInv
    OBVIOUS
  <1>1. ReportInv
    BY ReportInvInit
  <1>2. ResultsFit /\ RowsInOrder
    BY DEF Init, QueueInit, LoadInit, ResultsFit, Queued, Items, RowsInOrder
  <1>3. thread \in [Workers -> [ThreadIds -> ThreadStates]]
    BY DEF Init, BenchInit, ForThreads, ThreadStates
  <1>4. ASSUME NEW w \in Workers PROVE WorkerSums(w)
    <2>1. \A t \in ThreadIds : thread[w][t] = "ready"
      BY DEF Init, BenchInit, ForThreads
    <2>2. \A field : DOMAIN Met(w, field) = {}
      BY <2>1 DEF Met, Done
    <2>3. \A field \in Fields : counts[w][field] = 0
      BY DEF Init, BenchInit, NoCounts, Fields
    <2>4. \A field \in Fields : AddsUp(Met(w, field), counts[w][field])
      BY <2>2, <2>3, SumOfNoTerms
    <2>5. phase[w] = "loading"
      BY DEF Init, QueueInit
    <2> QED
      BY <2>1, <2>4, <2>5 DEF WorkerSums
  <1> QED
    BY <1>1, <1>2, <1>3, <1>4 DEF AccountInv, SumsInv

(* What is met so far has the type of a sum's terms.                       *)
LEMMA MetTerms ==
    ASSUME ResultTyped, NEW w \in Workers, NEW field \in Fields
    PROVE  Terms(Met(w, field)) /\ DOMAIN Met(w, field) = Done(w)
  <1>1. IsFiniteSet(ThreadIds)
    BY BenchAssumption, FS_Interval DEF ThreadIds
  <1>2. IsFiniteSet(Done(w)) /\ Done(w) \subseteq ThreadIds
    BY <1>1, FS_Subset DEF Done
  <1>3. \A t \in Done(w) : local[w][t] \in Counts
    BY <1>2 DEF ResultTyped
  <1>4. \A t \in Done(w) : local[w][t][field] \in Int
    BY <1>3 DEF Counts, Fields
  <1> QED
    BY <1>2, <1>4 DEF Terms, Met

(* A step that leaves the threads of a worker alone.                       *)
LEMMA WorkerSumsStay ==
    ASSUME NEW w \in Workers, WorkerSums(w), tool' = tool, procs' = procs,
           thread'[w] = thread[w], local'[w] = local[w], seen'[w] = seen[w],
           counts'[w] = counts[w],
           tool = "bench" /\ phase'[w] \in {"exiting", "exited"} =>
               phase[w] \in {"exiting", "exited"} \/ Joined(w)
    PROVE  WorkerSums(w)'
  <1>1. Done(w)' = Done(w) /\ \A field : Met(w, field)' = Met(w, field)
    BY DEF Done, Met
  <1>2. \A field \in Fields : AddsUp(Met(w, field)', counts'[w][field])
    BY <1>1 DEF WorkerSums
  <1>3. PerThread' = PerThread
    BY DEF PerThread
  <1> QED
    BY <1>2, <1>3 DEF WorkerSums, Joined

LEMMA PerThreadType ==
    ASSUME procs \in Nat \ {0}
    PROVE  PerThread \in Nat
  BY BenchAssumption DEF PerThread

(* A thread reads its share, or takes the lock.                            *)
LEMMA ReadOrLockStep ==
    ASSUME AccountInv, tool' = tool, procs' = procs, NEW w \in Workers,
           NEW t \in ThreadIds, ReadShare(w, t) \/ TakeLock(w, t)
    PROVE  WorkerSums(w)'
  <1>t. /\ thread \in [Workers -> [ThreadIds -> ThreadStates]] /\ WorkerSums(w)
        /\ local \in [Workers -> [ThreadIds -> Counts]]
        /\ seen \in [Workers -> [ThreadIds -> Counts]]
    BY DEF AccountInv, SumsInv, ReportInv, ResultTyped
  <1>1. phase[w] = "running" /\ UNCHANGED <<counts, phase>> /\ thread[w][t] # "finished"
    BY DEF ReadShare, TakeLock, queueVars
  <1>2. \E to \in {"read", "merging"} : thread' = [thread EXCEPT ![w][t] = to]
    BY DEF ReadShare, TakeLock, Moves
  <1>3. Done(w)' = Done(w) /\ t \notin Done(w) /\ Done(w) \subseteq ThreadIds
    BY <1>t, <1>1, <1>2 DEF Done
  <1>4. \A u \in ThreadIds \ {t} : local'[w][u] = local[w][u]
    BY <1>t DEF ReadShare, TakeLock
  <1>5. \A field : Met(w, field)' = Met(w, field)
    BY <1>3, <1>4 DEF Met
  <1>6. \A field \in Fields : AddsUp(Met(w, field)', counts'[w][field])
    BY <1>t, <1>1, <1>5 DEF WorkerSums
  <1>7. \A u \in ThreadIds : thread'[w][u] # "ready" =>
            local'[w][u].lat + local'[w][u].err = PerThread
    <2>1. CASE ReadShare(w, t)
      <3>1. PICK e \in 0..PerThread : \E m \in 0..(PerThread - e) :
                local' = [local EXCEPT ![w][t] =
                             [lat |-> PerThread - e, miss |-> m, err |-> e]]
        BY <2>1 DEF ReadShare
      <3>2. PICK m \in 0..(PerThread - e) :
                local' = [local EXCEPT ![w][t] =
                             [lat |-> PerThread - e, miss |-> m, err |-> e]]
        BY <3>1
      <3>3. PerThread \in Int
        BY BenchAssumption, PerThreadType DEF AccountInv, ReportInv, LoadInv, TypeInv
      <3>4. local'[w][t].lat = PerThread - e /\ local'[w][t].err = e
        BY <3>2, <1>t
      <3>5. local'[w][t].lat + local'[w][t].err = PerThread
        BY <3>3, <3>4
      <3> QED
        BY <1>t, <1>2, <1>4, <3>5 DEF WorkerSums
    <2>2. CASE TakeLock(w, t)
      <3>1. local' = local /\ thread[w][t] = "read"
        BY <2>2 DEF TakeLock
      <3> QED
        BY <1>t, <1>2, <3>1 DEF WorkerSums
    <2> QED
      BY <2>1, <2>2
  <1>8. /\ \A u, x \in ThreadIds :
              thread'[w][u] = "merging" /\ thread'[w][x] = "merging" => u = x
        /\ \A u \in ThreadIds : thread'[w][u] = "merging" =>
              seen'[w][u].miss = counts'[w].miss /\ seen'[w][u].err = counts'[w].err
    <2>1. CASE ReadShare(w, t)
      <3>1. thread' = [thread EXCEPT ![w][t] = "read"] /\ seen' = seen
        BY <2>1 DEF ReadShare, Moves
      <3> QED
        BY <1>t, <1>1, <3>1 DEF WorkerSums
    <2>2. CASE TakeLock(w, t)
      <3>1. /\ thread' = [thread EXCEPT ![w][t] = "merging"]
            /\ seen' = [seen EXCEPT ![w][t] = counts[w]]
            /\ \A u \in ThreadIds : thread[w][u] # "merging"
        BY <2>2 DEF TakeLock, Moves, LockFree
      <3> QED
        BY <1>t, <1>1, <3>1
    <2> QED
      BY <2>1, <2>2
  <1>9. PerThread' = PerThread
    BY DEF PerThread
  <1> QED
    BY <1>1, <1>6, <1>7, <1>8, <1>9 DEF WorkerSums

(* ... and merges its counts into sums no other thread has changed.        *)
LEMMA MergeStep ==
    ASSUME AccountInv, tool' = tool, procs' = procs, NEW w \in Workers,
           NEW t \in ThreadIds, Merge(w, t)
    PROVE  WorkerSums(w)'
  <1>t. /\ thread \in [Workers -> [ThreadIds -> ThreadStates]] /\ WorkerSums(w)
        /\ local \in [Workers -> [ThreadIds -> Counts]]
        /\ seen \in [Workers -> [ThreadIds -> Counts]]
        /\ counts \in [Workers -> Counts]
    BY DEF AccountInv, SumsInv, ReportInv, ResultTyped
  <1>1. /\ phase[w] = "running" /\ UNCHANGED <<local, phase>> /\ thread[w][t] = "merging"
        /\ thread' = [thread EXCEPT ![w][t] = "finished"]
    BY DEF Merge, Moves, queueVars
  <1>2. /\ seen[w][t].miss = counts[w].miss /\ seen[w][t].err = counts[w].err
        /\ \A u \in ThreadIds : thread[w][u] = "merging" => u = t
    BY <1>t, <1>1 DEF WorkerSums
  <1>3. counts' = [counts EXCEPT ![w] =
                      [lat |-> counts[w].lat + local[w][t].lat,
                       miss |-> counts[w].miss + local[w][t].miss,
                       err |-> counts[w].err + local[w][t].err]]
    BY <1>2 DEF Merge
  <1>4. \A field \in Fields : counts'[w][field] = counts[w][field] + local[w][t][field]
    BY <1>t, <1>3 DEF Fields
  <1>5. Done(w)' = Done(w) \cup {t} /\ t \notin Done(w)
    BY <1>t, <1>1 DEF Done
  <1>6. ASSUME NEW field \in Fields
        PROVE  AddsUp(Met(w, field)', counts'[w][field])
    <2> DEFINE f == Met(w, field)
               g == Met(w, field)'
    <2>1. Terms(f) /\ DOMAIN f = Done(w)
      BY MetTerms DEF AccountInv, ReportInv
    <2>2. g = [u \in Done(w) \cup {t} |-> local[w][u][field]]
      BY <1>1, <1>5 DEF Met
    <2>3. /\ DOMAIN g = DOMAIN f \cup {t} /\ g[t] = local[w][t][field]
          /\ \A u \in DOMAIN f \ {t} : g[u] = f[u]
      BY <2>1, <2>2 DEF Met
    <2>4. local[w][t][field] \in Int /\ counts[w][field] \in Int
      BY <1>t DEF Counts, Fields
    <2> HIDE DEF f, g
    <2>5. Terms(g)
      BY <2>1, <2>3, <2>4, FS_AddElement DEF Terms
    <2>6. AddsUp(f, counts[w][field])
      BY <1>t DEF WorkerSums, f
    <2>7. AddsUp(g, counts[w][field] + g[t] - (IF t \in DOMAIN f THEN f[t] ELSE 0))
      BY <2>1, <2>3, <2>5, <2>6, SumFollows DEF Becomes
    <2>8. counts[w][field] + g[t] - (IF t \in DOMAIN f THEN f[t] ELSE 0) = counts'[w][field]
      BY <1>4, <1>5, <2>1, <2>3, <2>4
    <2> QED
      BY <2>7, <2>8 DEF g
  <1>7. \A u \in ThreadIds : thread'[w][u] # "ready" =>
            local'[w][u].lat + local'[w][u].err = PerThread
    BY <1>t, <1>1 DEF WorkerSums
  <1>8. \A u \in ThreadIds : thread'[w][u] # "merging"
    BY <1>t, <1>1, <1>2
  <1>9. PerThread' = PerThread
    BY DEF PerThread
  <1> QED
    BY <1>1, <1>6, <1>7, <1>8, <1>9 DEF WorkerSums

LEMMA SumsStep ==
    ASSUME AccountInv, [Next]_vars, tool' = tool, procs' = procs
    PROVE  SumsInv'
  <1>t. /\ thread \in [Workers -> [ThreadIds -> ThreadStates]]
        /\ \A w \in Workers : WorkerSums(w)
        /\ tool \in {"loadgen", "bench"}
        /\ phase \in [Workers -> Phases]
    BY DEF AccountInv, SumsInv, ReportInv, LoadInv, TypeInv
  <1>w. Workers' = Workers
    BY SharesFixed
  <1>1. ASSUME UNCHANGED benchVars,
               \A w \in Workers : tool = "bench" /\ phase'[w] \in {"exiting", "exited"} =>
                   phase[w] \in {"exiting", "exited"} \/ Joined(w)
        PROVE  SumsInv'
    <2>1. \A w \in Workers : WorkerSums(w)'
      BY <1>t, <1>1, WorkerSumsStay DEF benchVars
    <2> QED
      BY <1>t, <1>w, <1>1, <2>1 DEF SumsInv, benchVars
  <1>2. ASSUME NEW w \in Workers, NEW t \in ThreadIds,
               ReadShare(w, t) \/ TakeLock(w, t) \/ Merge(w, t)
        PROVE  SumsInv'
    <2>1. WorkerSums(w)'
      BY <1>2, ReadOrLockStep, MergeStep
    <2>2. /\ \A v \in Workers \ {w} :
                /\ thread'[v] = thread[v] /\ local'[v] = local[v]
                /\ seen'[v] = seen[v] /\ counts'[v] = counts[v]
          /\ phase' = phase
      <3>1. CASE ReadShare(w, t)
        <4>1. /\ \A v \in Workers \ {w} : local'[v] = local[v] /\ thread'[v] = thread[v]
              /\ UNCHANGED <<phase, counts, seen>>
          BY <1>t, <3>1 DEF ReadShare, Moves, queueVars, AccountInv, ReportInv, ResultTyped
        <4> QED
          BY <4>1
      <3>2. CASE TakeLock(w, t)
        BY <1>t, <3>2 DEF TakeLock, Moves, queueVars, AccountInv, ReportInv, ResultTyped
      <3>3. CASE Merge(w, t)
        BY <1>t, <3>3 DEF Merge, Moves, queueVars, AccountInv, ReportInv, ResultTyped
      <3> QED
        BY <1>2, <3>1, <3>2, <3>3
    <2>3. \A v \in Workers \ {w} : WorkerSums(v)'
      BY <1>t, <2>2, WorkerSumsStay
    <2>4. thread' \in [Workers -> [ThreadIds -> ThreadStates]]
      BY <1>t, <1>2 DEF ReadShare, TakeLock, Merge, Moves, ThreadStates
    <2> QED
      BY <1>w, <2>1, <2>3, <2>4 DEF SumsInv
  <1>3. ASSUME NEW w \in Workers, tool = "bench", Warm(w) \/ PutSums(w)
        PROVE  SumsInv'
    <2>1. UNCHANGED benchVars
      BY <1>3 DEF Warm, PutSums
    <2>2. \/ phase' = [phase EXCEPT ![w] = "running"]
          \/ phase' = [phase EXCEPT ![w] = "exiting"] /\ Joined(w)
      BY <1>3 DEF Warm, PutSums, PutResult, Goes
    <2> QED
      BY <1>1, <1>t, <2>1, <2>2
  <1>4. ASSUME NEW w \in Workers, tool = "loadgen", UNCHANGED benchVars
        PROVE  SumsInv'
    BY <1>1, <1>4
  <1>5. ASSUME NEW w \in Workers, QueueWork(w) \/ (Die(w) /\ UNCHANGED toolVars)
        PROVE  SumsInv'
    <2>1. UNCHANGED benchVars
      BY <1>5 DEF QueueWork, toolVars
    <2>2. \/ phase' = phase
          \/ phase[w] = "exiting" /\ phase' = [phase EXCEPT ![w] = "exited"]
          \/ phase' = [phase EXCEPT ![w] = "dead"]
      BY <1>5 DEF QueueWork, Feed, Exit, Die, Goes
    <2> QED
      BY <1>1, <1>t, <2>1, <2>2
  <1>6. CASE ParentWork
    BY <1>1, <1>6 DEF ParentWork, Parent, Get, StartJoin, Report, toolVars
  <1>7. CASE UNCHANGED vars
    BY <1>1, <1>7 DEF vars, toolVars, queueVars
  <1> QED
    BY <1>2, <1>3, <1>4, <1>5, <1>6, <1>7
       DEF Next, Work, ToolWork, BenchWork, Terminated

-----------------------------------------------------------------------------
(* Results keep saying it wherever they are.                               *)
LEMMA FitsKept ==
    ASSUME TypeInv, tool' = tool, procs' = procs, NEW r, Fits(r),
           tool = "bench" => counts'[r.worker] = counts[r.worker],
           tool = "loadgen" => Totals(r.worker)' = Totals(r.worker)
    PROVE  Fits(r)'
  <1>1. Workers' = Workers /\ \A w : Shard(w)' = Shard(w)
    BY SharesFixed
  <1>2. LoadFits(r) /\ tool = "loadgen" => LoadFits(r)'
    BY <1>1 DEF LoadFits
  <1>3. BenchFits(r) /\ tool = "bench" => BenchFits(r)'
    BY <1>1 DEF BenchFits
  <1>4. tool = "loadgen" \/ tool = "bench"
    BY DEF TypeInv
  <1> QED
    BY <1>2, <1>3, <1>4 DEF Fits

(* A worker that has put nothing on the queue is the worker of no result.  *)
LEMMA QueuedIsFinished ==
    ASSUME ReportInv, NEW r \in Queued
    PROVE  r.worker \in Workers /\ phase[r.worker] \in {"exiting", "exited"}
  <1>t. /\ sending \in [Workers -> Seq(Result)] /\ pipe \in Seq(Result)
        /\ results \in Seq(Result)
    BY DEF ReportInv, ResultTyped
  <1>1. CASE r \in Items(results) \cup Items(pipe)
    <2>1. r.worker \in Finished
      BY <1>t, <1>1 DEF ReportInv, OneResultEach, Items
    <2> QED
      BY <2>1 DEF Finished
  <1>2. ASSUME NEW w \in Workers, r \in Items(sending[w])
        PROVE  r.worker \in Workers /\ phase[r.worker] \in {"exiting", "exited"}
    <2>1. PICK i \in DOMAIN sending[w] : r = sending[w][i]
      BY <1>2 DEF Items
    <2>2. sending[w] \in Seq(Result) /\ sending[w] # <<>>
      BY <1>t, <2>1
    <2>3. phase[w] = "exiting" /\ Len(sending[w]) = 1 /\ sending[w][1].worker = w
      BY <2>2 DEF ReportInv, OneResultEach
    <2>4. i = 1
      BY <2>1, <2>2, <2>3
    <2> QED
      BY <2>1, <2>3, <2>4
  <1> QED
    BY <1>1, <1>2 DEF Queued

(* Results move, and none is made, in the queue.                           *)
LEMMA ItemsOfBoth ==
    ASSUME NEW S, NEW s \in Seq(S), NEW t \in Seq(S)
    PROVE  Items(s \o t) = Items(s) \cup Items(t)
  <1> DEFINE c == s \o t
  <1>1. /\ DOMAIN s = 1..Len(s) /\ DOMAIN t = 1..Len(t) /\ DOMAIN c = 1..(Len(s) + Len(t))
        /\ Len(s) \in Nat /\ Len(t) \in Nat
        /\ \A i \in 1..(Len(s) + Len(t)) :
              c[i] = IF i <= Len(s) THEN s[i] ELSE t[i - Len(s)]
    BY ConcatProperties, LenProperties
  <1> HIDE DEF c
  <1>2. \A i \in DOMAIN c : c[i] \in Items(s) \cup Items(t)
    <2> SUFFICES ASSUME NEW i \in DOMAIN c PROVE c[i] \in Items(s) \cup Items(t)
      OBVIOUS
    <2>1. CASE i <= Len(s)
      BY <1>1, <2>1 DEF Items
    <2>2. CASE ~(i <= Len(s))
      <3>1. i - Len(s) \in DOMAIN t /\ c[i] = t[i - Len(s)]
        BY <1>1, <2>2
      <3> QED
        BY <3>1 DEF Items
    <2> QED
      BY <2>1, <2>2
  <1>3. \A i \in DOMAIN s : i \in DOMAIN c /\ c[i] = s[i]
    BY <1>1
  <1>4. \A i \in DOMAIN t : i + Len(s) \in DOMAIN c /\ c[i + Len(s)] = t[i]
    BY <1>1
  <1>5. Items(c) \subseteq Items(s) \cup Items(t)
    BY <1>2 DEF Items
  <1>6. Items(s) \subseteq Items(c)
    BY <1>3 DEF Items
  <1>7. Items(t) \subseteq Items(c)
    BY <1>4 DEF Items
  <1> QED
    BY <1>5, <1>6, <1>7 DEF c

LEMMA QueueMovesResults ==
    ASSUME ReportInv, [Next]_vars, procs' = procs, ~\E w \in Workers : ToolWork(w)
    PROVE  Queued' \subseteq Queued /\ UNCHANGED counts
  <1>t. /\ sending \in [Workers -> Seq(Result)] /\ pipe \in Seq(Result)
        /\ results \in Seq(Result)
    BY DEF ReportInv, ResultTyped
  <1>w. Workers' = Workers
    BY DEF Workers
  <1>1. ASSUME UNCHANGED <<sending, pipe, results, counts>>
        PROVE  Queued' \subseteq Queued /\ UNCHANGED counts
    BY <1>1, <1>w DEF Queued
  <1>2. ASSUME NEW w \in Workers, sending' = [sending EXCEPT ![w] = <<>>],
               UNCHANGED counts,
               \/ pipe' = pipe \o sending[w] /\ UNCHANGED results
               \/ results' = results \o sending[w] /\ UNCHANGED pipe
        PROVE  Queued' \subseteq Queued /\ UNCHANGED counts
    <2>1. \A v \in Workers : Items(sending'[v]) \subseteq Items(sending[v])
      BY <1>2, <1>t DEF Items
    <2>2. /\ Items(pipe') \subseteq Items(pipe) \cup Items(sending[w])
          /\ Items(results') \subseteq Items(results) \cup Items(sending[w])
      BY <1>2, <1>t, ItemsOfBoth
    <2> QED
      BY <1>2, <1>w, <2>1, <2>2 DEF Queued
  <1>3. CASE Get /\ UNCHANGED toolVars
    <2>1. CASE /\ pipe # <<>> /\ results' = Append(results, Head(pipe))
               /\ pipe' = Tail(pipe) /\ UNCHANGED sending
      <3>1. /\ \A i \in DOMAIN pipe' : i + 1 \in DOMAIN pipe /\ pipe'[i] = pipe[i + 1]
            /\ 1 \in DOMAIN pipe /\ Head(pipe) = pipe[1]
        BY <1>t, <2>1
      <3>2. \A i \in DOMAIN results' :
                (i \in DOMAIN results /\ results'[i] = results[i]) \/ results'[i] = Head(pipe)
        BY <1>t, <2>1
      <3>3. Items(pipe') \subseteq Items(pipe)
            /\ Items(results') \subseteq Items(results) \cup Items(pipe)
        BY <3>1, <3>2 DEF Items
      <3> QED
        BY <1>3, <1>w, <2>1, <3>3 DEF Queued, toolVars, benchVars
    <2>2. ASSUME NEW w \in Workers, results' = results \o sending[w],
                 sending' = [sending EXCEPT ![w] = <<>>], UNCHANGED pipe
          PROVE  Queued' \subseteq Queued /\ UNCHANGED counts
      BY <1>2, <1>3, <2>2 DEF toolVars, benchVars
    <2> QED
      BY <1>3, <2>1, <2>2 DEF Get
  <1>4. ASSUME NEW w \in Workers, Feed(w) /\ UNCHANGED toolVars
        PROVE  Queued' \subseteq Queued /\ UNCHANGED counts
    BY <1>2, <1>4 DEF Feed, toolVars, benchVars
  <1>5. ASSUME NEW w \in Workers, (Exit(w) \/ Die(w)) /\ UNCHANGED toolVars
        PROVE  Queued' \subseteq Queued /\ UNCHANGED counts
    BY <1>1, <1>5 DEF Exit, Die, toolVars, benchVars
  <1>6. CASE (StartJoin \/ Report) /\ UNCHANGED toolVars
    BY <1>1, <1>6 DEF StartJoin, Report, toolVars, benchVars
  <1>7. CASE UNCHANGED vars
    BY <1>1, <1>7 DEF vars, queueVars, toolVars, benchVars
  <1> QED
    BY <1>3, <1>4, <1>5, <1>6, <1>7 DEF Next, Work, QueueWork, ParentWork, Parent, Terminated

(* Only a worker that is writing changes what its totals will be.          *)
LEMMA TotalsStay ==
    ASSUME NEW w, answered'[w] = answered[w], failed'[w] = failed[w], counted'[w] = counted[w]
    PROVE  Totals(w)' = Totals(w)
  BY DEF Totals, WritesOf, InTotals

LEMMA OtherTotalsStay ==
    ASSUME LoadInv, ResultTyped, NEW w \in Workers, WriteRow(w) \/ Answer(w) \/ Count(w)
    PROVE  \A v \in Workers \ {w} : Totals(v)' = Totals(v)
  <1>1. PICK row : /\ Grows(answered, answered', w, row) /\ Grows(failed, failed', w, row)
                   /\ Grows(counted, counted', w, row)
    BY RowStep
  <1> SUFFICES ASSUME NEW v \in Workers \ {w} PROVE Totals(v)' = Totals(v)
    OBVIOUS
  <1>2. answered'[v] = answered[v] /\ failed'[v] = failed[v] /\ counted'[v] = counted[v]
    BY <1>1 DEF Grows, ResultTyped
  <1> QED
    BY <1>2, TotalsStay

LEMMA RowsInOrderStep ==
    ASSUME ReportInv, RowsInOrder, [Next]_vars, tool' = tool, procs' = procs
    PROVE  RowsInOrder'
  <1>t. /\ answered \in [Workers -> SUBSET (DOMAIN Rows)]
        /\ failed \in [Workers -> SUBSET (DOMAIN Rows)]
        /\ counted \in [Workers -> SUBSET (DOMAIN Rows)]
        /\ issued \in [Workers -> SUBSET (DOMAIN Rows)]
        /\ phase \in [Workers -> Phases]
    BY DEF ReportInv, LoadInv, TypeInv, ResultTyped
  <1>w. Workers' = Workers
    BY DEF Workers
  <1>1. ASSUME UNCHANGED loadVars,
               \A w \in Workers : phase'[w] \in {"exiting", "exited"} =>
                   \/ phase[w] \in {"exiting", "exited"} \/ tool # "loadgen"
                   \/ issued[w] \subseteq answered[w]
        PROVE  RowsInOrder'
    BY <1>t, <1>w, <1>1 DEF RowsInOrder, loadVars, writeVars
  <1>2. ASSUME NEW w \in Workers, WriteRow(w) PROVE RowsInOrder'
    <2>1. /\ \E row : issued' = [issued EXCEPT ![w] = @ \cup {row}]
          /\ UNCHANGED <<phase, answered, failed, counted>> /\ phase[w] = "running"
      BY <1>2 DEF WriteRow, Extends, queueVars
    <2> QED
      BY <1>t, <1>w, <2>1 DEF RowsInOrder
  <1>3. ASSUME NEW w \in Workers, Answer(w) PROVE RowsInOrder'
    <2>1. PICK row \in issued[w] :
              /\ answered' = [answered EXCEPT ![w] = @ \cup {row}]
              /\ Grows(failed, failed', w, row)
      BY <1>3 DEF Answer, Extends, Grows
    <2>2. UNCHANGED <<phase, issued, counted>> /\ phase[w] = "running"
      BY <1>3 DEF Answer, queueVars
    <2> QED
      BY <1>t, <1>w, <2>1, <2>2 DEF RowsInOrder, Grows
  <1>4. ASSUME NEW w \in Workers, Count(w) PROVE RowsInOrder'
    <2>1. PICK row \in answered[w] : counted' = [counted EXCEPT ![w] = @ \cup {row}]
      BY <1>4 DEF Count, Extends
    <2>2. UNCHANGED <<phase, issued, answered, failed>>
      BY <1>4 DEF Count, queueVars
    <2> QED
      BY <1>t, <1>w, <2>1, <2>2 DEF RowsInOrder
  <1>5. ASSUME NEW w \in Workers, Arrive(w) \/ Start(w) \/ PutTotals(w)
        PROVE  RowsInOrder'
    <2>1. CASE Arrive(w)
      BY <1>t, <1>w, <2>1 DEF Arrive, Goes, RowsInOrder, writeVars
    <2>2. CASE Start(w)
      BY <1>t, <1>1, <2>2 DEF Start, Goes
    <2>3. CASE PutTotals(w)
      BY <1>t, <1>1, <2>3 DEF PutTotals, PutResult, Drained, Goes
    <2> QED
      BY <1>5, <2>1, <2>2, <2>3
  <1>6. ASSUME NEW w \in Workers, tool = "bench", BenchWork(w), UNCHANGED loadVars
        PROVE  RowsInOrder'
    BY <1>1, <1>6
  <1>7. ASSUME NEW w \in Workers, QueueWork(w) \/ (Die(w) /\ UNCHANGED toolVars)
        PROVE  RowsInOrder'
    BY <1>t, <1>1, <1>7 DEF QueueWork, Feed, Exit, Die, Goes, toolVars
  <1>8. CASE ParentWork
    BY <1>1, <1>8 DEF ParentWork, Parent, Get, StartJoin, Report, toolVars
  <1>9. CASE UNCHANGED vars
    BY <1>1, <1>9 DEF vars, toolVars, queueVars
  <1> QED
    BY <1>2, <1>3, <1>4, <1>5, <1>6, <1>7, <1>8, <1>9
       DEF Next, Work, ToolWork, LoadWork, Terminated

LEMMA ToolsStay ==
    ASSUME [Next]_vars, ~\E w \in Workers : ToolWork(w)
    PROVE  UNCHANGED toolVars
  BY DEF Next, Work, QueueWork, ParentWork, Terminated, vars

LEMMA ResultsFitStep ==
    ASSUME AccountInv, [Next]_vars, tool' = tool, procs' = procs
    PROVE  ResultsFit'
  <1>t. /\ \A r \in Queued : Fits(r)
        /\ tool \in {"loadgen", "bench"}
        /\ sending \in [Workers -> Seq(Result)]
        /\ counts \in [Workers -> Counts]
    BY DEF AccountInv, ReportInv, LoadInv, TypeInv, ResultTyped, ResultsFit
  <1>w. Workers' = Workers
    BY DEF Workers
  <1>1. ASSUME Queued' \subseteq Queued,
               \A r \in Queued : tool = "bench" => counts'[r.worker] = counts[r.worker],
               \A r \in Queued : tool = "loadgen" => Totals(r.worker)' = Totals(r.worker)
        PROVE  ResultsFit'
    BY <1>t, <1>1, FitsKept DEF ResultsFit, AccountInv, ReportInv, LoadInv
  <1>2. CASE ~\E w \in Workers : ToolWork(w)
    <2>1. UNCHANGED toolVars
      BY <1>2, ToolsStay
    <2>2. \A v : Totals(v)' = Totals(v)
      BY <2>1, TotalsStay DEF toolVars, loadVars, writeVars
    <2> QED
      BY <1>1, <1>2, <2>2, QueueMovesResults DEF AccountInv
  <1>3. ASSUME NEW w \in Workers, NEW r, PutResult(w, r), Fits(r),
               UNCHANGED <<counts, loadVars>>
        PROVE  ResultsFit'
    <2>1. sending' = [sending EXCEPT ![w] = <<r>>] /\ UNCHANGED <<pipe, results>>
      BY <1>3 DEF PutResult
    <2>2. /\ Items(sending'[w]) = {r}
          /\ \A v \in Workers \ {w} : sending'[v] = sending[v]
      BY <1>t, <2>1 DEF Items
    <2>3. Queued' \subseteq Queued \cup {r}
      BY <1>w, <2>1, <2>2 DEF Queued
    <2>4. \A q \in Queued \cup {r} : Fits(q)'
      <3>1. \A v : Totals(v)' = Totals(v)
        BY <1>3, TotalsStay DEF loadVars, writeVars
      <3> QED
        BY <1>t, <1>3, <3>1, FitsKept DEF AccountInv, ReportInv, LoadInv
    <2> QED
      BY <2>3, <2>4 DEF ResultsFit
  <1>4. ASSUME NEW w \in Workers, tool = "loadgen", LoadWork(w), UNCHANGED benchVars
        PROVE  ResultsFit'
    <2>1. CASE PutTotals(w)
      <3> DEFINE r == Totals(w)
      <3>1. PutResult(w, r) /\ UNCHANGED loadVars
        BY <2>1 DEF PutTotals
      <3>2. r.worker = w
        BY DEF Totals
      <3>3. Fits(r)
        BY <1>4, <3>2 DEF Fits, LoadFits
      <3> HIDE DEF r
      <3> QED
        BY <1>3, <1>4, <3>1, <3>3 DEF benchVars
    <2>2. CASE Arrive(w) \/ Start(w)
      <3>1. UNCHANGED <<sending, pipe, results, writeVars>>
        BY <2>2 DEF Arrive, Start, loadVars
      <3>2. Queued' = Queued /\ \A v : Totals(v)' = Totals(v)
        BY <1>w, <3>1, TotalsStay DEF Queued, writeVars
      <3> QED
        BY <1>1, <1>4, <3>2
    <2>3. CASE WriteRow(w) \/ Answer(w) \/ Count(w)
      <3>1. UNCHANGED <<sending, pipe, results>> /\ phase[w] = "running"
        BY <2>3, RowStep DEF queueVars, AccountInv, ReportInv
      <3>2. Queued' = Queued
        BY <1>w, <3>1 DEF Queued
      <3>3. \A r \in Queued : r.worker \in Workers \ {w}
        BY <3>1, QueuedIsFinished DEF AccountInv
      <3>4. \A r \in Queued : Totals(r.worker)' = Totals(r.worker)
        BY <2>3, <3>3, OtherTotalsStay DEF AccountInv, ReportInv
      <3> QED
        BY <1>1, <1>4, <3>2, <3>4
    <2> QED
      BY <1>4, <2>1, <2>2, <2>3 DEF LoadWork
  <1>5. ASSUME NEW w \in Workers, tool = "bench", BenchWork(w), UNCHANGED loadVars
        PROVE  ResultsFit'
    <2>1. CASE PutSums(w)
      <3> DEFINE r == [worker |-> w, lat |-> counts[w].lat, miss |-> counts[w].miss,
                       err |-> counts[w].err]
      <3>1. PutResult(w, r) /\ UNCHANGED counts
        BY <2>1 DEF PutSums, benchVars
      <3>2. BenchFits(r)
        BY <1>t DEF BenchFits, Counts
      <3>3. Fits(r)
        BY <1>5, <3>2 DEF Fits
      <3> HIDE DEF r
      <3> QED
        BY <1>3, <1>5, <3>1, <3>3
    <2>2. CASE Warm(w) \/ \E t \in ThreadIds : ReadShare(w, t) \/ TakeLock(w, t)
      <3>1. UNCHANGED <<sending, pipe, results, counts>>
        BY <2>2 DEF Warm, ReadShare, TakeLock, queueVars, benchVars
      <3>2. Queued' = Queued
        BY <1>w, <3>1 DEF Queued
      <3> QED
        BY <1>1, <1>5, <3>1, <3>2
    <2>3. ASSUME NEW t \in ThreadIds, Merge(w, t) PROVE ResultsFit'
      <3>1. UNCHANGED <<sending, pipe, results>> /\ phase[w] = "running"
        BY <2>3 DEF Merge, queueVars
      <3>2. \A v \in Workers \ {w} : counts'[v] = counts[v]
        BY <1>t, <2>3 DEF Merge
      <3>3. \A r \in Queued : r.worker \in Workers /\ r.worker # w
        BY <3>1, QueuedIsFinished DEF AccountInv
      <3>4. Queued' = Queued
        BY <1>w, <3>1 DEF Queued
      <3> QED
        BY <1>1, <1>5, <3>2, <3>3, <3>4
    <2> QED
      BY <1>5, <2>1, <2>2, <2>3 DEF BenchWork
  <1> QED
    BY <1>2, <1>4, <1>5 DEF ToolWork

LEMMA AccountInvStep == AccountInv /\ [Next]_vars => AccountInv'
  <1> SUFFICES ASSUME AccountInv, [Next]_vars PROVE AccountInv'
    OBVIOUS
  <1>1. tool' = tool /\ procs' = procs
    BY CommandFixed
  <1>2. ReportInv' /\ RowsInOrder'
    BY <1>1, ReportInvStep, RowsInOrderStep DEF AccountInv
  <1>3. ResultsFit' /\ SumsInv'
    BY <1>1, ResultsFitStep, SumsStep
  <1> QED
    BY <1>2, <1>3 DEF AccountInv

LEMMA AccountInvariant == Spec => []AccountInv
  BY AccountInvInit, AccountInvStep, PTL DEF Spec

-----------------------------------------------------------------------------
(* What the folds of the report, of a worker's threads and of the workers  *)
(* evaluate.                                                               *)
ResultTerms(field) == [i \in DOMAIN results |-> results[i][field]]

ThreadsTotal(w, field) == MapThenSumSet(LAMBDA t : local[w][t][field], ThreadIds)
ThreadTerms(w, field) == [t \in ThreadIds |-> local[w][t][field]]

WorkersTotal(field) == MapThenSumSet(LAMBDA w : ThreadsTotal(w, field), Workers)
WorkerTerms(field) == [w \in Workers |-> ThreadsTotal(w, field)]

LEMMA ReportFold ==
    ASSUME NEW field, IsFiniteSet(DOMAIN results),
           \A i \in DOMAIN results : results[i][field] \in Int
    PROVE  Terms(ResultTerms(field)) /\ AddsUp(ResultTerms(field), TotalOf(field))
  <1> DEFINE f == ResultTerms(field)
             I == DOMAIN results
             IsFold(F) == F = [t \in SUBSET I |-> IF t = {} THEN 0
                                 ELSE results[Pick(t)][field] + F[t \ {Pick(t)}]]
             F0 == CHOOSE it : IsFold(it)
  <1>1. TotalOf(field) = F0[I]
    BY DEF TotalOf, FoldSeq, FoldFunction, FoldFunctionOnSet, MapThenFoldSet, Pick
  <1>2. \A t \in SUBSET I : t # {} => f[Pick(t)] = results[Pick(t)][field]
    BY PickFacts DEF ResultTerms
  <1>3. \A F : IsSumOver(F, f, SUBSET I) <=> IsFold(F)
    BY <1>2 DEF IsSumOver
  <1>4. \E F : IsFold(F)
    BY <1>3, SumExists
  <1>5. IsSumOver(F0, f, SUBSET I)
    <2> HIDE DEF IsFold
    <2> QED
      BY <1>3, <1>4
  <1>6. Terms(f) /\ DOMAIN f = I
    BY DEF Terms, ResultTerms
  <1> QED
    BY <1>1, <1>5, <1>6 DEF AddsUp

LEMMA ThreadsFold ==
    ASSUME NEW w, NEW field, \A t \in ThreadIds : local[w][t][field] \in Int
    PROVE  /\ Terms(ThreadTerms(w, field))
           /\ AddsUp(ThreadTerms(w, field), ThreadsTotal(w, field))
  <1> DEFINE f == ThreadTerms(w, field)
             IsFold(F) == F = [t \in SUBSET ThreadIds |-> IF t = {} THEN 0
                                 ELSE local[w][Pick(t)][field] + F[t \ {Pick(t)}]]
             F0 == CHOOSE it : IsFold(it)
  <1>1. IsFiniteSet(ThreadIds)
    BY BenchAssumption, FS_Interval DEF ThreadIds
  <1>2. ThreadsTotal(w, field) = F0[ThreadIds]
    BY DEF ThreadsTotal, MapThenSumSet, MapThenFoldSet, Pick
  <1>3. \A t \in SUBSET ThreadIds : t # {} => f[Pick(t)] = local[w][Pick(t)][field]
    BY PickFacts DEF ThreadTerms
  <1>4. \A F : IsSumOver(F, f, SUBSET ThreadIds) <=> IsFold(F)
    BY <1>3 DEF IsSumOver
  <1>5. \E F : IsFold(F)
    BY <1>1, <1>4, SumExists
  <1>6. IsSumOver(F0, f, SUBSET ThreadIds)
    <2> HIDE DEF IsFold
    <2> QED
      BY <1>4, <1>5
  <1>7. Terms(f) /\ DOMAIN f = ThreadIds
    BY <1>1 DEF Terms, ThreadTerms
  <1> QED
    BY <1>2, <1>6, <1>7 DEF AddsUp

LEMMA WorkersFold ==
    ASSUME procs \in Nat \ {0}, NEW field, \A w \in Workers : ThreadsTotal(w, field) \in Int
    PROVE  Terms(WorkerTerms(field)) /\ AddsUp(WorkerTerms(field), WorkersTotal(field))
  <1> DEFINE f == WorkerTerms(field)
             IsFold(F) == F = [s \in SUBSET Workers |-> IF s = {} THEN 0
                                 ELSE ThreadsTotal(Pick(s), field) + F[s \ {Pick(s)}]]
             F0 == CHOOSE it : IsFold(it)
  <1>1. IsFiniteSet(Workers)
    BY WorkersFinite
  <1>2. WorkersTotal(field) = F0[Workers]
    BY DEF WorkersTotal, MapThenSumSet, MapThenFoldSet, Pick
  <1>3. \A s \in SUBSET Workers : s # {} => f[Pick(s)] = ThreadsTotal(Pick(s), field)
    BY PickFacts DEF WorkerTerms
  <1>4. \A F : IsSumOver(F, f, SUBSET Workers) <=> IsFold(F)
    BY <1>3 DEF IsSumOver
  <1>5. \E F : IsFold(F)
    BY <1>1, <1>4, SumExists
  <1>6. IsSumOver(F0, f, SUBSET Workers)
    <2> HIDE DEF IsFold
    <2> QED
      BY <1>4, <1>5
  <1>7. Terms(f) /\ DOMAIN f = Workers
    BY <1>1 DEF Terms, WorkerTerms
  <1> QED
    BY <1>2, <1>6, <1>7 DEF AddsUp

(* The results of a report by their index, one for every worker.           *)
LEMMA ReportIndexes ==
    ASSUME ReportInv, parent = "reported"
    PROVE  /\ IsFiniteSet(DOMAIN results) /\ Cardinality(DOMAIN results) = procs
           /\ Indexes([i \in DOMAIN results |-> results[i].worker], DOMAIN results, Workers)
  <1>1. EveryoneReported
    BY AllInReport
  <1>2. results \in Seq(Result) /\ procs \in Nat
    BY DEF ReportInv, LoadInv, TypeInv, ResultTyped
  <1>3. DOMAIN results = 1..procs
    BY <1>1, <1>2 DEF EveryoneReported
  <1>4. IsFiniteSet(1..procs) /\ Cardinality(1..procs) = procs
    BY <1>2, FS_Interval
  <1>5. \A i, j \in DOMAIN results : results[i].worker = results[j].worker => i = j
    BY <1>2 DEF ReportInv, OneResultEach
  <1>6. {results[i].worker : i \in DOMAIN results} = Workers
    BY <1>1 DEF EveryoneReported
  <1> QED
    BY <1>3, <1>4, <1>5, <1>6 DEF Indexes

LEMMA ReportFits ==
    ASSUME AccountInv
    PROVE  \A i \in DOMAIN results : results[i].worker \in Workers /\ Fits(results[i])
  <1>1. \A i \in DOMAIN results : results[i] \in Queued
    BY DEF Queued, Items
  <1> QED
    BY <1>1, QueuedIsFinished DEF AccountInv, ResultsFit

(* All threads joined, a worker's sums are over all its threads.           *)
LEMMA ReportedSums ==
    ASSUME AccountInv, tool = "bench", parent = "reported", NEW w \in Workers
    PROVE  /\ \A field \in Fields : /\ Terms(ThreadTerms(w, field))
                                    /\ AddsUp(ThreadTerms(w, field), ThreadsTotal(w, field))
                                    /\ counts[w][field] = ThreadsTotal(w, field)
                                    /\ ThreadsTotal(w, field) \in Int
           /\ \A t \in ThreadIds : local[w][t].lat + local[w][t].err = PerThread
  <1>1. Joined(w)
    BY AllInReport DEF AccountInv, SumsInv, WorkerSums
  <1>2. \A t \in ThreadIds : thread[w][t] = "finished" /\ local[w][t] \in Counts
    BY <1>1 DEF Joined, AccountInv, ReportInv, ResultTyped
  <1>3. ASSUME NEW field \in Fields
        PROVE  /\ Terms(ThreadTerms(w, field))
               /\ AddsUp(ThreadTerms(w, field), ThreadsTotal(w, field))
               /\ counts[w][field] = ThreadsTotal(w, field)
               /\ ThreadsTotal(w, field) \in Int
    <2>1. \A t \in ThreadIds : local[w][t][field] \in Int
      BY <1>2 DEF Counts, Fields
    <2>2. /\ Terms(ThreadTerms(w, field))
          /\ AddsUp(ThreadTerms(w, field), ThreadsTotal(w, field))
      BY <2>1, ThreadsFold
    <2>3. Met(w, field) = ThreadTerms(w, field)
      BY <1>2 DEF Met, Done, ThreadTerms
    <2>4. AddsUp(ThreadTerms(w, field), counts[w][field])
      BY <2>3 DEF AccountInv, SumsInv, WorkerSums
    <2> QED
      BY <2>2, <2>4, SumIsUnique, SumIsIntegral
  <1> QED
    BY <1>2, <1>3 DEF AccountInv, SumsInv, WorkerSums

(* Each thread counted PerThread reads, so each worker Threads times that. *)
LEMMA WorkerReads ==
    ASSUME AccountInv, tool = "bench", parent = "reported", NEW w \in Workers
    PROVE  ThreadsTotal(w, "lat") + ThreadsTotal(w, "err") = Threads * PerThread
  <1> DEFINE f == ThreadTerms(w, "lat")
             g == ThreadTerms(w, "err")
             h == [t \in ThreadIds |-> f[t] + g[t]]
  <1>1. /\ Terms(f) /\ AddsUp(f, ThreadsTotal(w, "lat"))
        /\ Terms(g) /\ AddsUp(g, ThreadsTotal(w, "err"))
    BY ReportedSums DEF Fields
  <1>2. DOMAIN f = ThreadIds /\ DOMAIN g = ThreadIds
    BY DEF ThreadTerms
  <1>3. \A t \in ThreadIds : h[t] = PerThread
    BY ReportedSums DEF ThreadTerms
  <1> HIDE DEF f, g
  <1>4. Terms(h) /\ AddsUp(h, ThreadsTotal(w, "lat") + ThreadsTotal(w, "err"))
    BY <1>1, <1>2, SumOfBoth
  <1>5. PerThread \in Int
    BY PerThreadType DEF AccountInv, ReportInv, LoadInv, TypeInv
  <1>6. DOMAIN h = ThreadIds /\ Cardinality(ThreadIds) = Threads
    BY BenchAssumption, FS_Interval DEF ThreadIds
  <1> HIDE DEF h
  <1>7. ThreadsTotal(w, "lat") + ThreadsTotal(w, "err") = Cardinality(ThreadIds) * PerThread
    BY <1>3, <1>4, <1>5, <1>6, SumOfEqual
  <1> QED
    BY <1>6, <1>7

(* The report adds up the workers' sums, each once.                        *)
LEMMA ReportIsTotal ==
    ASSUME AccountInv, tool = "bench", parent = "reported", NEW field \in Fields
    PROVE  /\ TotalOf(field) = WorkersTotal(field)
           /\ Terms(WorkerTerms(field)) /\ AddsUp(WorkerTerms(field), WorkersTotal(field))
  <1>1. /\ IsFiniteSet(DOMAIN results)
        /\ Indexes([i \in DOMAIN results |-> results[i].worker], DOMAIN results, Workers)
    BY ReportIndexes DEF AccountInv
  <1>2. \A i \in DOMAIN results :
            /\ results[i].worker \in Workers
            /\ results[i][field] = ThreadsTotal(results[i].worker, field)
            /\ results[i][field] \in Int
    <2> SUFFICES ASSUME NEW i \in DOMAIN results
                 PROVE  /\ results[i].worker \in Workers
                        /\ results[i][field] = ThreadsTotal(results[i].worker, field)
                        /\ results[i][field] \in Int
      OBVIOUS
    <2>1. results[i].worker \in Workers /\ BenchFits(results[i])
      BY ReportFits DEF Fits
    <2>2. results[i][field] = counts[results[i].worker][field]
      BY <2>1 DEF BenchFits, Fields
    <2> QED
      BY <2>1, <2>2, ReportedSums
  <1>3. Terms(ResultTerms(field)) /\ AddsUp(ResultTerms(field), TotalOf(field))
    BY <1>1, <1>2, ReportFold
  <1>4. Terms(WorkerTerms(field)) /\ AddsUp(WorkerTerms(field), WorkersTotal(field))
    BY ReportedSums, WorkersFold DEF AccountInv, ReportInv, LoadInv, TypeInv
  <1> DEFINE h == [i \in DOMAIN results |-> results[i].worker]
             f == ResultTerms(field)
             g == WorkerTerms(field)
  <1>5. DOMAIN f = DOMAIN results /\ DOMAIN g = Workers
    BY DEF ResultTerms, WorkerTerms
  <1>6. \A i \in DOMAIN f : f[i] = g[h[i]]
    BY <1>2 DEF ResultTerms, WorkerTerms
  <1>7. Indexes(h, DOMAIN f, DOMAIN g)
    BY <1>1, <1>5
  <1> HIDE DEF f, g, h
  <1>8. TotalOf(field) = WorkersTotal(field)
    BY <1>3, <1>4, <1>6, <1>7, SumReindexed DEF f, g
  <1> QED
    BY <1>4, <1>8

LEMMA AllReads ==
    ASSUME AccountInv, tool = "bench", parent = "reported"
    PROVE  TotalOf("lat") + TotalOf("err") = procs * Threads * PerThread
  <1> DEFINE f == WorkerTerms("lat")
             g == WorkerTerms("err")
             h == [w \in Workers |-> f[w] + g[w]]
             c == Threads * PerThread
  <1>1. /\ Terms(f) /\ AddsUp(f, TotalOf("lat"))
        /\ Terms(g) /\ AddsUp(g, TotalOf("err"))
    BY ReportIsTotal DEF Fields
  <1>2. DOMAIN f = Workers /\ DOMAIN g = Workers
    BY DEF WorkerTerms
  <1>3. \A w \in Workers : h[w] = c
    BY WorkerReads DEF WorkerTerms
  <1> HIDE DEF f, g
  <1>4. Terms(h) /\ AddsUp(h, TotalOf("lat") + TotalOf("err"))
    BY <1>1, <1>2, SumOfBoth
  <1>5. PerThread \in Int /\ procs \in Nat /\ c \in Int
    BY PerThreadType, BenchAssumption DEF AccountInv, ReportInv, LoadInv, TypeInv
  <1>6. DOMAIN h = Workers /\ Cardinality(Workers) = procs
    BY WorkersFinite DEF AccountInv, ReportInv, LoadInv, TypeInv
  <1>7. TotalOf("lat") + TotalOf("err") = procs * c
    <2> HIDE DEF h, c
    <2> QED
      BY <1>3, <1>4, <1>5, <1>6, SumOfEqual
  <1>8. procs * (Threads * PerThread) = procs * Threads * PerThread
    BY <1>5, BenchAssumption
  <1> QED
    BY <1>7, <1>8

(* A printed report of the read benchmark accounts for every read its      *)
(* threads were given, and its latencies, misses and errors are theirs.    *)
THEOREM BenchAccountsForReads == Spec => []ReadsAccounted
  <1>1. AccountInv => ReadsAccounted
    <2> SUFFICES ASSUME AccountInv, tool = "bench", parent = "reported"
                 PROVE  ReadsAccounted
      BY DEF ReadsAccounted
    <2>1. EveryoneReported
      BY AllInReport DEF AccountInv
    <2>2. /\ TotalOf("lat") = WorkersTotal("lat")
          /\ TotalOf("miss") = WorkersTotal("miss")
          /\ TotalOf("err") = WorkersTotal("err")
      BY ReportIsTotal DEF Fields
    <2> QED
      BY <2>1, <2>2, AllReads DEF ReadsAccounted, WorkersTotal, ThreadsTotal
  <1> QED
    BY <1>1, AccountInvariant, PTL

(* The shares are apart and make up the files.                             *)
LEMMA SharesMakeFiles ==
    ASSUME procs \in Nat \ {0}
    PROVE  /\ UNION {Shard(w) : w \in Workers} = DOMAIN Rows
           /\ \A v, w \in Workers : v # w => Shard(v) \cap Shard(w) = {}
           /\ \A w \in Workers : IsFiniteSet(Shard(w))
           /\ Cardinality(DOMAIN Rows) = Len(Rows)
  <1>1. \A w \in Workers : Shard(w) \subseteq DOMAIN Rows
    BY DEF Shard
  <1>2. \A w \in Workers : IsFiniteSet(Shard(w))
    BY <1>1, RowsFinite
  <1>3. UNION {Shard(w) : w \in Workers} = DOMAIN Rows
    BY <1>1, ShardsPartition
  <1>4. \A v, w \in Workers : v # w => Shard(v) \cap Shard(w) = {}
    BY <1>1, ShardsPartition
  <1>5. Cardinality(DOMAIN Rows) = Len(Rows)
    <2>1. DOMAIN Rows = 1..Len(Rows) /\ Len(Rows) \in Nat
      BY LoadGenAssumption
    <2> DEFINE n == Len(Rows)
    <2>2. Cardinality(1..n) = IF 1 > n THEN 0 ELSE n - 1 + 1
      BY <2>1, FS_Interval
    <2> QED
      BY <2>1, <2>2
  <1> QED
    BY <1>2, <1>3, <1>4, <1>5

(* What the results say of sets of rows, one of each share, they say of    *)
(* all the rows in them.                                                   *)
LEMMA TotalOfRows ==
    ASSUME AccountInv, tool = "loadgen", parent = "reported",
           NEW U, DOMAIN U = Workers, \A w \in Workers : U[w] \subseteq Shard(w),
           NEW field, \A i \in DOMAIN results :
                          results[i][field] = Cardinality(U[results[i].worker])
    PROVE  TotalOf(field) = Cardinality(UNION {U[w] : w \in Workers})
  <1> DEFINE f == ResultTerms(field)
             V == [i \in DOMAIN results |-> U[results[i].worker]]
  <1>1. /\ IsFiniteSet(DOMAIN results)
        /\ {results[i].worker : i \in DOMAIN results} = Workers
        /\ \A i, j \in DOMAIN results : results[i].worker = results[j].worker => i = j
    BY ReportIndexes DEF AccountInv, Indexes
  <1>p. procs \in Nat \ {0}
    BY DEF AccountInv, ReportInv, LoadInv, TypeInv
  <1>2. \A w \in Workers : IsFiniteSet(U[w]) /\ Cardinality(U[w]) \in Nat
    BY <1>p, SharesMakeFiles, FS_Subset, FS_CardinalityType
  <1>3. Terms(f) /\ AddsUp(f, TotalOf(field)) /\ DOMAIN f = DOMAIN results
    <2>1. \A i \in DOMAIN results : results[i][field] \in Int
      BY <1>1, <1>2
    <2> QED
      BY <1>1, <2>1, ReportFold DEF ResultTerms
  <1>4. Apart(V) /\ DOMAIN V = DOMAIN f
    <2>1. \A v, w \in Workers : v # w => U[v] \cap U[w] = {}
      BY <1>p, SharesMakeFiles
    <2> QED
      BY <1>1, <1>3, <2>1 DEF Apart
  <1>5. Short(f, V, 0)
    BY <1>1, <1>2, <1>3 DEF Short, ResultTerms
  <1>6. AllOf(V, DOMAIN f) = UNION {U[w] : w \in Workers}
    BY <1>1, <1>3 DEF AllOf
  <1>7. IsFiniteSet(DOMAIN f) /\ Cardinality(DOMAIN f) \in Nat
    BY <1>1, <1>3, FS_CardinalityType
  <1>8. TotalOf(field) \in Int
    BY <1>3, SumIsIntegral
  <1> DEFINE n == Cardinality(AllOf(V, DOMAIN f))
             m == Cardinality(DOMAIN f)
  <1>9. n \in Nat
    <2>1. UNION {U[w] : w \in Workers} \in SUBSET (DOMAIN Rows)
      BY DEF Shard
    <2> QED
      BY <1>6, <2>1, RowsFinite
  <1>10. n - m * 0 <= TotalOf(field) /\ TotalOf(field) <= n
    <2> HIDE DEF V, f
    <2> QED
      BY <1>3, <1>4, <1>5, SumOfShort
  <1>11. n = Cardinality(UNION {U[w] : w \in Workers}) /\ m \in Int
    BY <1>6, <1>7
  <1> HIDE DEF n, m
  <1>12. m * 0 = 0
    BY <1>11
  <1>13. TotalOf(field) = n
    BY <1>8, <1>9, <1>10, <1>12
  <1> QED
    BY <1>11, <1>13

(* When a report of the load generator is printed every request has ended, *)
(* and its totals are those of the rows the workers counted, each once.    *)
THEOREM LoadTotalsAreComplete == Spec => []TotalsComplete
  <1>1. AccountInv => TotalsComplete
    <2> SUFFICES ASSUME AccountInv, tool = "loadgen", parent = "reported"
                 PROVE  TotalsComplete
      BY DEF TotalsComplete
    <2>p. procs \in Nat \ {0}
      BY DEF AccountInv, ReportInv, LoadInv, TypeInv
    <2>1. \A w \in Workers : issued[w] = Shard(w) /\ answered[w] = Shard(w)
      BY AllInReport DEF AccountInv, ReportInv, LoadInv, ShareWritten, RowsInOrder
    <2>2. \A w \in Workers :
              failed[w] \subseteq Shard(w) /\ counted[w] \subseteq Shard(w)
      BY <2>1 DEF AccountInv, RowsInOrder
    <2>3. RowsOf(answered) = DOMAIN Rows
      BY <2>p, <2>1, SharesMakeFiles DEF RowsOf
    <2>4. \A i \in DOMAIN results :
              /\ results[i].worker \in Workers
              /\ results[i] = Totals(results[i].worker)
      BY ReportFits DEF Fits, LoadFits
    <2> DEFINE W == [w \in Workers |-> WritesOf(w)]
               E == [w \in Workers |-> InTotals(w) \cap failed[w]]
    <2>5. \A w \in Workers : W[w] \subseteq Shard(w) /\ E[w] \subseteq Shard(w)
      BY <2>1, <2>2 DEF WritesOf, InTotals
    <2>6. \A i \in DOMAIN results :
              /\ results[i]["writes"] = Cardinality(W[results[i].worker])
              /\ results[i]["errors"] = Cardinality(E[results[i].worker])
      BY <2>4 DEF Totals
    <2>7. /\ TotalOf("writes") = Cardinality(UNION {W[w] : w \in Workers})
          /\ TotalOf("errors") = Cardinality(UNION {E[w] : w \in Workers})
      <3> DOMAIN W = Workers /\ DOMAIN E = Workers
        OBVIOUS
      <3> HIDE DEF W, E
      <3> QED
        BY <2>5, <2>6, TotalOfRows
    <2> DEFINE inTotals == IF Mode = "concurrent" THEN RowsOf(answered) ELSE RowsOf(counted)
               writes == IF Mode = "concurrent" THEN inTotals ELSE inTotals \ RowsOf(failed)
    <2>8. \A v, w \in Workers : v # w =>
              InTotals(v) \cap failed[w] = {}
      BY <2>p, <2>1, <2>2, SharesMakeFiles DEF InTotals
    <2>9. UNION {W[w] : w \in Workers} = writes
      BY <2>8 DEF WritesOf, InTotals, RowsOf
    <2>10. UNION {E[w] : w \in Workers} = inTotals \cap RowsOf(failed)
      BY <2>8 DEF InTotals, RowsOf
    <2> QED
      BY <2>3, <2>7, <2>9, <2>10 DEF TotalsComplete
  <1> QED
    BY <1>1, AccountInvariant, PTL
=============================================================================
