------------------------------ MODULE Serving ------------------------------
(***************************************************************************)
(* Scores served from the window rows of a coin while the ingest process   *)
(* of the dashboard writes them: score_coin of src/feature_store/api.py    *)
(* (and the dashboard's reader, which does the same) reads three rows, one *)
(* after the other; the ingest empties the table when it starts, upserts   *)
(* the rows it closes and, now and then, the open ones, through a pipeline *)
(* whose writes complete in any order. A write may fail, or be applied     *)
(* after its request was given up, and so may the TRUNCATE; the ingest may *)
(* die and be started again on the same data.                              *)
(*                                                                         *)
(* A row is the run that wrote it and how many fills it reflects; which    *)
(* bucket it is and what it holds follow from these. A write that every    *)
(* read sees is settled: at LOCAL_QUORUM an acknowledged one               *)
(* (FreshnessProbe.tla), at LOCAL_ONE one that has reached every replica.  *)
(* Any other write a read may see or not.                                  *)
(***************************************************************************)
EXTENDS Scorer, WindowSizes, SequencesExt

CONSTANTS Order,         \* the windows, shortest first, as they are flushed and read
          Stream,        \* the fills of one coin in time order: [sec, volume]
          Flushes,       \* the fills a flush interval is over with
          Tuning,        \* FS_TUNING of the writer: "default" or "tuned"
          MaxInflight,   \* max_inflight of the ingest's pipeline
          MaxLag,        \* bound: acknowledged writes on their way to a replica
          MaxCrashes,    \* bound: crashes of the ingest, in a behaviour
          MaxFaults      \* bound: requests that fail, in a behaviour

ASSUME ServingAssumption ==
    /\ Order \in Seq(Windows)
    /\ \A i, j \in DOMAIN Order : i < j => Size(Order[i]) < Size(Order[j])
    /\ Stream \in Seq([sec : Nat, volume : Nat]) /\ Stream # <<>>
    /\ \A i, j \in DOMAIN Stream : i < j => Stream[i].sec <= Stream[j].sec
    /\ Flushes \subseteq DOMAIN Stream
    /\ Tuning \in {"tuned", "default"}
    /\ MaxInflight \in Nat \ {0} /\ MaxLag \in Nat \ {0}
    /\ MaxCrashes \in Nat /\ MaxFaults \in Nat

VARIABLES
    pc,          \* the ingest: "starting", "run", "drain", "done"
    run, n,      \* how often it was started, and the fills applied since
    todo,        \* writes of this iteration not issued yet, in order
    inflight,    \* writes issued and not answered
    acked,       \* acknowledged writes some read may still miss
    lost,        \* writes given up on: the store may apply them yet, or never
    settled,     \* writes every read sees
    pending,     \* TRUNCATEs given up on, which the store may yet execute
    overtaken,   \* writes that were in flight when it executed one of these
    remnants,    \* rows it then removed, from some of the replicas at least
    truncated,   \* the TRUNCATE of this run succeeded
    reading,     \* what the SELECTs of the current score have returned so far
    floor,       \* history: how far rows were settled when the score began,
                 \* unless the store has executed a late TRUNCATE since
    leftover,    \* history: writes of earlier runs unsettled when they died
    faults

wiping == <<pending, overtaken, remnants>>
writes == <<inflight, acked, lost, settled, wiping>>
scorer == <<reading, floor>>
ingest == <<pc, run, n, todo, truncated, leftover>>
vars == <<ingest, writes, scorer, faults>>

-----------------------------------------------------------------------------
BucketAt(win, i) == (Stream[i].sec \div Size(win)) * Size(win)
Bucket(w) == BucketAt(w.win, w.upto)

Row(win, upto) == [win |-> win, run |-> run, upto |-> upto]

NoFlush == [run |-> 1, upto |-> 0]

FlushRows(upto) == [i \in DOMAIN Order |-> Row(Order[i], upto)]

(* In one bucket the newest write is the row.                              *)
Overwrites(w, v) ==
    /\ w.win = v.win /\ Bucket(w) = Bucket(v)
    /\ w.run > v.run \/ (w.run = v.run /\ w.upto > v.upto)

(* Of the writes in S, those none of T overwrites.                         *)
Current(S, T) == {v \in S : \A w \in T : ~Overwrites(w, v)}

(* The windows whose bucket the next fill closes, with their last rows:    *)
(* windows nest, so they are the shortest ones, the first in Order.        *)
Closing == {i \in DOMAIN Order : BucketAt(Order[i], n) # BucketAt(Order[i], n + 1)}
ClosedRows == IF n = 0 THEN <<>> ELSE SubSeq(FlushRows(n), 1, Cardinality(Closing))

Init ==
    /\ pc = "starting"
    /\ run = 1 /\ n = 0
    /\ todo = <<>>
    /\ inflight = {} /\ acked = {} /\ lost = {} /\ settled = {}
    /\ pending = 0 /\ overtaken = {} /\ remnants = {}
    /\ truncated = FALSE
    /\ reading = <<>> /\ floor = NoFlush
    /\ leftover = {}
    /\ faults = 0

Fault == faults < MaxFaults /\ faults' = faults + 1

-----------------------------------------------------------------------------
(* The ingest                                                              *)

NothingCleared == UNCHANGED <<settled, remnants>>      \* mutant: no TRUNCATE
Cleared == settled' = {} /\ remnants' = {}

(* TRUNCATE. An exception is ignored, and it may be the timeout of one the *)
(* store executes later, or has executed on some replicas.                 *)
Truncate ==
    /\ pc = "starting"
    /\ pc' = "run"
    /\ \/ Cleared /\ truncated' = TRUE /\ UNCHANGED <<pending, faults>>
       \/ Fault /\ pending' = pending + 1 /\ UNCHANGED <<settled, remnants, truncated>>
    /\ UNCHANGED <<run, n, todo, inflight, acked, lost, overtaken, scorer, leftover>>

(* The next fill: the rows it closes, and a flush if one is due.           *)
ApplyFill ==
    /\ pc = "run"
    /\ todo = <<>>
    /\ n < Len(Stream)
    /\ n' = n + 1
    /\ todo' = ClosedRows \o (IF n' \in Flushes THEN FlushRows(n') ELSE <<>>)
    /\ UNCHANGED <<pc, run, truncated, writes, scorer, leftover, faults>>

(* Mutant: the loop ends and the open windows stay unwritten.              *)
EndUnflushed ==
    /\ pc = "run"
    /\ todo = <<>>
    /\ n = Len(Stream)
    /\ pc' = "drain"
    /\ UNCHANGED <<run, n, todo, truncated, writes, scorer, leftover, faults>>

FinalFlush ==
    /\ pc = "run"
    /\ todo = <<>>
    /\ n = Len(Stream)
    /\ pc' = "drain"
    /\ todo' = FlushRows(n)
    /\ UNCHANGED <<run, n, truncated, writes, scorer, leftover, faults>>

Issue ==
    /\ todo # <<>>
    /\ Cardinality(inflight) < MaxInflight
    /\ inflight' = inflight \cup {Head(todo)}
    /\ todo' = Tail(todo)
    /\ UNCHANGED <<pc, run, n, truncated, acked, lost, settled, wiping, scorer, leftover,
                   faults>>

Drained ==
    /\ pc = "drain"
    /\ todo = <<>>
    /\ inflight = {}
    /\ pc' = "done"
    /\ UNCHANGED <<run, n, todo, truncated, writes, scorer, leftover, faults>>

(* The process dies, with the page that started it, and is started again:  *)
(* the engine is lost and the stream starts over.                          *)
CrashAndRestart ==
    /\ pc # "starting"
    /\ run <= MaxCrashes
    /\ pc' = "starting"
    /\ run' = run + 1
    /\ n' = 0
    /\ todo' = <<>>
    /\ truncated' = FALSE
    /\ lost' = lost \cup inflight \cup acked
    /\ inflight' = {} /\ acked' = {} /\ overtaken' = {}
    /\ leftover' = lost'
    /\ UNCHANGED <<settled, pending, remnants, scorer, faults>>

-----------------------------------------------------------------------------
(* The store                                                               *)

Settle(w) == settled' = Current(settled, {w}) \cup Current({w}, settled)

(* What a late TRUNCATE has overtaken may be gone though it is acknowledged. *)
Ack(w) ==
    /\ inflight' = inflight \ {w}
    /\ overtaken' = overtaken \ {w}
    /\ \/ /\ w \in overtaken
          /\ lost' = lost \cup {w}
          /\ UNCHANGED <<acked, settled>>
       \/ /\ w \notin overtaken /\ Tuning = "default"
          /\ Settle(w)
          /\ UNCHANGED <<acked, lost>>
       \/ /\ w \notin overtaken /\ Tuning = "tuned"
          /\ Cardinality(acked) < MaxLag
          /\ acked' = acked \cup {w}
          /\ UNCHANGED <<settled, lost>>
    /\ UNCHANGED <<pending, remnants, ingest, scorer, faults>>

(* The errback only counts.                                                *)
Fail(w) ==
    /\ Fault
    /\ inflight' = inflight \ {w}
    /\ overtaken' = overtaken \ {w}
    /\ lost' = lost \cup {w}
    /\ UNCHANGED <<acked, settled, pending, remnants, ingest, scorer>>

(* The last replica applies an acknowledged write, or one given up on.     *)
Replicate(w) ==
    /\ Settle(w)
    /\ acked' = acked \ {w}
    /\ UNCHANGED <<inflight, lost, wiping, ingest, scorer, faults>>

ApplyLate(w) ==
    /\ Settle(w)
    /\ lost' = lost \ {w}
    /\ UNCHANGED <<inflight, acked, wiping, ingest, scorer, faults>>

(* A TRUNCATE given up on is executed after all, on some replicas or on    *)
(* all: it removes what the table holds by then, whoever wrote it, and of  *)
(* the writes on their way what replicas have of them.                     *)
LateTruncate ==
    /\ pending > 0
    /\ pending' = pending - 1
    /\ settled' = {} /\ remnants' = remnants \cup settled
    /\ acked' = {} /\ lost' = lost \cup acked
    /\ overtaken' = inflight
    /\ floor' = NoFlush
    /\ UNCHANGED <<inflight, ingest, reading, faults>>

-----------------------------------------------------------------------------
(* A score                                                                 *)

(* Mutant: the clustering order of the table is ascending.                 *)
OldestBucket(seen) == Min({Bucket(w) : w \in seen})

(* CLUSTERING ORDER BY (bucket_ts DESC).                                   *)
FirstBucket(seen) == Max({Bucket(w) : w \in seen})

(* The row LIMIT 1 returns from the writes a read sees, if there is one.   *)
FirstRow(seen) == Current({w \in seen : Bucket(w) = FirstBucket(seen)}, seen)

WritesOf(win, S) == {w \in S : w.win = win}

(* How far this run's rows are settled, in every window.                   *)
SettledFlush ==
    [run |-> run,
     upto |-> Min({Max({0} \cup {w.upto : w \in {v \in WritesOf(win, settled) : v.run = run}}) :
                      win \in ToSet(Order)})]

(* SELECT ... LIMIT 1. Of the writes it sees though not every read would,  *)
(* only the newest can be the row, so one of them at most matters.         *)
ReadWindow ==
    /\ Len(reading) < Len(Order)
    /\ LET win == Order[Len(reading) + 1]
           unsure == WritesOf(win, inflight \cup acked \cup lost \cup remnants)
       IN  \E seen \in {{}} \cup {{w} : w \in unsure} :
              reading' = Append(reading, FirstRow(WritesOf(win, settled) \cup seen))
    /\ floor' = IF reading = <<>> THEN SettledFlush ELSE floor
    /\ UNCHANGED <<ingest, writes, faults>>

GiveScore ==
    /\ Len(reading) = Len(Order)
    /\ reading' = <<>>
    /\ floor' = NoFlush
    /\ UNCHANGED <<ingest, writes, faults>>

(* A read raises: the request is answered with an error.                   *)
ReadFails ==
    /\ Len(reading) < Len(Order)
    /\ Fault
    /\ reading' = <<>>
    /\ floor' = NoFlush
    /\ UNCHANGED <<ingest, writes>>

-----------------------------------------------------------------------------
Ingest == Truncate \/ ApplyFill \/ FinalFlush \/ Issue \/ Drained
Answer == \E w \in inflight : Ack(w) \/ Fail(w)
Reader == ReadWindow \/ GiveScore

Next ==
    \/ Ingest
    \/ Answer
    \/ \E w \in acked : Replicate(w)
    \/ \E w \in lost : ApplyLate(w)
    \/ LateTruncate
    \/ Reader
    \/ CrashAndRestart
    \/ ReadFails

Spec == Init /\ [][Next]_vars

(* The ingest is scheduled, the driver answers every request, a replica    *)
(* that acknowledged nothing catches up, and scores are asked for.         *)
FairSpec ==
    /\ Spec
    /\ WF_vars(Ingest)
    /\ WF_vars(Answer)
    /\ WF_vars(\E w \in acked : Replicate(w))
    /\ WF_vars(Reader)

-----------------------------------------------------------------------------
(* The rows of one score, read one after the other while the ingest closes *)
(* and flushes buckets and writes settle in any order, may be of different *)
(* moments, but none is older than the last flush every read could see     *)
(* when the score began, unless the store executes a TRUNCATE meanwhile    *)
(* that the ingest had given up on.                                        *)
FreshAsFlushed ==
    floor.run = run /\ floor.upto > 0 =>
        \A i \in DOMAIN reading :
            \E w \in reading[i] :
                LET flushed == Row(Order[i], floor.upto)
                IN  w = flushed \/ Bucket(w) > Bucket(flushed) \/ Overwrites(w, flushed)

(* "so the inference read always sees THIS run's fresh buckets": once the  *)
(* TRUNCATE has succeeded, a row of an earlier run can be served only if   *)
(* its write was still on its way when that run died.                      *)
ServesThisRun ==
    [][truncated /\ Len(reading') > Len(reading) =>
          \A w \in Last(reading') : w.run = run \/ w \in leftover]_vars

(* Once all fills are applied, scores come to reflect every one of them,   *)
(* in spite of crashes, ignored TRUNCATE failures, late writes of earlier  *)
(* runs, and writes that failed or a late TRUNCATE removed before the last *)
(* flush; unless that befalls a row of the last flush, which nothing       *)
(* repeats.                                                                *)
FinalRows == FlushRows(Len(Stream))
FinalFlushUndone == ToSet(FinalRows) \cap (lost \cup remnants) # {}

ScoresConverge ==
    <>[](FinalFlushUndone \/ IsPrefix(reading, [i \in DOMAIN Order |-> {FinalRows[i]}]))

(* "vol_spike: short-term volume rate vs the 1h baseline", "3x baseline -> *)
(* 0.5": a coin that has traded the same volume every minute for more than *)
(* an hour is not at three times its baseline.                             *)
Held(w) ==
    [volume |-> MapThenSumSet(LAMBDA i : Stream[i].volume,
                    {i \in 1..w.upto : BucketAt(w.win, i) = Bucket(w)})]
RowHeld(result) == {Held(w) : w \in result}

Steady ==
    \A i \in DOMAIN Stream : Stream[i] = [Stream[1] EXCEPT !.sec = @ + 60 * (i - 1)]

SteadyIsNoSpike ==
    /\ Steady
    /\ Len(reading) = Len(Order)
    /\ \A i \in DOMAIN reading : \E w \in reading[i] : w.upto > 60
    => VolSpike(RowHeld(Head(reading)), RowHeld(Last(reading))) < 500
=============================================================================
