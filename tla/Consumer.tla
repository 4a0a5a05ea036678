------------------------------ MODULE Consumer ------------------------------
(***************************************************************************)
(* The ingestion job, src/feature_store/consumer.py: it replays fills into *)
(* the engine and writes what the engine holds as blind upserts, which the *)
(* store resolves by timestamp, last writer wins. Writes are pipelined, so *)
(* they complete in any order; one may fail, may time out and be applied   *)
(* later, and the job may die and be started again from the first fill.    *)
(*                                                                         *)
(* A row's value is abstracted to its version, the number of fills of the  *)
(* stream it reflects. One window stands for the three: the windows of a   *)
(* coin close independently of one another (CoinWindows.tla). The table    *)
(* holds of each row the newest write that was acknowledged or applied     *)
(* late, which every replica comes to hold; one that lags behind it, or is *)
(* ahead, is the subject of FreshnessProbe.tla and Serving.tla.            *)
(***************************************************************************)
EXTENDS Integers, SequencesExt

CONSTANTS Stream,        \* the fills in replay order: [addr, coin, ms, bucket]
          RawSink,       \* --raw-sink: "off", "bucket" or "hot"
          MaxInflight,   \* Pipeline's max_inflight
          MaxFailures,   \* bound: writes that fail, in a behaviour
          MaxCrashes     \* bound: deaths of the process, in a behaviour

(* Replay.tla: fills come in time order, so no coin's bucket goes back.    *)
ASSUME StreamAssumption ==
    /\ Len(Stream) \in Nat /\ DOMAIN Stream = 1..Len(Stream)
    /\ \A i \in DOMAIN Stream : Stream[i].bucket \in Nat
    /\ \A i, j \in DOMAIN Stream :
          i < j /\ Stream[i].coin = Stream[j].coin => Stream[i].bucket <= Stream[j].bucket
    /\ RawSink \in {"off", "bucket", "hot"}
    /\ MaxInflight \in Nat \ {0}
    /\ MaxFailures \in Nat /\ MaxCrashes \in Nat

VARIABLES
    pc,         \* "run" in the loop, "drain" after the final flush, "done"
    pos,        \* fills applied to the engine by this run
    todo,       \* writes of the current iteration not issued yet, in order
    inflight,   \* writes issued and not answered
    limbo,      \* writes the job gave up on, which the store may still apply
    table,      \* row -> the version stored and its write timestamp
    clock,      \* the driver's write timestamps
    failed,     \* writes of this run that ended in the errback
    flushedAt,  \* pos at the last flush of this run
    runStart,   \* clock when this run started
    failures, crashes

storeVars == <<limbo, table>>
vars == <<pc, pos, todo, inflight, limbo, table, clock, failed, flushedAt, runStart,
          failures, crashes>>

-----------------------------------------------------------------------------
(* The rows a fill belongs to, and the engine after n fills.               *)

WalletCoinRow(i) == <<"wallet_coin", Stream[i].addr, Stream[i].coin>>
WalletRow(i) == <<"wallet", Stream[i].addr>>
WindowRow(i) == <<"coin_window", Stream[i].coin, Stream[i].bucket>>

(* The raw fill, under the primary key of its table: fills of one address  *)
(* on one coin in the same millisecond share a row, the last one stays.    *)
TimeBucket(ms) == ((ms \div 1000) \div 10) * 10
RawRow(i) ==
    IF RawSink = "bucket"
    THEN <<"fill_bucket", Stream[i].coin, TimeBucket(Stream[i].ms), Stream[i].ms, Stream[i].addr>>
    ELSE <<"fill_hot", Stream[i].coin, Stream[i].ms, Stream[i].addr>>

RawWrites(i) == IF RawSink = "off" THEN <<>> ELSE <<RawRow(i)>>
RawRows(i) == ToSet(RawWrites(i))

RowsOf(i) == {WalletCoinRow(i), WalletRow(i), WindowRow(i)} \cup RawRows(i)
Rows == UNION {RowsOf(i) : i \in DOMAIN Stream}

Version(row, n) == Cardinality({i \in 1..n : row \in RowsOf(i)})

(* The newest of the first n fills of a coin lies in its open bucket.      *)
LastOfCoin(coin, n) == Max({i \in 1..n : Stream[i].coin = coin})
OpenRow(coin, n) == WindowRow(LastOfCoin(coin, n))

(* Positions in increasing order, and those where a coin or an address     *)
(* appears first: the order in which a dict of them is iterated.           *)
InOrder(F) ==
    CHOOSE s \in [1..Cardinality(F) -> F] :
        /\ \A x \in F : \E i \in 1..Cardinality(F) : s[i] = x
        /\ \A i, j \in 1..Cardinality(F) : i < j => s[i] < s[j]

FirstOfCoins(n) ==
    InOrder({i \in 1..n : \A j \in 1..(i - 1) : Stream[j].coin # Stream[i].coin})
FirstOfAddrs(n) ==
    InOrder({i \in 1..n : \A j \in 1..(i - 1) : Stream[j].addr # Stream[i].addr})

At(rows, n) == [i \in DOMAIN rows |-> [row |-> rows[i], version |-> Version(rows[i], n)]]

(* The flush of the wallets alone is a mutant: it leaves the open buckets  *)
(* out.                                                                    *)
FlushedWallets(n) ==
    [i \in DOMAIN FirstOfAddrs(n) |-> WalletRow(FirstOfAddrs(n)[i])]

(* flush_wallets_and_open_windows: every open bucket, every known wallet.  *)
FlushedRows(n) ==
    [i \in DOMAIN FirstOfCoins(n) |-> OpenRow(Stream[FirstOfCoins(n)[i]].coin, n)]
        \o FlushedWallets(n)

FlushWrites(n) == At(FlushedRows(n), n)

NoneClosed(n) == <<>>      \* mutant: closed buckets are left to the flushes

(* The bucket that fill n closes, if any.                                  *)
ClosedRows(n) ==
    LET coin == Stream[n].coin
        before == {i \in 1..(n - 1) : Stream[i].coin = coin}
    IN  IF before # {} /\ OpenRow(coin, n - 1) # OpenRow(coin, n)
        THEN <<OpenRow(coin, n - 1)>>
        ELSE <<>>

(* Steps 1 to 3 of the loop: write-through of the position, then the       *)
(* buckets the fill closed, then the raw fill.                             *)
FillWrites(n) == At(<<WalletCoinRow(n)>> \o ClosedRows(n) \o RawWrites(n), n)

-----------------------------------------------------------------------------
(* The store: an upsert replaces a row unless a newer one is there.        *)
LastArrivalWins(old, w) == TRUE      \* mutant: no write timestamps
LastWriterWins(old, w) == w.ts > old.ts

Upsert(w) ==
    IF LastWriterWins(table[w.row], w)
    THEN [table EXCEPT ![w.row] = [version |-> w.version, ts |-> w.ts]]
    ELSE table

Init ==
    /\ pc = "run"
    /\ pos = 0
    /\ todo = <<>>
    /\ inflight = {}
    /\ limbo = {}
    /\ table = [r \in Rows |-> [version |-> 0, ts |-> 0]]
    /\ clock = 0
    /\ failed = {}
    /\ flushedAt = 0
    /\ runStart = 0
    /\ failures = 0
    /\ crashes = 0

(* One iteration: apply the fill, and flush too if flush_secs have passed. *)
NextFill ==
    /\ pc = "run"
    /\ todo = <<>>
    /\ pos < Len(Stream)
    /\ pos' = pos + 1
    /\ \/ /\ todo' = FillWrites(pos')
          /\ UNCHANGED flushedAt
       \/ /\ todo' = FillWrites(pos') \o FlushWrites(pos')
          /\ flushedAt' = pos'
    /\ UNCHANGED <<pc, inflight, storeVars, clock, failed, runStart, failures, crashes>>

(* The stream has ended: a last flush, then pipe.drain.                    *)
FinalFlush ==
    /\ pc = "run"
    /\ todo = <<>>
    /\ pos = Len(Stream)
    /\ pc' = "drain"
    /\ todo' = FlushWrites(pos)
    /\ flushedAt' = pos
    /\ UNCHANGED <<pos, inflight, storeVars, clock, failed, runStart, failures, crashes>>

PermitFree == Cardinality(inflight) < MaxInflight

(* pipe.execute, once a permit is free.                                    *)
Issue ==
    /\ todo # <<>>
    /\ PermitFree
    /\ clock' = clock + 1
    /\ inflight' = inflight \cup
           {[row |-> Head(todo).row, version |-> Head(todo).version, ts |-> clock']}
    /\ todo' = Tail(todo)
    /\ UNCHANGED <<pc, pos, storeVars, failed, flushedAt, runStart, failures, crashes>>

(* pipe.drain returns once every write of the run is answered.             *)
NoDrain == TRUE             \* mutant: the job ends without draining
AllAnswered == inflight = {}

Drained ==
    /\ pc = "drain"
    /\ todo = <<>>
    /\ AllAnswered
    /\ pc' = "done"
    /\ UNCHANGED <<pos, todo, inflight, storeVars, clock, failed, flushedAt, runStart,
                   failures, crashes>>

(* Acknowledged: the write has reached the replicas its level waits for.   *)
Ack(w) ==
    /\ table' = Upsert(w)
    /\ inflight' = inflight \ {w}
    /\ UNCHANGED <<pc, pos, todo, limbo, clock, failed, flushedAt, runStart, failures, crashes>>

(* The errback only counts; nothing retries the write. The error may be a  *)
(* timeout of a write the store still applies.                             *)
Fail(w) ==
    /\ failures < MaxFailures
    /\ failures' = failures + 1
    /\ failed' = failed \cup {w}
    /\ inflight' = inflight \ {w}
    /\ limbo' \in {limbo, limbo \cup {w}}
    /\ UNCHANGED <<pc, pos, todo, table, clock, flushedAt, runStart, crashes>>

LateApply(w) ==
    /\ table' = Upsert(w)
    /\ limbo' = limbo \ {w}
    /\ UNCHANGED <<pc, pos, todo, inflight, clock, failed, flushedAt, runStart, failures,
                   crashes>>

(* The process dies and is started again: the engine is lost, the stream   *)
(* starts over, what was in flight may or may not reach the store. The     *)
(* clock is wall-clock time, so it goes on.                                *)
CrashAndRestart ==
    /\ pc # "done"
    /\ crashes < MaxCrashes
    /\ crashes' = crashes + 1
    /\ pc' = "run"
    /\ pos' = 0
    /\ todo' = <<>>
    /\ inflight' = {}
    /\ limbo' = limbo \cup inflight
    /\ failed' = {}
    /\ flushedAt' = 0
    /\ runStart' = clock
    /\ UNCHANGED <<table, clock, failures>>

Terminated == pc = "done" /\ UNCHANGED vars

Job == NextFill \/ FinalFlush \/ Issue \/ Drained
Answer(w) == Ack(w) \/ Fail(w)

Next ==
    \/ Job
    \/ \E w \in inflight : Answer(w)
    \/ \E w \in limbo : LateApply(w)
    \/ CrashAndRestart
    \/ Terminated

Spec == Init /\ [][Next]_vars

-----------------------------------------------------------------------------
Writes == [row : Rows, version : Nat, ts : Nat]

TypeOK ==
    /\ pc \in {"run", "drain", "done"}
    /\ pos \in 0..Len(Stream) /\ flushedAt \in 0..pos
    /\ todo \in Seq([row : Rows, version : Nat])
    /\ inflight \subseteq Writes /\ limbo \subseteq Writes /\ failed \subseteq Writes
    /\ Cardinality(inflight) <= MaxInflight
    /\ table \in [Rows -> [version : Nat, ts : 0..clock]]
    /\ runStart \in 0..clock
    /\ failures \in 0..MaxFailures /\ crashes \in 0..MaxCrashes

(* row holds the engine's value of n fills, or this run's write of that    *)
(* very value was among those that failed.                                 *)
CurrentUnlessFailed(row, n) ==
    \/ table[row].version = Version(row, n)
    \/ \E w \in failed : w.row = row /\ w.version = Version(row, n)

Quiet == todo = <<>> /\ inflight = {}

(* Positions and raw fills are written through and closed buckets at their *)
(* close: with nothing in flight each is exactly what the engine holds, in *)
(* whatever order the writes completed and whatever an earlier, crashed    *)
(* run left.                                                               *)
WriteThroughCurrent ==
    Quiet =>
        \A i \in 1..pos :
            /\ \A row \in {WalletCoinRow(i)} \cup RawRows(i) : CurrentUnlessFailed(row, pos)
            /\ WindowRow(i) # OpenRow(Stream[i].coin, pos) =>
                  CurrentUnlessFailed(WindowRow(i), pos)

(* Wallets and open buckets lag behind the engine by no more than a flush  *)
(* interval: they are what the engine held at the last flush.              *)
FlushedCurrent ==
    Quiet =>
        \A i \in 1..flushedAt :
            /\ CurrentUnlessFailed(WalletRow(i), flushedAt)
            /\ WindowRow(i) = OpenRow(Stream[i].coin, pos) =>
                  CurrentUnlessFailed(WindowRow(i), flushedAt)

(* "idempotent on replay": a run that ends without errors leaves every row *)
(* at its final value, even after runs that died half-way and whatever the *)
(* store still applies of their writes.                                    *)
FinalTablesExact ==
    pc = "done" /\ failed = {} =>
        \A row \in Rows : table[row].version = Version(row, Len(Stream))

(* Once a run has written a row, what the replicas come to hold of it never *)
(* goes back to an older value within the run, though several writes of it *)
(* are in flight and complete, or time out and are applied, in any order,  *)
(* and those of a run that died may be applied among them. A read at       *)
(* LOCAL_ONE may still meet a replica that lags.                           *)
RowsNeverRegress ==
    [][\A row \in Rows :
          crashes' = crashes /\ table[row].ts > runStart =>
              table'[row].version >= table[row].version]_vars

=============================================================================
