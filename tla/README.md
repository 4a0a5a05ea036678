# A verified model of the feature store's Python side

TLA+ models of the programs in `src/src/feature_store` (paths below are relative to
it; line numbers are those of the modelled commit), TLC runs that check them on
small instances, and TLAPS proofs of theorems that hold for every instance.

Reading order: this file, then `BoundedWrites.tla` and `Pipeline.tla`, then
`CoinWindows.tla`, then the rest.

## 1. The system

Fills (trades of Hyperliquid wallets) are replayed from Parquet day files. A feature
engine keeps three groups of aggregates in memory, and its values are written to
ScyllaDB as blind upserts. An API and a dashboard read them back with point reads.

| part | code | state | operations |
|---|---|---|---|
| replay | `replay.py` | position in the day files | `day_files`, `_iter_day`, `iter_fills`, `replay` (pacing) |
| feature engine | `features.py` | positions per (wallet, coin), wallets, open buckets per (coin, window) | `apply`, `open_snapshots` |
| write pipeline | `writer.py` | semaphore, counters under a lock, sampled latencies | `execute`, `_done`/`_err`, `drain`, totals |
| consumer | `consumer.py` | an engine, a pipeline, flush timer, sample keys | the loop, `flush_wallets_and_open_windows`, final flush and drain |
| store | ScyllaDB (external), `cql/schema.cql`, `statements.py` | rows, resolved by write timestamp | upserts, point reads |
| cluster settings | `config.py` | consistency levels, 15 s request timeout | `make_cluster` |
| load generator | `loadgen.py` | worker processes, barrier, result queue | `_worker`, `main` |
| dashboard | `dashboard.py` | a manager dictionary shared by processes, `STATS` under a lock | ingest process, blasters, reader thread, `/burst`, `/stats`, `/ws` |
| scoring API | `api.py`, `scorer.py` | a session | three GET handlers, pure scoring functions |
| read benchmark | `bench.py` | processes and threads of readers | `read_bench`, `_worker` |
| schema tool | `apply_schema.py` | - | statement splitting, keyspace creation |

How they interact: `consumer`, the ingest process and the load generator call the
engine and hand writes to a `Pipeline`; the driver calls back `_done`/`_err` on its own
threads; processes of the dashboard exchange figures through the shared dictionary;
the load generator's processes meet at a barrier, and they and the read benchmark's
answer on a queue; the API and the dashboard's reader score a coin from the window rows
that the consumer or the ingest process wrote.

What is hard in it: callbacks that race with the caller over permits and counters;
writes of one row that complete in any order, fail, or are applied after their
timeout; a job whose state is in memory only and starts over after a crash; three
windows per coin that decide separately what a late fill means; rows with equal times
that come out of an unstable sort in any order; a parent that must take results before
it joins its workers, and threads that share the sums they report; a paced loop that
only looks at its timers when a fill arrives; scores put together from three reads while
the rows change, and from rows a former run left behind.
`PROJECT.json` lists each hazard at its line with the property that covers it.

## 2. The modules

| module | models | composes |
|---|---|---|
| `BoundedWrites` | what the write path promises: at most `Limit` writes outstanding, and a barrier | abstract specification |
| `Pipeline` | `writer.py`, driven by one caller | implements `BoundedWrites` |
| `Fills` | `Fill` and the stream of fills so far | - |
| `WindowSizes` | `WINDOWS` | - |
| `CoinWindows` | `Bucket`, `CoinWindowAggregator` | `Fills`, `WindowSizes` |
| `Positions` | `WalletCoinState`, `WalletState`, `wallet_weight` | `Fills` |
| `Scorer` | `unusual_accumulation`, the reader's signal: functions of rows | - |
| `FeatureEngine` | `FeatureEngine.apply`, `open_snapshots`, scores of what they hold | `Positions`, `CoinWindows`, `Scorer` |
| `Replay` | `day_files`, `_iter_day`, `iter_fills` feeding the engine | `FeatureEngine` |
| `Consumer` | `consumer.run` and the tables it writes | - |
| `Serving` | `score_coin` (and the reader's scoreboard) against the ingest that writes the rows | `Scorer`, `WindowSizes` |
| `FreshnessProbe` | the dashboard's probe on replicas, with `make_cluster`'s consistency levels | - |
| `ResultQueue` | the parent, its workers and their result queue, in `loadgen.py` and `bench.py` | - |
| `LoadGen` | `_worker` of `loadgen.py` | `ResultQueue` |
| `Bench` | `_worker` of `bench.py` and its threads | `ResultQueue` |
| `Tools` | one run of either tool | `LoadGen`, `Bench` |
| `Ingest` | the dashboard's paced ingest loop and BURST | - |
| `Fleet` | the dashboard's blasters, the counts they publish and the total the reader adds up | - |
| `*_proofs` | theorems: `Pipeline_proofs`, `Replay_proofs` (windows, positions, engine and replay), `Consumer_proofs`, `Serving_proofs`, `FreshnessProbe_proofs`, `Ingest_proofs`, `Tools_proofs` (parent, load generator, read benchmark), `Fleet_proofs` | - |
| `MC*` | the constants of the runs | - |

Correspondence, module by module:

* **Pipeline.** `gate` is the semaphore, `n` is `_n`, `count`, `errors` and `latencies`
  are the attributes of the same names. A request goes through the phases sent,
  resolved, released, counting, done: `_done` and `_err` release the permit in one
  step, take `_lock` in the next and write the counter in a third, so the read and
  the write of `+= 1` are apart. `AddCallbacks` covers the future that is already
  resolved when the callbacks are registered: they then run on the caller's thread,
  and `execute` returns after them. `drain` takes and returns permits one by one.
* **CoinWindows.** `open` is the dictionary of open buckets; `closed` collects what
  `update` returns. `StartsBucket`, `Closes` and `IsLate` are the three outcomes of
  the comparison of bucket times. `applied` is a history of the fills.
* **Positions.** `wc` and `wallets` are the engine's dictionaries. The average entry is
  a pair numerator/denominator, archetype and weight compare integers with the
  quotients multiplied out, weights are in eighths.
* **FeatureEngine.** `Apply` updates position, wallet and windows in that order: the
  buckets a fill closes are weighed with wallets that already hold the fill.
* **Replay.** `left` holds the rows of the current file not yielded yet, `NextRows`
  those the sort may put first. The files and the arguments `--days` and `--max-fills`
  are chosen in the initial state; files need not be in order, though the code expects
  it, so the windows also meet fills in any order. A file is a finite set of rows, and
  no row is in two files (`ReplaysAssumption`): rows that are equal in every column
  would be one row of the model.
* **Scorer.** Ratios are integers in thousandths; the logistic function is a table over
  whole multiples of the baseline. The reader's smart-money bar and its LONG and SHORT
  are here too.
* **Consumer.** A row's value is abstracted to its version, the number of fills it
  reflects. `todo` holds the writes of the current iteration in the order of the
  code, those of a flush in the order of the dictionaries, that is, of the first fill of
  each coin and wallet; `inflight` those issued; `limbo` those the job no longer waits for and the
  store may yet apply. `table` holds the newest write acknowledged or applied late, which is
  what the replicas come to hold; that a read at `LOCAL_ONE` may meet one that lags is
  left to `FreshnessProbe` and `Serving`. Whether a flush is due is a free choice at each fill. A raw
  fill's row is its primary key in the table `--raw-sink` names.
* **Serving.** A row is the run that wrote it and the number of fills it reflects. A
  write is in flight, acknowledged, given up (`lost`), or settled, that is, seen by
  every read; any other a read may see or not. Of those it sees though not every read
  would, only the newest can be what `LIMIT 1` returns, so a read is given one of them at
  most. A TRUNCATE that raises may have timed out and be executed later
  (`LateTruncate`): what the table holds by then need not be seen any more (`remnants`: some
  replicas may keep it), and neither need the writes on their way. That is one step
  here, though replicas may execute it one by one: what a read sees in between is what
  `remnants` allows. `Order` is the tuple of windows, shortest
  first as in `WINDOWS`: the runs use the shortest and the longest, the third is written
  and read like them. The windows nest (`WindowsAreNested`), so those a fill closes are a
  prefix of `Order`. `reading`
  grows by one SELECT at a time; `floor` and `leftover` only record history. `MaxLag`
  bounds the acknowledged writes under way to a replica, `MaxCrashes` the restarts and
  `MaxFaults` the requests that fail. The driver's threads, the
  permits and the counters of the pipeline are `Pipeline`'s subject.
* **FreshnessProbe.** Each replica applies a write in its own time; a request waits
  for as many replicas as its consistency level says. The probe is always tuned; the
  run with quorums stands for `consumer --tuning default` and an API with
  `FS_TUNING=default`. The replication factor is that of `apply_schema.py`.
* **ResultQueue.** A worker's result goes to a feeder thread, from there to a bounded pipe
  or straight to the parent's `get`; a worker exits only once it is handed over. A worker
  dies of an exception while it loads, connects or has requests to make; processes killed
  from outside, at the barrier or after the put, are left out.
* **LoadGen.** A row is issued, answered and, by the pipeline, counted. `Answer` is where a
  callback returns its permit, `Count` where it has taken the lock and counted, which may be
  any time later: the permit is used again meanwhile, so there is no bound on the callbacks
  that have not counted when `drain` returns, and the totals may lack any of them.
  `TotalsComplete` says what the totals are in spite of it: those of the rows that were counted
  by then, each once, with every row's request ended. A callback that counts after its
  worker read the counters changes nothing that is printed and is left out.
* **Bench.** A thread's reads are one step, of which any may miss or fail; `TakeLock`
  reads the worker's sums and `Merge` writes them, so an unlocked `+=` could lose one.
* **Ingest.** Time is in ticks of 0.25 s, `now` is the time read when the fill was
  drawn, which the flush and publication tests use after the pacing sleep.
* **Fleet.** `sent` of a blaster is its `fc`, `count` its `pipe.count`; `shared` holds
  the keys published so far. Instead of a clock there are the ages of `last_chk` and
  `last_pub`, which stop growing once due, and what is left of the burst. `StartCopy`
  and `CopyKey` are `dict(shared)`, which asks the manager for the keys and then for
  one value after the other, here in any order. A baseline blaster's look at the burst
  deadline has no effect and is left out.

Operators with a comment "mutant" are plausible bugs of one definition; no
specification uses them. Each is put in the place of the definition after it to see
that the property named in `PROJECT.json` would catch it.

## 3. What is checked

Passing runs (TLC explores all states; times are for two cores):

| run | what it asks | bounds, and why they are enough | states |
|---|---|---|---|
| `pipeline` | permits conserved, drain is a barrier, counters and samples exact, contract implemented, drain returns, every write counted | 2 permits, 4 requests, every second one sampled, a deque of one: the gate closes, two callbacks overlap a third, the deque overflows | 31 834 |
| `replay` | rows and order of a replay; windows hold exactly their fills, close once and in order, nest, never go back; agreement of the groups, average entry, sane snapshots and scores, conserved volume, independence of ties | an archive of three day files of 7, 4 and 1 rows with up to four rows tied, whole or cut to 8 rows; and four one-row files in every order, out of ten rows on either side of minute, five-minute and hour ends; positions that grow, shrink, close and flip | 62 022 |
| `consumer` | tables against engine | two fills of one position in two buckets, so all rows but one are written again; two writes in flight, one failure, one crash; each fill has a raw row of its own, in a 10 s bucket (`PositionsWrittenThrough` covers fills that share one, too) | 1 817 017 |
| `probe` | a read made after the acknowledgement sees the write | a cluster of four nodes, so three replicas; three probes, quorum levels | 133 |
| `tools` | the barrier, a report of every worker and row, totals of exactly the rows counted by then, sums of reads that lose none, no hang unless a worker raised | two writing workers and five rows (not divisible), or two reading workers with two threads and nine reads (not divisible); two requests in flight for the three rows of the first worker, answered and counted in any order, so that more callbacks are yet to count than there are permits; one death, one failed write, any reads missed or failed, a pipe for one result | 623 035 |
| `ingest` | pace, catch-up, flush lag, age of the burst state | five fills with ties and a gap, a burst of two ticks, a loop that may take any time, six ticks | 690 044 |
| `fleet` | the total on show only grows and is never too high, bursts end within a batch, what a burst wrote is counted in the end | a blaster of each kind beside the ingest, two rows to a batch, one burst, four writes of which one fails; a publication timer that is due less often than the burst check | 562 671 |
| `serving` | freshness of a score's rows, no rows of a former run, scores catch up with the fills | two windows, two fills of which the second opens a new minute in the same hour, a flush after the first, so a row is closed, one is upserted again and a flush is overwritten; a tuned writer with one write in flight and one acknowledged on its way (those that linger in the store overtake one another); one crash and one failed request, in either order: a TRUNCATE that fails in either run and may be executed late in it or in the next, or a lost write | 1 025 510 |

Violation runs, each a disagreement between the code and what the repository says of it:

| run | what it shows |
|---|---|
| `pipeline_report` | `drain` says it blocks until all requests have completed; the totals printed after it can miss writes, because callbacks release before they count |
| `probe_tuned` | the probe claims the write-to-visible time; at `LOCAL_ONE` its read may return the previous value, and the value is not looked at |
| `loadgen_acked` | in concurrent mode failed writes are part of "writes acked" |
| `serving_spike` | a coin with the same volume every minute for 61 minutes is at many times its "1h baseline" when a new hour begins, because the 1h row is then the bucket just opened and is divided by 3600 s all the same; it takes twenty minutes of the hour to get below three times |

Met while modelling, and not runs of their own: `consumer.py:13` speaks of dirty
wallets, the flush writes all known ones; the burst state, "refreshed every 0.25s"
(`dashboard.py:151`), keeps its last value when the data ends during a burst; `loadgen.py:5-7` speaks of sharding by
wallet, `loadgen.py:58` shares rows out by a stride (the comment at line 48 says so);
`docs/RESULTS.md:128` bounds the staleness of windows by the flush cadence, which holds
only while fills keep coming (`WindowsLagBounded` states what does hold); the TRUNCATE is
there "so the inference read always sees THIS run's fresh buckets" (`dashboard.py:113-114`),
but its failure is ignored, and then, after a crash, the row a former run left in a later
bucket is what `LIMIT 1` returns although this run has flushed: in `Serving` that is a
behaviour, and `ServesThisRun` says nothing of a run whose TRUNCATE failed.

Deadlock is checked except where the system may really stop: a tool whose worker raised
hangs, a reader thread whose request failed is gone, and in `ingest` the clock ends by
its bound.

Fairness. `Pipeline.FairSpec`: the caller's thread runs, and the driver resolves every
future, at the latest by its 15 s timeout (`config.py:81`), and runs the callbacks.
`Tools.FairSpec`: processes that have not raised run, with the driver that answers their
requests; raising is never forced.
`Serving.FairSpec`: the ingest runs, every request is answered, acknowledged writes reach
all replicas in the end and scores are asked for; a write or a TRUNCATE given up on may
never be applied.
`Fleet.FairSpec`: processes and the reader run, time passes, every write is resolved by
its timeout at the latest; fills, presses and failures are never forced.
No other run uses fairness.

## 4. What is proved

Every theorem holds for all values of the constants that satisfy the assumption named
in the module that declares them (`ConstantsAssumption`, `FillsAssumption`,
`LargeNotionalAssumption`, `ReplaysAssumption`, `StreamAssumption`, `ServingAssumption`,
`ProbeAssumption`, `IngestAssumption`, `QueueAssumption`, `LoadGenAssumption`,
`FleetAssumption`). They say what sort of values the constants have, that a stream or an
archive is finite, and, where the code relies on it, that a stream is in time order.
Safety theorems are about `Spec` without fairness. Bounds (`MaxFills`, `MaxErrors`, ...)
are constants too, so a theorem is about runs of any length.

**`Pipeline_proofs`**: `TypeCorrect`, `PermitsAreConserved`, `DrainIsABarrier`,
`CountersAreExact`, `LatenciesAreExact`, and `PipelineRefinesBoundedWrites`, the
refinement of the abstract contract. Permit conservation alone is inductive only
together with the types and with facts that tie the phases to the caller: requests
beyond `n` are new, the request being sent is new, `held` is positive only in drain and
full after it. Counting needs that exactly the holder of `_lock` is in phase counting
and that what it has read is still the counter's value; without the latter a lost update
could not be excluded. For the samples: a deque that is not full yet has every sampled
acknowledgement. The refinement maps a permit's owner to a pending write; the barrier's
step is the `DrainAcquire` that takes the last permit, and `PermitsAreConserved` is what
makes the set of pending writes empty there.

**`Replay_proofs`** has six layers.

* The windows alone, for fills in any order: `WindowsTypeCorrect`, `WindowsAreNested`,
  `BucketsOnlyAdvance`, `BucketsCloseOnce`, `OpenBucketsAreExact`,
  `OrderedStreamsLoseNothing`. Nesting rests on one number per coin: its three open
  buckets are the floors of one second, the newest seen, and the floors of two seconds
  that agree for a window agree for every longer one. Exactness compares a bucket with
  the arrivals that have its floor; no arrival has a later one, so the fill that opens a
  bucket is the first of it, and a fill that is skipped is not of it. In time order no
  fill is skipped, so a row once closed stays complete.
* Sums. A fold over a set picks elements with `CHOOSE`; that its value does not depend
  on the choice is proved by a minimal counterexample, from the well-founded order on
  finite sets: if a sum differed, it would differ for a smallest set, and removing one
  element gives a smaller. `SumExists`, `SumTakes`, `SumAgrees`, `SumChanges`,
  `SumBound` and `SumReindexed` are the lemmas every sum below is computed with.
* The engine under a replay: `ReplayKeepsWindows` (the windows' theorems with the weights
  the engine gives them), `WalletsAreSums`, `VolumeIsConserved`, `RowsStaySane`. Each
  compares two dictionaries that one fill changes in one place each. `RowsStaySane` is
  arithmetic on the flows of a bucket: that the concentration is no less than even is
  the Cauchy-Schwarz inequality for them, carried from fill to fill.
* Entries: `EntriesAreOfTheirLeg`. A leg is given by its first arrival, the latest start
  (from zero or by a flip) among the fills of the position, so nothing is taken from the
  model's `Max` until the end. `EntryFits` says, for any sequence of fills, that the entry
  of an open position is one of the leg that starts there; a fill of another position
  leaves it (`EntryStays`), and a fill of its own opens a leg (`EntryOpens`), averages into
  it (`EntryAveraged`) or reduces it (`EntryKept`). The bounds are a weighted average's; the
  cost clause is dropped for good by the first reduction.
* Scores: `ScoresMeanWhatTheySay`. A row's score is a fold over a set of one, so each part
  is a quotient, and stays in range because its numerator is bounded by its denominator
  (`RowsStaySane`) although the scorer limits neither the imbalance nor the smart flow. A
  label of 600 and more cannot be reached by volume and concentration alone, so some flow
  is positive; a sum is positive only if a term is (`SumSign`), and the terms are those of
  the fills in the bucket (`OpenBucketsAreExact`).
* The replay: `ReplayYieldsItsFiles` and `TiesDoNotMatter`. What was yielded and what is
  left of the open file are, apart, the rows of the files opened so far. A position's
  totals are sums over its rows and a bucket's volume is the sum over the rows of its
  interval, each row being one arrival (`SumReindexed`); at the end of a complete replay
  these rows are all that were selected, and no order is left in the sums.

**`Consumer_proofs`**: `ConsumerTypeCorrect`, `PositionsWrittenThrough`,
`WalletsAsFlushed`, `ReplayIsIdempotent`, `TablesDoNotRegress`. Within a run the writes
of a row carry versions that grow with their timestamps (`InTimeOrder`), so the store,
which keeps the newest timestamp, keeps the newest version in whatever order writes
complete; and a version that is due is in the table, in flight, still to be issued or
failed. Writes left by a former run have older timestamps than any of
this run, which is why starting over repairs the tables.

**`Serving_proofs`**: `ScoresAreFresh`, `FormerRunsAreGone`. The first needs that what was
settled when a score began, or something fresher of the same window, is settled while it
is read, unless a TRUNCATE given up on is executed meanwhile, where the claim ends (`floor`
is reset): the row is then gone in the store, and the run's next flush brings it back, which is
`ScoresConverge`. The second that after a TRUNCATE only writes of this run, or those recorded in
`leftover` because they were under way when a former run died, are anywhere.

**`FreshnessProbe_proofs`**: `OverlapMakesProbeHonest`, two quorums of a finite set meet;
with it `DefaultTuningSeesItsWrite` for any number of nodes, and
`SingleNodeSeesItsWrite` even when tuned. Replicas never give up a newer version for an older.

**`Ingest_proofs`**: `IngestTypeCorrect`, `ReplayNeverAhead`, `DelaysAreForgiven`,
`WindowsNeverLagLong`, `BurstFlagIsFresh`, for any delays, streams and bursts. Pace
needs an invariant on `next_emit`: the data time let go so far fits in it together
with what bursts skipped, and no fill is applied before it.

**`Tools_proofs`**: `BarrierSeparatesLoads`, `ReportIsOfEveryone`, `ReportsAreComplete`.
Each worker has at most one result among feeder, pipe and parent, and it has one only if
it finished its share; that `procs` results taken are then one of each worker is counting.
`LoadTotalsAreComplete` and `BenchAccountsForReads` compare sums: over the results in the
parent's list with those over the workers they came from, and, in the benchmark, what a
process has under its lock with what its threads have added so far. They need
that what a worker put into its result was final (its counted rows do not change once the
result is queued), that the thread holding the lock has read the totals as they are, and
that a row is counted, or has failed, only after its request ended; the sets of rows counted
by different workers are apart because the shares are.

**`Fleet_proofs`**: `BurstsEndPromptly`, `TotalNeverGoesBack`. The total is a sum over
processes; each summand on show is behind the published one, that one behind the
counter, and all only grow.

Only model-checked:

* liveness (`DrainTerminates`, `EveryWriteCounted`, `ParentReports`, `FleetIsCounted`,
  `ScoresConverge`): fairness and ENABLED are out of the prover's
  reach. The runs check these with the fairness described in section 3.

Every invariant and every action property the runs check is stated by a theorem.

## 5. Abstractions and what is left out

* Prices, sizes and PnL are integers: rounding of floats is not modelled.
* `FS_SPEED` 0, which replays without pacing, and the length `/burst?secs=` may ask for:
  `Ingest` has one speed and one length of bursts.
* TTL, compaction, load balancing, authentication, formatting and printing are not modelled.
* In `Consumer` one window stands for three (they close independently, `CoinWindows`);
  sample keys are left out.
* In `Serving` scores are of one coin: partitions of different coins share nothing. A row
  that outlives its 2 days is not modelled. That a quiet coin's last minute, however
  old, is scored as the current one follows from LIMIT 1 and is not a property.
* The wallet endpoints of the API return one row as it was read (`wallet_archetype`
  renames its fields), and `/stats` and `/ws` copy `STATS`: no state, so no module.
* The pacing of `replay()` is left out: it only sleeps. The pacing of the dashboard is
  in `Ingest`.
* ScyllaDB and the driver are external: modelled by last-writer-wins timestamps,
  replicas that lag, requests that fail or time out, callbacks on other threads.
* `Fleet` models the counts of writes, not the rows they leave, and leaves out the
  smoothed rates and the shutdown.
* The splitter of `apply_schema.py` runs once on one file; container and shell scripts
  hold no state of the program.

## 6. Plan

The parts of the system with behaviour of their own are modelled, and the safety
properties the runs check are proved. What is left is:

1. `Consumer` as an abstract specification (a table that follows the engine, or is one
   flush behind it) and the detailed one shown to implement it.
2. The hazards no property covers yet, each with its reason in `PROJECT.json`: the rows
   concurrent writers of one key leave behind, and the page once its reader thread is gone.
